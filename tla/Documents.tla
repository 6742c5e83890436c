------------------------------- MODULE Documents -------------------------------
(***************************************************************************)
(* What KCom writes to files and reads back: models/*.py and               *)
(* core/project_manager.py.  A dict is a function whose domain is its      *)
(* keys; a reading yields the set of its results, the empty set where the  *)
(* code raises.  Texts are names, except those whose characters matter,    *)
(* which are sequences of character codes, and paths, sequences of parts.  *)
(* Stop bits are in tenths, timeouts in milliseconds.                      *)
(***************************************************************************)
EXTENDS Integers, SequencesExt, Functions, TLC

\* d.get(key, default), for one key and for every field of a class.
Get(d, key, default) == IF key \in DOMAIN d THEN d[key] ELSE default
With(d, defaults) == Restrict(d @@ defaults, DOMAIN defaults)
Put(d, key, value) == (key :> value) @@ d

\* The member of an enumeration with a value, which may not exist.
Member(enum, value) == {m \in DOMAIN enum : enum[m] = value}

Each(Op(_), s) == [i \in DOMAIN s |-> Op(s[i])]
\* The readings of a list: it raises if one of its elements does.
ReadEach(Read(_), s) ==
    IF \E i \in DOMAIN s : Read(s[i]) = {} THEN {}
    ELSE {[i \in DOMAIN s |-> CHOOSE x \in Read(s[i]) : TRUE]}

-----------------------------------------------------------------------------
(* Port configurations.                                                     *)

ParityValue == [NONE |-> "N", ODD |-> "O", EVEN |-> "E", MARK |-> "M", SPACE |-> "S"]
FlowValue == [NONE |-> "none", RTS_CTS |-> "rtscts", XON_XOFF |-> "xonxoff",
              DTR_DSR |-> "dtrdsr"]
ConnectionValue ==
    [SERIAL |-> "serial", TCP_CLIENT |-> "tcp_client", TCP_SERVER |-> "tcp_server",
     UDP |-> "udp", USB_HID |-> "usb_hid", NAMED_PIPE_CLIENT |-> "named_pipe_client",
     NAMED_PIPE_SERVER |-> "named_pipe_server", BLUETOOTH |-> "bluetooth"]

SerialConfig == [port |-> "", baud_rate |-> 115200, data_bits |-> 8, parity |-> "NONE",
                 stop_bits |-> 10, flow_control |-> "NONE", timeout |-> 0]
SerialToDict(c) == [c EXCEPT !.parity = ParityValue[@], !.flow_control = FlowValue[@]]
SerialFromDict(d) ==
    LET given == With(d, SerialToDict(SerialConfig))
    IN  {[given EXCEPT !.parity = parity, !.flow_control = flow] :
            parity \in Member(ParityValue, given.parity),
            flow \in Member(FlowValue, given.flow_control)}

NetworkConfig == [host |-> "localhost", port |-> 502, local_port |-> 0]
NetworkToDict(c) == IF c.local_port = 0 THEN Restrict(c, {"host", "port"}) ELSE c
NetworkFromDict(d) == With(d, NetworkConfig)

HIDConfig == [vendor_id |-> 0, product_id |-> 0, usage_page |-> 0,
              interface_number |-> -1, report_size |-> 64]
HIDFromDict(d) == With(d, HIDConfig)

NamedPipeConfig == [path |-> << >>]
NamedPipeFromDict(d) == With(d, NamedPipeConfig)

PortConfig == [connection_type |-> "SERIAL", serial |-> SerialConfig,
               network |-> NetworkConfig, hid |-> HIDConfig,
               named_pipe |-> NamedPipeConfig, name |-> "", auto_reconnect |-> TRUE]
PortToDict(c) == [c EXCEPT !.connection_type = ConnectionValue[@],
                           !.serial = SerialToDict(@), !.network = NetworkToDict(@)]
PortFromDict(d) ==
    LET given == With(d, [PortConfig EXCEPT !.connection_type = "serial", !.serial = << >>,
                              !.network = << >>, !.hid = << >>, !.named_pipe = << >>])
    IN  {[given EXCEPT !.connection_type = type, !.serial = serial,
                       !.network = NetworkFromDict(@), !.hid = HIDFromDict(@),
                       !.named_pipe = NamedPipeFromDict(@)] :
            type \in Member(ConnectionValue, given.connection_type),
            serial \in SerialFromDict(given.serial)}

\* The label of a port, which is also the name of its session log.
PortDisplayName(c) ==
    LET type == c.connection_type
        port == ToString(c.network.port)
        tail == IF c.named_pipe.path = << >> \/ Last(c.named_pipe.path) = "" THEN "pipe"
                ELSE Last(c.named_pipe.path)
    IN  CASE c.name # "" -> <<c.name>>
          [] c.name = "" /\ type = "SERIAL" ->
                <<IF c.serial.port = "" THEN "Serial" ELSE c.serial.port>>
          [] c.name = "" /\ type = "TCP_SERVER" -> <<"TCP Server", port>>
          [] c.name = "" /\ type = "UDP" -> <<"UDP", c.network.host, port>>
          [] c.name = "" /\ type = "USB_HID" ->
                IF c.hid.vendor_id = 0 \/ c.hid.product_id = 0 THEN <<"USB HID">>
                ELSE <<"HID", ToString(c.hid.vendor_id), ToString(c.hid.product_id)>>
          [] c.name = "" /\ type = "NAMED_PIPE_SERVER" -> <<"Pipe Server", tail>>
          [] c.name = "" /\ type = "NAMED_PIPE_CLIENT" -> <<"Pipe Client", tail>>
          [] OTHER -> <<c.network.host, port>>

TapConfig == [port_a |-> PortConfig, port_b |-> PortConfig, forward_mode |-> "off", name |-> ""]
TapToDict(c) == [c EXCEPT !.port_a = PortToDict(@), !.port_b = PortToDict(@)]
TapFromDict(d) ==
    LET given == With(d, [TapConfig EXCEPT !.port_a = << >>, !.port_b = << >>])
    IN  {[given EXCEPT !.port_a = a, !.port_b = b] :
            a \in PortFromDict(given.port_a), b \in PortFromDict(given.port_b)}
TapDisplayName(c) ==
    IF c.name # "" THEN <<c.name>>
    ELSE <<"Tap">> \o PortDisplayName(c.port_a) \o PortDisplayName(c.port_b)

-----------------------------------------------------------------------------
(* Rules, sequences and styles.                                             *)

\* A uuid made on the spot.
NewId == "fresh id"

Blank == 32
Strip(s) ==
    LET ink == {i \in DOMAIN s : s[i] # Blank}
    IN  IF ink = {} THEN << >> ELSE SubSeq(s, Min(ink), Max(ink))

HexValue(c) == CASE c \in 48..57 -> {c - 48}
                 [] c \in 65..70 -> {c - 55}
                 [] c \in 97..102 -> {c - 87}
                 [] OTHER -> {}
\* bytes.fromhex of a text without blanks.
FromHex(s) ==
    LET digits == ReadEach(HexValue, s)
    IN  IF Len(s) % 2 = 1 THEN {}
        ELSE {[i \in 1..(Len(s) \div 2) |-> 16 * d[2 * i - 1] + d[2 * i]] : d \in digits}
HexDigit(n) == IF n < 10 THEN n + 48 ELSE n + 87
ToHex(bytes) == FlattenSeq([i \in DOMAIN bytes |->
                    <<HexDigit(bytes[i] \div 16), HexDigit(bytes[i] % 16)>>])

RxTrigger == [id |-> NewId, name |-> << >>, enabled |-> TRUE, match_type |-> "contains",
              pattern |-> << >>, pattern_encoding |-> "ascii", action |-> "log",
              action_data |-> "", color |-> "#f9e2af", description |-> ""]
TriggerFromDict(d) == {With(d, RxTrigger)}

\* get_pattern_bytes: an odd number of hex digits is made even in front; a
\* character that latin-1 has not becomes a question mark.
PatternBytes(t) ==
    LET text == Strip(t.pattern)
        digits == SelectSeq(text, LAMBDA c : c # Blank)
    IN  IF t.pattern_encoding = "hex"
        THEN FromHex(IF Len(digits) % 2 = 1 THEN <<48>> \o digits ELSE digits)
        ELSE {[i \in DOMAIN text |-> IF text[i] > 255 THEN 63 ELSE text[i]]}

\* A named value is [kind, v]: an int, bytes, a text or something else.
SequenceConfig ==
    [id |-> NewId, name |-> << >>, data_str |-> "", encoding |-> "hex", terminator |-> "none",
     checksum |-> "none", checksum_start |-> 0, repeat_count |-> 1, repeat_interval_ms |-> 0,
     delay_before_ms |-> 0, byte_delay_ms |-> 0, color |-> "#a6e3a1", description |-> << >>,
     named_values |-> << >>]
SequenceToDict(s) ==
    [s EXCEPT !.named_values = [k \in DOMAIN @ |->
        IF @[k].kind = "bytes" THEN [kind |-> "str", v |-> ToHex(@[k].v)] ELSE @[k]]]
\* A text that is hex becomes the bytes it spells, any other its own bytes.
ReadNamedValue(value) ==
    IF value.kind # "str" THEN value
    ELSE [kind |-> "bytes", v |-> IF FromHex(value.v) = {} THEN value.v
                                  ELSE CHOOSE b \in FromHex(value.v) : TRUE]
SequenceFromDict(d) ==
    LET given == With(d, Put(SequenceConfig, "data_str", Get(d, "data", "")))
        kept == {k \in DOMAIN given.named_values : given.named_values[k].kind \in {"int", "str"}}
    IN  {[given EXCEPT !.named_values = [k \in kept |-> ReadNamedValue(@[k])]]}

ThemeDefaults(dark) ==
    IF dark THEN [rx_color |-> "#3fb950", tx_color |-> "#388bfd", bg_color |-> "#1e1e2e",
                  trigger_highlight_color |-> "#f9e2af"]
    ELSE [rx_color |-> "#116329", tx_color |-> "#0969da", bg_color |-> "#ffffff",
          trigger_highlight_color |-> "#f9e2af"]
TerminalStyle ==
    [rx_color |-> "", tx_color |-> "", bg_color |-> "", trigger_highlight_color |-> "",
     font_size |-> 10, font_family |-> "Cascadia Code", timestamp_format |-> "wall",
     show_ctrl_chars |-> FALSE, ascii_render |-> "multiline"]
\* A style from before ascii_render keeps its control characters.
StyleFromDict(d) ==
    With(d, [TerminalStyle EXCEPT
                 !.ascii_render = IF Get(d, "show_ctrl_chars", FALSE) THEN "ctrl" ELSE @])
Resolve(style, dark) ==
    [k \in DOMAIN style |->
        IF k \in DOMAIN ThemeDefaults(dark) /\ style[k] = "" THEN ThemeDefaults(dark)[k]
        ELSE style[k]]

-----------------------------------------------------------------------------
(* Projects.  A version is [kind, v]: a text "a.b", an int or a float.      *)

CurrentVersion == [kind |-> "str", v |-> <<1, 1>>]
ProjectConfig == [version |-> CurrentVersion, name |-> "Untitled", notes |-> "",
                  port_configs |-> << >>, tap_configs |-> << >>, sequences |-> << >>,
                  triggers |-> << >>]
ProjectToDict(p) ==
    [p EXCEPT !.port_configs = Each(PortToDict, @), !.tap_configs = Each(TapToDict, @),
              !.sequences = Each(SequenceToDict, @)]
ProjectFromDict(d) ==
    LET given == With(d, [ProjectConfig EXCEPT !.version.v = <<1, 0>>])
    IN  {[given EXCEPT !.port_configs = ports, !.tap_configs = taps, !.sequences = seqs,
                       !.triggers = rules] :
            ports \in ReadEach(PortFromDict, given.port_configs),
            taps \in ReadEach(TapFromDict, given.tap_configs),
            seqs \in ReadEach(SequenceFromDict, given.sequences),
            rules \in ReadEach(TriggerFromDict, given.triggers)}

Renamed(d, old, new) ==
    IF old \in DOMAIN d /\ new \notin DOMAIN d
    THEN Put(Restrict(d, DOMAIN d \ {old}), new, d[old]) ELSE d
MigrateTrigger(t) ==
    Renamed(t, "encoding", "pattern_encoding") @@ [enabled |-> TRUE, match_type |-> "contains"]

\* The order of texts, for versions of one digit and one digit.
AtMost(v, w) == v[1] < w[1] \/ (v[1] = w[1] /\ v[2] <= w[2])

\* _migrate_project_dict: a float is not compared with a text.
Migrate(d) ==
    LET stored == Get(d, "version", [kind |-> "str", v |-> <<1, 0>>])
        version == IF stored.kind = "int" THEN <<stored.v[1], 0>> ELSE stored.v
        named == Renamed(d, "connections", "port_configs")
        rules == IF "triggers" \in DOMAIN named
                 THEN Put(named, "triggers", Each(MigrateTrigger, named.triggers)) ELSE named
        whole == IF AtMost(version, <<1, 0>>) THEN rules @@ [tap_configs |-> << >>] ELSE rules
    IN  IF stored.kind = "float" THEN {} ELSE {Put(whole, "version", CurrentVersion)}

MaxRecent == 10
AddRecent(recent, path) ==
    LET all == <<path>> \o RemoveFirst(recent, path)
    IN  SubSeq(all, 1, IF Len(all) < MaxRecent THEN Len(all) ELSE MaxRecent)

\* A file is [form, dict], form "json", "zip", "zip without a manifest" or
\* "broken"; a disk maps paths to files.
Broken == [form |-> "broken", dict |-> << >>]

\* save: what is left of the disk and the recent list.  Opening the file
\* empties it, so a write that fails leaves neither the old project nor the new.
SaveProject(disk, recent, path, project, fault) ==
    LET file == [form |-> IF Last(path) = "kproj" THEN "zip" ELSE "json",
                 dict |-> ProjectToDict(project)]
    IN  CASE fault = "none" -> [disk |-> Put(disk, path, file), ok |-> TRUE,
                                recent |-> AddRecent(recent, path)]
          [] fault = "open" -> [disk |-> disk, ok |-> FALSE, recent |-> recent]
          [] fault = "write" -> [disk |-> Put(disk, path, Broken), ok |-> FALSE,
                                 recent |-> recent]

\* load: the form is seen in the file, not in its name.
ReadProject(disk, path) ==
    IF path \notin DOMAIN disk \/ disk[path].form \notin {"json", "zip"} THEN {}
    ELSE UNION {ProjectFromDict(d) : d \in Migrate(disk[path].dict)}

OpenProject(disk, recent, path) ==
    LET read == ReadProject(disk, path)
    IN  [project |-> read, recent |-> IF read = {} THEN recent ELSE AddRecent(recent, path)]

\* _on_save_project: a path that ends in no known extension gets the native one.
WithExtension(path) ==
    IF Len(path) > 1 /\ Last(path) \in {"kcom", "ptp", "kcp", "kproj"} THEN path
    ELSE Append(path, "kcom")
WindowProject(configs, taps, sequences, triggers, notes) ==
    [version |-> CurrentVersion, name |-> "KCom Project", notes |-> notes,
     port_configs |-> configs, tap_configs |-> taps, sequences |-> sequences,
     triggers |-> triggers]
=============================================================================
