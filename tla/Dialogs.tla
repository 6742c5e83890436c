-------------------------------- MODULE Dialogs --------------------------------
(***************************************************************************)
(* The dialogs that make configurations, rules and sequences               *)
(* (kcom/ui/dialogs), the list of rules (ui/trigger_panel.py), and the     *)
(* devices they offer (utils/platform_utils.py, core/port_access.py).      *)
(* A dialog is a record of its controls; get_... reads them and set_...    *)
(* fills them.                                                             *)
(***************************************************************************)
EXTENDS Documents

\* The texts of the lists, and what they stand for.
ParityText == [None |-> "NONE", Odd |-> "ODD", Even |-> "EVEN", Mark |-> "MARK",
               Space |-> "SPACE"]
StopText == ("1" :> 10) @@ ("1.5" :> 15) @@ ("2" :> 20)
FlowText == ("None" :> "NONE") @@ ("RTS/CTS" :> "RTS_CTS") @@ ("XON/XOFF" :> "XON_XOFF")
            @@ ("DTR/DSR" :> "DTR_DSR")
NetText == ("TCP Client" :> "TCP_CLIENT") @@ ("TCP Server" :> "TCP_SERVER") @@ ("UDP" :> "UDP")
PipeText == [Client |-> "NAMED_PIPE_CLIENT", Server |-> "NAMED_PIPE_SERVER"]

\* The text for a value, and the one taken if there is none.
TextOf(texts, value, otherwise) ==
    IF Member(texts, value) = {} THEN otherwise ELSE CHOOSE t \in Member(texts, value) : TRUE

-----------------------------------------------------------------------------
(* The list of ports.  A device is [device, type, present, open]; the list  *)
(* that can be edited is [items, data, text]: data is that of its current   *)
(* item, "" for none.  Typing changes the text and not the current item.    *)

\* get_available_ports: pyserial's ports win over those found in /dev.
AvailablePorts(listed, dev, include_virtual) ==
    IF include_virtual
    THEN listed \cup {d \in dev : d.char /\ \A l \in listed : l.device # d.device}
    ELSE listed

\* inaccessible_ports: those it may ask to open.
InaccessiblePorts(listed, dev) ==
    {d \in AvailablePorts(listed, dev, TRUE) : d.serial /\ d.exists /\ ~d.open}

\* make_accessible of some ports, and _check_port_permissions of the window:
\* the devices that are open afterwards and whether it says it succeeded.
MakeAccessible(blocked, helper, allowed) ==
    IF blocked = {} THEN [opened |-> {}, ok |-> TRUE]
    ELSE IF ~helper THEN [opened |-> {}, ok |-> FALSE]
    ELSE [opened |-> blocked \cap allowed, ok |-> blocked \subseteq allowed]

PortDevice(combo) == IF combo.data # "" THEN combo.data ELSE combo.text
Typed(combo, text) == [combo EXCEPT !.text = text]
Selected(combo, device) == [combo EXCEPT !.data = device, !.text = device]

\* _on_scan_finished: the port that was shown stays if it is still there; if
\* not its name stays as a text.
ScanFinished(combo, ports) ==
    LET previous == PortDevice(combo)
        empty == [items |-> ports, data |-> "", text |-> ""]
    IN  CASE previous \in Range(ports) -> Selected(empty, previous)
          [] previous # "" /\ previous \notin Range(ports) -> Typed(empty, previous)
          [] OTHER -> IF ports = << >> THEN empty ELSE Selected(empty, ports[1])

\* The tap's _on_scan_done goes by the text, and takes the first port whose name
\* begins with it: longer[text] are those ports.
TapScanFinished(combo, ports, longer) ==
    LET empty == [items |-> ports, data |-> "", text |-> ""]
        same == {i \in DOMAIN ports : ports[i] \in longer[combo.text]}
    IN  IF combo.text = "" THEN empty
        ELSE IF same = {} THEN Typed(empty, combo.text) ELSE Selected(empty, ports[Min(same)])

\* The label below the list: hardware and USB ports, and the others.
ScanCounts(found) ==
    LET wired == {d \in found : d.type \in {"hardware", "usb"}}
    IN  [wired |-> Cardinality(wired), virtual |-> Cardinality(found \ wired)]

-----------------------------------------------------------------------------
(* PortConfigDialog.                                                        *)

\* The controls of a new dialog, here with no port in the list.
PortControls ==
    [tab |-> 0, name |-> "", auto_reconnect |-> TRUE,
     port |-> [items |-> << >>, data |-> "", text |-> ""],
     baud |-> 115200, data_bits |-> 8, parity |-> "None", stop_bits |-> "1", flow |-> "None",
     timeout |-> 0, net_type |-> "TCP Client", host |-> "localhost", net_port |-> 9000,
     local_port |-> 0, role |-> "Client", path |-> << >>,
     vendor_id |-> 0, product_id |-> 0, interface_number |-> -1, report_size |-> 64]

\* get_config: only the part of the tab in front is taken, with defaults in the
\* others.  A server has no host; no tab gives a HID usage page.
GetPortConfig(c) ==
    LET base == [PortConfig EXCEPT !.name = c.name, !.auto_reconnect = c.auto_reconnect]
    IN  CASE c.tab = 0 ->
              [base EXCEPT !.serial = [port |-> PortDevice(c.port), baud_rate |-> c.baud,
                  data_bits |-> c.data_bits, parity |-> ParityText[c.parity],
                  stop_bits |-> StopText[c.stop_bits], flow_control |-> FlowText[c.flow],
                  timeout |-> c.timeout]]
          [] c.tab = 1 ->
              [base EXCEPT !.connection_type = NetText[c.net_type],
                  !.network = [host |-> IF c.net_type = "TCP Server" THEN "" ELSE c.host,
                               port |-> c.net_port, local_port |-> c.local_port]]
          [] c.tab = 2 ->
              [base EXCEPT !.connection_type = PipeText[c.role], !.named_pipe.path = c.path]
          [] c.tab = 3 ->
              [base EXCEPT !.connection_type = "USB_HID",
                  !.hid = [HIDConfig EXCEPT !.vendor_id = c.vendor_id,
                      !.product_id = c.product_id, !.interface_number = c.interface_number,
                      !.report_size = c.report_size]]

\* int(timeout * 1000): seconds that have no exact form are a millisecond short.
\* 372 timeouts up to a minute are; these are the ones below 1009 ms.
RoundedDown == {1001, 1003, 1005, 1007}
ShownTimeout(ms) == IF ms \in RoundedDown THEN ms - 1 ELSE ms

\* set_config: the controls of the other tabs keep what they had.
SetPortConfig(c, config) ==
    LET base == [c EXCEPT !.name = config.name, !.auto_reconnect = config.auto_reconnect]
        type == config.connection_type
    IN  CASE type = "SERIAL" ->
              [base EXCEPT !.tab = 0, !.port = Typed(@, config.serial.port),
                  !.baud = config.serial.baud_rate,
                  !.data_bits = IF config.serial.data_bits \in 5..8
                                THEN config.serial.data_bits ELSE @,
                  !.parity = TextOf(ParityText, config.serial.parity, "None"),
                  !.stop_bits = TextOf(StopText, config.serial.stop_bits, "1"),
                  !.flow = TextOf(FlowText, config.serial.flow_control, "None"),
                  !.timeout = ShownTimeout(config.serial.timeout)]
          [] type \in Range(PipeText) ->
              [base EXCEPT !.tab = 2, !.role = TextOf(PipeText, type, "Client"),
                  !.path = config.named_pipe.path]
          [] type = "USB_HID" ->
              [base EXCEPT !.tab = 3, !.vendor_id = config.hid.vendor_id,
                  !.product_id = config.hid.product_id,
                  !.interface_number = config.hid.interface_number,
                  !.report_size = config.hid.report_size]
          [] OTHER ->
              [base EXCEPT !.tab = 1, !.net_type = TextOf(NetText, type, "TCP Client"),
                  !.host = config.network.host, !.net_port = config.network.port,
                  !.local_port = config.network.local_port]

\* _update_net_form: which fields of the network tab are shown.
NetFields(net_type) ==
    {"port"} \cup (IF net_type = "TCP Server" THEN {} ELSE {"host"})
             \cup (IF net_type = "UDP" THEN {"local_port"} ELSE {})

\* _on_hid_device_selected: a device that gives no interface leaves that field.
SelectHid(c, device) ==
    [c EXCEPT !.vendor_id = device.vendor_id, !.product_id = device.product_id,
              !.interface_number = IF device.interface_number >= 0
                                   THEN device.interface_number ELSE @]

\* The banner of the HID tab: hidden, or what is missing.  Clicking its button
\* installs the package; the library is looked for again when that succeeds.
HidBanner(missing) == IF missing = {} THEN "hidden"
                      ELSE IF "package" \in missing THEN "package" ELSE "library"
HidInstalled(missing, exit_code) ==
    IF exit_code # 0 THEN [banner |-> "failed", button |-> "Retry", missing |-> missing]
    ELSE [banner |-> HidBanner(missing \ {"package"}), button |-> "Install hidapi",
          missing |-> missing \ {"package"}]

-----------------------------------------------------------------------------
(* TapConfigDialog, whose ports are serial or network, and TapSession.      *)

\* get_config of one port: the fields it does not ask for have their defaults.
GetTapPort(c) ==
    LET asked == GetPortConfig([c EXCEPT !.name = "", !.auto_reconnect = TRUE])
    IN  [asked EXCEPT !.serial.data_bits = 8, !.serial.flow_control = "NONE",
                      !.serial.timeout = 0]
\* set_config of one port: parity and stop bits are not filled in.
SetTapPort(c, config) ==
    IF config.connection_type = "SERIAL"
    THEN [c EXCEPT !.tab = 0, !.port = Typed(@, config.serial.port),
                   !.baud = config.serial.baud_rate]
    ELSE [c EXCEPT !.tab = 1, !.net_type = TextOf(NetText, config.connection_type, "TCP Client"),
                   !.host = config.network.host, !.net_port = config.network.port,
                   !.local_port = config.network.local_port]

ForwardModes == {"off", "a_to_b", "b_to_a", "both"}
GetTapConfig(c) ==
    [port_a |-> GetTapPort(c.a), port_b |-> GetTapPort(c.b), forward_mode |-> c.mode,
     name |-> c.name]
LoadTapConfig(c, config) ==
    [a |-> SetTapPort(c.a, config.port_a), b |-> SetTapPort(c.b, config.port_b),
     mode |-> IF config.forward_mode \in ForwardModes THEN config.forward_mode ELSE c.mode,
     name |-> config.name]

\* TapSession: the mode it starts with, changes to, and where a chunk that one
\* port received is sent on to; it is shown once, where it came in.
InitialMode(config) == IF config.forward_mode \in ForwardModes THEN config.forward_mode ELSE "off"
SetForwardMode(mode, new) == IF new \in ForwardModes THEN new ELSE mode
Other(channel) == IF channel = "A" THEN "B" ELSE "A"
ForwardedTo(mode, channel, connected) ==
    {Other(channel)} \cap connected
        \cap (IF mode \in {"both", IF channel = "A" THEN "a_to_b" ELSE "b_to_a"}
              THEN {"A", "B"} ELSE {})

-----------------------------------------------------------------------------
(* The editors of sequences and rules.                                      *)

Encodings == <<"hex", "ascii", "dec", "bin">>
Terminators == <<"none", "cr", "lf", "crlf">>
Checksums == <<"none", "xor", "sum8", "crc8", "crc16_modbus", "crc32">>
IndexIn(list, value) == IF Contains(list, value) THEN SelectInSeq(list, LAMBDA x : x = value)
                        ELSE 1

\* set_sequence and get_sequence: what the form has no field for is lost, and
\* the ranges of its fields cut what they cannot show.
EditedSequence(s) ==
    LET fit(n, high) == IF n > high THEN high ELSE IF n < 0 THEN 0 ELSE n
    IN  [SequenceConfig EXCEPT
            !.id = s.id, !.name = Strip(s.name), !.data_str = s.data_str,
            !.encoding = Encodings[IndexIn(Encodings, s.encoding)],
            !.terminator = Terminators[IndexIn(Terminators, s.terminator)],
            !.checksum = Checksums[IndexIn(Checksums, s.checksum)],
            !.checksum_start = fit(s.checksum_start, 4096),
            !.repeat_count = fit(s.repeat_count, 1000000),
            !.repeat_interval_ms = fit(s.repeat_interval_ms, 3600000),
            !.delay_before_ms = fit(s.delay_before_ms, 60000),
            !.description = Strip(s.description)]
SequenceOk(s) == Strip(s.name) # << >>

\* set_trigger and get_trigger, changed by what the user types: an edited rule
\* is enabled, contains its pattern and is logged, whatever it was.
EditedTrigger(t, name, pattern, encoding) ==
    [RxTrigger EXCEPT !.id = t.id, !.name = Strip(name), !.pattern = Strip(pattern),
                      !.pattern_encoding = encoding]
TriggerOk(name, pattern) == Strip(name) # << >> /\ Strip(pattern) # << >>

\* The panel's list: a rule is found by its id.
IndexOfTrigger(list, id) == SelectInSeq(list, LAMBDA t : t.id = id)
CopyOf == <<67, 111, 112, 121, 32, 111, 102, 32>>
AddTrigger(list, t) == Append(list, t)
EditTrigger(list, t) ==
    [i \in DOMAIN list |-> IF i = IndexOfTrigger(list, t.id) THEN t ELSE list[i]]
DuplicateTrigger(list, id, new) ==
    Append(list, [list[IndexOfTrigger(list, id)] EXCEPT !.id = new, !.name = CopyOf \o @])
DeleteTrigger(list, id) == SelectSeq(list, LAMBDA t : t.id # id)
ToggleTrigger(list, id) ==
    [i \in DOMAIN list |->
        IF i = IndexOfTrigger(list, id) THEN [list[i] EXCEPT !.enabled = ~@] ELSE list[i]]
\* add_trigger_preset: the selected bytes of the terminal as a hex pattern.
TriggerPreset(id, bytes, name) ==
    EditedTrigger([RxTrigger EXCEPT !.id = id], name,
                  Strip(FlattenSeq([i \in DOMAIN bytes |-> ToHex(<<bytes[i]>>) \o <<Blank>>])),
                  "hex")
=============================================================================
