------------------------------ MODULE StoreChecks ------------------------------
(***************************************************************************)
(* What is true of Documents, Preferences and Dialogs, on small sets of    *)
(* configurations, files and settings of each shape.                       *)
(***************************************************************************)
EXTENDS Preferences, Dialogs

-----------------------------------------------------------------------------
(* Documents.                                                               *)

ASerial == {[SerialConfig EXCEPT !.port = "ttyS0", !.parity = p, !.flow_control = f,
                !.stop_bits = 15, !.timeout = t] :
              p \in DOMAIN ParityValue, f \in DOMAIN FlowValue, t \in {0, 1000, 1001}}
ANetwork == {[host |-> h, port |-> 9000, local_port |-> l] : h \in {"", "box"}, l \in {0, 9}}
APort == {[PortConfig EXCEPT !.serial = s, !.name = "n"] : s \in ASerial}
         \cup {[PortConfig EXCEPT !.connection_type = t, !.network = n, !.auto_reconnect = FALSE] :
                 t \in DOMAIN ConnectionValue \ {"SERIAL"}, n \in ANetwork}
         \cup {[PortConfig EXCEPT !.connection_type = t, !.named_pipe.path = path,
                  !.hid.vendor_id = v, !.hid.usage_page = u] :
                 t \in {"USB_HID", "NAMED_PIPE_CLIENT", "NAMED_PIPE_SERVER"},
                 path \in {<<"tmp", "kcom">>, <<"tmp", "">>}, v \in {0, 7}, u \in {0, 1}}
ATap == {[TapConfig EXCEPT !.port_a = p, !.forward_mode = m] : p \in APort, m \in ForwardModes}

PatternText == {<< >>, <<65>>, <<32, 52, 49>>, <<52, 49, 32>>, <<90, 90>>, <<52, 49, 52>>, <<300>>}
Value == {[kind |-> "int", v |-> <<7>>], [kind |-> "bytes", v |-> <<1, 171>>],
          [kind |-> "str", v |-> <<52, 49>>], [kind |-> "str", v |-> <<90>>]}
ASequence == {[SequenceConfig EXCEPT !.id = "q", !.name = n, !.byte_delay_ms = d, !.encoding = e,
                  !.repeat_count = 2000000, !.named_values = [x \in {"x"} |-> v]] :
                n \in {<<65>>, << >>}, d \in {0, 5}, e \in {"bin", "octal"}, v \in Value}
ATrigger == {[RxTrigger EXCEPT !.id = i, !.match_type = m, !.pattern = t, !.enabled = b] :
               i \in {"a", "b"}, m \in {"contains", "regex"}, t \in {<<65>>, <<52, 49>>},
               b \in BOOLEAN}

\* What is written is read back, and an enumeration no program wrote is refused
\* rather than replaced.
ASSUME \A c \in APort : PortFromDict(PortToDict(c)) = {c}
ASSUME \A c \in ATap : TapFromDict(TapToDict(c)) = {c}
ASSUME \A c \in APort :
          /\ PortFromDict(Put(PortToDict(c), "connection_type", "fax")) = {}
          /\ PortFromDict(Put(PortToDict(c), "serial", [parity |-> "X"])) = {}
\* An empty dict is the default configuration, and so is one without its parts.
ASSUME PortFromDict(<< >>) = {PortConfig} /\ TapFromDict(<< >>) = {TapConfig}
\* Two servers and a client of one port have different names.
ASSUME LET labels == {PortDisplayName([PortConfig EXCEPT !.connection_type = t]) :
                        t \in DOMAIN ConnectionValue \ {"BLUETOOTH"}}
       IN  Cardinality(labels) = 7

\* A sequence survives two writings as it does one: the named values that are
\* texts have become bytes.
ASSUME \A s \in ASequence : \A once \in SequenceFromDict(SequenceToDict(s)) :
          /\ SequenceFromDict(SequenceToDict(once)) = {once}
          /\ [once EXCEPT !.named_values = << >>] = [s EXCEPT !.named_values = << >>]
          /\ s.named_values["x"].kind # "str" => once = s
\* Hex is read as it is written, in either case and with blanks around it.
ASSUME \A n \in 0..2 : \A b \in [1..n -> {0, 9, 10, 171, 255}] : FromHex(ToHex(b)) = {b}
ASSUME \A t \in PatternText :
          /\ LET hex == PatternBytes([RxTrigger EXCEPT !.pattern = t, !.pattern_encoding = "hex"])
             IN  hex = {} <=> Range(t) \cap {90, 300} # {}
          /\ \A b \in PatternBytes([RxTrigger EXCEPT !.pattern = t]) : Range(b) \subseteq 0..255

\* A resolved style has every colour, and resolving it again changes nothing.
AStyle == {[TerminalStyle EXCEPT !.rx_color = c, !.show_ctrl_chars = b, !.font_size = n] :
             c \in {"", "#111111"}, b \in BOOLEAN, n \in {10, 12}}
ASSUME \A style \in AStyle, dark \in BOOLEAN :
          LET full == Resolve(style, dark)
          IN  /\ \A k \in DOMAIN ThemeDefaults(dark) : full[k] # ""
              /\ \A other \in BOOLEAN : Resolve(full, other) = full
              /\ StyleFromDict(style) = style
\* An old style keeps the control characters it showed.
ASSUME StyleFromDict([show_ctrl_chars |-> TRUE]).ascii_render = "ctrl"

-----------------------------------------------------------------------------
(* Projects: old files and failing writes.                                  *)

AProject == {WindowProject(<<c>>, <<[TapConfig EXCEPT !.port_b = c]>>, <<s>>, <<t>>, "notes") :
               c \in {[PortConfig EXCEPT !.name = "n"], [PortConfig EXCEPT !.network.local_port = 9]},
               s \in {q \in ASequence : q.named_values["x"].kind = "int"}, t \in ATrigger}
OldVersion == {[kind |-> "int", v |-> <<1>>], [kind |-> "str", v |-> <<1, 0>>]}
\* The file an early version wrote of a project without taps.
Early(p, version) ==
    LET d == ProjectToDict(p)
        rules == Each(LAMBDA t : Renamed(t, "pattern_encoding", "encoding"), d.triggers)
    IN  Put(Put(Renamed(Restrict(d, DOMAIN d \ {"tap_configs"}), "port_configs", "connections"),
                "triggers", rules), "version", version)

\* A project is loaded as it was saved, under any name; an early file is loaded
\* as the same project without taps; migrating twice is migrating once.
ASSUME \A p \in AProject, path \in {<<"a", "kcom">>, <<"a", "kproj">>, <<"a">>} :
          LET saved == SaveProject(<< >>, << >>, WithExtension(path), p, "none")
          IN  OpenProject(saved.disk, saved.recent, WithExtension(path))
                 = [project |-> {p}, recent |-> <<WithExtension(path)>>]
ASSUME \A p \in AProject : \A version \in OldVersion :
          /\ UNION {ProjectFromDict(d) : d \in Migrate(Early(p, version))}
                = {[p EXCEPT !.tap_configs = << >>]}
          /\ \A d \in Migrate(Early(p, version)) : Migrate(d) = {d}
\* A version that is a number with a point cannot be loaded.
ASSUME Migrate([version |-> [kind |-> "float", v |-> <<1, 0>>]]) = {}
\* A write that fails takes the project that was there with it; opening that
\* fails does not, and neither does one that fails enter the recent list.
ASSUME \A p \in AProject :
          LET path == <<"a", "kcom">>
              before == SaveProject(<< >>, << >>, path, p, "none")
              after(fault) == SaveProject(before.disk, << >>, path, p, fault)
          IN  /\ ReadProject(after("write").disk, path) = {}
              /\ ReadProject(after("open").disk, path) = {p}
              /\ \A fault \in {"open", "write"} : ~after(fault).ok /\ after(fault).recent = << >>
\* The recent list has no path twice, the last one in front, and ten at most.
ASSUME \A n \in 0..3 : \A recent \in [1..n -> 1..4] : \A path \in 1..4 :
          LET after == AddRecent(recent, path)
          IN  /\ after[1] = path
              /\ IsInjective(recent) => IsInjective(after)
              /\ Range(after) = Range(recent) \cup {path}
ASSUME Len(AddRecent([i \in 1..10 |-> i], 11)) = MaxRecent

-----------------------------------------------------------------------------
(* Settings.                                                                *)

ASetting == {[settings_version |-> v, theme |-> t, process_priority |-> p,
              mixed_layers |-> l, terminal_style |-> y, api_port |-> a, log_path |-> "",
              connection_presets |-> {}] :
               v \in {0, 2, 3}, t \in {"Dark", "dark", "sepia"}, p \in {"high", "realtime"},
               l \in {{}, {<<"dec", "hex">>}, {<<"oct">>}}, y \in {{}, {[rx_color |-> "#111111"]}},
               a \in {80, 8765, 70000}}

\* Whatever is stored, what is read is legal.
ASSUME \A s \in ASetting \cup {<< >>} :
          /\ GetTheme(s) \in Themes /\ GetPriority(s) \in Priorities
          /\ Range(GetMixedLayers(s)) \in SUBSET Layers \ {{}}
          /\ DOMAIN GetStyle(s) = DOMAIN TerminalStyle /\ GetLogPath(s) # ""
          /\ \A n \in {-1, 0, 70000} : GetApiPort(SetApiPort(s, n)) \in 1024..65535
\* Migrating twice is migrating once, keeps every value, and never goes back.
ASSUME \A s \in ASetting \cup {<< >>} :
          LET migrated == MigrateSettings(s)
          IN  /\ MigrateSettings(migrated) = migrated
              /\ Get(migrated, "settings_version", 1) >= SettingsVersion
              /\ \A k \in DOMAIN s \ {"settings_version"} : migrated[k] = s[k]

\* Presets have different names that are not blank, whatever is saved and
\* deleted; applying one opens the configuration it was saved from.
PresetText == {<<65>>, <<32, 65>>, <<66>>, <<32>>, << >>}
APreset == {[PortConfig EXCEPT !.name = n] : n \in {"one", "two"}}
ASSUME \A first, second, gone \in PresetText, one, two \in APreset :
          LET s == NewConnectionStores(NewConnectionStores(<< >>, one, first), two, second)
              after == DeletePreset(s, gone)
          IN  /\ IsInjective(PresetMenu(s)) /\ << >> \notin Range(PresetMenu(s))
              /\ Strip(gone) \notin Range(PresetMenu(after))
              /\ Strip(second) # << >> => \E p \in Range(GetPresets(s)) :
                    PresetName(p) = Strip(second) /\ AppliedPreset(p) = {two}
              /\ \E dict \in GetLastConfig(s) : PortFromDict(dict) = {two}

\* OK in an untouched dialog changes nothing that is read, once the theme has
\* been applied at startup: only the layers take their fixed order, and what
\* the controls cannot show is cut.  The API server is left alone.
ASSUME \A s \in ASetting :
          LET started == ApplyTheme(MigrateSettings(s), GetTheme(s))
              shown == LoadedControls(started)
              done == SettingsAccepted(started, shown)
          IN  /\ GetTheme(done.stored) = GetTheme(s)
              /\ GetStyle(done.stored) = GetStyle(s)
              /\ GetPriority(done.stored) = GetPriority(s)
              /\ Range(GetMixedLayers(done.stored)) = Range(GetMixedLayers(s))
              /\ LoadedControls(done.stored) = shown
              /\ ~done.api_stops
\* What the user chooses is what the dialog shows when it is opened again.
ASSUME \A s \in ASetting, theme \in {"Dark", "Light"}, c \in {"", "#222222"}, api \in BOOLEAN :
          LET chosen == [ClickLayer(ClickLayer(LoadedControls(s), "hex"), "bin")
                            EXCEPT !.theme = theme, !.colors.tx_color = c, !.api_enabled = api]
              done == SettingsAccepted(s, chosen)
          IN  /\ LoadedControls(done.stored) = chosen
              /\ chosen.layers # {}
              /\ GetTheme(SaveControls(s, chosen)) = Lower(theme)
              /\ Swatch(chosen, "tx_color")
                    = Resolve(GetStyle(done.stored), GetTheme(done.stored) = "dark").tx_color
              /\ done.api_stops <=> done.api_runs
\* A click changes one layer, unless it was the last.
ASSUME \A layers \in SUBSET Layers \ {{}}, l \in Layers :
          LET after == ClickLayer([layers |-> layers], l).layers
          IN  IF layers = {l} THEN after = layers
              ELSE after \ {l} = layers \ {l} /\ (l \in after <=> l \notin layers)
\* Two toggles give the theme back, and each is what the next start applies.
ASSUME \A theme \in Themes : /\ Toggled(Toggled(theme)) = theme
                             /\ GetTheme(ApplyTheme(<< >>, Toggled(theme))) = Toggled(theme)
\* Without privileges a process is never given a higher priority.
ASSUME \A nice \in {-5, 0, 19}, p \in Priorities : NiceAfter(nice, p, FALSE) >= nice

-----------------------------------------------------------------------------
(* Dialogs.                                                                 *)

\* Filling a dialog from a configuration and reading it gives it back, except
\* for the HID usage page, a server's host, and milliseconds that are cut.
ASSUME \A c \in APort :
          LET back == GetPortConfig(SetPortConfig(PortControls, c))
          IN  /\ c.connection_type = "SERIAL" =>
                    back = [c EXCEPT !.serial.timeout = ShownTimeout(@)]
              /\ c.connection_type \in {"TCP_CLIENT", "UDP"} => back = c
              /\ c.connection_type = "TCP_SERVER" => back = [c EXCEPT !.network.host = ""]
              /\ c.connection_type = "BLUETOOTH" => back.connection_type = "TCP_CLIENT"
              /\ c.connection_type \in Range(PipeText) =>
                    back.named_pipe = c.named_pipe /\ back.connection_type = c.connection_type
              /\ c.connection_type = "USB_HID" =>
                    back.hid = [c.hid EXCEPT !.usage_page = 0]
\* The dialog of a tap gives back a network port, and a serial one without its
\* parity, stop bits, flow control and timeout.
ASSUME \A c \in APort \ {p \in APort : p.connection_type \notin {"SERIAL", "TCP_CLIENT", "UDP"}} :
          LET back == GetTapPort(SetTapPort(PortControls, c))
          IN  /\ back.connection_type = c.connection_type
              /\ c.connection_type # "SERIAL" => back.network = c.network
              /\ c.connection_type = "SERIAL" =>
                    back.serial = [SerialConfig EXCEPT !.port = c.serial.port]

\* A scan keeps the port that was shown, in the list or as a text; a name typed
\* over a port of the list is not what is opened.
Lists == {<< >>, <<"p">>, <<"q", "p">>}
ASSUME \A before, after \in Lists, text \in {"", "p", "r"} :
          LET scanned == ScanFinished(Typed([items |-> << >>, data |-> "", text |-> ""], text),
                                      before)
          IN  /\ text # "" => PortDevice(ScanFinished(scanned, after)) = text
              /\ before # << >> => PortDevice(scanned) # ""
              /\ scanned.data # "" => PortDevice(Typed(scanned, "r")) = scanned.data
\* The scan of the tap may put another port in the place of one that is gone.
ASSUME LET combo == [items |-> <<"p", "pq">>, data |-> "p", text |-> "p"]
       IN  PortDevice(TapScanFinished(combo, <<"pq">>, [p |-> {"p", "pq"}])) = "pq"
ADevice == {[device |-> n, type |-> t, char |-> TRUE, serial |-> b, exists |-> TRUE, open |-> o] :
              n \in {"p", "q"}, t \in {"usb", "virtual"}, b \in BOOLEAN, o \in BOOLEAN}
ASSUME \A l, d \in ADevice :
          LET found == AvailablePorts({l}, {d}, TRUE)
              blocked == InaccessiblePorts({l}, {d})
              counts == ScanCounts(found)
          IN  /\ l \in found /\ Cardinality({e.device : e \in found}) = Cardinality(found)
              /\ counts.wired + counts.virtual = Cardinality(found)
              /\ \A e \in blocked : e.serial /\ ~e.open
              /\ \A helper \in BOOLEAN, allowed \in SUBSET {l, d} :
                    LET done == MakeAccessible(blocked, helper, allowed)
                    IN  done.ok <=> done.opened = blocked

\* A chunk is forwarded to the other port or to none, to one that is connected,
\* and by no mode back to where it came from; an unknown mode forwards nothing.
ASSUME \A mode \in ForwardModes \cup {"loop"}, ch \in {"A", "B"}, up \in SUBSET {"A", "B"} :
          LET live == InitialMode([TapConfig EXCEPT !.forward_mode = mode])
              to == ForwardedTo(live, ch, up)
          IN  /\ to \subseteq up \ {ch}
              /\ (live = "both" /\ up = {"A", "B"}) => to = {Other(ch)}
              /\ mode = "loop" => to = {}
              /\ SetForwardMode(live, mode) = live

\* Editing a sequence keeps what its form shows and forgets its byte delay and
\* its named values; editing it again changes nothing more.
ASSUME \A s \in ASequence :
          LET edited == EditedSequence(s)
          IN  /\ EditedSequence(edited) = edited
              /\ edited.id = s.id /\ edited.data_str = s.data_str
              /\ edited.byte_delay_ms = 0 /\ edited.named_values = << >>
              /\ edited.encoding = "bin" <=> s.encoding = "bin"
              /\ edited.repeat_count = 1000000
\* No operation of the panel gives two rules one id, and each touches the rule
\* it is about only.
ASSUME \A t, u \in ATrigger : t.id # u.id =>
          LET list == <<t, u>>
              edited == EditedTrigger(t, <<65>>, <<66, 32>>, "ascii")
              results == {EditTrigger(list, edited), DuplicateTrigger(list, t.id, "c"),
                          AddTrigger(list, TriggerPreset("c", <<65>>, <<66>>)),
                          DeleteTrigger(list, t.id), ToggleTrigger(list, t.id)}
          IN  /\ \A l \in results : IsInjective(Each(LAMBDA r : r.id, l)) /\ u \in Range(l)
              /\ ToggleTrigger(ToggleTrigger(list, t.id), t.id) = list
              /\ edited.id = t.id /\ TriggerOk(edited.name, edited.pattern)
              /\ edited.match_type = "contains"
\* A rule made of selected bytes matches those bytes.
ASSUME \A b \in {<<0>>, <<171, 255>>} :
          PatternBytes(TriggerPreset("c", b, <<65>>)) = {b}
=============================================================================
