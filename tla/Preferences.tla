------------------------------ MODULE Preferences ------------------------------
(***************************************************************************)
(* kcom/core/settings_store.py, ui/theme_manager.py, the settings dialog   *)
(* and the saved connections of the window.  The stored settings are a     *)
(* dict that an older or a newer program, or a user, may have written.     *)
(* A JSON text is the set of what it parses to: empty if it is not JSON.   *)
(***************************************************************************)
EXTENDS Documents

(* SettingsStore.                                                           *)

SettingsVersion == 2
\* _migrate: from any version below 2 one passes version 1, whose migration
\* writes the throttle that is read; a newer version is left alone.
MigrateSettings(s) ==
    IF Get(s, "settings_version", 1) >= SettingsVersion THEN s
    ELSE Put(Put(s, "render_throttle_bps", Get(s, "render_throttle_bps", 0)),
             "settings_version", SettingsVersion)

Themes == {"light", "dark"}
DefaultTheme == "light"
\* str.lower and str.capitalize on the names of themes and formats.
Capital == [light |-> "Light", dark |-> "Dark", wall |-> "Wall", delta |-> "Delta",
            elapsed |-> "Elapsed", none |-> "None"]
Lower(word) == IF word \in Range(Capital) THEN CHOOSE w \in DOMAIN Capital : Capital[w] = word
               ELSE word
Capitalize(word) == IF word \in DOMAIN Capital THEN Capital[word] ELSE word

GetTheme(s) ==
    LET theme == Lower(Get(s, "theme", DefaultTheme))
    IN  IF theme \in Themes THEN theme ELSE DefaultTheme
SetTheme(s, theme) == IF theme \in Themes THEN Put(s, "theme", theme) ELSE s

DefaultLogPath == "kcom-session.txt"
GetLogPath(s) ==
    LET path == Get(s, "log_path", DefaultLogPath) IN IF path = "" THEN DefaultLogPath ELSE path

Priorities == {"normal", "above_normal", "high", "below_normal", "idle"}
GetPriority(s) ==
    LET p == Get(s, "process_priority", "normal") IN IF p \in Priorities THEN p ELSE "normal"
SetPriority(s, p) == IF p \in Priorities THEN Put(s, "process_priority", p) ELSE s

AtLeastZero(n) == IF n < 0 THEN 0 ELSE n
GetThrottle(s) == Get(s, "render_throttle_bps", 0)
SetThrottle(s, n) == Put(s, "render_throttle_bps", AtLeastZero(n))
GetRxCap(s) == Get(s, "rx_buffer_cap", 0)
SetRxCap(s, n) == Put(s, "rx_buffer_cap", AtLeastZero(n))

Clamp(n, low, high) == IF n < low THEN low ELSE IF n > high THEN high ELSE n
GetApiEnabled(s) == Get(s, "api_enabled", FALSE)
GetApiPort(s) == Get(s, "api_port", 8765)
SetApiPort(s, n) == Put(s, "api_port", Clamp(n, 1024, 65535))

Layers == {"hex", "ascii", "dec", "bin"}
DefaultLayers == <<"hex", "ascii">>
ValidLayers(layers) == SelectSeq(layers, LAMBDA l : l \in Layers)
GetMixedLayers(s) ==
    LET valid == {ValidLayers(layers) : layers \in Get(s, "mixed_layers", {})} \ {<< >>}
    IN  IF valid = {} THEN DefaultLayers ELSE CHOOSE layers \in valid : TRUE
SetMixedLayers(s, layers) == Put(s, "mixed_layers", {ValidLayers(layers)})

GetStyle(s) ==
    LET read == {StyleFromDict(d) : d \in Get(s, "terminal_style", {})}
    IN  IF read = {} THEN TerminalStyle ELSE CHOOSE style \in read : TRUE
SetStyle(s, style) == Put(s, "terminal_style", {style})

GetLastConfig(s) == Get(s, "last_config", {})
SetLastConfig(s, dict) == Put(s, "last_config", {dict})

GetPresets(s) ==
    LET read == Get(s, "connection_presets", {})
    IN  IF read = {} THEN << >> ELSE CHOOSE presets \in read : TRUE
PresetName(p) == Get(p, "preset_name", << >>)
\* A preset of that name is replaced where it stands; the name is stripped.
SavePreset(s, text, config) ==
    LET name == Strip(text)
        entry == Put(config, "preset_name", name)
        presets == GetPresets(s)
        same == {i \in DOMAIN presets : PresetName(presets[i]) = name}
    IN  IF name = << >> THEN s
        ELSE Put(s, "connection_presets",
                 {IF same = {} THEN Append(presets, entry)
                  ELSE [presets EXCEPT ![Min(same)] = entry]})
DeletePreset(s, text) ==
    Put(s, "connection_presets",
        {SelectSeq(GetPresets(s), LAMBDA p : PresetName(p) # Strip(text))})

-----------------------------------------------------------------------------
(* The window: connections, themes, settings.                               *)

\* _on_new_connection, with the name typed for a preset, << >> for none.
NewConnectionStores(s, config, name) ==
    LET dict == PortToDict(config)
    IN  SavePreset(SetLastConfig(s, dict), name, dict)
\* _refresh_connections_menu and _apply_preset: the sessions it would open.
PresetMenu(s) == [i \in DOMAIN GetPresets(s) |->
                    Get(GetPresets(s)[i], "preset_name", <<"unnamed">>)]
AppliedPreset(preset) == PortFromDict(Restrict(preset, DOMAIN preset \ {"preset_name"}))

\* ThemeManager.apply, when the style sheets can be read, and toggle.
AppliedTheme(theme) == IF theme \in Themes THEN theme ELSE DefaultTheme
ApplyTheme(s, theme) == SetTheme(s, AppliedTheme(theme))
Toggled(current) == IF current = "dark" THEN "light" ELSE "dark"

\* _apply_process_priority: only a privileged process lowers its nice value.
Nice == [idle |-> 19, below_normal |-> 10, normal |-> 0, above_normal |-> -5, high |-> -10]
NiceAfter(nice, priority, privileged) ==
    IF Nice[priority] >= nice \/ privileged THEN Nice[priority] ELSE nice

-----------------------------------------------------------------------------
(* SettingsDialog.  Its controls show what is stored where they can: a list  *)
(* without the stored entry stays at its first one.                          *)

FontFamilies == {"Cascadia Code", "Consolas"}
BaudRates == {"9600", "115200"}
Shown(options, stored, otherwise) == IF stored \in options THEN stored ELSE otherwise

LoadedControls(s) ==
    LET style == GetStyle(s)
    IN  [theme |-> Shown({"Dark", "Light"}, Capitalize(Lower(Get(s, "theme", "Dark"))), "Dark"),
         font_family |-> Shown(FontFamilies, Get(s, "terminal_font_family", "Cascadia Code"),
                               "Cascadia Code"),
         font_size |-> Clamp(Get(s, "terminal_font_size", 10), 7, 24),
         colors |-> [k \in DOMAIN ThemeDefaults(TRUE) |-> style[k]],
         timestamp_format |-> Shown({"Wall", "Delta", "Elapsed", "None"},
                                    Capitalize(style.timestamp_format), "Wall"),
         show_ctrl_chars |-> style.show_ctrl_chars,
         ascii_render |-> Shown({"multiline", "ctrl", "escape"}, style.ascii_render,
                                "multiline"),
         baud |-> Shown(BaudRates, Get(s, "default_baud_rate", "115200"), "115200"),
         priority |-> GetPriority(s),
         throttle |-> Clamp(GetThrottle(s), 0, 10000000),
         rx_cap |-> Clamp(GetRxCap(s), 0, 1000000),
         api_enabled |-> GetApiEnabled(s),
         api_port |-> Clamp(GetApiPort(s), 1024, 65535),
         layers |-> Range(GetMixedLayers(s))]

\* What a swatch shows, here under the theme the combo shows.
Swatch(c, k) ==
    IF c.colors[k] = "" THEN ThemeDefaults(Lower(c.theme) = "dark")[k] ELSE c.colors[k]

\* _enforce_mixed_minimum: the last layer cannot be unchecked.
ClickLayer(c, l) ==
    LET clicked == IF l \in c.layers THEN c.layers \ {l} ELSE c.layers \cup {l}
    IN  [c EXCEPT !.layers = IF clicked = {} THEN {l} ELSE clicked]

ShownStyle(c) ==
    c.colors @@ [font_size |-> c.font_size, font_family |-> c.font_family,
                 timestamp_format |-> Lower(c.timestamp_format),
                 show_ctrl_chars |-> c.show_ctrl_chars, ascii_render |-> c.ascii_render]

\* _save_settings: the layers are stored in a fixed order.
SaveControls(s, c) ==
    LET plain == [theme |-> c.theme, terminal_font_family |-> c.font_family,
                  terminal_font_size |-> c.font_size, default_baud_rate |-> c.baud,
                  api_enabled |-> c.api_enabled] @@ s
        limits == SetApiPort(SetRxCap(SetThrottle(plain, c.throttle), c.rx_cap), c.api_port)
    IN  SetMixedLayers(SetPriority(SetStyle(limits, ShownStyle(c)), c.priority),
                       SelectSeq(<<"hex", "ascii", "dec", "bin">>, LAMBDA l : l \in c.layers))

\* _on_settings after OK: what is stored, and whether the API server is
\* stopped and started again.
SettingsAccepted(s, c) ==
    LET saved == SetStyle(ApplyTheme(SaveControls(s, c), Lower(c.theme)), ShownStyle(c))
        api == GetApiEnabled(saved)
    IN  [stored |-> saved,
         api_stops |-> \/ api # GetApiEnabled(s)
                       \/ api /\ GetApiPort(saved) # GetApiPort(s),
         api_runs |-> api]
=============================================================================
