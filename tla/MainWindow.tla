------------------------------ MODULE MainWindow ------------------------------
(***************************************************************************)
(* kcom/ui/main_window.py with core/session_manager.py, ui/port_panel.py   *)
(* and ui/sequence_panel.py: sessions and their tabs, and the sequences    *)
(* that are sent to them.  Three registries hold the sessions (the         *)
(* manager, the tabs, the port panel) and three the running sequences (the *)
(* window's runners, the panel's rows, the tints in the terminals); each   *)
(* handler updates them by signals between the objects, which run inside   *)
(* the call that makes them.                                               *)
(***************************************************************************)
EXTENDS Integers, FiniteSets, FiniteSetsExt, SequencesExt

CONSTANTS
    Port,       \* session ids, each used for one session
    Tap,        \* ids of tap sessions
    SeqId,      \* ids of sequences
    SeqDef,     \* [repeat, bytes, slow]: repeat_count, the length, byte_delay_ms > 0
    Project,    \* contents of project files: [sequences, ports, taps]
    MaxSent,    \* bound: sends of a run without end
    MaxDrips,   \* bound: drip-fed sends in progress
    MaxUses     \* bound: what users, peers and triggers do

NoTab == "welcome"

ASSUME MainWindowAssumption ==
    /\ \A d \in SeqDef : d.repeat \in Nat /\ d.bytes \in Nat /\ d.slow \in BOOLEAN
    /\ {MaxSent, MaxDrips, MaxUses} \subseteq Nat
    /\ Port \cap Tap = {} /\ NoTab \notin Port \cup Tap
    /\ \A file \in Project :
          /\ file.ports \subseteq Port /\ file.taps \subseteq Tap
          /\ DOMAIN file.sequences \subseteq SeqId

VARIABLES
    status,         \* PortSession.status of each id, "unused" before it is opened
    sessions,       \* the keys of SessionManager._sessions
    tabs,           \* the tabs besides the welcome tab
    current,        \* the current tab
    title,          \* the icon in each port tab's title, and the sign that flags an error
    connect_label,  \* of the toolbar's connect action
    status_bar,     \* which session's status the status bar shows, and what it says of it
    items,          \* PortPanel._items
    sequences,      \* SequencePanel._sequences, by id
    running_ids,    \* SequencePanel._running_ids, the rows that show a Stop button
    runners,        \* _runners: the session, the definition sent and how often it was
    tints,          \* the sequences each terminal highlights
    drips,          \* drip-fed sends: the session and the bytes that remain
    closed,         \* the window is closed
    orphans,        \* history: runs whose row a loaded project took away
    uses

sessionVars == <<status, sessions, tabs, current, title, connect_label, status_bar, items>>
sequenceVars == <<sequences, running_ids, runners, tints, orphans>>
vars == <<sessionVars, sequenceVars, drips, closed, uses>>

Statuses == {"connecting", "connected", "disconnected", "error"}
NoIcon == "none"

\* One more thing that somebody does while the window is open.
Use == ~closed /\ uses < MaxUses /\ uses' = uses + 1

-----------------------------------------------------------------------------
(* Tabs, title, toolbar and status bar.                                     *)

\* _update_connect_action_label.
LabelOf(tab, stats) ==
    IF tab \in Port /\ stats[tab] = "connected" THEN "Disconnect" ELSE "Connect"

\* _update_status_bar_for_session, or "No connection" in front of other tabs.
NoBar == [of |-> NoTab, says |-> NoIcon]
BarOf(tab, stats) == IF tab \in Port THEN [of |-> tab, says |-> stats[tab]] ELSE NoBar

\* _on_tab_changed: the toolbar and the status bar of the tab now in front.
ShowTab(tab, stats) ==
    /\ current' = tab
    /\ connect_label' = LabelOf(tab, stats)
    /\ status_bar' = BarOf(tab, stats)

\* Mutant of StatusSet: the toolbar is refreshed on a tab change only.
StatusSetKeepsLabel(s, st) ==
    /\ status' = [status EXCEPT ![s] = st]
    /\ title' = [title EXCEPT ![s] = [icon |-> st, flag |-> FALSE]]
    /\ status_bar' = IF current = s THEN BarOf(s, status') ELSE status_bar
    /\ UNCHANGED <<sessions, tabs, current, items, connect_label>>

\* _set_status of an open session, with _on_session_status_changed and
\* _on_session_tab_status.
StatusSet(s, st) ==
    /\ status' = [status EXCEPT ![s] = st]
    /\ title' = [title EXCEPT ![s] = [icon |-> st, flag |-> FALSE]]
    /\ connect_label' = IF current = s THEN LabelOf(s, status') ELSE connect_label
    /\ status_bar' = IF current = s THEN BarOf(s, status') ELSE status_bar
    /\ UNCHANGED <<sessions, tabs, current, items>>

\* An error without a change of status: _on_session_error flags the title
\* unless it bears the sign already.
FlagError(s) ==
    /\ title' = [title EXCEPT ![s].flag = @ \/ title[s].icon # "error"]
    /\ UNCHANGED <<status, sessions, tabs, current, connect_label, status_bar, items>>

\* open_session for new ids: connect() signals its status before any tab is
\* there; then session_opened makes the tab, and writes "Connecting" into the
\* status bar whatever connect() has come to.  The last id opened is in front.
OpenAll(ports, taps, outcome) ==
    LET stats == [p \in Port |-> IF p \in ports THEN outcome[p] ELSE status[p]]
    IN /\ \A p \in ports : status[p] = "unused"
       /\ taps \cap tabs = {}
       /\ status' = stats
       /\ sessions' = sessions \cup ports
       /\ tabs' = tabs \cup ports \cup taps
       /\ items' = items \cup ports
       /\ title' = [p \in Port |-> IF p \in ports THEN [icon |-> NoIcon, flag |-> FALSE]
                                   ELSE title[p]]
       /\ IF ports \cup taps = {} THEN UNCHANGED <<current, connect_label, status_bar>>
          ELSE \E last \in IF taps = {} THEN ports ELSE taps :
                  /\ current' = last
                  /\ connect_label' = LabelOf(last, stats)
                  /\ status_bar' = IF last \in Port THEN [of |-> last, says |-> "connecting"]
                                   ELSE NoBar

\* _on_new_connection and _apply_preset: what connect() has come to is the handler's.
NewConnection ==
    /\ Use
    /\ \E p \in Port, st \in {"connecting", "connected", "error"} :
          OpenAll({p}, {}, [q \in {p} |-> st])
    /\ UNCHANGED <<sequenceVars, drips, closed>>

\* _on_new_tap_connection.
NewTap ==
    /\ Use
    /\ \E t \in Tap : OpenAll({}, {t}, << >>)
    /\ UNCHANGED <<sequenceVars, drips, closed>>

\* A handler tells of a connection made, lost or failed.
StatusEvent ==
    /\ Use
    /\ \E s \in sessions : \E st \in Statuses \ {status[s], "connecting"} : StatusSet(s, st)
    /\ UNCHANGED <<sequenceVars, drips, closed>>

\* A tab is chosen, in the tab bar or in the port panel.
SelectTab ==
    /\ Use
    /\ \E tab \in (tabs \cup {NoTab}) \ {current} : ShowTab(tab, status)
    /\ UNCHANGED <<status, sessions, tabs, title, items, sequenceVars, drips, closed>>

\* _on_toggle_connection of a session's tab; connect() comes to what it may.
ToggleConnection ==
    /\ Use
    /\ current \in sessions
    /\ IF status[current] = "connected" THEN StatusSet(current, "disconnected")
       ELSE \E st \in {"connecting", "connected", "error"} : StatusSet(current, st)
    /\ UNCHANGED <<sequenceVars, drips, closed>>

-----------------------------------------------------------------------------
(* Sequences.                                                               *)

\* Mutant of Finished: the row of a run that ends keeps its Stop button.
FinishedKeepsRow(ended, rs) ==
    /\ runners' = [q \in DOMAIN rs \ ended |-> rs[q]]
    /\ tints' = [p \in Port |-> {q \in tints[p] : q \notin ended \/ rs[q].session # p}]
    /\ orphans' = orphans \ ended
    /\ UNCHANGED running_ids

\* _on_runner_finished for runs of rs that end: out of the table, the row
\* shows Send again, the terminal's tint goes.
Finished(ended, rs) ==
    /\ runners' = [q \in DOMAIN rs \ ended |-> rs[q]]
    /\ running_ids' = running_ids \ ended
    /\ tints' = [p \in Port |-> {q \in tints[p] : q \notin ended \/ rs[q].session # p}]
    /\ orphans' = orphans \ ended

\* _transmit to a connected session: at once, or the first byte now and the
\* rest from single-shot timers.  The write may fail, which is an ERROR.
Transmit(s, def, slow) ==
    /\ \/ UNCHANGED sessionVars
       \/ StatusSet(s, "error")
    /\ drips' = IF slow /\ def.bytes > 1
                THEN Append(drips, [session |-> s, left |-> def.bytes - 1])
                ELSE drips

\* _on_row_send and _on_send_sequence.  A run that goes on behind a row which
\* says Send is left alone; bytes there are none of cannot be highlighted.
SendSequence ==
    \E q \in DOMAIN sequences \ running_ids :
        LET def == sequences[q] IN
        /\ Use
        /\ q \notin DOMAIN runners
        /\ current \in sessions /\ status[current] = "connected"
        /\ Len(drips) < MaxDrips
        /\ Transmit(current, def, def.slow)
        /\ IF def.repeat = 1
           THEN UNCHANGED <<runners, running_ids, tints>>
           ELSE /\ runners' = [r \in DOMAIN runners \cup {q} |->
                                 IF r = q THEN [session |-> current, def |-> def, sent |-> 1]
                                 ELSE runners[r]]
                /\ running_ids' = running_ids \cup {q}
                /\ tints' = IF def.bytes = 0 THEN tints
                            ELSE [tints EXCEPT ![current] = @ \cup {q}]
        /\ UNCHANGED <<sequences, orphans, closed>>

Connected(s) == s \in sessions /\ status[s] = "connected"

LastSend(run) == run.def.repeat > 0 /\ run.sent + 1 >= run.def.repeat

\* A runner's timer: _on_runner_tick sends again, or stops the run because its
\* port is gone; the run also ends with its last send.
RunnerTimeout(q) ==
    /\ q \in DOMAIN runners
    /\ LET run == runners[q] IN
       /\ run.def.repeat = 0 => run.sent < MaxSent \/ ~Connected(run.session)
       /\ Len(drips) < MaxDrips
       /\ IF Connected(run.session)
          THEN Transmit(run.session, run.def, run.def.slow)
          ELSE UNCHANGED <<sessionVars, drips>>
       /\ Finished(IF LastSend(run) \/ ~Connected(run.session) THEN {q} ELSE {},
                   [runners EXCEPT ![q].sent = @ + 1])
    /\ UNCHANGED <<sequences, closed, uses>>

\* Mutant of Drip: a byte is taken only when it can be sent.
DripWaits(i) ==
    /\ i \in DOMAIN drips
    /\ IF ~Connected(drips[i].session) THEN UNCHANGED <<sessionVars, drips>>
       ELSE /\ UNCHANGED sessionVars
            /\ drips' = IF drips[i].left > 1 THEN [drips EXCEPT ![i].left = @ - 1]
                        ELSE RemoveAt(drips, i)
    /\ UNCHANGED <<sequenceVars, closed, uses>>

\* A drip's timer (_send_next): a byte is taken, and sent if the session is
\* there and connected; neither Stop nor a disconnect ends it.
Drip(i) ==
    /\ i \in DOMAIN drips
    /\ IF Connected(drips[i].session)
       THEN UNCHANGED sessionVars \/ StatusSet(drips[i].session, "error")
       ELSE UNCHANGED sessionVars
    /\ drips' = IF drips[i].left > 1 THEN [drips EXCEPT ![i].left = @ - 1]
                ELSE RemoveAt(drips, i)
    /\ UNCHANGED <<sequenceVars, closed, uses>>

\* _on_stop_sequence, from a row's Stop button.
StopSequence ==
    \E q \in running_ids \cap DOMAIN runners :
        /\ Use
        /\ Finished({q}, runners)
        /\ UNCHANGED <<sessionVars, sequences, drips, closed>>

\* A trigger's action on its session: a reply sent at once whatever its byte
\* delay, an error line when it is not found (no state here), or a disconnect.
TriggerFired ==
    \E s \in {p \in sessions : status[p] = "connected"} :
        /\ Use
        /\ \/ \E q \in DOMAIN sequences : Transmit(s, sequences[q], FALSE)
           \/ StatusSet(s, "disconnected") /\ UNCHANGED drips
        /\ UNCHANGED <<sequenceVars, closed>>

\* _on_terminal_send and _on_script_send: without a connection the terminal's
\* send is an error of the session.
TerminalSend ==
    \E s \in sessions :
        /\ Use
        /\ IF status[s] = "connected" THEN UNCHANGED sessionVars \/ StatusSet(s, "error")
                                      ELSE FlagError(s)
        /\ UNCHANGED <<sequenceVars, drips, closed>>

\* _refresh_list on a new list: rows that are gone are running no more.
Refresh(seqs) == sequences' = seqs /\ running_ids' = running_ids \cap DOMAIN seqs

\* Add, duplicate, or a preset from bytes in the terminal.
AddSequence ==
    \E q \in SeqId \ DOMAIN sequences, def \in SeqDef :
        /\ Use
        /\ q \notin DOMAIN runners
        /\ Refresh([r \in DOMAIN sequences \cup {q} |-> IF r = q THEN def ELSE sequences[r]])
        /\ UNCHANGED <<sessionVars, runners, tints, orphans, drips, closed>>

\* _on_edit: the dialog knows nothing of the byte delay, so it is gone afterwards.
EditSequence ==
    \E q \in DOMAIN sequences \ running_ids, def \in SeqDef :
        /\ Use
        /\ Refresh([sequences EXCEPT ![q] = [def EXCEPT !.slow = FALSE]])
        /\ UNCHANGED <<sessionVars, runners, tints, orphans, drips, closed>>

DeleteSequence ==
    \E q \in DOMAIN sequences \ running_ids :
        /\ Use
        /\ Refresh([r \in DOMAIN sequences \ {q} |-> sequences[r]])
        /\ UNCHANGED <<sessionVars, runners, tints, orphans, drips, closed>>

-----------------------------------------------------------------------------
(* Closing, projects, the end.                                              *)

TargetedRuns(s) == {q \in DOMAIN runners : runners[q].session = s}

\* Mutant of RunsToStop: closing a session leaves the sends to it alone.
RunsToStopNone(s) == {}

\* The periodic sends _on_close_session stops, before it asks anything.
RunsToStop(s) == TargetedRuns(s)

\* close_session and remove_port_tab.
RemoveTab(s) ==
    /\ sessions' = sessions \ {s}
    /\ tabs' = tabs \ {s}
    /\ items' = items \ {s}

\* Which tab comes to the front when one goes.
InFront(gone, stats) ==
    IF current # gone THEN UNCHANGED <<current, connect_label, status_bar>>
    ELSE \E tab \in (tabs \cup {NoTab}) \ {gone} : ShowTab(tab, stats)

\* _on_close_session, from the tab, the menu or the port panel; the user may say No.
CloseSession ==
    \E s \in sessions :
        /\ Use
        /\ Finished(RunsToStop(s), runners)
        /\ \/ status[s] = "connected" /\ UNCHANGED sessionVars
           \/ /\ RemoveTab(s)
              /\ status' = [status EXCEPT ![s] = "disconnected"]
              /\ InFront(s, status')
              /\ UNCHANGED title
        /\ UNCHANGED <<sequences, drips, closed>>

\* _on_tab_close_requested of a tap's tab: its sessions are closed with it.
CloseTap ==
    \E t \in tabs \cap Tap :
        /\ Use
        /\ tabs' = tabs \ {t}
        /\ InFront(t, status)
        /\ UNCHANGED <<status, sessions, title, items, sequenceVars, drips, closed>>

\* _load_project: the panel gets the file's sequences whatever is running, then
\* the sessions and taps are opened.
LoadProject ==
    \E file \in Project :
        /\ Use
        /\ Refresh(file.sequences)
        /\ orphans' = (orphans \cup running_ids) \ running_ids'
        /\ \E outcome \in [file.ports -> {"connected", "error"}] :
              OpenAll(file.ports, file.taps, outcome)
        /\ UNCHANGED <<runners, tints, drips, closed>>

\* closeEvent, once the user has agreed.  Drips that are left find no session.
CloseWindow ==
    /\ ~closed
    /\ closed' = TRUE
    /\ Finished(DOMAIN runners, runners)
    /\ sessions' = {} /\ items' = {} /\ tabs' = tabs \ sessions
    /\ status' = [p \in Port |-> IF p \in sessions THEN "disconnected" ELSE status[p]]
    /\ IF current \in sessions THEN \E tab \in {NoTab} \cup tabs' : ShowTab(tab, status')
       ELSE UNCHANGED <<current, connect_label, status_bar>>
    /\ UNCHANGED <<title, sequences, drips, uses>>

-----------------------------------------------------------------------------
Init ==
    /\ status = [p \in Port |-> "unused"]
    /\ sessions = {} /\ tabs = {} /\ items = {}
    /\ current = NoTab /\ connect_label = "Connect" /\ status_bar = NoBar
    /\ title = [p \in Port |-> [icon |-> NoIcon, flag |-> FALSE]]
    /\ sequences = << >> /\ running_ids = {} /\ runners = << >>
    /\ tints = [p \in Port |-> {}] /\ orphans = {}
    /\ drips = << >> /\ closed = FALSE /\ uses = 0

Next ==
    \/ NewConnection \/ NewTap \/ StatusEvent \/ SelectTab \/ ToggleConnection
    \/ SendSequence \/ StopSequence \/ TriggerFired \/ TerminalSend
    \/ AddSequence \/ EditSequence \/ DeleteSequence
    \/ CloseSession \/ CloseTap \/ LoadProject \/ CloseWindow
    \/ \E q \in SeqId : RunnerTimeout(q)
    \/ \E i \in DOMAIN drips : Drip(i)

Spec == Init /\ [][Next]_vars

\* Qt timers fire: those of the runs and those of the drips.
FairSpec ==
    /\ Spec
    /\ \A q \in SeqId : WF_vars(RunnerTimeout(q))
    /\ WF_vars(\E i \in DOMAIN drips : Drip(i))

-----------------------------------------------------------------------------
(* Properties.                                                              *)

\* In every order of opening, closing, loading and failing the manager, the
\* tabs and the port panel list the same sessions, the connect action would do
\* what it says of the one in front, no title shows a status that is over, and
\* the status bar speaks of the session in front; what it says is over at most
\* until the first change of status after the session was opened.
WindowTellsTruth ==
    /\ tabs \cap Port = sessions
    /\ items = sessions
    /\ current \in tabs \cup {NoTab}
    /\ connect_label = LabelOf(current, status)
    /\ \/ status_bar = BarOf(current, status)
       \/ /\ current \in Port /\ title[current].icon = NoIcon
          /\ status_bar = [of |-> current, says |-> "connecting"]
    /\ \A s \in sessions : title[s].icon \in {status[s], NoIcon}

\* A run has an open session, whose terminal highlights it if it has bytes, and
\* nothing else is highlighted; a run that ends leaves no trace.
RunsHaveSessions ==
    /\ \A q \in DOMAIN runners : runners[q].session \in sessions
    /\ \A p \in Port : tints[p] = {q \in TargetedRuns(p) : runners[q].def.bytes # 0}

\* A row shows Stop exactly while its sequence runs, so whatever runs can be
\* stopped; only a project loaded during a run takes its row away.
RowsTellRuns ==
    /\ running_ids \subseteq DOMAIN runners
    /\ \A q \in DOMAIN runners : q \in running_ids \/ q \in orphans

\* Once the window is closed nothing is sent any more and every timer runs dry.
ClosedGoesQuiet == closed ~> [](drips = << >> /\ runners = << >>)
=============================================================================
