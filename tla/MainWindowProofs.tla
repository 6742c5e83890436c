--------------------------- MODULE MainWindowProofs ---------------------------
(***************************************************************************)
(* The window's bookkeeping for every set of ports, taps, sequences and    *)
(* project files.                                                          *)
(*                                                                         *)
(* The sessions' registries (SessionInv) change by five kinds of step: a   *)
(* status, an error flag, an opening, a tab brought to the front, a        *)
(* closing.  The runs' registries (RunInv) follow the sessions only where  *)
(* one is closed.  What the properties do not say and the proof needs is   *)
(* that a row with a Stop button is a row of the panel (RowsListed): a     *)
(* change of the list would take away the button of a run otherwise.       *)
(***************************************************************************)
EXTENDS MainWindow, TLAPS

SessionTypes ==
    /\ status \in [Port -> Statuses \cup {"unused"}]
    /\ title \in [Port -> [icon : Statuses \cup {"unused", NoIcon}, flag : BOOLEAN]]

SessionInv == SessionTypes /\ WindowTellsTruth

\* A run is a record of three fields, whatever its definition is.
RunTypes ==
    /\ \A q \in DOMAIN runners :
          runners[q] = [session |-> runners[q].session, def |-> runners[q].def,
                        sent |-> runners[q].sent]
    /\ tints \in [Port -> SUBSET SeqId]
    /\ DOMAIN sequences \subseteq SeqId

\* Every row with a Stop button is in the panel's list.
RowsListed == running_ids \subseteq DOMAIN sequences

RunInv == RunTypes /\ RunsHaveSessions /\ RowsTellRuns /\ RowsListed

WindowIInv == SessionInv /\ RunInv

-----------------------------------------------------------------------------
(* The sessions' registries.                                                *)

\* What the status bar says of the tab in front: its status, or "connecting"
\* until a session just opened has its first change of status.
BarOK(bar, tab, stats, titles) ==
    \/ bar = BarOf(tab, stats)
    \/ tab \in Port /\ titles[tab].icon = NoIcon /\ bar = [of |-> tab, says |-> "connecting"]

LEMMA TruthParts ==
    WindowTellsTruth <=>
        /\ tabs \cap Port = sessions /\ items = sessions /\ current \in tabs \cup {NoTab}
        /\ connect_label = LabelOf(current, status)
        /\ BarOK(status_bar, current, status, title)
        /\ \A s \in sessions : title[s].icon \in {status[s], NoIcon}
BY DEF WindowTellsTruth, BarOK

\* Every session is a port.
LEMMA SessionsArePorts == WindowTellsTruth => sessions \subseteq Port
BY DEF WindowTellsTruth

\* A status of an open session reaches the title, and the toolbar and the
\* status bar when the session is in front.
LEMMA StatusSetKeeps ==
    ASSUME SessionInv, NEW s \in sessions, NEW st \in Statuses, StatusSet(s, st)
    PROVE  SessionInv' /\ sessions' = sessions
<1>1. s \in Port  BY SessionsArePorts DEF SessionInv
<1>2. /\ status' = [status EXCEPT ![s] = st]
      /\ title' = [title EXCEPT ![s] = [icon |-> st, flag |-> FALSE]]
      /\ connect_label' = IF current = s THEN LabelOf(s, status') ELSE connect_label
      /\ status_bar' = IF current = s THEN BarOf(s, status') ELSE status_bar
      /\ UNCHANGED <<sessions, tabs, current, items>>
  BY DEF StatusSet
<1>3. SessionTypes'
  <2>1. status' \in [Port -> Statuses \cup {"unused"}]
    BY <1>2 DEF SessionInv, SessionTypes
  <2>2. [icon |-> st, flag |-> FALSE] \in [icon : Statuses \cup {"unused", NoIcon}, flag : BOOLEAN]
    OBVIOUS
  <2>3. title' \in [Port -> [icon : Statuses \cup {"unused", NoIcon}, flag : BOOLEAN]]
    BY <1>2, <2>2 DEF SessionInv, SessionTypes
  <2> QED BY <2>1, <2>3 DEF SessionTypes
<1>4. connect_label' = LabelOf(current', status')
  <2>1. CASE current = s  BY <1>2, <2>1
  <2>2. CASE current # s
    BY <1>1, <1>2, <2>2 DEF SessionInv, SessionTypes, WindowTellsTruth, LabelOf
  <2> QED BY <2>1, <2>2
<1>5. BarOK(status_bar', current', status', title')
  <2>1. CASE current = s  BY <1>2, <2>1 DEF BarOK
  <2>2. CASE current # s
    <3>1. BarOK(status_bar, current, status, title)  BY TruthParts DEF SessionInv
    <3>2. current \in Port => status'[current] = status[current] /\ title'[current] = title[current]
      BY <1>1, <1>2, <2>2 DEF SessionInv, SessionTypes
    <3> QED BY <1>2, <2>2, <3>1, <3>2 DEF BarOK, BarOf
  <2> QED BY <2>1, <2>2
<1>6. \A p \in sessions : title'[p].icon \in {status'[p], NoIcon}
  BY <1>1, <1>2 DEF SessionInv, SessionTypes, WindowTellsTruth
<1>7. WindowTellsTruth'
  BY <1>2, <1>4, <1>5, <1>6 DEF SessionInv, WindowTellsTruth, BarOK
<1> QED BY <1>2, <1>3, <1>7 DEF SessionInv

\* A flag in a title does not touch its icon.
LEMMA FlagErrorKeeps ==
    ASSUME SessionInv, NEW s \in sessions, FlagError(s)
    PROVE  SessionInv' /\ sessions' = sessions
<1>1. s \in Port  BY SessionsArePorts DEF SessionInv
<1>2. /\ title' = [title EXCEPT ![s].flag = title[s].flag \/ title[s].icon # "error"]
      /\ UNCHANGED <<status, sessions, tabs, current, connect_label, status_bar, items>>
  BY DEF FlagError
<1>3. /\ title' \in [Port -> [icon : Statuses \cup {"unused", NoIcon}, flag : BOOLEAN]]
      /\ \A p \in Port : title'[p].icon = title[p].icon
  BY <1>1, <1>2 DEF SessionInv, SessionTypes
<1>4. SessionTypes'  BY <1>2, <1>3 DEF SessionInv, SessionTypes
<1>5. WindowTellsTruth'
  BY <1>1, <1>2, <1>3, SessionsArePorts DEF SessionInv, WindowTellsTruth
<1> QED BY <1>2, <1>4, <1>5 DEF SessionInv

\* Sessions and taps are opened, and the last of them is in front.
LEMMA OpenAllKeeps ==
    ASSUME SessionInv, NEW ports \in SUBSET Port, NEW taps \in SUBSET Tap, NEW outcome,
           \A p \in ports : outcome[p] \in Statuses,
           OpenAll(ports, taps, outcome)
    PROVE  SessionInv' /\ sessions \subseteq sessions'
<1> DEFINE stats == [p \in Port |-> IF p \in ports THEN outcome[p] ELSE status[p]]
<1>1. /\ status' = stats
      /\ sessions' = sessions \cup ports /\ tabs' = tabs \cup ports \cup taps
      /\ items' = items \cup ports
      /\ title' = [p \in Port |-> IF p \in ports THEN [icon |-> NoIcon, flag |-> FALSE]
                                  ELSE title[p]]
      /\ IF ports \cup taps = {} THEN UNCHANGED <<current, connect_label, status_bar>>
         ELSE \E last \in IF taps = {} THEN ports ELSE taps :
                 /\ current' = last /\ connect_label' = LabelOf(last, stats)
                 /\ status_bar' = IF last \in Port THEN [of |-> last, says |-> "connecting"]
                                  ELSE NoBar
  BY DEF OpenAll
<1>2. SessionTypes'
  <2>1. status' \in [Port -> Statuses \cup {"unused"}]
    BY <1>1 DEF SessionInv, SessionTypes
  <2>2. title' \in [Port -> [icon : Statuses \cup {"unused", NoIcon}, flag : BOOLEAN]]
    BY <1>1 DEF SessionInv, SessionTypes
  <2> QED BY <2>1, <2>2 DEF SessionTypes
<1>3. tabs' \cap Port = sessions' /\ items' = sessions'
  BY <1>1, MainWindowAssumption DEF SessionInv, WindowTellsTruth
<1>4. \A s \in sessions' : title'[s].icon \in {status'[s], NoIcon}
  <2>1. ASSUME NEW s \in sessions' PROVE title'[s].icon \in {status'[s], NoIcon}
    <3>1. s \in Port  BY <1>1, SessionsArePorts DEF SessionInv
    <3>2. CASE s \in ports  BY <1>1, <3>1, <3>2
    <3>3. CASE s \notin ports
      BY <1>1, <3>1, <3>3 DEF SessionInv, WindowTellsTruth
    <3> QED BY <3>2, <3>3
  <2> QED BY <2>1
<1>5. /\ current' \in tabs' \cup {NoTab}
      /\ connect_label' = LabelOf(current', status')
      /\ BarOK(status_bar', current', status', title')
  <2>1. CASE ports \cup taps = {}
    <3>1. status' = status /\ title' = title  BY <1>1, <2>1 DEF SessionInv, SessionTypes
    <3> QED BY <1>1, <2>1, <3>1, TruthParts DEF SessionInv
  <2>2. CASE ports \cup taps # {}
    <3>1. PICK last \in IF taps = {} THEN ports ELSE taps :
             /\ current' = last /\ connect_label' = LabelOf(last, stats)
             /\ status_bar' = IF last \in Port THEN [of |-> last, says |-> "connecting"]
                              ELSE NoBar
      BY <1>1, <2>2
    <3>2. last \in tabs' /\ (last \in Port => last \in ports)
      BY <1>1, <3>1, MainWindowAssumption
    <3> HIDE DEF stats
    <3>3. BarOK(status_bar', last, status', title')
      <4>1. CASE last \in Port  BY <1>1, <3>1, <3>2, <4>1 DEF BarOK
      <4>2. CASE last \notin Port  BY <3>1, <4>2 DEF BarOK, BarOf
      <4> QED BY <4>1, <4>2
    <3> QED BY <1>1, <3>1, <3>2, <3>3
  <2> QED BY <2>1, <2>2
<1>6. WindowTellsTruth'  BY <1>3, <1>4, <1>5 DEF WindowTellsTruth, BarOK
<1> QED BY <1>1, <1>2, <1>6 DEF SessionInv

\* A tab goes, a session's or a tap's, and another comes to the front if it
\* was there.
LEMMA TabGoes ==
    ASSUME SessionInv, NEW gone \in tabs,
           status' \in [Port -> Statuses \cup {"unused"}],
           \A p \in Port \ {gone} : status'[p] = status[p],
           tabs' = tabs \ {gone}, sessions' = sessions \ {gone}, items' = items \ {gone},
           title' = title,
           InFront(gone, status')
    PROVE  SessionInv'
<1>1. SessionTypes'  BY DEF SessionInv, SessionTypes
<1>2. tabs' \cap Port = sessions' /\ items' = sessions'
  BY DEF SessionInv, WindowTellsTruth
<1>3. \A s \in sessions' : title'[s].icon \in {status'[s], NoIcon}
  BY SessionsArePorts DEF SessionInv, WindowTellsTruth
<1>4. /\ current' \in tabs' \cup {NoTab}
      /\ connect_label' = LabelOf(current', status')
      /\ BarOK(status_bar', current', status', title')
  <2>1. CASE current # gone
    <3>1. UNCHANGED <<current, connect_label, status_bar>>  BY <2>1 DEF InFront
    <3>2. /\ LabelOf(current, status') = LabelOf(current, status)
          /\ BarOf(current, status') = BarOf(current, status)
      BY <2>1 DEF LabelOf, BarOf
    <3> QED BY <2>1, <3>1, <3>2, TruthParts DEF SessionInv, BarOK
  <2>2. CASE current = gone
    <3>1. PICK tab \in (tabs \cup {NoTab}) \ {gone} : ShowTab(tab, status')
      BY <2>2 DEF InFront
    <3> QED BY <3>1 DEF ShowTab, BarOK
  <2> QED BY <2>1, <2>2
<1> QED BY <1>1, <1>2, <1>3, <1>4 DEF SessionInv, WindowTellsTruth, BarOK

\* Every step keeps the registries of sessions the same and what the window
\* says of them true.
LEMMA StepSessions == SessionInv /\ [Next]_vars => SessionInv'
<1> SUFFICES ASSUME SessionInv, [Next]_vars PROVE SessionInv'
  OBVIOUS
<1>1. ASSUME UNCHANGED sessionVars PROVE SessionInv'
  BY <1>1 DEF sessionVars, SessionInv, SessionTypes, WindowTellsTruth
<1>2. ASSUME NEW s \in sessions, NEW def, NEW slow, Transmit(s, def, slow) PROVE SessionInv'
  BY <1>1, <1>2, StatusSetKeeps DEF Transmit, Statuses
<1>3. CASE NewConnection
  <2>1. PICK p \in Port, st \in {"connecting", "connected", "error"} :
            OpenAll({p}, {}, [q \in {p} |-> st])
    BY <1>3 DEF NewConnection
  <2>2. \A r \in {p} : [q \in {p} |-> st][r] \in Statuses  BY DEF Statuses
  <2> QED BY <2>1, <2>2, OpenAllKeeps
<1>4. CASE NewTap
  <2>1. PICK t \in Tap : OpenAll({}, {t}, << >>)  BY <1>4 DEF NewTap
  <2> QED BY <2>1, OpenAllKeeps
<1>5. CASE StatusEvent
  <2>1. PICK s \in sessions, st \in Statuses : StatusSet(s, st)
    BY <1>5 DEF StatusEvent
  <2> QED BY <2>1, StatusSetKeeps
<1>6. CASE SelectTab
  <2>1. PICK tab \in tabs \cup {NoTab} : ShowTab(tab, status)  BY <1>6 DEF SelectTab
  <2>2. UNCHANGED <<status, sessions, tabs, title, items>>  BY <1>6 DEF SelectTab
  <2> QED BY <2>1, <2>2 DEF ShowTab, SessionInv, SessionTypes, WindowTellsTruth
<1>7. CASE ToggleConnection
  BY <1>7, StatusSetKeeps DEF ToggleConnection, Statuses
<1>8. CASE SendSequence
  <2>1. PICK q \in DOMAIN sequences : Transmit(current, sequences[q], sequences[q].slow)
    BY <1>8 DEF SendSequence
  <2>2. current \in sessions  BY <1>8 DEF SendSequence
  <2> QED BY <1>2, <2>1, <2>2
<1>9. CASE StopSequence \/ AddSequence \/ EditSequence \/ DeleteSequence \/ UNCHANGED vars
  BY <1>1, <1>9 DEF StopSequence, AddSequence, EditSequence, DeleteSequence, vars
<1>10. CASE TriggerFired
  <2>1. PICK s \in sessions :
            \/ \E q \in DOMAIN sequences : Transmit(s, sequences[q], FALSE)
            \/ StatusSet(s, "disconnected")
    BY <1>10 DEF TriggerFired
  <2> QED BY <1>2, <2>1, StatusSetKeeps DEF Statuses
<1>11. CASE TerminalSend
  <2>1. PICK s \in sessions :
            UNCHANGED sessionVars \/ StatusSet(s, "error") \/ FlagError(s)
    BY <1>11 DEF TerminalSend
  <2> QED BY <1>1, <2>1, StatusSetKeeps, FlagErrorKeeps DEF Statuses
<1>12. CASE CloseSession
  <2>1. PICK s \in sessions :
            \/ UNCHANGED sessionVars
            \/ /\ RemoveTab(s) /\ status' = [status EXCEPT ![s] = "disconnected"]
               /\ InFront(s, status') /\ UNCHANGED title
    BY <1>12 DEF CloseSession
  <2>2. CASE UNCHANGED sessionVars  BY <1>1, <2>2
  <2>3. CASE /\ RemoveTab(s) /\ status' = [status EXCEPT ![s] = "disconnected"]
             /\ InFront(s, status') /\ UNCHANGED title
    <3>1. s \in tabs /\ s \in Port  BY DEF SessionInv, WindowTellsTruth
    <3>2. /\ status' \in [Port -> Statuses \cup {"unused"}]
          /\ \A p \in Port \ {s} : status'[p] = status[p]
      BY <2>3 DEF SessionInv, SessionTypes, Statuses
    <3> QED BY <2>3, <3>1, <3>2, TabGoes DEF RemoveTab
  <2> QED BY <2>1, <2>2, <2>3
<1>13. CASE CloseTap
  <2>1. PICK t \in tabs \cap Tap : tabs' = tabs \ {t} /\ InFront(t, status)
    BY <1>13 DEF CloseTap
  <2>2. UNCHANGED <<status, sessions, title, items>>  BY <1>13 DEF CloseTap
  <2>3. t \notin sessions /\ t \notin items
    BY MainWindowAssumption DEF SessionInv, WindowTellsTruth
  <2>4. status' \in [Port -> Statuses \cup {"unused"}]
    BY <2>2 DEF SessionInv, SessionTypes
  <2> QED BY <2>1, <2>2, <2>3, <2>4, TabGoes
<1>14. CASE LoadProject
  <2>1. PICK file \in Project : \E outcome \in [file.ports -> {"connected", "error"}] :
            OpenAll(file.ports, file.taps, outcome)
    BY <1>14 DEF LoadProject
  <2>2. PICK outcome \in [file.ports -> {"connected", "error"}] :
            OpenAll(file.ports, file.taps, outcome)
    BY <2>1
  <2>3. file.ports \subseteq Port /\ file.taps \subseteq Tap  BY MainWindowAssumption
  <2>4. \A p \in file.ports : outcome[p] \in Statuses  BY DEF Statuses
  <2> QED BY <2>2, <2>3, <2>4, OpenAllKeeps
<1>15. CASE CloseWindow
  <2>1. /\ sessions' = {} /\ items' = {} /\ tabs' = tabs \ sessions /\ title' = title
        /\ status' = [p \in Port |-> IF p \in sessions THEN "disconnected" ELSE status[p]]
        /\ IF current \in sessions THEN \E tab \in {NoTab} \cup tabs' : ShowTab(tab, status')
           ELSE UNCHANGED <<current, connect_label, status_bar>>
    BY <1>15 DEF CloseWindow
  <2>2. SessionTypes'  BY <2>1 DEF SessionInv, SessionTypes, Statuses
  <2>3. tabs' \cap Port = sessions' /\ items' = sessions'
    BY <2>1 DEF SessionInv, WindowTellsTruth
  <2>4. /\ current' \in tabs' \cup {NoTab}
        /\ connect_label' = LabelOf(current', status')
        /\ BarOK(status_bar', current', status', title')
    <3>1. CASE current \in sessions
      <4>1. PICK tab \in {NoTab} \cup tabs' : ShowTab(tab, status')  BY <2>1, <3>1
      <4> QED BY <4>1 DEF ShowTab, BarOK
    <3>2. CASE current \notin sessions
      <4>1. UNCHANGED <<current, connect_label, status_bar>>  BY <2>1, <3>2
      <4>2. /\ LabelOf(current, status') = LabelOf(current, status)
            /\ BarOf(current, status') = BarOf(current, status)
        BY <2>1, <3>2 DEF LabelOf, BarOf
      <4>3. current \in tabs' \cup {NoTab}
        BY <2>1, <3>2 DEF SessionInv, WindowTellsTruth
      <4> QED BY <2>1, <4>1, <4>2, <4>3, TruthParts DEF SessionInv, BarOK
    <3> QED BY <3>1, <3>2
  <2> QED BY <2>1, <2>2, <2>3, <2>4 DEF SessionInv, WindowTellsTruth, BarOK
<1>16. ASSUME NEW q \in SeqId, RunnerTimeout(q) PROVE SessionInv'
  <2>1. \/ UNCHANGED sessionVars
        \/ /\ runners[q].session \in sessions
           /\ Transmit(runners[q].session, runners[q].def, runners[q].def.slow)
    BY <1>16 DEF RunnerTimeout, Connected
  <2> QED BY <1>1, <1>2, <2>1
<1>17. ASSUME NEW i \in DOMAIN drips, Drip(i) PROVE SessionInv'
  <2>1. \/ UNCHANGED sessionVars
        \/ drips[i].session \in sessions /\ StatusSet(drips[i].session, "error")
    BY <1>17 DEF Drip, Connected
  <2> QED BY <1>1, <2>1, StatusSetKeeps DEF Statuses
<1> QED BY <1>3, <1>4, <1>5, <1>6, <1>7, <1>8, <1>9, <1>10, <1>11, <1>12, <1>13, <1>14,
           <1>15, <1>16, <1>17 DEF Next

-----------------------------------------------------------------------------
(* The runs' registries.                                                    *)

\* The runs that a terminal highlights.
LEMMA Highlighted ==
    RunsHaveSessions <=>
        /\ \A q \in DOMAIN runners : runners[q].session \in sessions
        /\ \A p \in Port :
              tints[p] = {q \in DOMAIN runners :
                             runners[q].session = p /\ runners[q].def.bytes # 0}
BY DEF RunsHaveSessions, TargetedRuns

\* When runs end, of a table that differs from the runs in counts only, their
\* rows, tints and orphans go with them; the session that closes had all its
\* runs ended.
LEMMA FinishedKeeps ==
    ASSUME RunInv, NEW ended \in SUBSET DOMAIN runners, NEW rs, Finished(ended, rs),
           DOMAIN rs = DOMAIN runners,
           \A q \in DOMAIN rs :
              /\ rs[q] = [session |-> rs[q].session, def |-> rs[q].def, sent |-> rs[q].sent]
              /\ rs[q].session = runners[q].session /\ rs[q].def = runners[q].def,
           \A q \in DOMAIN runners \ ended : runners[q].session \in sessions',
           sequences' = sequences
    PROVE  RunInv'
<1>1. /\ runners' = [q \in DOMAIN rs \ ended |-> rs[q]]
      /\ running_ids' = running_ids \ ended
      /\ tints' = [p \in Port |-> {q \in tints[p] : q \notin ended \/ rs[q].session # p}]
      /\ orphans' = orphans \ ended
  BY DEF Finished
<1>2. DOMAIN runners' = DOMAIN runners \ ended /\ \A q \in DOMAIN runners' : runners'[q] = rs[q]
  BY <1>1
<1>3. RunTypes'
  <2>1. tints' \in [Port -> SUBSET SeqId]  BY <1>1 DEF RunInv, RunTypes
  <2>2. \A q \in DOMAIN runners' :
           runners'[q] = [session |-> runners'[q].session, def |-> runners'[q].def,
                          sent |-> runners'[q].sent]
    BY <1>2
  <2> QED BY <2>1, <2>2 DEF RunInv, RunTypes
<1>4. RunsHaveSessions'
  <2>1. \A q \in DOMAIN runners' : runners'[q].session \in sessions'  BY <1>2
  <2>2. ASSUME NEW p \in Port
        PROVE  tints'[p] = {q \in DOMAIN runners' :
                               runners'[q].session = p /\ runners'[q].def.bytes # 0}
    <3>1. tints[p] = {q \in DOMAIN runners :
                         runners[q].session = p /\ runners[q].def.bytes # 0}
      BY Highlighted DEF RunInv
    <3>2. tints'[p] = {q \in tints[p] : q \notin ended \/ rs[q].session # p}  BY <1>1
    <3> QED BY <1>2, <3>1, <3>2
  <2> QED BY <2>1, <2>2 DEF RunsHaveSessions, TargetedRuns
<1>5. RowsTellRuns'  BY <1>1, <1>2 DEF RunInv, RowsTellRuns
<1>6. RowsListed'  BY <1>1 DEF RunInv, RowsListed
<1> QED BY <1>3, <1>4, <1>5, <1>6 DEF RunInv

\* A list of sequences that keeps every row with a Stop button.
LEMMA RefreshKeeps ==
    ASSUME RunInv, NEW seqs, Refresh(seqs), DOMAIN seqs \subseteq SeqId,
           \/ running_ids \subseteq DOMAIN seqs /\ orphans' = orphans
           \/ orphans' = (orphans \cup running_ids) \ running_ids',
           runners' = runners, tints' = tints, sessions \subseteq sessions'
    PROVE  RunInv'
<1>1. sequences' = seqs /\ running_ids' = running_ids \cap DOMAIN seqs  BY DEF Refresh
<1>2. RunTypes' /\ RowsListed'  BY <1>1 DEF RunInv, RunTypes, RowsListed
<1>3. RunsHaveSessions'  BY DEF RunInv, RunsHaveSessions, TargetedRuns
<1>4. RowsTellRuns'  BY <1>1 DEF RunInv, RowsTellRuns
<1> QED BY <1>2, <1>3, <1>4 DEF RunInv

\* A step that starts, ends and edits no run closes no session that has one.
LEMMA RunsUntouched ==
    ASSUME RunInv, UNCHANGED sequenceVars, sessions \subseteq sessions' PROVE RunInv'
BY DEF RunInv, RunTypes, RunsHaveSessions, RowsTellRuns, RowsListed, TargetedRuns, sequenceVars

\* A status leaves the set of sessions alone.
LEMMA TransmitKeepsSessions ==
    ASSUME NEW s, NEW def, NEW slow, Transmit(s, def, slow) PROVE sessions' = sessions
BY DEF Transmit, StatusSet, sessionVars

\* A sequence that is to be repeated becomes a run of the session in front.
LEMMA SendKeeps ==
    ASSUME SessionInv, RunInv, SendSequence PROVE RunInv'
<1>1. PICK q \in DOMAIN sequences \ running_ids :
          /\ q \notin DOMAIN runners /\ current \in sessions
          /\ Transmit(current, sequences[q], sequences[q].slow)
          /\ IF sequences[q].repeat = 1
             THEN UNCHANGED <<runners, running_ids, tints>>
             ELSE /\ runners' = [r \in DOMAIN runners \cup {q} |->
                                   IF r = q THEN [session |-> current, def |-> sequences[q],
                                                  sent |-> 1]
                                   ELSE runners[r]]
                  /\ running_ids' = running_ids \cup {q}
                  /\ tints' = IF sequences[q].bytes = 0 THEN tints
                              ELSE [tints EXCEPT ![current] = @ \cup {q}]
          /\ UNCHANGED <<sequences, orphans>>
  BY DEF SendSequence
<1>2. sessions' = sessions  BY <1>1, TransmitKeepsSessions
<1>3. current \in Port  BY <1>1, SessionsArePorts DEF SessionInv
<1>4. CASE sequences[q].repeat = 1
  BY <1>1, <1>2, <1>4, RunsUntouched DEF sequenceVars
<1>5. CASE sequences[q].repeat # 1
  <2>1. /\ DOMAIN runners' = DOMAIN runners \cup {q}
        /\ runners'[q] = [session |-> current, def |-> sequences[q], sent |-> 1]
        /\ \A r \in DOMAIN runners : runners'[r] = runners[r]
        /\ running_ids' = running_ids \cup {q}
    BY <1>1, <1>5
  <2> DEFINE more == IF sequences[q].bytes = 0 THEN {} ELSE {q}
  <2>6. tints' = [tints EXCEPT ![current] = tints[current] \cup more]
    <3>1. tints \in [Port -> SUBSET SeqId]  BY DEF RunInv, RunTypes
    <3> QED BY <1>1, <1>3, <1>5, <3>1
  <2>2. q \in SeqId  BY DEF RunInv, RunTypes
  <2>3. RunTypes'
    <3>1. tints' \in [Port -> SUBSET SeqId]  BY <1>3, <2>6, <2>2 DEF RunInv, RunTypes
    <3>2. \A r \in DOMAIN runners' :
             runners'[r] = [session |-> runners'[r].session, def |-> runners'[r].def,
                            sent |-> runners'[r].sent]
      BY <2>1 DEF RunInv, RunTypes
    <3> QED BY <1>1, <3>1, <3>2 DEF RunInv, RunTypes
  <2>4. RunsHaveSessions'
    <3>1. \A r \in DOMAIN runners' : runners'[r].session \in sessions'
      BY <1>1, <1>2, <2>1 DEF RunInv, RunsHaveSessions
    <3>2. ASSUME NEW p \in Port
          PROVE  tints'[p] = {r \in DOMAIN runners' :
                                 runners'[r].session = p /\ runners'[r].def.bytes # 0}
      <4>1. tints[p] = {r \in DOMAIN runners :
                           runners[r].session = p /\ runners[r].def.bytes # 0}
        BY Highlighted DEF RunInv
      <4>2. tints \in [Port -> SUBSET SeqId]  BY DEF RunInv, RunTypes
      <4>3. tints'[p] = IF p = current THEN tints[p] \cup more ELSE tints[p]
        BY <1>3, <2>6, <4>2
      <4>4. q \in more <=> sequences[q].bytes # 0  OBVIOUS
      <4>5. more \subseteq {q}  OBVIOUS
      <4> HIDE DEF more
      <4> QED BY <1>1, <2>1, <4>1, <4>3, <4>4, <4>5
    <3> QED BY <3>1, <3>2 DEF RunsHaveSessions, TargetedRuns
  <2>5. RowsTellRuns' /\ RowsListed'
    BY <1>1, <2>1 DEF RunInv, RowsTellRuns, RowsListed
  <2> QED BY <2>3, <2>4, <2>5 DEF RunInv
<1> QED BY <1>4, <1>5

\* Every step keeps the runs, the rows and the tints together.
LEMMA StepRuns == SessionInv /\ RunInv /\ [Next]_vars => RunInv'
<1> SUFFICES ASSUME SessionInv, RunInv, [Next]_vars PROVE RunInv'
  OBVIOUS
<1>1. /\ \A q \in DOMAIN runners : runners[q].session \in sessions
      /\ \A q \in DOMAIN runners :
            runners[q] = [session |-> runners[q].session, def |-> runners[q].def,
                          sent |-> runners[q].sent]
      /\ running_ids \subseteq DOMAIN sequences
      /\ DOMAIN sequences \subseteq SeqId
  BY DEF RunInv, RunTypes, RunsHaveSessions, RowsListed
<1>2. CASE \/ NewConnection \/ NewTap \/ StatusEvent \/ SelectTab \/ ToggleConnection
           \/ TriggerFired \/ TerminalSend \/ CloseTap \/ UNCHANGED vars
           \/ \E i \in DOMAIN drips : Drip(i)
  <2>1. UNCHANGED sequenceVars
    BY <1>2 DEF NewConnection, NewTap, StatusEvent, SelectTab, ToggleConnection, TriggerFired,
                TerminalSend, CloseTap, vars, Drip
  <2>2. sessions \subseteq sessions'
    BY <1>2 DEF NewConnection, NewTap, StatusEvent, SelectTab, ToggleConnection, TriggerFired,
                TerminalSend, CloseTap, vars, Drip, OpenAll, StatusSet, FlagError, Transmit,
                sessionVars
  <2> QED BY <2>1, <2>2, RunsUntouched
<1>3. CASE SendSequence  BY <1>3, SendKeeps
<1>4. CASE StopSequence
  <2>1. PICK q \in running_ids \cap DOMAIN runners : Finished({q}, runners)
    BY <1>4 DEF StopSequence
  <2>2. sessions' = sessions /\ sequences' = sequences  BY <1>4 DEF StopSequence, sessionVars
  <2> QED BY <1>1, <2>1, <2>2, FinishedKeeps
<1>5. CASE AddSequence
  <2>1. PICK q \in SeqId \ DOMAIN sequences, def \in SeqDef :
            Refresh([r \in DOMAIN sequences \cup {q} |-> IF r = q THEN def ELSE sequences[r]])
    BY <1>5 DEF AddSequence
  <2>2. UNCHANGED <<sessions, runners, tints, orphans>>  BY <1>5 DEF AddSequence, sessionVars
  <2> QED BY <1>1, <2>1, <2>2, RefreshKeeps
<1>6. CASE EditSequence
  <2>1. PICK q \in DOMAIN sequences, def \in SeqDef :
            Refresh([sequences EXCEPT ![q] = [def EXCEPT !.slow = FALSE]])
    BY <1>6 DEF EditSequence
  <2>2. UNCHANGED <<sessions, runners, tints, orphans>>  BY <1>6 DEF EditSequence, sessionVars
  <2>3. DOMAIN [sequences EXCEPT ![q] = [def EXCEPT !.slow = FALSE]] = DOMAIN sequences
    OBVIOUS
  <2> QED BY <1>1, <2>1, <2>2, <2>3, RefreshKeeps
<1>7. CASE DeleteSequence
  <2>1. PICK q \in DOMAIN sequences \ running_ids :
            Refresh([r \in DOMAIN sequences \ {q} |-> sequences[r]])
    BY <1>7 DEF DeleteSequence
  <2>2. UNCHANGED <<sessions, runners, tints, orphans>>
    BY <1>7 DEF DeleteSequence, sessionVars
  <2> QED BY <1>1, <2>1, <2>2, RefreshKeeps
<1>8. CASE CloseSession
  <2>1. PICK s \in sessions :
            /\ Finished(RunsToStop(s), runners)
            /\ sessions' = sessions \/ sessions' = sessions \ {s}
    BY <1>8 DEF CloseSession, RemoveTab, sessionVars
  <2>2. sequences' = sequences  BY <1>8 DEF CloseSession
  <2>3. /\ RunsToStop(s) \subseteq DOMAIN runners
        /\ \A q \in DOMAIN runners \ RunsToStop(s) : runners[q].session # s
    BY DEF RunsToStop, TargetedRuns
  <2> QED BY <1>1, <2>1, <2>2, <2>3, FinishedKeeps
<1>9. CASE LoadProject
  <2>1. PICK file \in Project :
            /\ Refresh(file.sequences)
            /\ orphans' = (orphans \cup running_ids) \ running_ids'
            /\ \E outcome \in [file.ports -> {"connected", "error"}] :
                  OpenAll(file.ports, file.taps, outcome)
    BY <1>9 DEF LoadProject
  <2>2. runners' = runners /\ tints' = tints /\ sessions \subseteq sessions'
    BY <1>9, <2>1 DEF LoadProject, OpenAll
  <2>3. DOMAIN file.sequences \subseteq SeqId  BY MainWindowAssumption
  <2> QED BY <2>1, <2>2, <2>3, RefreshKeeps
<1>10. CASE CloseWindow
  <2>1. Finished(DOMAIN runners, runners) /\ sequences' = sequences
    BY <1>10 DEF CloseWindow
  <2> QED BY <1>1, <2>1, FinishedKeeps
<1>11. ASSUME NEW q \in SeqId, RunnerTimeout(q) PROVE RunInv'
  <2> DEFINE rs == [runners EXCEPT ![q].sent = @ + 1]
             ended == IF LastSend(runners[q]) \/ ~Connected(runners[q].session) THEN {q} ELSE {}
  <2>1. q \in DOMAIN runners /\ Finished(ended, rs) /\ sequences' = sequences
    BY <1>11 DEF RunnerTimeout
  <2>2. sessions' = sessions
    BY <1>11, TransmitKeepsSessions DEF RunnerTimeout, sessionVars
  <2>3. DOMAIN rs = DOMAIN runners  OBVIOUS
  <2>4. ASSUME NEW r \in DOMAIN runners
        PROVE  /\ rs[r] = [session |-> rs[r].session, def |-> rs[r].def, sent |-> rs[r].sent]
               /\ rs[r].session = runners[r].session /\ rs[r].def = runners[r].def
    <3>1. CASE r = q
      <4>1. rs[r] = [runners[q] EXCEPT !.sent = runners[q].sent + 1]  BY <2>1, <3>1
      <4>2. runners[q] = [session |-> runners[q].session, def |-> runners[q].def,
                          sent |-> runners[q].sent]
        BY <1>1, <2>1
      <4>3. rs[r] = [session |-> runners[q].session, def |-> runners[q].def,
                     sent |-> runners[q].sent + 1]
        BY <4>1, <4>2
      <4> HIDE DEF rs
      <4> QED BY <3>1, <4>3
    <3>2. CASE r # q
      <4>1. rs[r] = runners[r]  BY <3>2
      <4> HIDE DEF rs
      <4> QED BY <1>1, <4>1
    <3> QED BY <3>1, <3>2
  <2>5. ended \subseteq DOMAIN runners  BY <2>1
  <2> HIDE DEF rs, ended
  <2> QED BY <1>1, <2>1, <2>2, <2>3, <2>4, <2>5, FinishedKeeps
<1> QED BY <1>2, <1>3, <1>4, <1>5, <1>6, <1>7, <1>8, <1>9, <1>10, <1>11 DEF Next

-----------------------------------------------------------------------------
LEMMA InitWindow == Init => WindowIInv
<1> SUFFICES ASSUME Init PROVE WindowIInv
  OBVIOUS
<1>1. SessionTypes
  <2>1. status \in [Port -> Statuses \cup {"unused"}]  BY DEF Init
  <2>2. title \in [Port -> [icon : Statuses \cup {"unused", NoIcon}, flag : BOOLEAN]]
    BY DEF Init
  <2> QED BY <2>1, <2>2 DEF SessionTypes
<1>2. WindowTellsTruth
  <2>1. LabelOf(NoTab, status) = "Connect"
    BY DEF Init, LabelOf
  <2>2. status_bar = BarOf(current, status)  BY MainWindowAssumption DEF Init, BarOf
  <2> QED BY <2>1, <2>2 DEF Init, WindowTellsTruth
<1>3. DOMAIN runners = {} /\ DOMAIN sequences = {}
  <2>1. DOMAIN << >> = {}  OBVIOUS
  <2> QED BY <2>1 DEF Init
<1>4. RunTypes
  <2>1. tints \in [Port -> SUBSET SeqId]  BY DEF Init
  <2> QED BY <1>3, <2>1 DEF RunTypes
<1>5. RunsHaveSessions  BY <1>3 DEF Init, RunsHaveSessions, TargetedRuns
<1>6. RowsTellRuns /\ RowsListed  BY <1>3 DEF Init, RowsTellRuns, RowsListed
<1> QED BY <1>1, <1>2, <1>4, <1>5, <1>6 DEF WindowIInv, SessionInv, RunInv

\* The registries of sessions, and those of runs, agree after every step.
THEOREM WindowInductive == Spec => []WindowIInv
<1>1. WindowIInv /\ [Next]_vars => WindowIInv'
  BY StepSessions, StepRuns DEF WindowIInv
<1> QED BY <1>1, InitWindow, PTL DEF Spec

\* The three lists of sessions are one, and what the window says of the
\* session in front is true.
THEOREM WindowIsTruthful == Spec => []WindowTellsTruth
<1>1. WindowIInv => WindowTellsTruth  BY DEF WindowIInv, SessionInv
<1> QED BY <1>1, WindowInductive, PTL

\* A run has an open session, whose terminal highlights it and nothing else.
THEOREM RunsStayInSessions == Spec => []RunsHaveSessions
<1>1. WindowIInv => RunsHaveSessions  BY DEF WindowIInv, RunInv
<1> QED BY <1>1, WindowInductive, PTL

\* A row shows Stop while its sequence runs, and what runs can be stopped
\* unless a project took its row away.
THEOREM RowsAreTruthful == Spec => []RowsTellRuns
<1>1. WindowIInv => RowsTellRuns  BY DEF WindowIInv, RunInv
<1> QED BY <1>1, WindowInductive, PTL
=============================================================================
