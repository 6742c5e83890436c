------------------------------ MODULE Consumers ------------------------------
(***************************************************************************)
(* What the bytes of a session feed besides its terminal, and the threads  *)
(* that act on sessions: the session's own log and the log of all sessions *)
(* (core/log_manager.py above its writer threads, which LogWriter models), *)
(* core/data_pipeline.py, scripting/runtime.py with ui/script_panel.py,    *)
(* api/server.py, and the handlers of ui/main_window.py that join them.    *)
(*                                                                         *)
(* Three threads: the main thread, which may sit in a wait for the API     *)
(* server (main); the script's thread, whose calls are queued signals; the *)
(* server's event loop.  A log's writer is taken to write at once, and no  *)
(* filter to be set.                                                       *)
(***************************************************************************)
EXTENDS Integers, FiniteSets, SequencesExt

CONSTANTS
    Session,                \* the sessions, each with its tab
    Path, NoLog,            \* the paths that logs are given, and none
    RING_SIZE, HIGH_WATER,  \* RING_BUFFER_SIZE and HIGH_WATER_MARK
    MaxChunks,              \* bound: chunks received
    MaxPosted,              \* bound: calls of a script that wait for the main thread
    MaxUses                 \* bound: what the user, a script and the API clients do

ASSUME ConsumersAssumption ==
    /\ NoLog \notin Path
    /\ {RING_SIZE, HIGH_WATER} \subseteq Nat \ {0}
    /\ {MaxChunks, MaxPosted, MaxUses} \subseteq Nat

VARIABLES
    main,           \* the main thread: "loop", "waiting" for the server, "closing", "ended"
    connected,      \* the sessions that are connected
    current,        \* the session of the tab in front
    fed,            \* how many chunks each session has received
    pipeline,       \* [ring, dropped, warned] of each DataPipeline
    log,            \* path of the open log of each LogManager, or NoLog
    since,          \* history: fed when that log was opened
    apart,          \* history: whose log has had its file for itself
    button,         \* whether the terminal's log button says ON
    files,          \* text: what is in each file; pos: where each log writes next
    slog_open, slog_file,   \* SessionLogger: _writer is not None; its file
    copy,           \* the last export
    script,         \* its thread: "none", "running", "returned"
    posted,         \* its signals to the main thread
    callbacks,      \* _receive_callbacks is not empty
    run_enabled,    \* the panel's Run button
    api,            \* the server's thread: "off", "starting", "serving", "exiting"
    api_ref,        \* MainWindow._api_server is not None
    frames,         \* how many broadcasts are scheduled on its event loop
    stream,         \* what the last WebSocket request came to
    uses

logVars == <<log, since, apart, button, files>>
slogVars == <<slog_open, slog_file, copy>>
feedVars == <<fed, pipeline>>
scriptVars == <<script, posted, callbacks, run_enabled>>
apiVars == <<api, api_ref, frames, stream>>
consumersVars == <<main, connected, current, feedVars, logVars, slogVars, scriptVars, apiVars,
                   uses>>

Use == uses < MaxUses /\ uses' = uses + 1
Loop == main = "loop"
Rx(s, n) == [session |-> s, direction |-> "RX", n |-> n]
Tx(s) == [session |-> s, direction |-> "TX", n |-> 0]

-----------------------------------------------------------------------------
(* Logs.                                                                    *)

\* What a file has where nobody has written.
Hole == [session |-> NoLog, direction |-> "none", n |-> 0]

\* A file opened twice is written by each at its own place.
WriteAt(text, at, rec) ==
    IF at = Len(text) THEN Append(text, rec)
    ELSE [i \in 1..IF at < Len(text) THEN Len(text) ELSE at + 1 |->
            IF i = at + 1 THEN rec ELSE IF i <= Len(text) THEN text[i] ELSE Hole]

\* LogManager.feed of a session.
OwnFeed(fs, rec) ==
    LET s == rec.session IN
    IF log[s] = NoLog THEN fs
    ELSE [text |-> [fs.text EXCEPT ![log[s]] = WriteAt(@, fs.pos[s], rec)],
          pos |-> [fs.pos EXCEPT ![s] = @ + 1]]

\* SessionLogger.feed of some records.
SessionFeed(recs) ==
    /\ slog_file' = IF slog_open THEN slog_file \o recs ELSE slog_file
    /\ UNCHANGED <<slog_open, copy>>

\* Mutant of StartLog: the file is opened to append.
StartLogAppends(s, path, opens) ==
    LET others == {t \in Session \ {s} : log[t] = path} IN
    /\ log' = [log EXCEPT ![s] = IF opens THEN path ELSE NoLog]
    /\ since' = [since EXCEPT ![s] = fed[s]]
    /\ button' = [button EXCEPT ![s] = opens]
    /\ IF opens
       THEN /\ files' = [files EXCEPT !.pos[s] = Len(files.text[path])]
            /\ apart' = (apart \ (others \cup {s})) \cup {t \in {s} : others = {}}
       ELSE UNCHANGED <<files, apart>>

\* start_logging: an open log is stopped, and the file truncated, whoever else
\* writes it: the path that the name and the time make, or the one that the log
\* panel or a script gives, may be another session's.  A path that cannot be
\* opened is an error, which the button shows as a stop.
StartLog(s, path, opens) ==
    LET others == {t \in Session \ {s} : log[t] = path} IN
    /\ log' = [log EXCEPT ![s] = IF opens THEN path ELSE NoLog]
    /\ since' = [since EXCEPT ![s] = fed[s]]
    /\ button' = [button EXCEPT ![s] = opens]
    /\ IF opens
       THEN /\ files' = [files EXCEPT !.text[path] = << >>, !.pos[s] = 0]
            /\ apart' = (apart \ (others \cup {s})) \cup {t \in {s} : others = {}}
       ELSE UNCHANGED <<files, apart>>

\* stop_logging: logging_stopped is signalled only by an open log.
StopLogs(which) ==
    /\ log' = [s \in Session |-> IF s \in which THEN NoLog ELSE log[s]]
    /\ button' = [s \in Session |-> button[s] /\ ~(s \in which /\ log[s] # NoLog)]
    /\ UNCHANGED <<since, apart, files>>

\* The log button of a tab, the toolbar, the log panel (of the tab in front).
UserLog ==
    /\ Loop /\ Use
    /\ \E s \in Session :
          \/ /\ ~button[s] \/ s = current
             /\ \E path \in Path, opens \in BOOLEAN : StartLog(s, path, opens)
          \/ StopLogs({s})
    /\ UNCHANGED <<main, connected, current, feedVars, slogVars, scriptVars, apiVars>>

\* export() of the session log: closed, copied, opened again to append.  Each of
\* the two may fail; a log that does not open again accepts nothing more.
Export ==
    /\ Loop /\ Use
    /\ \E copied, reopens \in BOOLEAN :
          /\ copy' = IF copied THEN slog_file ELSE copy
          /\ slog_open' = (slog_open /\ reopens)
    /\ UNCHANGED <<slog_file, main, connected, current, feedVars, logVars, scriptVars, apiVars>>

-----------------------------------------------------------------------------
(* Data in and out.                                                         *)

\* DataPipeline.feed.  The high-water warning is armed again below half the mark.
PipelineFeed(p) ==
    [ring |-> IF p.ring >= RING_SIZE THEN p.ring ELSE p.ring + 1,
     dropped |-> IF p.ring >= RING_SIZE THEN p.dropped + 1 ELSE p.dropped,
     warned |-> \/ p.warned /\ p.ring >= HIGH_WATER \div 2
                \/ p.ring >= HIGH_WATER /\ p.ring < RING_SIZE
                \/ p.warned /\ p.ring >= RING_SIZE]

\* push_data: with a server whose loop runs, a broadcast is scheduled there.
Pushed == IF api_ref /\ api = "serving" THEN frames + 1 ELSE frames

\* Fewer than MaxChunks chunks have come.
MoreChunks == FoldFunctionOnSet(+, 0, fed, Session) < MaxChunks

\* A merged chunk: the pipeline, the session's log, then the slots of
\* data_received in the order add_port_tab has made them: a script's callbacks,
\* which may reply at once to the tab in front, the session log, the API.
Receive(s) ==
    /\ Loop
    /\ s \in connected
    /\ MoreChunks
    /\ fed' = [fed EXCEPT ![s] = @ + 1]
    /\ pipeline' = [pipeline EXCEPT ![s] = PipelineFeed(@)]
    /\ \E replies \in BOOLEAN :
          LET rec == Rx(s, fed[s] + 1)
              own == OwnFeed(files, rec)
          IN /\ replies => callbacks /\ current \in connected
             /\ files' = IF replies THEN OwnFeed(own, Tx(current)) ELSE own
             /\ SessionFeed(IF replies THEN <<Tx(current), rec>> ELSE <<rec>>)
    /\ frames' = Pushed
    /\ UNCHANGED <<main, connected, current, log, since, apart, button, scriptVars, api, api_ref,
                   stream, uses>>

\* _transmit to a session: nothing unless it is connected.
TransmitTo(s) ==
    IF s \in connected
    THEN files' = OwnFeed(files, Tx(s)) /\ SessionFeed(<<Tx(s)>>)
    ELSE UNCHANGED <<files, slogVars>>

\* _on_terminal_send: the session log has it even when the session refuses it.
TerminalSend ==
    /\ Loop /\ Use
    /\ \E s \in Session :
          /\ files' = IF s \in connected THEN OwnFeed(files, Tx(s)) ELSE files
          /\ SessionFeed(<<Tx(s)>>)
    /\ UNCHANGED <<main, connected, current, feedVars, log, since, apart, button, scriptVars, apiVars>>

\* A connection is made, or closed: disconnect() stops the session's log.
Toggle ==
    /\ Loop /\ Use
    /\ \E s \in Session :
          IF s \in connected THEN connected' = connected \ {s} /\ StopLogs({s})
                             ELSE connected' = connected \cup {s} /\ UNCHANGED logVars
    /\ UNCHANGED <<main, current, feedVars, slogVars, scriptVars, apiVars>>

SelectTab ==
    /\ Loop /\ Use
    /\ current' \in Session \ {current}
    /\ UNCHANGED <<main, connected, feedVars, logVars, slogVars, scriptVars, apiVars>>

-----------------------------------------------------------------------------
(* Scripts.                                                                 *)

notScript == <<main, connected, current, feedVars, logVars, slogVars, apiVars>>

\* run_script, from the Run button.  A thread that has not quite ended makes it
\* do nothing.
RunScript ==
    /\ Loop /\ Use
    /\ run_enabled
    /\ IF script # "none" THEN UNCHANGED scriptVars
       ELSE /\ script' = "running"
            /\ callbacks' = FALSE
            /\ run_enabled' = FALSE
            /\ UNCHANGED posted
    /\ UNCHANGED notScript

\* kcom.send, start_logging and stop_logging are posted; on_receive is not.
ScriptCalls ==
    /\ script = "running" /\ main # "ended" /\ Use
    /\ \/ /\ Len(posted) < MaxPosted
          /\ \E call \in {"send", "start_logging", "stop_logging"} : posted' = Append(posted, call)
          /\ UNCHANGED callbacks
       \/ ~callbacks /\ callbacks' = TRUE /\ UNCHANGED posted
    /\ UNCHANGED <<notScript, script, run_enabled>>

\* Mutant of ScriptReturns: the end of a script that raised is posted nowhere.
ScriptReturnsSilently ==
    /\ script = "running" /\ main # "ended"
    /\ script' = "returned"
    /\ \/ posted' = Append(posted, "finished")
       \/ UNCHANGED posted
    /\ UNCHANGED <<notScript, callbacks, run_enabled, uses>>

\* The script ends, by itself or by an exception: script_finished or
\* script_error is posted by a thread that is still alive.
ScriptReturns ==
    /\ script = "running" /\ main # "ended"
    /\ script' = "returned"
    /\ posted' = Append(posted, "finished")
    /\ UNCHANGED <<notScript, callbacks, run_enabled, uses>>

ThreadEnds ==
    /\ script = "returned"
    /\ script' = "none"
    /\ UNCHANGED <<notScript, posted, callbacks, run_enabled, uses>>

\* The main thread serves a script's signal, for the tab in front by now.
ServePosted ==
    /\ Loop
    /\ posted # << >>
    /\ posted' = Tail(posted)
    /\ LET call == Head(posted) IN
       /\ run_enabled' = (run_enabled \/ call = "finished")
       /\ \/ call = "send" /\ TransmitTo(current) /\ UNCHANGED <<log, since, apart, button>>
          \/ /\ call = "start_logging"
             /\ \E path \in Path, opens \in BOOLEAN : StartLog(current, path, opens)
             /\ UNCHANGED slogVars
          \/ call = "stop_logging" /\ StopLogs({current}) /\ UNCHANGED slogVars
          \/ call = "finished" /\ UNCHANGED <<logVars, slogVars>>
    /\ UNCHANGED <<main, connected, current, feedVars, script, callbacks, apiVars, uses>>

-----------------------------------------------------------------------------
(* The API server.                                                          *)

notApi == <<connected, current, feedVars, logVars, slogVars, scriptVars>>

\* _start_api_server.  A server beside one that was left running is out of the model.
StartApi ==
    /\ Loop /\ Use
    /\ api = "off" /\ ~api_ref
    /\ api' = "starting" /\ api_ref' = TRUE
    /\ UNCHANGED <<main, notApi, frames, stream>>

\* run(): the loop runs, or serving has failed.
ServerStarts ==
    /\ api = "starting"
    /\ api' \in {"serving", "off"}
    /\ UNCHANGED <<main, notApi, api_ref, frames, stream, uses>>

\* stop() asks a server to exit only when its loop runs already.
AskToExit == api' = IF api = "serving" THEN "exiting" ELSE api

\* _stop_api_server, after a change of the settings.
StopApi ==
    /\ Loop /\ Use
    /\ api_ref
    /\ AskToExit
    /\ main' = "waiting"
    /\ UNCHANGED <<notApi, api_ref, frames, stream>>

\* run() ends: the loop is closed, with what is scheduled on it.
ServerExits ==
    /\ api = "exiting"
    /\ api' = "off"
    /\ frames' = 0
    /\ UNCHANGED <<main, notApi, api_ref, stream, uses>>

\* Mutant of WaitReturns: the wait has no limit.
WaitReturnsJoined ==
    /\ main \in {"waiting", "closing"}
    /\ api = "off"
    /\ main' = IF main = "waiting" THEN "loop" ELSE "ended"
    /\ api_ref' = FALSE
    /\ UNCHANGED <<notApi, api, frames, stream, uses>>

\* wait(3000) returns: the thread has ended, or the time is over.
WaitReturns ==
    /\ main \in {"waiting", "closing"}
    /\ main' = IF main = "waiting" THEN "loop" ELSE "ended"
    /\ api_ref' = FALSE
    /\ UNCHANGED <<notApi, api, frames, stream, uses>>

\* A request for ws_stream.  Its parameter websocket is not annotated: FastAPI
\* takes it for one of the query, and refuses a request without it; the string
\* that another brings has no accept().
Subscribe ==
    /\ api = "serving" /\ Use
    /\ stream' \in {"refused", "failed"}
    /\ UNCHANGED <<main, notApi, api, api_ref, frames>>

\* _broadcast: no connection has a queue.
Broadcast ==
    /\ api \in {"serving", "exiting"}
    /\ frames > 0
    /\ frames' = frames - 1
    /\ UNCHANGED <<main, notApi, api, api_ref, stream, uses>>

\* send_to_session calls session.send on a thread of the server: the session's
\* log has it, the terminal and the session log do not.
ApiSends ==
    /\ api = "serving" /\ Use
    /\ \E s \in connected : files' = OwnFeed(files, Tx(s))
    /\ UNCHANGED <<main, connected, current, feedVars, log, since, apart, button, slogVars,
                   scriptVars, apiVars>>

\* closeEvent: the sessions are closed, then the session log, then the server.
CloseWindow ==
    /\ Loop
    /\ main' = "closing"
    /\ connected' = {}
    /\ StopLogs(Session)
    /\ slog_open' = FALSE
    /\ AskToExit
    /\ UNCHANGED <<current, feedVars, slog_file, copy, scriptVars, api_ref, frames, stream,
                   uses>>

-----------------------------------------------------------------------------
ConsumersInit ==
    /\ main = "loop"
    /\ connected = {} /\ current \in Session
    /\ fed = [s \in Session |-> 0]
    /\ pipeline = [s \in Session |-> [ring |-> 0, dropped |-> 0, warned |-> FALSE]]
    /\ log = [s \in Session |-> NoLog] /\ since = fed /\ apart = {}
    /\ button = [s \in Session |-> FALSE]
    /\ files = [text |-> [p \in Path |-> << >>], pos |-> [s \in Session |-> 0]]
    /\ slog_open \in BOOLEAN /\ slog_file = << >> /\ copy = << >>
    /\ script = "none" /\ posted = << >> /\ callbacks = FALSE /\ run_enabled = TRUE
    /\ api = "off" /\ api_ref = FALSE /\ frames = 0 /\ stream = "none"
    /\ uses = 0

Server == ServerStarts \/ ServerExits \/ Broadcast

ConsumersNext ==
    \/ UserLog \/ Export \/ TerminalSend \/ Toggle \/ SelectTab \/ CloseWindow
    \/ \E s \in Session : Receive(s)
    \/ RunScript \/ ScriptCalls \/ ScriptReturns \/ ThreadEnds \/ ServePosted
    \/ StartApi \/ StopApi \/ WaitReturns \/ Subscribe \/ ApiSends \/ Server

ConsumersSpec == ConsumersInit /\ [][ConsumersNext]_consumersVars

\* The wait has its time limit, the main thread serves what is posted, and the
\* server's loop runs.
FairConsumers ==
    /\ ConsumersSpec
    /\ WF_consumersVars(WaitReturns) /\ WF_consumersVars(ServePosted) /\ WF_consumersVars(Server)

-----------------------------------------------------------------------------
(* Properties.                                                              *)

\* The places of the records of s, and of its chunks in a file.
PlacesOf(recs, s) == {i \in DOMAIN recs : recs[i].session = s}
ChunksOf(file, s) == {i \in PlacesOf(file, s) : file[i].direction = "RX"}

\* The records at the places I have the numbers lo + 1 to hi, in this order.
Numbered(recs, I, lo, hi) ==
    /\ {recs[i].n : i \in I} = lo + 1..hi
    /\ \A i, j \in I : i < j => recs[i].n < recs[j].n

\* Whoever starts and stops it (the user, a script, a disconnect, an error), a
\* log that is open, and whose file no other session has opened meanwhile, has
\* every chunk of its own session from its start on and nothing of another,
\* whatever the file held before.  The button says whether a log is open, and
\* the pipeline has counted every chunk.
LogHoldsChunks ==
    \A s \in Session :
        /\ button[s] = (log[s] # NoLog)
        /\ log[s] # NoLog /\ s \in apart =>
              LET file == files.text[log[s]]
              IN /\ \A i \in DOMAIN file : file[i].session = s
                 /\ Numbered(file, ChunksOf(file, s), since[s], fed[s])
        /\ pipeline[s].ring + pipeline[s].dropped = fed[s]
        /\ pipeline[s].ring <= RING_SIZE
        /\ pipeline[s].dropped > 0 => pipeline[s].warned \/ HIGH_WATER >= RING_SIZE

\* The log of all sessions has every chunk of every session, in order, over
\* every export, until one leaves it closed; a copy is all that was there.
SessionLogKept ==
    /\ IsPrefix(copy, slog_file)
    /\ \A s \in Session : \E k \in 0..fed[s] :
          /\ Numbered(slog_file, ChunksOf(slog_file, s), 0, k)
          /\ slog_open => k = fed[s]

\* What holds of both kinds of logs in every state.
LogsKept == LogHoldsChunks /\ SessionLogKept

\* The Run button is on exactly when no script runs and every call of the last
\* one has been served.
PanelTellsScript ==
    run_enabled <=> script # "running" /\ posted = << >>

\* Stopping the server and closing the window come to an end, also when stop()
\* came before the server had a loop and it serves on.
WaitEnds == main \in {"waiting", "closing"} ~> main \in {"loop", "ended"}
=============================================================================
