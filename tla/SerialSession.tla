---------------------------- MODULE SerialSession ----------------------------
(***************************************************************************)
(* A PortSession over kcom/protocols/serial_port.py: the main (Qt) thread, *)
(* the reader thread, the queue of signals the reader posts to the main    *)
(* thread, the reconnect timer and the serial device.                      *)
(*                                                                         *)
(* A handler that connect() replaces is destroyed by Qt: its timer and the *)
(* signals queued for it go with it.  Its reader thread does not: Python   *)
(* keeps the running thread, and with it the open port, alive.             *)
(***************************************************************************)
EXTENDS PortSession

CONSTANTS
    AUTO_RECONNECT, \* config.auto_reconnect
    MaxQueue,       \* bound: signals posted and not yet served
    Worker          \* threads of the REST server that may send

ASSUME SerialSessionAssumption ==
    /\ AUTO_RECONNECT \in BOOLEAN
    /\ MaxQueue \in Nat \ {0}

VARIABLES
    serial,     \* _serial is an open port
    reader,     \* where the thread of _reader_thread is in run()
    running,    \* its _running flag
    orphan,     \* a thread no handler refers to still reads an open port
    queue,      \* signals posted by the reader to the main thread
    reconnect,  \* _reconnect_timer is active
    user_disc,  \* _user_disconnected
    main,       \* the main thread: in the event loop, or in stop()'s wait
    device,     \* the port exists and can be opened
    api         \* what each worker's send() is at

serialVars == <<serial, reader, running, orphan, queue, reconnect, user_disc,
                main, device, api>>
vars == <<sessionVars, serialVars>>

\* A reader is made (start() called), tests its flag, polls the port, has
\* returned from run(); or _reader_thread is None.
ReaderPlace == {"None", "starting", "test", "poll", "returned"}
Alive == {"starting", "test", "poll"}

\* A worker does not send, is between the test of is_connected() and the end of
\* its write, or has posted the error of its write to the main thread.
SendPlace == {"idle", "sending", "failed"}

Signal == [kind : {"data"}, size : Nat \ {0}, ts : Nat] \cup [kind : {"error"}]

SerialTypeOK ==
    /\ TypeOK
    /\ serial \in BOOLEAN
    /\ reader \in ReaderPlace
    /\ running \in BOOLEAN
    /\ orphan \in BOOLEAN
    /\ queue \in Seq(Signal) /\ Len(queue) <= MaxQueue + 1
    /\ reconnect \in BOOLEAN
    /\ user_disc \in BOOLEAN
    /\ main \in {"loop", "stopping"}
    /\ device \in BOOLEAN
    /\ api \in [Worker -> SendPlace]

Init ==
    /\ SessionInit
    /\ serial = FALSE
    /\ reader = "None"
    /\ running = FALSE
    /\ orphan = FALSE
    /\ queue = << >>
    /\ reconnect = FALSE
    /\ user_disc = FALSE
    /\ main = "loop"
    /\ device \in BOOLEAN
    /\ api = [w \in Worker |-> "idle"]

sessionIdle == <<rxVars, logVars, rcvd, outVars, now>>

-----------------------------------------------------------------------------
(* Opening the port.                                                        *)

\* _do_connect: either the port opens and a reader starts, or the handler
\* signals the error and returns.
DoConnect ==
    IF device
    THEN /\ serial' = TRUE
         /\ reader' = "starting"
         /\ running' = FALSE
         /\ status' = "connected"
    ELSE /\ status' = "error"
         /\ UNCHANGED <<serial, reader, running>>

\* Mutant of UserConnect: starts the new connection with an empty coalescer.
UserConnectDropsHeld ==
    /\ main = "loop"
    /\ status # "connected"
    /\ has_protocol' = TRUE
    /\ rx_buffer' = << >>
    /\ rx_buffer_size' = 0
    /\ orphan' = (orphan \/ reader \in Alive)
    /\ queue' = << >>
    /\ reconnect' = FALSE
    /\ user_disc' = FALSE
    /\ IF device
       THEN serial' = TRUE /\ reader' = "starting" /\ status' = "connected"
       ELSE serial' = FALSE /\ reader' = "None" /\ status' = "error"
    /\ running' = FALSE
    /\ UNCHANGED <<rx_first_ts, rx_timer, logVars, rcvd, outVars, now, main, device,
                   api>>

\* Errors posted for the workers of the handler that is replaced: Qt may still
\* deliver them or drop them with it.
LateErrors ==
    \E late \in SUBSET Worker :
        api' = [w \in Worker |->
                  IF api[w] = "failed" /\ w \notin late THEN "idle" ELSE api[w]]

\* PortSession.connect, from the toolbar or from SessionManager: CONNECTING,
\* and a new handler whose predecessor is dropped without being disconnected.
UserConnect ==
    /\ main = "loop"
    /\ status # "connected"
    /\ has_protocol' = TRUE
    /\ orphan' = (orphan \/ reader \in Alive)
    /\ queue' = << >>
    /\ reconnect' = FALSE
    /\ user_disc' = FALSE
    /\ IF device
       THEN serial' = TRUE /\ reader' = "starting" /\ status' = "connected"
       ELSE serial' = FALSE /\ reader' = "None" /\ status' = "error"
    /\ running' = FALSE
    /\ LateErrors
    /\ UNCHANGED <<sessionIdle, main, device>>

\* _reconnect_timer.timeout
ReconnectTimeout ==
    /\ main = "loop"
    /\ reconnect
    /\ reconnect' = FALSE
    /\ DoConnect
    /\ UNCHANGED <<has_protocol, sessionIdle, orphan, queue, user_disc, main, device, api>>

-----------------------------------------------------------------------------
(* The reader thread: SerialReaderThread.run.                               *)

readerIdle == <<sessionVars, serial, orphan, reconnect, user_disc, main, device, api>>

\* The thread begins to run, and sets the flag itself.
ReaderStart ==
    /\ reader = "starting"
    /\ reader' = "test"
    /\ running' = TRUE
    /\ UNCHANGED <<readerIdle, queue>>

ReaderTest ==
    /\ reader = "test"
    /\ reader' = IF running THEN "poll" ELSE "returned"
    /\ UNCHANGED <<readerIdle, running, queue>>

\* Bytes are waiting: read them and post them with the time of the read.
ReaderRead(n) ==
    /\ reader = "poll"
    /\ serial /\ device
    /\ Len(queue) < MaxQueue
    /\ reader' = "test"
    /\ queue' = Append(queue, [kind |-> "data", size |-> n, ts |-> now])
    /\ UNCHANGED <<readerIdle, running>>

ReaderIdles ==
    /\ reader = "poll"
    /\ serial /\ device
    /\ reader' = "test"
    /\ UNCHANGED <<readerIdle, running, queue>>

\* The port raises (it is gone, or was closed under the thread): post the
\* error and leave the loop.
ReaderFails ==
    /\ reader = "poll"
    /\ serial /\ ~device
    /\ reader' = "returned"
    /\ queue' = Append(queue, [kind |-> "error"])
    /\ UNCHANGED <<readerIdle, running>>

\* An orphan's reads are lost; it ends when its port fails.
OrphanFails ==
    /\ orphan /\ ~device
    /\ orphan' = FALSE
    /\ UNCHANGED <<sessionVars, serial, reader, running, queue, reconnect, user_disc,
                   main, device, api>>

-----------------------------------------------------------------------------
(* The main thread serves what the reader posted.                           *)

handlerIdle == <<serial, reader, running, orphan, user_disc, device, api>>

\* Mutant of BeginDisconnect: leaves the reconnect timer running.
BeginDisconnectKeepsRetry ==
    /\ user_disc' = TRUE
    /\ reconnect' = reconnect
    /\ running' = FALSE
    /\ main' = "stopping"

\* disconnect(), up to the wait in the reader's stop().
BeginDisconnect ==
    /\ user_disc' = TRUE
    /\ reconnect' = FALSE
    /\ running' = FALSE
    /\ main' = "stopping"

\* What a trigger that fires in the fan-out does here: nothing, a reply whose
\* write fails, or a disconnect().
SerialReaction(timer) ==
    /\ rx_timer' = timer
    /\ UNCHANGED <<is_logging, serial, reader, orphan, device, api>>
    /\ \/ UNCHANGED <<status, reconnect, user_disc, running, main>>
       \/ /\ serial
          /\ status = "connected"
          /\ status' = "error"
          /\ UNCHANGED <<reconnect, user_disc, running, main>>
       \/ /\ status = "connected"
          /\ BeginDisconnect
          /\ UNCHANGED <<status>>

ServeData ==
    /\ main = "loop"
    /\ queue # << >> /\ Head(queue).kind = "data"
    /\ LET ts == Head(queue).ts
           chunk == Chunk(Head(queue).size, ts)
       IN /\ Len(rcvd) + Len(chunk) <= MaxBytes
          /\ now + WINDOW <= MaxTime
          /\ Take(chunk)
          /\ \/ Hold(chunk, ts) /\ UNCHANGED <<handlerIdle, reconnect, main>>
             \/ ForceFlush(chunk, ts) /\ SerialReaction(rx_timer)
    /\ queue' = Tail(queue)

SerialRxTimeout ==
    /\ main = "loop"
    /\ TimerFlush
    /\ \/ rx_buffer # << >> /\ SerialReaction(Off)
       \/ /\ rx_buffer = << >>
          /\ rx_timer' = Off
          /\ UNCHANGED <<status, is_logging, handlerIdle, reconnect, main>>
    /\ UNCHANGED queue

\* Mutant of ServeError: reconnects after a disconnect the user asked for.
ServeErrorAlwaysReconnects ==
    /\ main = "loop"
    /\ queue # << >> /\ Head(queue).kind = "error"
    /\ queue' = Tail(queue)
    /\ status' = "disconnected"
    /\ serial' = FALSE
    /\ reader' = "None"
    /\ reconnect' = (reconnect \/ AUTO_RECONNECT)
    /\ UNCHANGED <<has_protocol, sessionIdle, running, orphan, user_disc, main, device,
                   api>>

\* _on_reader_error: error_occurred, close, disconnected, and a reconnect
\* unless the user disconnected.
ServeError ==
    /\ main = "loop"
    /\ queue # << >> /\ Head(queue).kind = "error"
    /\ queue' = Tail(queue)
    /\ status' = "disconnected"
    /\ serial' = FALSE
    /\ reader' = "None"
    /\ reconnect' = (reconnect \/ (AUTO_RECONNECT /\ ~user_disc))
    /\ UNCHANGED <<has_protocol, sessionIdle, running, orphan, user_disc, main, device,
                   api>>

\* send() in the main thread: an open port is written; the write may fail, and
\* its error is shown at once.  The reader goes on.
WriteFails ==
    /\ main = "loop"
    /\ serial
    /\ status' = "error"
    /\ UNCHANGED <<has_protocol, sessionIdle, handlerIdle, queue, reconnect, main>>

\* send() in a worker of the REST server, past the test of is_connected().
ApiSend(w) ==
    /\ api[w] = "idle"
    /\ serial
    /\ api' = [api EXCEPT ![w] = "sending"]
    /\ UNCHANGED <<sessionVars, serial, reader, running, orphan, queue, reconnect, user_disc,
                   main, device>>

\* The write succeeds, or the handler's port is None by now and the request
\* fails; or the write raises, or finds the port closed, and posts an error.
ApiWrites(w) ==
    /\ api[w] = "sending"
    /\ \E end \in {"idle", "failed"} : api' = [api EXCEPT ![w] = end]
    /\ UNCHANGED <<sessionVars, serial, reader, running, orphan, queue, reconnect, user_disc,
                   main, device>>

\* The main thread serves it, whatever the session has become meanwhile:
\* _on_protocol_error shows ERROR.
ServeSendError(w) ==
    /\ main = "loop"
    /\ api[w] = "failed"
    /\ api' = [api EXCEPT ![w] = "idle"]
    /\ status' = "error"
    /\ UNCHANGED <<has_protocol, sessionIdle, serial, reader, running, orphan, queue,
                   reconnect, user_disc, main, device>>

-----------------------------------------------------------------------------
(* Disconnecting: the main thread waits for the reader, then closes.        *)

UserDisconnect ==
    /\ main = "loop"
    /\ has_protocol
    /\ BeginDisconnect
    /\ UNCHANGED <<sessionVars, serial, reader, orphan, queue, device, api>>

\* Mutant of EndDisconnect: stop() waits with no time limit.
EndDisconnectJoins ==
    /\ main = "stopping"
    /\ reader \notin Alive /\ UNCHANGED queue
    /\ main' = "loop"
    /\ Disconnect("disconnected")
    /\ serial' = FALSE
    /\ reader' = "None"
    /\ running' = FALSE
    /\ UNCHANGED <<orphan, reconnect, user_disc, device, api>>

\* stop() returned: the thread has ended, or three seconds have passed without
\* its ending, which takes a run() that set _running again after stop() had
\* cleared it.  The port is closed and the session flushed in either case; a
\* thread that is still alive then finds its port closed and ends, at its
\* is_open test or with a read error.
EndDisconnect ==
    /\ main = "stopping"
    /\ \/ reader \notin Alive /\ UNCHANGED queue
       \/ /\ reader \in {"test", "poll"} /\ running
          /\ queue' \in {queue, Append(queue, [kind |-> "error"])}
    /\ main' = "loop"
    /\ Disconnect("disconnected")
    /\ serial' = FALSE
    /\ reader' = "None"
    /\ running' = FALSE
    /\ UNCHANGED <<orphan, reconnect, user_disc, device, api>>

\* The log toggle, the clock and the device.
Environment ==
    \/ /\ main = "loop"
       /\ StartLogging \/ StopLogging
       /\ UNCHANGED serialVars
    \/ Tick /\ UNCHANGED serialVars
    \/ /\ device' = ~device
       /\ UNCHANGED <<sessionVars, serial, reader, running, orphan, queue, reconnect,
                      user_disc, main, api>>

Reader ==
    \/ ReaderStart
    \/ ReaderTest
    \/ \E n \in 1..MaxChunk : ReaderRead(n)
    \/ ReaderIdles
    \/ ReaderFails

Api == \E w \in Worker : ApiSend(w) \/ ApiWrites(w) \/ ServeSendError(w)

Main ==
    \/ ReconnectTimeout
    \/ ServeData
    \/ SerialRxTimeout
    \/ ServeError
    \/ EndDisconnect

Next ==
    \/ Main
    \/ Reader
    \/ OrphanFails
    \/ UserConnect
    \/ UserDisconnect
    \/ WriteFails
    \/ Api
    \/ Environment

Spec == Init /\ [][Next]_vars

\* Threads run and the event loop serves what is due.  The user, the device
\* and the log toggle are free.
Fairness ==
    /\ WF_vars(Reader)
    /\ WF_vars(ReconnectTimeout)
    /\ WF_vars(ServeError)
    /\ WF_vars(EndDisconnect)

FairSpec == Spec /\ Fairness

-----------------------------------------------------------------------------
(* Properties.                                                              *)

\* Every step of the serial session is a step of PortSession, so what is
\* proved there of the byte stream holds with a reader thread, reconnects
\* and late signals.
ImplementsSession == SessionSpec

\* A session that shows CONNECTED has an open port and a thread that reads
\* it, or the report of that thread's failure on its way.
ConnectedIsServed ==
    status = "connected" /\ main = "loop" =>
        /\ serial
        /\ \/ reader \in Alive
           \/ \E i \in DOMAIN queue : queue[i].kind = "error"

\* Once disconnect() has returned, nothing the handler had in flight - a
\* late read error, an armed reconnect - opens the port again or shows it as
\* connected, until the user connects.
StaysDisconnected ==
    user_disc /\ main = "loop" =>
        /\ ~serial /\ reader \notin Alive /\ ~reconnect
        /\ status \in {"disconnected", "error"}

\* What holds of the serial session in every state.
SerialInv == SerialTypeOK /\ ConnectedIsServed /\ StaysDisconnected

\* After a disconnect() has returned a session shows another status than
\* DISCONNECTED only for a write of the REST server that was under way when the
\* port was closed, once for each such write.
OnlyLateWritesShow ==
    [][user_disc /\ user_disc' /\ main = "loop" /\ status' \notin {status, "disconnected"}
         => \E w \in Worker : api[w] = "failed" /\ api'[w] = "idle"]_vars

\* A disconnect() ends: the main thread never waits for the reader for ever.
DisconnectEnds == main = "stopping" ~> main = "loop"

\* README.md:40: "Auto-reconnect is supported for Serial ... sessions": once
\* a reconnect is under way and the device is back for good, the session is
\* connected, unless the user disconnects.
Reconnects ==
    <>[]device => (reconnect ~> (status = "connected" \/ user_disc))
=============================================================================
