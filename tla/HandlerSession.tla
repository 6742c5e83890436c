---------------------------- MODULE HandlerSession ----------------------------
(***************************************************************************)
(* A PortSession over the handlers that do not reconnect: the servers of   *)
(* tcp_server.py and named_pipe.py, which have the same slots over         *)
(* QTcpServer and QLocalServer; udp_socket.py; usb_hid.py with its reader  *)
(* thread.  A behaviour is that of one of them (kind).                     *)
(*                                                                         *)
(* The program ends (aborted) when a slot raises: PyQt calls qFatal on an  *)
(* exception in a slot, and the program installs no excepthook.            *)
(***************************************************************************)
EXTENDS PortSession

CONSTANTS
    MaxClients, \* bound: clients that come to a server
    MaxQueue    \* bound: signals of the HID reader posted and not yet served

ASSUME HandlerSessionAssumption == {MaxClients, MaxQueue} \subseteq Nat \ {0}

VARIABLES
    kind,       \* "server", "udp" or "hid"
    open,       \* isListening(); _bound; _device is not None
    client,     \* _client of a server, or NoClient
    pending,    \* connections the server has not taken from Qt
    alive,      \* clients whose connection is up
    arrived,    \* clients so far
    datagrams,  \* the number of datagrams in the socket's buffer
    bytes,      \* what they hold together
    reader,     \* where the HID reader thread is in run()
    running,    \* its _running flag
    queue,      \* signals it posted to the main thread
    main,       \* the main thread: in the event loop, or in stop()'s wait
    device,     \* the HID device is plugged in
    late,       \* a REST worker's write to it has failed, its error is not served
    aborted     \* the program has ended

serverVars == <<client, pending, alive, arrived>>
socketVars == <<datagrams, bytes>>
readerVars == <<reader, running, queue, main>>
handlerVars == <<kind, open, serverVars, socketVars, readerVars, device, late, aborted>>
vars == <<sessionVars, handlerVars>>

NoClient == 0
Alive == {"starting", "test", "poll"}
loop == main = "loop" /\ ~aborted
handleVars == <<open, client, pending, alive, running, main>>

Init ==
    /\ SessionInit
    /\ kind \in {"server", "udp", "hid"}
    /\ open = FALSE
    /\ client = NoClient /\ pending = << >> /\ alive = {} /\ arrived = 0
    /\ datagrams = 0 /\ bytes = 0
    /\ reader = "None" /\ running = FALSE /\ queue = << >> /\ main = "loop"
    /\ device \in BOOLEAN
    /\ late = FALSE
    /\ aborted = FALSE

-----------------------------------------------------------------------------
(* Opening and closing.                                                     *)

\* Mutant of Fresh: the session starts with an empty coalescer.
FreshDropsHeld(outcome) ==
    /\ status' = outcome
    /\ has_protocol' = TRUE
    /\ rx_buffer' = << >>
    /\ rx_buffer_size' = 0
    /\ UNCHANGED <<rx_first_ts, rx_timer, logVars, rcvd, outVars, now>>

\* PortSession.connect: what was held in the session stays.
Fresh(outcome) == Connect(outcome)

\* connect() of each handler: it listens, binds or opens and says connected, or
\* it signals the error and returns.  A HID reader of a handler that is
\* replaced (after a failed write) reads on into nothing, and a late error of
\* that handler may go with it.
UserConnect ==
    /\ loop
    /\ status # "connected"
    /\ open' \in BOOLEAN
    /\ kind = "hid" => (open' => device)
    /\ Fresh(IF open' THEN "connected" ELSE "error")
    /\ reader' = IF kind = "hid" /\ open' THEN "starting" ELSE "None"
    /\ running' = FALSE
    /\ queue' = << >>
    /\ late' \in {late, FALSE}
    /\ UNCHANGED <<kind, serverVars, socketVars, main, device, aborted>>

\* Mutant of CloseServer: the listening socket is closed, the client is not.
CloseServerKeepsClient ==
    /\ pending' = << >>
    /\ UNCHANGED <<client, alive>>

\* abort() of the client, whose disconnected slot forgets it, and close() of the
\* server, which drops the connections it still holds.
CloseServer ==
    /\ client' = NoClient
    /\ pending' = << >>
    /\ alive' = {}

\* The handlers' disconnect(): at once, but for HID up to the wait in stop().
BeginClose ==
    IF reader # "None"
    THEN /\ running' = FALSE /\ main' = "stopping"
         /\ UNCHANGED <<open, client, pending, alive>>
    ELSE /\ open' = FALSE
         /\ CloseServer
         /\ UNCHANGED <<running, main>>

\* A closed socket's datagrams are gone.
DatagramsLeft ==
    IF open' THEN UNCHANGED socketVars ELSE datagrams' = 0 /\ bytes' = 0

UserDisconnect ==
    /\ loop
    /\ has_protocol
    /\ BeginClose /\ DatagramsLeft
    /\ IF main' = "stopping" THEN UNCHANGED sessionVars ELSE Disconnect("disconnected")
    /\ UNCHANGED <<kind, arrived, reader, queue, device, late, aborted>>

\* What a trigger that fires in the fan-out does: nothing, a reply (of which
\* only a HID write can fail), or a disconnect().
HandlerReaction(timer) ==
    \/ /\ rx_timer' = timer
       /\ UNCHANGED <<status, is_logging, handleVars>>
    \/ /\ kind = "hid" /\ open
       /\ status = "connected" /\ status' = "error"
       /\ rx_timer' = timer
       /\ UNCHANGED <<is_logging, handleVars>>
    \/ /\ status = "connected"
       /\ BeginClose
       /\ IF main' = "stopping"
          THEN rx_timer' = timer /\ UNCHANGED <<status, is_logging>>
          ELSE rx_timer' = Off /\ status' = "disconnected" /\ is_logging' = FALSE

\* n bytes the handler has read reach the session.
Received(n, ts) ==
    LET chunk == Chunk(n, ts) IN
    /\ Len(rcvd) + n <= MaxBytes
    /\ now + WINDOW <= MaxTime
    /\ Take(chunk)
    /\ \/ Hold(chunk, ts) /\ UNCHANGED handleVars
       \/ ForceFlush(chunk, ts) /\ HandlerReaction(rx_timer)

HandlerRxTimeout ==
    /\ loop
    /\ TimerFlush
    /\ \/ rx_buffer # << >> /\ HandlerReaction(Off)
       \/ /\ rx_buffer = << >>
          /\ rx_timer' = Off
          /\ UNCHANGED <<status, is_logging, handleVars>>
    /\ DatagramsLeft
    /\ UNCHANGED <<kind, arrived, reader, queue, device, late, aborted>>

-----------------------------------------------------------------------------
(* A server.                                                                *)

serverIdle == <<sessionVars, kind, open, socketVars, readerVars, device, late>>

\* _on_new_connection: without a client, the oldest pending connection becomes
\* the client.  With one that is up, its abort() runs _on_client_disconnected,
\* which sets _client to None, and the deleteLater() that follows raises.
NewConnection ==
    /\ kind = "server" /\ loop
    /\ open
    /\ arrived < MaxClients
    /\ arrived' = arrived + 1
    /\ LET waiting == Append(pending, arrived') IN
       IF client # NoClient
       THEN /\ aborted' = TRUE
            /\ client' = NoClient
            /\ pending' = waiting
            /\ alive' = (alive \ {client}) \cup {arrived'}
       ELSE /\ client' = Head(waiting)
            /\ pending' = Tail(waiting)
            /\ alive' = alive \cup {arrived'}
            /\ UNCHANGED aborted
    /\ UNCHANGED serverIdle

\* _on_client_disconnected: the session's status says nothing of clients.
ClientLeaves ==
    /\ kind = "server" /\ loop
    /\ client # NoClient
    /\ alive' = alive \ {client}
    /\ client' = NoClient
    /\ UNCHANGED <<serverIdle, pending, arrived, aborted>>

\* _on_ready_read
ClientSends ==
    /\ kind = "server" /\ loop
    /\ client # NoClient
    /\ \E n \in 1..MaxChunk : Received(n, now)
    /\ UNCHANGED <<kind, arrived, socketVars, reader, queue, device, late, aborted>>

-----------------------------------------------------------------------------
(* UDP.                                                                     *)

\* A datagram, which may be empty, waits in the socket.
DatagramArrives ==
    /\ kind = "udp" /\ ~aborted
    /\ open
    /\ \E n \in 0..MaxChunk :
          /\ datagrams < 2 /\ bytes + n <= MaxChunk
          /\ datagrams' = datagrams + 1
          /\ bytes' = bytes + n
    /\ UNCHANGED <<sessionVars, kind, open, serverVars, readerVars, device, late, aborted>>

\* _on_ready_read drains the socket: one chunk for all that waits, none for
\* empty datagrams.
DrainDatagrams ==
    /\ kind = "udp" /\ loop
    /\ datagrams > 0
    /\ datagrams' = 0 /\ bytes' = 0
    /\ IF bytes = 0 THEN UNCHANGED <<sessionVars, handleVars>> ELSE Received(bytes, now)
    /\ UNCHANGED <<kind, arrived, reader, queue, device, late, aborted>>

-----------------------------------------------------------------------------
(* HID: the reader thread and what the main thread makes of its signals.    *)

readerIdle == <<sessionVars, kind, open, serverVars, socketVars, main, device, late, aborted>>

\* run() sets the flag itself, whatever stop() has done before.
ReaderStart ==
    /\ reader = "starting"
    /\ reader' = "test"
    /\ running' = TRUE
    /\ UNCHANGED <<readerIdle, queue>>

ReaderTest ==
    /\ reader = "test"
    /\ reader' = IF running THEN "poll" ELSE "returned"
    /\ UNCHANGED <<readerIdle, running, queue>>

\* A report, posted without a leading report id of zero; or nothing, and a nap.
ReaderReads ==
    /\ reader = "poll"
    /\ open /\ device
    /\ reader' = "test"
    /\ \/ UNCHANGED queue
       \/ /\ Len(queue) < MaxQueue
          /\ \E n \in 1..MaxChunk :
                queue' = Append(queue, [kind |-> "data", size |-> n, ts |-> now])
    /\ UNCHANGED <<readerIdle, running>>

\* The device is gone: the error is posted and the thread ends.
ReaderFails ==
    /\ reader = "poll"
    /\ open /\ ~device
    /\ reader' = "returned"
    /\ queue' = Append(queue, [kind |-> "error", size |-> 0, ts |-> now])
    /\ UNCHANGED <<readerIdle, running>>

ServeData ==
    /\ loop
    /\ queue # << >> /\ Head(queue).kind = "data"
    /\ Received(Head(queue).size, Head(queue).ts)
    /\ queue' = Tail(queue)
    /\ UNCHANGED <<kind, arrived, socketVars, reader, device, late, aborted>>

\* _on_reader_error: the error, then disconnect() of the handler, whose
\* disconnected is the status that stays.
ServeError ==
    /\ loop
    /\ queue # << >> /\ Head(queue).kind = "error"
    /\ queue' = Tail(queue)
    /\ OnProtocolSignal("disconnected")
    /\ reader' = "None"
    /\ open' = FALSE
    /\ UNCHANGED <<kind, serverVars, socketVars, running, main, device, late, aborted>>

\* send() in the main thread on an open device whose write fails; the reader
\* goes on.
WriteFails ==
    /\ kind = "hid" /\ loop
    /\ open
    /\ OnProtocolSignal("error")
    /\ UNCHANGED handlerVars

\* send() in a worker of the REST server fails, or finds the device closed since
\* the session tested it: the error is posted to the main thread ...
WorkerWriteFails ==
    /\ kind = "hid" /\ open
    /\ late' = TRUE
    /\ UNCHANGED <<sessionVars, kind, open, serverVars, socketVars, readerVars, device, aborted>>

\* ... which shows it whenever it comes to it.
ServeLateError ==
    /\ kind = "hid" /\ loop
    /\ late
    /\ late' = FALSE
    /\ OnProtocolSignal("error")
    /\ UNCHANGED <<kind, open, serverVars, socketVars, readerVars, device, aborted>>

\* Mutant of EndClose: stop() waits with no time limit.
EndCloseJoins ==
    /\ main = "stopping"
    /\ reader = "returned"
    /\ main' = "loop"
    /\ Disconnect("disconnected")
    /\ open' = FALSE /\ reader' = "None" /\ running' = FALSE
    /\ UNCHANGED <<kind, serverVars, socketVars, queue, device, late, aborted>>

\* stop() has returned: the thread has ended, or three seconds are over, which
\* takes a run() that set its flag after stop() had cleared it.  A thread that
\* is left finds its device closed and posts the error.
EndClose ==
    /\ main = "stopping"
    /\ \/ reader = "returned" /\ UNCHANGED queue
       \/ /\ reader \in {"test", "poll"} /\ running
          /\ queue' = Append(queue, [kind |-> "error", size |-> 0, ts |-> now])
    /\ main' = "loop"
    /\ Disconnect("disconnected")
    /\ open' = FALSE /\ reader' = "None" /\ running' = FALSE
    /\ UNCHANGED <<kind, serverVars, socketVars, device, late, aborted>>

\* The log toggle, the clock and the device.
Environment ==
    /\ ~aborted
    /\ \/ loop /\ (StartLogging \/ StopLogging) /\ UNCHANGED device
       \/ Tick /\ UNCHANGED device
       \/ kind = "hid" /\ device' = ~device /\ UNCHANGED sessionVars
    /\ UNCHANGED <<kind, open, serverVars, socketVars, readerVars, late, aborted>>

Reader == ReaderStart \/ ReaderTest \/ ReaderReads \/ ReaderFails

Next ==
    \/ UserConnect \/ UserDisconnect \/ HandlerRxTimeout \/ Environment
    \/ NewConnection \/ ClientLeaves \/ ClientSends
    \/ DatagramArrives \/ DrainDatagrams
    \/ Reader \/ ServeData \/ ServeError \/ WriteFails
    \/ WorkerWriteFails \/ ServeLateError \/ EndClose

Spec == Init /\ [][Next]_vars

\* The operating system schedules the reader, whose polls return, and stop()'s
\* wait has its time limit.
FairSpec == Spec /\ WF_vars(Reader) /\ WF_vars(EndClose)

-----------------------------------------------------------------------------
(* Properties.                                                              *)

\* The handler, the session and the peers stay in step: CONNECTED means open, a
\* server that is closed holds no client and no pending connection, its client
\* is one whose connection is up, and an open HID device has a reader until
\* the error of a lost one is served.
HandlerInv ==
    /\ status = "connected" => open
    /\ ~open => client = NoClient /\ pending = << >> /\ alive = {} /\ datagrams = 0
    /\ client # NoClient => client \in alive /\ open
    /\ kind = "hid" => (open <=> reader # "None")

\* Every step of these sessions is a step of PortSession.
ImplementsSession == SessionSpec

\* disconnect() comes back, although a reader that had not begun to run sets
\* the flag again that stop() has cleared.
CloseEnds == main = "stopping" ~> main = "loop"

\* tcp_server.py:17: "A connecting client is accepted automatically; a previous
\* client is closed."
NewClientIsServed == pending = << >>
=============================================================================
