-------------------------- MODULE HandlerSessionProofs --------------------------
(***************************************************************************)
(* The sessions over a server, a UDP socket and a HID device implement     *)
(* PortSession for every cap, window and bound, and HandlerInv holds.      *)
(*                                                                         *)
(* HandlerInv is not inductive: that a closed server holds no client needs *)
(* what each kind of handler leaves untouched (KindParts), that a client   *)
(* is one whose connection is up needs a server that never keeps a second  *)
(* connection (NoneWaits), and the refinement needs the signals of the HID *)
(* reader in the order of their times (QueueInv).                          *)
(***************************************************************************)
EXTENDS HandlerSession, PortSessionProofs

Signal == [kind : {"data", "error"}, size : Nat, ts : Nat]

\* A posted report can be handed to the session as it is.
Deliverable(s) == s.ts \in Stamps /\ (s.kind = "data" => s.size \in 1..MaxChunk)

\* Posted signals are deliverable and in the order of their times.
QueueInv ==
    /\ queue \in Seq(Signal)
    /\ \A i \in DOMAIN queue : Deliverable(queue[i])
    /\ \A i, j \in DOMAIN queue : i < j => queue[i].ts <= queue[j].ts

\* What waits in the UDP socket fits into one chunk.
SocketInv == bytes \in 0..MaxChunk

HandlerTypes ==
    /\ kind \in {"server", "udp", "hid"}
    /\ open \in BOOLEAN
    /\ main \in {"loop", "stopping"}
    /\ aborted \in BOOLEAN
    /\ arrived \in Nat

\* What a handler of one kind has no use for stays as it was made.
KindParts ==
    /\ kind # "server" => client = NoClient /\ pending = << >> /\ alive = {}
    /\ kind # "udp" => datagrams = 0
    /\ kind # "hid" => /\ reader = "None" /\ queue = << >> /\ main = "loop"
                       /\ open <=> status = "connected"

\* A server takes each connection as it comes, or the program ends.
NoneWaits == ~aborted => pending = << >>

\* An open handler belongs to a session.
HandlerMade == open => has_protocol

HandlerIInv ==
    /\ HandlerTypes
    /\ KindParts
    /\ NoneWaits
    /\ HandlerMade
    /\ HandlerInv

SessionIInv ==
    /\ CoalescerIInv
    /\ ClockLeads
    /\ QueueInv
    /\ SocketInv
    /\ HandlerIInv

-----------------------------------------------------------------------------
(* The queue of the HID reader's signals.                                   *)

\* Steps that leave the queue alone, or empty it, keep its invariant.
LEMMA QueueKept ==
    ASSUME TypeOK, QueueInv, rcvd' = rcvd, now' \in {now, now + 1}, queue' = queue
    PROVE  QueueInv'
<1>1. \A ts \in Stamps : ts \in Stamps'  BY DEF TypeOK, Stamps
<1>2. \A i \in DOMAIN queue : Deliverable(queue[i])'
  BY <1>1 DEF QueueInv, Deliverable
<1> QED BY <1>2 DEF QueueInv

LEMMA QueueCleared ==
    ASSUME queue' = << >> PROVE QueueInv'
<1>1. << >> \in Seq(Signal) /\ DOMAIN << >> = {}  OBVIOUS
<1> QED BY <1>1 DEF QueueInv

\* So does posting a signal stamped with the clock.
LEMMA QueuePosted ==
    ASSUME TypeOK, ClockLeads, QueueInv, rcvd' = rcvd, now' = now,
           NEW s \in Signal, s.ts = now, s.kind = "data" => s.size \in 1..MaxChunk,
           queue' = Append(queue, s)
    PROVE  QueueInv'
<1>1. /\ queue \in Seq(Signal) /\ Len(queue) \in Nat
      /\ DOMAIN queue = 1..Len(queue)
      /\ \A i \in 1..Len(queue) : Deliverable(queue[i])
      /\ \A i, j \in 1..Len(queue) : i < j => queue[i].ts <= queue[j].ts
  BY LenProperties DEF QueueInv
<1>2. /\ queue' \in Seq(Signal)
      /\ DOMAIN queue' = 1..Len(queue) + 1
      /\ \A i \in 1..Len(queue) : queue'[i] = queue[i]
      /\ queue'[Len(queue) + 1] = s
  BY <1>1, AppendProperties
<1>3. now \in Stamps  BY ClockStamps
<1>4. Stamps' = Stamps  BY DEF Stamps
<1>5. \A i \in 1..Len(queue) : queue[i].ts <= now
  BY <1>1 DEF Deliverable, Stamps
<1>6. ASSUME NEW i \in 1..Len(queue) + 1 PROVE Deliverable(queue[i])'
  <2>1. CASE i \in 1..Len(queue)  BY <1>1, <1>2, <1>4, <2>1 DEF Deliverable
  <2>2. CASE i = Len(queue) + 1  BY <1>2, <1>3, <1>4, <2>2 DEF Deliverable
  <2> QED BY <1>1, <2>1, <2>2
<1>7. ASSUME NEW i \in 1..Len(queue) + 1, NEW j \in 1..Len(queue) + 1, i < j
      PROVE  queue'[i].ts <= queue'[j].ts
  <2>1. i \in 1..Len(queue)  BY <1>1, <1>7
  <2>2. CASE j \in 1..Len(queue)  BY <1>1, <1>2, <1>7, <2>1, <2>2
  <2>3. CASE j = Len(queue) + 1  BY <1>2, <1>5, <2>1, <2>3
  <2> QED BY <1>1, <2>2, <2>3
<1> QED BY <1>2, <1>6, <1>7 DEF QueueInv

\* What is left when the oldest signal is served.
LEMMA TailFacts ==
    ASSUME QueueInv, queue # << >>
    PROVE  /\ Head(queue) = queue[1] /\ 1 \in DOMAIN queue
           /\ Len(queue) \in Nat \ {0}
           /\ DOMAIN queue = 1..Len(queue)
           /\ Tail(queue) \in Seq(Signal)
           /\ DOMAIN Tail(queue) = 1..Len(queue) - 1
           /\ \A i \in 1..Len(queue) - 1 : Tail(queue)[i] = queue[i + 1]
<1>1. queue \in Seq(Signal)  BY DEF QueueInv
<1> QED BY <1>1, HeadTailProperties, EmptySeq, LenProperties, ElementOfSeq

\* Serving a signal, which may be a report that becomes the newest chunk, keeps
\* the order: those behind it are no older.
LEMMA QueueServed ==
    ASSUME TypeOK, QueueInv, queue # << >>, queue' = Tail(queue), now' = now,
           \/ rcvd' = rcvd
           \/ rcvd' # << >> /\ rcvd'[Len(rcvd')].ts = Head(queue).ts
    PROVE  QueueInv'
<1>1. /\ Head(queue) = queue[1] /\ 1 \in DOMAIN queue
      /\ Len(queue) \in Nat \ {0}
      /\ DOMAIN queue = 1..Len(queue)
      /\ queue' \in Seq(Signal)
      /\ DOMAIN queue' = 1..Len(queue) - 1
      /\ \A i \in 1..Len(queue) - 1 : queue'[i] = queue[i + 1]
  BY TailFacts
<1>2. \A i \in 1..Len(queue) - 1 : i + 1 \in DOMAIN queue /\ 1 < i + 1
  BY <1>1
<1>3. ASSUME NEW i \in DOMAIN queue' PROVE Deliverable(queue[i])'
  <2>1. Deliverable(queue[i + 1]) /\ queue[1].ts <= queue[i + 1].ts
    BY <1>1, <1>2 DEF QueueInv
  <2> QED BY <1>1, <2>1 DEF Deliverable, Stamps
<1>4. ASSUME NEW i \in DOMAIN queue', NEW j \in DOMAIN queue', i < j
      PROVE  queue'[i].ts <= queue'[j].ts
  <2>1. i + 1 \in DOMAIN queue /\ j + 1 \in DOMAIN queue /\ i + 1 < j + 1
    BY <1>1, <1>4
  <2> QED BY <1>1, <2>1 DEF QueueInv
<1> QED BY <1>1, <1>3, <1>4 DEF QueueInv

-----------------------------------------------------------------------------
(* Each step of these sessions is a step of the open session.               *)

\* What a trigger does from inside the fan-out.  The disconnect() of a HID
\* handler has only begun when the slot returns.
LEMMA ReactionImplements ==
    ASSUME HandlerMade, NEW timer, HandlerReaction(timer) PROVE Reaction(timer)
BY DEF HandlerMade, HandlerReaction, Reaction

\* What a handler reads is a chunk the session may receive.
LEMMA ReceivedImplements ==
    ASSUME TypeOK, HandlerMade, NEW n \in 1..MaxChunk, NEW ts \in Stamps, Received(n, ts)
    PROVE  /\ DataReceived
           /\ rcvd' # << >> /\ rcvd'[Len(rcvd')].ts = ts
           /\ now' = now
<1>1. /\ Len(rcvd) + n <= MaxBytes
      /\ now + WINDOW <= MaxTime
      /\ Take(Chunk(n, ts))
      /\ \/ Hold(Chunk(n, ts), ts)
         \/ ForceFlush(Chunk(n, ts), ts) /\ HandlerReaction(rx_timer)
  BY DEF Received
<1>2. \/ Hold(Chunk(n, ts), ts)
      \/ ForceFlush(Chunk(n, ts), ts) /\ Reaction(rx_timer)
  BY <1>1, ReactionImplements
<1>3. DataReceived  BY <1>1, <1>2 DEF DataReceived
<1>4. ts \in Nat  BY DEF Stamps, TypeOK
<1>5. rcvd' # << >> /\ rcvd'[Len(rcvd')].ts = ts  BY <1>1, <1>4, ChunkIsLast
<1> QED BY <1>1, <1>3, <1>5 DEF Take

\* A report of the HID device that is served.
LEMMA ServeDataImplements ==
    ASSUME TypeOK, QueueInv, HandlerMade, ServeData
    PROVE  /\ DataReceived
           /\ rcvd' # << >> /\ rcvd'[Len(rcvd')].ts = Head(queue).ts
           /\ now' = now
<1>1. Head(queue).size \in 1..MaxChunk /\ Head(queue).ts \in Stamps
  BY TailFacts DEF ServeData, QueueInv, Deliverable
<1> QED BY <1>1, ReceivedImplements DEF ServeData

\* The idle timer is the session's own.
LEMMA TimeoutImplements ==
    ASSUME HandlerMade, HandlerRxTimeout PROVE RxTimeout
<1>1. HandlerReaction(Off) => Reaction(Off)  BY ReactionImplements
<1> QED BY <1>1 DEF HandlerRxTimeout, RxTimeout

\* Every step of these sessions is a step of PortSession or leaves the session
\* alone.
LEMMA StepImplements ==
    ASSUME TypeOK, ClockLeads, QueueInv, SocketInv, HandlerMade, [Next]_vars
    PROVE  [SessionNext]_sessionVars
<1>1. CASE UserConnect
  <2>1. \E s \in {"connecting", "connected", "error"} : Connect(s)
    BY <1>1 DEF UserConnect, Fresh
  <2> QED BY <2>1 DEF SessionNext
<1>2. CASE UserDisconnect \/ EndClose
  <2>1. Disconnect("disconnected") \/ UNCHANGED sessionVars
    BY <1>2 DEF UserDisconnect, EndClose
  <2> QED BY <2>1 DEF SessionNext
<1>3. CASE ServeError \/ WriteFails \/ ServeLateError
  <2>1. \E s \in {"connected", "disconnected", "error"} : OnProtocolSignal(s)
    BY <1>3 DEF ServeError, WriteFails, ServeLateError
  <2> QED BY <2>1 DEF SessionNext
<1>4. CASE HandlerRxTimeout  BY <1>4, TimeoutImplements DEF SessionNext
<1>5. CASE ServeData  BY <1>5, ServeDataImplements DEF SessionNext
<1>6. CASE ClientSends
  BY <1>6, ClockStamps, ReceivedImplements DEF ClientSends, SessionNext
<1>7. CASE DrainDatagrams
  <2>1. CASE bytes = 0  BY <1>7, <2>1 DEF DrainDatagrams
  <2>2. CASE bytes # 0
    <3>1. bytes \in 1..MaxChunk  BY <2>2, PortSessionAssumption DEF SocketInv
    <3> QED BY <1>7, <2>2, <3>1, ClockStamps, ReceivedImplements
            DEF DrainDatagrams, SessionNext
  <2> QED BY <2>1, <2>2
<1>8. CASE NewConnection \/ ClientLeaves \/ DatagramArrives \/ WorkerWriteFails
  BY <1>8 DEF NewConnection, ClientLeaves, DatagramArrives, WorkerWriteFails, serverIdle
<1>9. CASE Reader
  BY <1>9 DEF Reader, ReaderStart, ReaderTest, ReaderReads, ReaderFails, readerIdle
<1>10. CASE Environment  BY <1>10 DEF Environment, SessionNext
<1>11. CASE UNCHANGED vars  BY <1>11 DEF vars
<1> QED BY <1>1, <1>2, <1>3, <1>4, <1>5, <1>6, <1>7, <1>8, <1>9, <1>10, <1>11 DEF Next

-----------------------------------------------------------------------------
(* Every step keeps the invariants of the queue and of the socket.          *)

\* A chunk that comes from elsewhere finds the queue empty.
LEMMA StepKeepsQueue ==
    ASSUME TypeOK, ClockLeads, QueueInv, SocketInv, HandlerIInv, [Next]_vars
    PROVE  QueueInv'
<1> USE DEF HandlerIInv
<1>1. ASSUME queue' = queue, rcvd' = rcvd, now' \in {now, now + 1} PROVE QueueInv'
  BY <1>1, QueueKept
<1>2. CASE UserConnect  BY <1>2, QueueCleared DEF UserConnect
<1>3. CASE UserDisconnect
  BY <1>1, <1>3 DEF UserDisconnect, Disconnect, sessionVars
<1>4. CASE HandlerRxTimeout
  BY <1>1, <1>4 DEF HandlerRxTimeout, TimerFlush
<1>5. CASE ClientSends \/ DrainDatagrams
  <2>1. queue' = << >>
    BY <1>5 DEF ClientSends, DrainDatagrams, KindParts
  <2> QED BY <2>1, QueueCleared
<1>6. CASE NewConnection \/ ClientLeaves \/ DatagramArrives
  BY <1>1, <1>6 DEF NewConnection, ClientLeaves, DatagramArrives, serverIdle, sessionVars,
                    readerVars
<1>7. CASE ReaderStart \/ ReaderTest
  BY <1>1, <1>7 DEF ReaderStart, ReaderTest, readerIdle, sessionVars
<1>8. CASE ReaderReads
  <2>1. rcvd' = rcvd /\ now' = now  BY <1>8 DEF ReaderReads, readerIdle, sessionVars
  <2>2. CASE queue' = queue  BY <1>1, <2>1, <2>2
  <2>3. ASSUME NEW n \in 1..MaxChunk,
               queue' = Append(queue, [kind |-> "data", size |-> n, ts |-> now])
        PROVE  QueueInv'
    <3>1. [kind |-> "data", size |-> n, ts |-> now] \in Signal
      <4>1. n \in Nat /\ now \in Nat  BY PortSessionAssumption DEF TypeOK
      <4> QED BY <4>1 DEF Signal
    <3> QED BY <2>1, <2>3, <3>1, QueuePosted
  <2> QED BY <1>8, <2>2, <2>3 DEF ReaderReads
<1>9. [kind |-> "error", size |-> 0, ts |-> now] \in Signal  BY DEF Signal, TypeOK
<1>10. CASE ReaderFails
  BY <1>9, <1>10, QueuePosted DEF ReaderFails, readerIdle, sessionVars
<1>11. CASE EndClose
  <2>1. rcvd' = rcvd /\ now' = now  BY <1>11 DEF EndClose, Disconnect
  <2> QED BY <1>1, <1>9, <1>11, <2>1, QueuePosted DEF EndClose
<1>12. CASE ServeData
  BY <1>12, ServeDataImplements, QueueServed DEF ServeData
<1>13. CASE ServeError
  BY <1>13, QueueServed DEF ServeError, OnProtocolSignal
<1>14. CASE WriteFails \/ WorkerWriteFails \/ ServeLateError
  BY <1>1, <1>14 DEF WriteFails, WorkerWriteFails, ServeLateError, OnProtocolSignal,
                     sessionVars, handlerVars, readerVars
<1>15. CASE Environment
  BY <1>1, <1>15 DEF Environment, StartLogging, StopLogging, Tick, readerVars, sessionVars
<1>16. CASE UNCHANGED vars
  BY <1>1, <1>16 DEF vars, sessionVars, handlerVars, readerVars
<1> QED BY <1>2, <1>3, <1>4, <1>5, <1>6, <1>7, <1>8, <1>10, <1>11, <1>12, <1>13, <1>14,
           <1>15, <1>16 DEF Next, Reader

LEMMA StepKeepsSocket ==
    ASSUME SocketInv, [Next]_vars PROVE SocketInv'
<1>1. bytes \in Nat /\ MaxChunk \in Nat  BY PortSessionAssumption DEF SocketInv
<1>2. bytes' = bytes \/ bytes' = 0 \/ \E n \in 0..MaxChunk : bytes + n <= MaxChunk /\ bytes' = bytes + n
  BY DEF Next, UserConnect, UserDisconnect, DatagramsLeft, HandlerRxTimeout, Environment,
         NewConnection, ClientLeaves, ClientSends, DatagramArrives, DrainDatagrams,
         Reader, ReaderStart, ReaderTest, ReaderReads, ReaderFails, readerIdle, serverIdle,
         ServeData, ServeError, WriteFails, WorkerWriteFails, ServeLateError, EndClose, vars, handlerVars, socketVars
<1> QED BY <1>1, <1>2 DEF SocketInv

-----------------------------------------------------------------------------
(* Every step keeps the handler's invariant.                                *)

\* What a step must not disturb, in one place.
LEMMA HandlerParts ==
    HandlerIInv <=>
        /\ HandlerTypes /\ KindParts /\ NoneWaits /\ HandlerMade
        /\ status = "connected" => open
        /\ ~open => client = NoClient /\ pending = << >> /\ alive = {} /\ datagrams = 0
        /\ client # NoClient => client \in alive /\ open
        /\ kind = "hid" => (open <=> reader # "None")
BY DEF HandlerIInv, HandlerInv

\* disconnect() of a handler: at once, or for HID up to the wait.
LEMMA CloseFacts ==
    ASSUME HandlerIInv, main = "loop", BeginClose
    PROVE  \/ /\ main' = "stopping" /\ reader # "None" /\ kind = "hid"
              /\ UNCHANGED <<open, client, pending, alive>>
           \/ /\ main' = "loop" /\ reader = "None" /\ ~open'
              /\ client' = NoClient /\ pending' = << >> /\ alive' = {}
BY DEF HandlerIInv, KindParts, HandlerTypes, BeginClose, CloseServer

\* A step of the slot that received or flushed, with what a trigger made of it.
LEMMA ReactionKeepsHandler ==
    ASSUME HandlerIInv, main = "loop", NEW timer, HandlerReaction(timer),
           UNCHANGED <<has_protocol, kind, arrived, reader, aborted>>,
           queue = << >> => queue' = << >>,
           datagrams' \in {datagrams, 0}, ~open' => datagrams' = 0
    PROVE  HandlerIInv'
<1> USE DEF HandlerTypes, KindParts, NoneWaits, HandlerMade
<1>1. /\ HandlerTypes /\ KindParts /\ NoneWaits /\ HandlerMade
      /\ status = "connected" => open
      /\ ~open => client = NoClient /\ pending = << >> /\ alive = {} /\ datagrams = 0
      /\ client # NoClient => client \in alive /\ open
      /\ kind = "hid" => (open <=> reader # "None")
  BY HandlerParts
<1>2. CASE UNCHANGED <<status, is_logging, handleVars>>
  BY <1>1, <1>2 DEF HandlerIInv, HandlerInv, handleVars, NoClient
<1>3. CASE /\ kind = "hid" /\ open
           /\ status = "connected" /\ status' = "error"
           /\ UNCHANGED <<is_logging, handleVars>>
  BY <1>1, <1>3 DEF HandlerIInv, HandlerInv, handleVars, NoClient
<1>4. CASE /\ status = "connected"
           /\ BeginClose
           /\ IF main' = "stopping" THEN UNCHANGED <<status, is_logging>>
              ELSE status' = "disconnected"
  <2>1. CASE /\ main' = "stopping" /\ reader # "None" /\ kind = "hid"
             /\ UNCHANGED <<open, client, pending, alive>>
    BY <1>1, <1>4, <2>1 DEF HandlerIInv, HandlerInv, NoClient
  <2>2. CASE /\ main' = "loop" /\ reader = "None" /\ ~open'
             /\ client' = NoClient /\ pending' = << >> /\ alive' = {}
    <3>1. open' = FALSE  BY <1>4, <2>2 DEF BeginClose
    <3> QED BY <1>1, <1>4, <2>2, <3>1 DEF HandlerIInv, HandlerInv, NoClient
  <2> QED BY <1>4, <2>1, <2>2, CloseFacts
<1> QED BY <1>2, <1>3, <1>4 DEF HandlerReaction

\* What a handler reads, below the cap or with a trigger's effect.
LEMMA ReceivedKeepsHandler ==
    ASSUME HandlerIInv, main = "loop", NEW n, NEW ts, Received(n, ts),
           UNCHANGED <<kind, arrived, reader, aborted>>,
           queue = << >> => queue' = << >>,
           datagrams' \in {datagrams, 0}, kind # "udp" \/ datagrams' = 0
    PROVE  HandlerIInv'
<1>1. has_protocol' = has_protocol  BY DEF Received, Take
<1>2. datagrams' = 0  BY DEF HandlerIInv, KindParts
<1>3. CASE HandlerReaction(rx_timer)  BY <1>1, <1>2, <1>3, ReactionKeepsHandler
<1>4. CASE UNCHANGED <<status, handleVars>>
  BY <1>1, <1>2, <1>4 DEF HandlerIInv, HandlerInv, HandlerTypes, KindParts, NoneWaits,
                          HandlerMade, handleVars, NoClient
<1> QED BY <1>3, <1>4 DEF Received, Hold

LEMMA StepKeepsHandler ==
    ASSUME QueueInv, HandlerIInv, [Next]_vars PROVE HandlerIInv'
<1> USE DEF HandlerTypes, KindParts, NoneWaits, HandlerMade
<1>1. /\ HandlerTypes /\ KindParts /\ NoneWaits /\ HandlerMade
      /\ status = "connected" => open
      /\ ~open => client = NoClient /\ pending = << >> /\ alive = {} /\ datagrams = 0
      /\ client # NoClient => client \in alive /\ open
      /\ kind = "hid" => (open <=> reader # "None")
  BY HandlerParts
<1>2. ASSUME HandlerTypes', KindParts', NoneWaits', HandlerMade',
             status' = "connected" => open',
             ~open' => client' = NoClient /\ pending' = << >> /\ alive' = {} /\ datagrams' = 0,
             client' # NoClient => client' \in alive' /\ open',
             kind' = "hid" => (open' <=> reader' # "None")
      PROVE  HandlerIInv'
  BY <1>2 DEF HandlerIInv, HandlerInv, NoClient
<1>3. CASE UserConnect
  BY <1>1, <1>2, <1>3 DEF UserConnect, Fresh, Connect, serverVars, socketVars
<1>4. CASE UserDisconnect
  <2>1. /\ BeginClose /\ DatagramsLeft /\ main = "loop"
        /\ IF main' = "stopping" THEN UNCHANGED sessionVars ELSE Disconnect("disconnected")
        /\ UNCHANGED <<kind, arrived, reader, queue, device, aborted>>
    BY <1>4 DEF UserDisconnect, loop
  <2>2. CASE /\ main' = "stopping" /\ reader # "None" /\ kind = "hid"
             /\ UNCHANGED <<open, client, pending, alive>>
    BY <1>1, <1>2, <2>1, <2>2 DEF DatagramsLeft, sessionVars, socketVars
  <2>3. CASE /\ main' = "loop" /\ reader = "None" /\ ~open'
             /\ client' = NoClient /\ pending' = << >> /\ alive' = {}
    <3>1. open' = FALSE  BY <2>1, <2>3 DEF BeginClose
    <3>2. status' = "disconnected" /\ has_protocol' = has_protocol
      BY <2>1, <2>3 DEF Disconnect
    <3>3. datagrams' = 0  BY <2>1, <3>1 DEF DatagramsLeft
    <3> QED BY <1>1, <1>2, <2>1, <2>3, <3>1, <3>2, <3>3
  <2> QED BY <2>1, <2>2, <2>3, CloseFacts
<1>5. CASE HandlerRxTimeout
  <2>1. /\ main = "loop" /\ queue' = queue
        /\ UNCHANGED <<has_protocol, kind, arrived, reader, aborted>>
        /\ datagrams' \in {datagrams, 0} /\ (~open' => datagrams' = 0)
    BY <1>5 DEF HandlerRxTimeout, TimerFlush, loop, DatagramsLeft, socketVars
  <2>2. CASE HandlerReaction(Off)  BY <2>1, <2>2, ReactionKeepsHandler
  <2>3. CASE UNCHANGED <<status, is_logging, handleVars>>
    BY <1>1, <1>2, <2>1, <2>3 DEF handleVars
  <2> QED BY <1>5, <2>2, <2>3 DEF HandlerRxTimeout
<1>6. CASE ClientSends
  BY <1>6, ReceivedKeepsHandler DEF ClientSends, loop, socketVars
<1>7. CASE DrainDatagrams
  <2>1. CASE bytes = 0
    BY <1>1, <1>2, <1>7, <2>1 DEF DrainDatagrams, loop, handleVars, sessionVars
  <2>2. CASE bytes # 0
    BY <1>7, <2>2, ReceivedKeepsHandler DEF DrainDatagrams, loop
  <2> QED BY <2>1, <2>2
<1>8. CASE ServeData
  <2>1. kind = "hid"  BY <1>1, <1>8 DEF ServeData
  <2> QED BY <1>1, <1>8, <2>1, ReceivedKeepsHandler DEF ServeData, loop, socketVars
<1>9. CASE NewConnection
  <2>1. /\ ~aborted /\ open /\ kind = "server" /\ pending = << >> /\ arrived' = arrived + 1
        /\ UNCHANGED <<status, has_protocol, kind, open, datagrams, reader, queue, main>>
    BY <1>1, <1>9 DEF NewConnection, loop, serverIdle, sessionVars, socketVars, readerVars
  <2>2. arrived' \in Nat  BY <1>1, <2>1
  <2>3. CASE client # NoClient
    BY <1>1, <1>2, <1>9, <2>1, <2>2, <2>3 DEF NewConnection
  <2>4. CASE client = NoClient
    <3>1. /\ Append(pending, arrived') = <<arrived'>>
          /\ Head(<<arrived'>>) = arrived' /\ Tail(<<arrived'>>) = << >>
      BY <2>1
    <3>2. /\ client' = arrived' /\ pending' = << >> /\ arrived' \in alive' /\ aborted' = aborted
      BY <1>9, <2>4, <3>1 DEF NewConnection
    <3> QED BY <1>1, <1>2, <2>1, <2>2, <3>2
  <2> QED BY <2>3, <2>4
<1>10. CASE ClientLeaves
  BY <1>1, <1>2, <1>10 DEF ClientLeaves, serverIdle, sessionVars, socketVars, readerVars
<1>11. CASE DatagramArrives
  BY <1>1, <1>2, <1>11 DEF DatagramArrives, sessionVars, serverVars, readerVars
<1>12. CASE ReaderStart \/ ReaderTest \/ ReaderReads \/ ReaderFails
  BY <1>1, <1>2, <1>12 DEF ReaderStart, ReaderTest, ReaderReads, ReaderFails, readerIdle,
                           sessionVars, serverVars, socketVars
<1>13. CASE ServeError
  BY <1>1, <1>2, <1>13 DEF ServeError, OnProtocolSignal, serverVars, socketVars
<1>14. CASE WriteFails \/ WorkerWriteFails \/ ServeLateError
  <2>1. /\ UNCHANGED <<has_protocol, kind, open, serverVars, socketVars, readerVars, aborted>>
        /\ status' \in {status, "error"} /\ kind = "hid"
    BY <1>14 DEF WriteFails, WorkerWriteFails, ServeLateError, OnProtocolSignal, handlerVars,
                 sessionVars
  <2> QED BY <1>1, <1>2, <2>1 DEF serverVars, socketVars, readerVars
<1>15. CASE EndClose
  BY <1>1, <1>2, <1>15 DEF EndClose, Disconnect, serverVars, socketVars
<1>16. CASE Environment \/ UNCHANGED vars
  BY <1>1, <1>2, <1>16 DEF Environment, StartLogging, StopLogging, Tick, vars, sessionVars,
                           handlerVars, serverVars, socketVars, readerVars
<1> QED BY <1>3, <1>4, <1>5, <1>6, <1>7, <1>8, <1>9, <1>10, <1>11, <1>12, <1>13, <1>14,
           <1>15, <1>16 DEF Next, Reader

-----------------------------------------------------------------------------
\* The strengthened invariant holds in every state.
THEOREM HandlerInductive == Spec => []SessionIInv
<1> USE DEF SessionIInv
<1>1. Init => SessionIInv
  <2> SUFFICES ASSUME Init PROVE SessionIInv  OBVIOUS
  <2>1. CoalescerIInv  BY InitInvariant DEF Init
  <2>2. ClockLeads  BY DEF Init, SessionInit, ClockLeads
  <2>3. << >> \in Seq(Signal) /\ DOMAIN << >> = {}  OBVIOUS
  <2>4. QueueInv  BY <2>3 DEF Init, QueueInv
  <2>5. SocketInv  BY PortSessionAssumption DEF Init, SocketInv
  <2>6. HandlerIInv
    BY DEF Init, SessionInit, HandlerIInv, HandlerTypes, KindParts, NoneWaits, HandlerMade,
           HandlerInv
  <2> QED BY <2>1, <2>2, <2>4, <2>5, <2>6
<1>2. SessionIInv /\ [Next]_vars => SessionIInv'
  <2> SUFFICES ASSUME SessionIInv, [Next]_vars PROVE SessionIInv'  OBVIOUS
  <2>1. TypeOK /\ HandlerMade  BY DEF CoalescerIInv, HandlerIInv
  <2>2. [SessionNext]_sessionVars  BY <2>1, StepImplements
  <2>3. CoalescerIInv' /\ ClockLeads'  BY <2>2, StepInvariant, StepClockLeads
  <2>4. QueueInv' /\ SocketInv'  BY <2>1, StepKeepsQueue, StepKeepsSocket
  <2>5. HandlerIInv'  BY StepKeepsHandler
  <2> QED BY <2>3, <2>4, <2>5
<1> QED BY <1>1, <1>2, PTL DEF Spec

\* What the session does over a server, a UDP socket or a HID device is what
\* PortSession allows: every theorem about PortSession holds of it.
THEOREM HandlerImplements == Spec => ImplementsSession
<1>1. Init => SessionInit  BY DEF Init
<1>2. SessionIInv /\ [Next]_vars => [SessionNext]_sessionVars
  BY StepImplements DEF SessionIInv, CoalescerIInv, HandlerIInv
<1> QED BY <1>1, <1>2, HandlerInductive, PTL DEF Spec, ImplementsSession, SessionSpec

\* CONNECTED means open, a closed server holds no client, a client is one whose
\* connection is up, and an open HID device has a reader until its error is
\* served, for every number of clients and length of the queue.
THEOREM HandlerKeepsInv == Spec => []HandlerInv
<1>1. SessionIInv => HandlerInv  BY DEF SessionIInv, HandlerIInv
<1> QED BY <1>1, HandlerInductive, PTL
=============================================================================
