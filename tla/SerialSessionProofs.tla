--------------------------- MODULE SerialSessionProofs ---------------------------
(***************************************************************************)
(* The serial session implements PortSession for every cap, window, queue  *)
(* and bound, and its own invariants hold.                                 *)
(*                                                                         *)
(* The inductive invariant says what the queue between the two threads may *)
(* hold: reads in the order of their times, none of them ahead of the      *)
(* clock or behind a stamp already received, and one error at most, the    *)
(* last of a reader that is gone.  The rest ties the handler's parts to    *)
(* one another and to the session.                                         *)
(***************************************************************************)
EXTENDS SerialSession, PortSessionProofs

\* A posted read can be handed to the session as it is.
Deliverable(s) == s.kind = "data" => s.size \in 1..MaxChunk /\ s.ts \in Stamps

\* Posted reads are in the order of their times, and nothing follows an error.
QueueInOrder ==
    /\ \A i \in DOMAIN queue : Deliverable(queue[i])
    /\ \A i, j \in DOMAIN queue : i < j =>
         /\ queue[i].kind = "data"
         /\ queue[j].kind = "data" => queue[i].ts <= queue[j].ts

\* A reader that runs has posted no error and left room for one.
ReaderHasRoom ==
    reader \in Alive =>
        /\ Len(queue) <= MaxQueue
        /\ \A i \in DOMAIN queue : queue[i].kind = "data"

QueueInv ==
    /\ queue \in Seq(Signal)
    /\ Len(queue) <= MaxQueue + 1
    /\ QueueInOrder
    /\ ReaderHasRoom

HandlerTypes ==
    /\ serial \in BOOLEAN
    /\ reader \in ReaderPlace
    /\ running \in BOOLEAN
    /\ orphan \in BOOLEAN
    /\ reconnect \in BOOLEAN
    /\ user_disc \in BOOLEAN
    /\ main \in {"loop", "stopping"}
    /\ device \in BOOLEAN
    /\ api \in [Worker -> SendPlace]

\* Without a handler there is nothing to come from one.
HandlerMade ==
    ~has_protocol =>
        /\ ~serial /\ reader = "None" /\ queue = << >> /\ ~reconnect
        /\ \A w \in Worker : api[w] = "idle"

\* A retry is armed only when the last reader is gone and its error served.
RetryRests == reconnect => queue = << >> /\ reader \notin Alive

\* disconnect() disarms the retry before it waits.
StopIsMarked ==
    /\ main = "stopping" => user_disc
    /\ user_disc => ~reconnect

\* Only disconnect() clears the flag of a reader that runs.
ReaderKeepsFlag == main = "loop" /\ reader \in {"test", "poll"} => running

HandlerInv ==
    /\ HandlerTypes
    /\ HandlerMade
    /\ RetryRests
    /\ StopIsMarked
    /\ ReaderKeepsFlag
    /\ ConnectedIsServed
    /\ StaysDisconnected

SerialIInv ==
    /\ CoalescerIInv
    /\ ClockLeads
    /\ QueueInv
    /\ HandlerInv

-----------------------------------------------------------------------------
(* The queue.                                                               *)

\* What is deliverable stays so while nothing is received.
LEMMA StampsKept ==
    ASSUME TypeOK, rcvd' = rcvd, now' \in {now, now + 1}
    PROVE  \A ts \in Stamps : ts \in Stamps'
BY DEF TypeOK, Stamps

\* Steps that leave the queue alone keep its invariant, unless they start a
\* reader on a queue that is not empty.
LEMMA QueueKept ==
    ASSUME TypeOK, QueueInv,
           queue' = queue, rcvd' = rcvd, now' \in {now, now + 1},
           reader' \in Alive => reader \in Alive \/ queue = << >>
    PROVE  QueueInv'
<1>1. \A i \in DOMAIN queue : Deliverable(queue[i])'
  BY StampsKept DEF QueueInv, QueueInOrder, Deliverable
<1>2. QueueInOrder'  BY <1>1 DEF QueueInv, QueueInOrder
<1>3. ReaderHasRoom'
  <2>1. CASE queue = << >>
    <3>1. Len(queue) = 0 /\ DOMAIN queue = {}  BY <2>1
    <3> QED BY <3>1, SerialSessionAssumption DEF ReaderHasRoom
  <2>2. CASE reader' \in Alive => reader \in Alive
    BY <2>2 DEF QueueInv, ReaderHasRoom, Alive
  <2> QED BY <2>1, <2>2
<1> QED BY <1>2, <1>3 DEF QueueInv

\* A new handler, or the last signal served, leaves an empty queue.
LEMMA QueueCleared ==
    ASSUME queue' = << >> PROVE QueueInv'
<1>1. << >> \in Seq(Signal) /\ Len(<< >>) = 0 /\ DOMAIN << >> = {}  OBVIOUS
<1> QED BY <1>1, SerialSessionAssumption DEF QueueInv, QueueInOrder, ReaderHasRoom

\* A signal of the reader: a read stamped with the clock while there is room,
\* or the error with which it ends.
PostOK(s) ==
    \/ /\ s.kind = "data" /\ s.size \in 1..MaxChunk /\ s.ts = now
       /\ Len(queue) < MaxQueue
    \/ s.kind = "error" /\ reader' \notin Alive

\* Posting keeps the queue's invariant.
LEMMA QueuePosted ==
    ASSUME TypeOK, ClockLeads, QueueInv, reader \in Alive,
           NEW s \in Signal, PostOK(s), queue' = Append(queue, s),
           rcvd' = rcvd, now' = now
    PROVE  QueueInv'
<1>1. /\ queue \in Seq(Signal) /\ Len(queue) \in Nat /\ Len(queue) <= MaxQueue
      /\ \A i \in DOMAIN queue : queue[i].kind = "data" /\ Deliverable(queue[i])
      /\ \A i, j \in DOMAIN queue : i < j => queue[i].ts <= queue[j].ts
      /\ DOMAIN queue = 1..Len(queue)
  BY LenProperties DEF QueueInv, QueueInOrder, ReaderHasRoom
<1>2. /\ queue' \in Seq(Signal) /\ Len(queue') = Len(queue) + 1
      /\ DOMAIN queue' = 1..Len(queue) + 1
      /\ \A i \in 1..Len(queue) : queue'[i] = queue[i]
      /\ queue'[Len(queue) + 1] = s
  BY <1>1, AppendProperties
<1>3. now \in Stamps /\ now \in Nat  BY ClockStamps DEF TypeOK
<1>4. Stamps' = Stamps  BY DEF Stamps
<1>5. \A i \in DOMAIN queue : queue[i].ts <= now
  BY <1>1 DEF Deliverable, Stamps
<1>6. \A i \in DOMAIN queue' : Deliverable(queue[i])'
  <2> SUFFICES ASSUME NEW i \in 1..Len(queue) + 1 PROVE Deliverable(queue[i])'
    BY <1>2
  <2>1. CASE i \in 1..Len(queue)  BY <1>1, <1>2, <1>4, <2>1 DEF Deliverable
  <2>2. CASE i = Len(queue) + 1  BY <1>2, <1>3, <1>4, <2>2 DEF PostOK, Deliverable
  <2> QED BY <1>1, <2>1, <2>2
<1>7. ASSUME NEW i \in DOMAIN queue', NEW j \in DOMAIN queue', i < j
      PROVE  queue'[i].kind = "data" /\ (queue'[j].kind = "data" => queue'[i].ts <= queue'[j].ts)
  <2>1. i \in 1..Len(queue) /\ queue'[i] = queue[i] /\ queue[i].kind = "data"
    BY <1>1, <1>2, <1>7
  <2>2. CASE j \in 1..Len(queue)  BY <1>1, <1>2, <1>7, <2>1, <2>2
  <2>3. CASE j = Len(queue) + 1
    BY <1>1, <1>2, <1>5, <2>1, <2>3 DEF PostOK
  <2> QED BY <1>1, <1>2, <2>2, <2>3, <2>1
<1>8. QueueInOrder'  BY <1>6, <1>7 DEF QueueInOrder
<1>9. ReaderHasRoom'
  <2> SUFFICES ASSUME reader' \in Alive
               PROVE  Len(queue') <= MaxQueue /\ \A i \in DOMAIN queue' : queue'[i].kind = "data"
    BY DEF ReaderHasRoom, Alive
  <2>1. s.kind = "data" /\ Len(queue) < MaxQueue  BY DEF PostOK
  <2>2. ASSUME NEW i \in 1..Len(queue) + 1 PROVE queue'[i].kind = "data"
    <3>1. CASE i \in 1..Len(queue)  BY <1>1, <1>2, <3>1
    <3>2. CASE i = Len(queue) + 1  BY <1>2, <2>1, <3>2
    <3> QED BY <1>1, <3>1, <3>2
  <2> QED BY <1>1, <1>2, <2>1, <2>2, SerialSessionAssumption
<1>10. Len(queue') <= MaxQueue + 1  BY <1>1, <1>2, SerialSessionAssumption
<1> QED BY <1>2, <1>8, <1>9, <1>10 DEF QueueInv

\* What is left when the oldest signal is served.
LEMMA TailFacts ==
    ASSUME QueueInv, queue # << >>
    PROVE  /\ Head(queue) = queue[1] /\ 1 \in DOMAIN queue
           /\ Head(queue) \in Signal
           /\ Len(queue) \in Nat \ {0}
           /\ DOMAIN queue = 1..Len(queue)
           /\ Tail(queue) \in Seq(Signal)
           /\ Len(Tail(queue)) = Len(queue) - 1
           /\ DOMAIN Tail(queue) = 1..Len(queue) - 1
           /\ \A i \in 1..Len(queue) - 1 : Tail(queue)[i] = queue[i + 1]
<1>1. queue \in Seq(Signal)  BY DEF QueueInv
<1> QED BY <1>1, HeadTailProperties, EmptySeq, LenProperties, ElementOfSeq

\* Serving a read keeps the order: those behind it are no older.
LEMMA QueueServed ==
    ASSUME TypeOK, QueueInv, queue # << >>, Head(queue).kind = "data",
           queue' = Tail(queue),
           rcvd' # << >>, rcvd'[Len(rcvd')].ts = Head(queue).ts, now' = now,
           reader' = reader
    PROVE  QueueInv'
<1>1. /\ Head(queue) = queue[1] /\ 1 \in DOMAIN queue
      /\ Len(queue) \in Nat \ {0}
      /\ DOMAIN queue = 1..Len(queue)
      /\ queue' \in Seq(Signal)
      /\ Len(queue') = Len(queue) - 1
      /\ DOMAIN queue' = 1..Len(queue) - 1
      /\ \A i \in 1..Len(queue) - 1 : queue'[i] = queue[i + 1]
  BY TailFacts
<1>2. \A i \in 1..Len(queue) - 1 : i + 1 \in DOMAIN queue /\ 1 < i + 1
  BY <1>1
<1>3. ASSUME NEW i \in DOMAIN queue' PROVE Deliverable(queue[i])'
  <2>1. Deliverable(queue[i + 1])  BY <1>1, <1>2 DEF QueueInv, QueueInOrder
  <2>2. queue'[i].kind = "data" => queue[1].ts <= queue'[i].ts
    BY <1>1, <1>2 DEF QueueInv, QueueInOrder
  <2> QED BY <1>1, <2>1, <2>2 DEF Deliverable, Stamps
<1>4. ASSUME NEW i \in DOMAIN queue', NEW j \in DOMAIN queue', i < j
      PROVE  queue'[i].kind = "data" /\ (queue'[j].kind = "data" => queue'[i].ts <= queue'[j].ts)
  <2>1. i + 1 \in DOMAIN queue /\ j + 1 \in DOMAIN queue /\ i + 1 < j + 1
    BY <1>1, <1>4
  <2> QED BY <1>1, <2>1 DEF QueueInv, QueueInOrder
<1>5. QueueInOrder'  BY <1>3, <1>4 DEF QueueInOrder
<1>6. ReaderHasRoom'
  BY <1>1, <1>2, SerialSessionAssumption DEF QueueInv, ReaderHasRoom, Alive
<1>7. Len(queue') <= MaxQueue + 1  BY <1>1, SerialSessionAssumption DEF QueueInv
<1> QED BY <1>1, <1>5, <1>6, <1>7 DEF QueueInv

\* An error is the last signal: when it is served the queue is empty.
LEMMA ErrorIsLast ==
    ASSUME QueueInv, queue # << >>, Head(queue).kind = "error"
    PROVE  Tail(queue) = << >>
<1>1. Len(queue) = 1
  <2>1. Len(queue) > 1 => queue[1].kind = "data"
    <3>1. Len(queue) > 1 => 2 \in DOMAIN queue  BY TailFacts
    <3> QED BY <3>1, TailFacts DEF QueueInv, QueueInOrder
  <2> QED BY <2>1, TailFacts
<1>2. Tail(queue) \in Seq(Signal) /\ Len(Tail(queue)) = 0  BY <1>1, TailFacts
<1> QED BY <1>2, EmptySeq

-----------------------------------------------------------------------------
(* Each step of the serial session is a step of the open session.           *)

\* What a trigger does from inside the fan-out: disconnect() has only begun
\* when the slot returns, so the session sees nothing of it yet.
LEMMA ReactionImplements ==
    ASSUME HandlerMade, NEW timer, SerialReaction(timer), has_protocol
    PROVE  Reaction(timer)
BY DEF SerialReaction, Reaction

\* A read that is served is a chunk the session may receive.
LEMMA ServeDataImplements ==
    ASSUME TypeOK, QueueInv, HandlerMade, ServeData
    PROVE  /\ DataReceived
           /\ rcvd' # << >> /\ rcvd'[Len(rcvd')].ts = Head(queue).ts
           /\ now' = now
<1> DEFINE n == Head(queue).size
           ts == Head(queue).ts
<1>1. Head(queue).kind = "data" /\ queue # << >>  BY DEF ServeData
<1>2. n \in 1..MaxChunk /\ ts \in Stamps
  BY <1>1, TailFacts DEF QueueInv, QueueInOrder, Deliverable
<1> HIDE DEF n, ts
<1>3. /\ Len(rcvd) + Len(Chunk(n, ts)) <= MaxBytes
      /\ now + WINDOW <= MaxTime
      /\ Take(Chunk(n, ts))
      /\ \/ Hold(Chunk(n, ts), ts)
         \/ ForceFlush(Chunk(n, ts), ts) /\ SerialReaction(rx_timer)
  BY DEF ServeData, n, ts
<1>4. ts \in Nat  BY <1>2 DEF Stamps, TypeOK
<1>5. Len(Chunk(n, ts)) = n  BY <1>2, <1>4, ChunkFacts
<1>6. \/ Hold(Chunk(n, ts), ts)
      \/ ForceFlush(Chunk(n, ts), ts) /\ Reaction(rx_timer)
  BY <1>3, ReactionImplements DEF Take
<1>7. DataReceived  BY <1>2, <1>3, <1>5, <1>6 DEF DataReceived
<1>8. rcvd' # << >> /\ rcvd'[Len(rcvd')].ts = ts
  BY <1>2, <1>3, <1>4, ChunkIsLast
<1> QED BY <1>3, <1>7, <1>8 DEF Take, ts

\* The idle timer is the session's own; nothing is held before a handler was
\* made.
LEMMA TimeoutImplements ==
    ASSUME HandlerMade, SerialRxTimeout PROVE RxTimeout
<1>1. CASE rx_buffer = << >>
  BY <1>1 DEF SerialRxTimeout, RxTimeout, SerialReaction
<1>2. CASE rx_buffer # << >>
  <2>1. SerialReaction(Off) /\ TimerFlush  BY <1>2 DEF SerialRxTimeout
  <2>2. Reaction(Off)
    BY <2>1 DEF HandlerMade, SerialReaction, Reaction
  <2> QED BY <1>2, <2>1, <2>2 DEF RxTimeout
<1> QED BY <1>1, <1>2

\* Every step of the serial session is a step of PortSession or leaves the
\* session alone.
LEMMA StepImplements ==
    ASSUME TypeOK, QueueInv, HandlerMade, [Next]_vars
    PROVE  [SessionNext]_sessionVars
<1>1. CASE UserConnect
  <2>1. \E s \in {"connecting", "connected", "error"} : Connect(s)
    BY <1>1 DEF UserConnect, Connect, sessionIdle
  <2> QED BY <2>1 DEF SessionNext
<1>10. ASSUME NEW w \in Worker, ServeSendError(w) PROVE [SessionNext]_sessionVars
  <2>1. has_protocol  BY <1>10 DEF ServeSendError, HandlerMade
  <2>2. OnProtocolSignal("error")
    BY <1>10, <2>1 DEF ServeSendError, OnProtocolSignal, sessionIdle
  <2> QED BY <2>2 DEF SessionNext
<1>11. ASSUME NEW w \in Worker, ApiSend(w) \/ ApiWrites(w) PROVE UNCHANGED sessionVars
  BY <1>11 DEF ApiSend, ApiWrites
<1>2. CASE ReconnectTimeout \/ ServeError \/ WriteFails
  <2>1. has_protocol  BY <1>2 DEF ReconnectTimeout, ServeError, WriteFails, HandlerMade
  <2>2. \E s \in {"connected", "disconnected", "error"} : OnProtocolSignal(s)
    BY <1>2, <2>1 DEF ReconnectTimeout, DoConnect, ServeError, WriteFails,
                      OnProtocolSignal, sessionIdle
  <2> QED BY <2>2 DEF SessionNext
<1>3. CASE ServeData  BY <1>3, ServeDataImplements DEF SessionNext
<1>4. CASE SerialRxTimeout  BY <1>4, TimeoutImplements DEF SessionNext
<1>5. CASE EndDisconnect
  <2>1. Disconnect("disconnected")  BY <1>5 DEF EndDisconnect
  <2> QED BY <2>1 DEF SessionNext
<1>6. CASE UserDisconnect \/ OrphanFails  BY <1>6 DEF UserDisconnect, OrphanFails
<1>7. CASE Reader
  BY <1>7 DEF Reader, ReaderStart, ReaderTest, ReaderRead, ReaderIdles, ReaderFails, readerIdle
<1>8. CASE Environment  BY <1>8 DEF Environment, SessionNext
<1>9. CASE UNCHANGED vars  BY <1>9 DEF vars
<1>12. CASE Api  BY <1>10, <1>11, <1>12 DEF Api
<1> QED BY <1>1, <1>2, <1>3, <1>4, <1>5, <1>6, <1>7, <1>8, <1>9, <1>12 DEF Next, Main

-----------------------------------------------------------------------------
(* Every step keeps the queue's invariant.                                  *)

LEMMA StepKeepsQueue ==
    ASSUME TypeOK, ClockLeads, QueueInv, HandlerInv, [Next]_vars PROVE QueueInv'
<1> USE DEF HandlerInv
<1>1. CASE UserConnect  BY <1>1, QueueCleared DEF UserConnect
<1>2. CASE ServeData
  BY <1>2, ServeDataImplements, QueueServed, TailFacts DEF ServeData, SerialReaction, handlerIdle
<1>3. CASE ServeError
  BY <1>3, ErrorIsLast, QueueCleared DEF ServeError
<1>4. ASSUME queue' = queue, rcvd' = rcvd, now' \in {now, now + 1},
             reader' \in Alive => reader \in Alive \/ queue = << >>
      PROVE  QueueInv'
  BY <1>4, QueueKept
<1>5. CASE ReconnectTimeout
  BY <1>4, <1>5 DEF ReconnectTimeout, DoConnect, sessionIdle, RetryRests
<1>6. CASE SerialRxTimeout
  BY <1>4, <1>6 DEF SerialRxTimeout, TimerFlush, SerialReaction, handlerIdle
<1>7. CASE EndDisconnect
  <2>1. rcvd' = rcvd /\ now' = now /\ reader' \notin Alive
    BY <1>7 DEF EndDisconnect, Disconnect, Alive
  <2>2. CASE queue' = queue  BY <1>4, <2>1, <2>2
  <2>3. CASE reader \in Alive /\ queue' = Append(queue, [kind |-> "error"])
    <3>1. [kind |-> "error"] \in Signal /\ PostOK([kind |-> "error"])
      BY <2>1 DEF Signal, PostOK
    <3> QED BY <2>1, <2>3, <3>1, QueuePosted
  <2> QED BY <1>7, <2>2, <2>3 DEF EndDisconnect, Alive
<1>8. CASE ReaderStart \/ ReaderTest \/ ReaderIdles
  BY <1>4, <1>8 DEF ReaderStart, ReaderTest, ReaderIdles, readerIdle, sessionVars, Alive
<1>9. ASSUME NEW n \in 1..MaxChunk, ReaderRead(n) PROVE QueueInv'
  <2> DEFINE s == [kind |-> "data", size |-> n, ts |-> now]
  <2>1. s \in Signal
    <3>1. n \in Nat \ {0} /\ now \in Nat  BY PortSessionAssumption DEF TypeOK
    <3> QED BY <3>1 DEF Signal
  <2>2. reader \in Alive /\ rcvd' = rcvd /\ now' = now /\ queue' = Append(queue, s)
        /\ Len(queue) < MaxQueue
    BY <1>9 DEF ReaderRead, readerIdle, sessionVars, Alive
  <2>3. PostOK(s)  BY <2>2 DEF PostOK
  <2> QED BY <2>1, <2>2, <2>3, QueuePosted
<1>10. CASE ReaderFails
  <2>1. reader \in Alive /\ reader' \notin Alive /\ rcvd' = rcvd /\ now' = now
        /\ queue' = Append(queue, [kind |-> "error"])
    BY <1>10 DEF ReaderFails, readerIdle, sessionVars, Alive
  <2>2. [kind |-> "error"] \in Signal /\ PostOK([kind |-> "error"])
    BY <2>1 DEF Signal, PostOK
  <2> QED BY <2>1, <2>2, QueuePosted
<1>11. CASE OrphanFails \/ UserDisconnect \/ WriteFails
  BY <1>4, <1>11 DEF OrphanFails, UserDisconnect, BeginDisconnect, WriteFails, sessionVars,
                     sessionIdle, handlerIdle
<1>12. CASE Environment
  BY <1>4, <1>12 DEF Environment, StartLogging, StopLogging, Tick, serialVars, sessionVars
<1>13. CASE UNCHANGED vars
  BY <1>4, <1>13 DEF vars, serialVars, sessionVars
<1>14. ASSUME NEW w \in Worker, ApiSend(w) \/ ApiWrites(w) \/ ServeSendError(w)
       PROVE  QueueInv'
  BY <1>4, <1>14 DEF ApiSend, ApiWrites, ServeSendError, sessionVars, sessionIdle
<1>15. CASE Api  BY <1>14, <1>15 DEF Api
<1> QED BY <1>1, <1>2, <1>3, <1>5, <1>6, <1>7, <1>8, <1>9, <1>10, <1>11, <1>12, <1>13, <1>15
        DEF Next, Main, Reader

-----------------------------------------------------------------------------
(* Every step keeps the handler's invariant.                                *)

ErrorPosted == \E i \in DOMAIN queue : queue[i].kind = "error"

\* Serving a read leaves a posted error in the queue.
LEMMA ErrorStays ==
    ASSUME QueueInv, queue # << >>, Head(queue).kind = "data", queue' = Tail(queue),
           ErrorPosted
    PROVE  ErrorPosted'
<1>1. PICK i \in DOMAIN queue : queue[i].kind = "error"  BY DEF ErrorPosted
<1>2. i \in Nat /\ i # 1 /\ i \in 1..Len(queue)  BY <1>1, TailFacts
<1>3. i - 1 \in 1..Len(queue) - 1 /\ (i - 1) + 1 = i  BY <1>2, TailFacts
<1>4. i - 1 \in DOMAIN queue' /\ queue'[i - 1] = queue[i]  BY <1>3, TailFacts
<1> QED BY <1>1, <1>4 DEF ErrorPosted

\* So does posting, and the error is then there.
LEMMA ErrorIsPosted ==
    ASSUME queue \in Seq(Signal), NEW s \in Signal, queue' = Append(queue, s),
           ErrorPosted \/ s.kind = "error"
    PROVE  ErrorPosted'
<1>1. /\ Len(queue) \in Nat /\ DOMAIN queue = 1..Len(queue)
      /\ DOMAIN queue' = 1..Len(queue) + 1
      /\ \A i \in 1..Len(queue) : queue'[i] = queue[i]
      /\ queue'[Len(queue) + 1] = s
  BY AppendProperties, LenProperties
<1> QED BY <1>1 DEF ErrorPosted

\* What the main thread's own steps must not disturb, spelled with ErrorPosted.
LEMMA HandlerParts ==
    HandlerInv <=>
        /\ HandlerTypes /\ HandlerMade /\ RetryRests /\ StopIsMarked /\ ReaderKeepsFlag
        /\ status = "connected" /\ main = "loop" => serial /\ (reader \in Alive \/ ErrorPosted)
        /\ StaysDisconnected
BY DEF HandlerInv, ConnectedIsServed, ErrorPosted

\* A trigger's effect, whether it does nothing, breaks the port or begins a
\* disconnect().
LEMMA ReactionKeepsHandler ==
    ASSUME HandlerInv, NEW timer, SerialReaction(timer),
           has_protocol' = has_protocol, main = "loop",
           ErrorPosted => ErrorPosted', queue = << >> => queue' = << >>
    PROVE  HandlerInv'
<1> USE DEF HandlerTypes, HandlerMade, RetryRests, StopIsMarked, ReaderKeepsFlag,
            StaysDisconnected, SerialReaction, Alive
<1>1. /\ HandlerTypes /\ HandlerMade /\ RetryRests /\ StopIsMarked /\ ReaderKeepsFlag
      /\ status = "connected" /\ main = "loop" => serial /\ (reader \in Alive \/ ErrorPosted)
      /\ StaysDisconnected
  BY HandlerParts
<1>2. status' = "connected" /\ main' = "loop" => serial' /\ (reader' \in Alive \/ ErrorPosted')
  BY <1>1
<1>3. ConnectedIsServed'  BY <1>2 DEF ConnectedIsServed, ErrorPosted
<1>4. HandlerTypes'  BY <1>1 DEF BeginDisconnect
<1>5. HandlerMade'  BY <1>1 DEF BeginDisconnect
<1>6. RetryRests' /\ StopIsMarked'  BY <1>1 DEF BeginDisconnect
<1>7. ReaderKeepsFlag' /\ StaysDisconnected'  BY <1>1 DEF BeginDisconnect
<1> QED BY <1>3, <1>4, <1>5, <1>6, <1>7 DEF HandlerInv

LEMMA StepKeepsHandler ==
    ASSUME QueueInv, HandlerInv, [Next]_vars PROVE HandlerInv'
<1> USE DEF HandlerTypes, HandlerMade, RetryRests, StopIsMarked, ReaderKeepsFlag,
            StaysDisconnected, Alive
<1>1. /\ HandlerTypes /\ HandlerMade /\ RetryRests /\ StopIsMarked /\ ReaderKeepsFlag
      /\ status = "connected" /\ main = "loop" => serial /\ (reader \in Alive \/ ErrorPosted)
      /\ StaysDisconnected
  BY HandlerParts
<1>2. ASSUME HandlerTypes', HandlerMade', RetryRests', StopIsMarked', ReaderKeepsFlag',
             status' = "connected" /\ main' = "loop" =>
                 serial' /\ (reader' \in Alive \/ ErrorPosted'),
             StaysDisconnected'
      PROVE  HandlerInv'
  BY <1>2 DEF HandlerInv, ConnectedIsServed, ErrorPosted
<1>3. CASE UserConnect
  BY <1>1, <1>2, <1>3 DEF UserConnect, LateErrors, ReaderPlace, SendPlace
<1>4. CASE ReconnectTimeout
  BY <1>1, <1>2, <1>4 DEF ReconnectTimeout, DoConnect, ReaderPlace
<1>5. CASE ServeData
  <2>1. ErrorPosted => ErrorPosted'  BY <1>5, ErrorStays DEF ServeData
  <2>2. queue # << >> /\ main = "loop" /\ has_protocol /\ has_protocol'
    BY <1>5 DEF ServeData, Take
  <2>3. CASE UNCHANGED <<status, handlerIdle, reconnect, main>>
    BY <1>1, <1>2, <2>1, <2>2, <2>3 DEF handlerIdle
  <2>4. CASE SerialReaction(rx_timer)
    BY <2>1, <2>2, <2>4, <1>5, ReactionKeepsHandler DEF ServeData, Take
  <2> QED BY <1>5, <2>3, <2>4 DEF ServeData, Hold
<1>6. CASE SerialRxTimeout
  <2>1. ErrorPosted' = ErrorPosted /\ queue' = queue /\ main = "loop"
        /\ has_protocol' = has_protocol
    BY <1>6 DEF SerialRxTimeout, TimerFlush, ErrorPosted
  <2>2. CASE UNCHANGED <<status, is_logging, handlerIdle, reconnect, main>>
    BY <1>1, <1>2, <2>1, <2>2 DEF handlerIdle
  <2>3. CASE SerialReaction(Off)
    BY <2>1, <2>3, ReactionKeepsHandler
  <2> QED BY <1>6, <2>2, <2>3 DEF SerialRxTimeout
<1>7. CASE ServeError
  BY <1>1, <1>2, <1>7, ErrorIsLast DEF ServeError, sessionIdle, ReaderPlace
<1>8. CASE WriteFails
  BY <1>1, <1>2, <1>8 DEF WriteFails, handlerIdle, ErrorPosted
<1>9. CASE UserDisconnect
  BY <1>1, <1>2, <1>9 DEF UserDisconnect, BeginDisconnect, sessionVars
<1>10. CASE EndDisconnect
  BY <1>1, <1>2, <1>10 DEF EndDisconnect, Disconnect, ReaderPlace
<1>11. CASE ReaderStart \/ ReaderTest \/ ReaderIdles
  <2>1. ErrorPosted' = ErrorPosted
    BY <1>11 DEF ReaderStart, ReaderTest, ReaderIdles, ErrorPosted
  <2> QED BY <1>1, <1>2, <1>11, <2>1 DEF ReaderStart, ReaderTest, ReaderIdles, readerIdle,
                                        sessionVars, ReaderPlace
<1>12. ASSUME NEW n \in 1..MaxChunk, ReaderRead(n) PROVE HandlerInv'
  BY <1>1, <1>2, <1>12 DEF ReaderRead, readerIdle, sessionVars, ReaderPlace
<1>13. CASE ReaderFails
  <2>1. ErrorPosted'
    <3>1. [kind |-> "error"] \in Signal  BY DEF Signal
    <3> QED BY <1>13, <3>1, ErrorIsPosted DEF ReaderFails, QueueInv
  <2> QED BY <1>1, <1>2, <1>13, <2>1 DEF ReaderFails, readerIdle, sessionVars, ReaderPlace
<1>14. CASE \/ OrphanFails \/ Environment \/ UNCHANGED vars
  <2>1. /\ UNCHANGED <<status, has_protocol, serial, reader, running, queue, reconnect,
                       user_disc, main, api>>
        /\ orphan' \in BOOLEAN /\ device' \in BOOLEAN
    BY <1>1, <1>14 DEF OrphanFails, Environment, StartLogging, StopLogging, Tick, vars,
                       sessionVars, serialVars
  <2>2. ErrorPosted' = ErrorPosted  BY <2>1 DEF ErrorPosted
  <2> QED BY <1>1, <1>2, <2>1, <2>2
<1>15. ASSUME NEW w \in Worker, ApiSend(w) \/ ApiWrites(w) \/ ServeSendError(w)
       PROVE  HandlerInv'
  <2>1. /\ UNCHANGED <<has_protocol, serial, reader, running, orphan, queue, reconnect,
                       user_disc, main, device>>
        /\ status' \in {status, "error"}
    BY <1>15 DEF ApiSend, ApiWrites, ServeSendError, sessionVars
  <2>2. ErrorPosted' = ErrorPosted  BY <2>1 DEF ErrorPosted
  <2>3. api' \in [Worker -> SendPlace]
    BY <1>1, <1>15 DEF ApiSend, ApiWrites, ServeSendError, SendPlace
  <2>4. has_protocol \/ api' = api
    <3>1. CASE ApiSend(w)  BY <1>1, <3>1 DEF ApiSend
    <3>2. CASE ApiWrites(w) \/ ServeSendError(w)
      BY <1>1, <3>2 DEF ApiWrites, ServeSendError
    <3> QED BY <1>15, <3>1, <3>2
  <2> QED BY <1>1, <1>2, <2>1, <2>2, <2>3, <2>4
<1>16. CASE Api  BY <1>15, <1>16 DEF Api
<1> QED BY <1>3, <1>4, <1>5, <1>6, <1>7, <1>8, <1>9, <1>10, <1>11, <1>12, <1>13, <1>14, <1>16
        DEF Next, Main, Reader

-----------------------------------------------------------------------------
\* The strengthened invariant holds in every state of the serial session.
THEOREM SerialInductive == Spec => []SerialIInv
<1> USE DEF SerialIInv
<1>1. Init => SerialIInv
  <2> SUFFICES ASSUME Init PROVE SerialIInv  OBVIOUS
  <2>1. CoalescerIInv  BY InitInvariant DEF Init
  <2>2. ClockLeads  BY DEF Init, SessionInit, ClockLeads
  <2>3. << >> \in Seq(Signal) /\ Len(<< >>) = 0 /\ DOMAIN << >> = {}  OBVIOUS
  <2>4. QueueInv
    BY <2>3, SerialSessionAssumption DEF Init, QueueInv, QueueInOrder, ReaderHasRoom
  <2>5. HandlerInv
    BY DEF Init, SessionInit, HandlerInv, HandlerTypes, HandlerMade, RetryRests,
           StopIsMarked, ReaderKeepsFlag, ConnectedIsServed, StaysDisconnected,
           ReaderPlace, Alive, SendPlace
  <2> QED BY <2>1, <2>2, <2>4, <2>5
<1>2. SerialIInv /\ [Next]_vars => SerialIInv'
  <2> SUFFICES ASSUME SerialIInv, [Next]_vars PROVE SerialIInv'  OBVIOUS
  <2>1. TypeOK /\ HandlerMade  BY DEF CoalescerIInv, HandlerInv
  <2>2. [SessionNext]_sessionVars  BY <2>1, StepImplements
  <2>3. CoalescerIInv' /\ ClockLeads'  BY <2>2, StepInvariant, StepClockLeads
  <2>4. QueueInv'  BY <2>1, StepKeepsQueue
  <2>5. HandlerInv'  BY StepKeepsHandler
  <2> QED BY <2>3, <2>4, <2>5
<1> QED BY <1>1, <1>2, PTL DEF Spec

\* What the session does over a serial port, with a reader thread, a queue of
\* its signals, retries and a stop() that may give up waiting, is what
\* PortSession allows: every theorem about PortSession holds of it.
THEOREM SerialImplements == Spec => ImplementsSession
<1>1. Init => SessionInit  BY DEF Init
<1>2. SerialIInv /\ [Next]_vars => [SessionNext]_sessionVars
  BY StepImplements DEF SerialIInv, CoalescerIInv, HandlerInv
<1> QED BY <1>1, <1>2, SerialInductive, PTL DEF Spec, ImplementsSession, SessionSpec

\* CONNECTED means an open port with a reader, or that reader's error on its
\* way, and after disconnect() nothing in flight opens the port again or shows
\* it as connected.
THEOREM SerialKeepsInv == Spec => []SerialInv
<1>1. SerialIInv => SerialInv
  <2> SUFFICES ASSUME SerialIInv PROVE SerialInv  OBVIOUS
  <2>1. TypeOK /\ HandlerTypes /\ queue \in Seq(Signal) /\ Len(queue) <= MaxQueue + 1
    BY DEF SerialIInv, CoalescerIInv, HandlerInv, QueueInv
  <2>2. SerialTypeOK  BY <2>1 DEF HandlerTypes, SerialTypeOK
  <2> QED BY <2>2 DEF SerialIInv, HandlerInv, SerialInv
<1> QED BY <1>1, SerialInductive, PTL

\* A step of the main thread that shows another status than DISCONNECTED after
\* disconnect() has returned serves the error of a REST write.
LEMMA LateStatus ==
    ASSUME QueueInv, HandlerInv, Next, user_disc, user_disc', main = "loop",
           status' # status, status' # "disconnected"
    PROVE  \E w \in Worker : api[w] = "failed" /\ api'[w] = "idle"
<1>1. ~serial /\ ~reconnect /\ status # "connected" /\ api \in [Worker -> SendPlace]
  BY DEF HandlerInv, HandlerTypes, StaysDisconnected
<1>2. ASSUME NEW w \in Worker, ServeSendError(w)
      PROVE  api[w] = "failed" /\ api'[w] = "idle"
  BY <1>1, <1>2 DEF ServeSendError
<1>3. CASE Api  BY <1>2, <1>3 DEF Api, ApiSend, ApiWrites, sessionVars
<1>4. ~ServeData /\ ~SerialRxTimeout
  BY <1>1 DEF ServeData, SerialRxTimeout, SerialReaction, Hold
<1>5. ~UserConnect /\ ~ReconnectTimeout /\ ~ServeError /\ ~EndDisconnect /\ ~WriteFails
  BY <1>1 DEF UserConnect, ReconnectTimeout, ServeError, EndDisconnect, WriteFails
<1>6. ~UserDisconnect /\ ~OrphanFails /\ ~Reader
  BY DEF UserDisconnect, OrphanFails, Reader, ReaderStart, ReaderTest, ReaderRead,
         ReaderIdles, ReaderFails, readerIdle, sessionVars
<1>7. ~Environment
  BY DEF Environment, StartLogging, StopLogging, Tick, sessionVars
<1> QED BY <1>3, <1>4, <1>5, <1>6, <1>7 DEF Next, Main

\* Whatever the handler, its retry and its reader have in flight, only a REST
\* write that was under way can change what a disconnected session shows.
THEOREM SerialOnlyLateWrites == Spec => OnlyLateWritesShow
<1>1. SerialIInv /\ [Next]_vars =>
        [user_disc /\ user_disc' /\ main = "loop" /\ status' \notin {status, "disconnected"}
           => \E w \in Worker : api[w] = "failed" /\ api'[w] = "idle"]_vars
  BY LateStatus DEF SerialIInv
<1> QED BY <1>1, SerialInductive, PTL DEF Spec, OnlyLateWritesShow
=============================================================================
