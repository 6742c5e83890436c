--------------------------- MODULE PortSessionProofs ---------------------------
(***************************************************************************)
(* What PortSession promises for every cap, window and bound: its types,   *)
(* the coalescer, the order of its timestamps and the tail of its log.     *)
(*                                                                         *)
(* The inductive invariant is TypeOK, the four parts of CoalescerInv and   *)
(* one fact none of them says: a timer left running over an empty buffer   *)
(* (ForceFlush leaves it so) expires within WINDOW of now.  The order of   *)
(* the timestamps and the log's tail have an invariant each on top of it,  *)
(* StampInv and LogInv.                                                    *)
(***************************************************************************)
EXTENDS PortSession, SequenceTheorems, TLAPS

\* The timer never lies further ahead than one window.
TimerBound == rx_timer # Off => rx_timer <= now + WINDOW

CoalescerIInv == TypeOK /\ CoalescerInv /\ TimerBound

-----------------------------------------------------------------------------
(* Lemmas on the operators.                                                 *)

\* Received, held and new bytes may be joined in either order.
LEMMA BytesAssociate ==
    \A a, b, c \in Seq(Byte) : (a \o b) \o c = a \o (b \o c)
<1> SUFFICES ASSUME NEW S, NEW a \in Seq(S), NEW b \in Seq(S), NEW c \in Seq(S)
             PROVE  (a \o b) \o c = a \o (b \o c)
  OBVIOUS
<1> QED BY ConcatAssociative

\* The chunk handed to _on_data_received: n bytes, all with one timestamp.
LEMMA ChunkFacts ==
    ASSUME TypeOK, NEW n \in 1..MaxChunk, NEW ts \in Nat
    PROVE  /\ Chunk(n, ts) \in Seq(Byte)
           /\ Len(Chunk(n, ts)) = n
           /\ Chunk(n, ts) # << >>
           /\ \A i \in 1..n : Chunk(n, ts)[i].ts = ts /\ Chunk(n, ts)[i].at = now
<1> USE PortSessionAssumption
<1> DEFINE b(i) == [id |-> Len(rcvd) + i, ts |-> ts, at |-> now]
<1>1. n \in Nat \ {0}  OBVIOUS
<1>2. Len(rcvd) \in Nat /\ now \in Nat  BY DEF TypeOK
<1>3. \A i \in 1..n : b(i) \in Byte  BY <1>1, <1>2 DEF Byte
<1>4. Chunk(n, ts) \in [1..n -> Byte]  BY <1>3 DEF Chunk
<1>5. Chunk(n, ts) \in Seq(Byte) /\ Len(Chunk(n, ts)) = n
  BY <1>1, <1>4
<1>6. Chunk(n, ts) # << >>  BY <1>1, <1>5
<1> QED BY <1>1, <1>5, <1>6 DEF Chunk

\* _flush_rx_buffer empties the buffer and hands all of it on, in order.
LEMMA FlushFacts ==
    ASSUME TypeOK, NEW buf \in Seq(Byte), NEW ts \in Nat, Flush(buf, ts)
    PROVE  /\ rx_buffer' = << >> /\ rx_buffer_size' = 0 /\ rx_first_ts' = ts
           /\ delivered' = delivered \o buf
           /\ delivered' \in Seq(Byte)
           /\ emitted' = IF buf = << >> THEN emitted ELSE [data |-> buf, ts |-> ts]
           /\ emitted' \in [data : Seq(Byte), ts : Nat]
           /\ log' \in Seq(Byte)
           /\ log' = IF is_logging THEN log \o buf ELSE log
           /\ logStart' = logStart
<1>1. delivered \in Seq(Byte) /\ log \in Seq(Byte)  BY DEF TypeOK
<1>2. delivered \o << >> = delivered /\ log \o << >> = log
  BY <1>1, ConcatEmptySeq
<1>3. delivered \o buf \in Seq(Byte) /\ log \o buf \in Seq(Byte)
  BY <1>1, ConcatProperties
<1>4. /\ rx_buffer' = << >> /\ rx_buffer_size' = 0 /\ rx_first_ts' = ts
      /\ IF buf = << >> THEN UNCHANGED <<delivered, emitted, log, logStart>>
                        ELSE FanOut(buf, ts)
  BY DEF Flush, outVars
<1>5. CASE buf = << >>
  BY <1>1, <1>2, <1>4, <1>5 DEF TypeOK
<1>6. CASE buf # << >>
  <2>1. /\ delivered' = delivered \o buf
        /\ emitted' = [data |-> buf, ts |-> ts]
        /\ log' = IF is_logging THEN log \o buf ELSE log
        /\ logStart' = logStart
    BY <1>4, <1>6 DEF FanOut
  <2>2. [data |-> buf, ts |-> ts] \in [data : Seq(Byte), ts : Nat]
    OBVIOUS
  <2>3. log' \in Seq(Byte)  BY <1>1, <1>3, <2>1
  <2> QED BY <1>1, <1>3, <1>4, <1>6, <2>1, <2>2, <2>3
<1> QED BY <1>5, <1>6

-----------------------------------------------------------------------------
(* The inductive invariant.                                                 *)

\* The invariant holds when the session is made.
LEMMA InitInvariant == SessionInit => CoalescerIInv
<1> SUFFICES ASSUME SessionInit PROVE CoalescerIInv  OBVIOUS
<1> USE PortSessionAssumption DEF SessionInit
<1>1. << >> \in Seq(Byte) /\ Len(<< >>) = 0  BY EmptySeq
<1>2. TypeOK  BY <1>1 DEF TypeOK, Status, Off, Nothing
<1>3. Lossless  BY <1>1, ConcatEmptySeq DEF Lossless
<1>4. SizeAgrees  BY <1>1 DEF SizeAgrees
<1>5. HeldBound /\ FirstStamp /\ TimerBound  BY DEF HeldBound, FirstStamp, TimerBound
<1> QED BY <1>2, <1>3, <1>4, <1>5 DEF CoalescerIInv, CoalescerInv

\* Any step that hands on all that is held and all that it receives keeps the
\* invariant, whatever it does to the timer within its bound.
LEMMA FlushedInvariant ==
    ASSUME CoalescerIInv,
           NEW chunk \in Seq(Byte), NEW ts \in Nat,
           Flush(rx_buffer \o chunk, ts),
           rcvd' = rcvd \o chunk,
           status' \in Status, has_protocol' \in BOOLEAN, is_logging' \in BOOLEAN,
           now' = now,
           rx_timer' \in {rx_timer, Off}
    PROVE  CoalescerIInv'
<1> USE PortSessionAssumption DEF CoalescerIInv
<1>1. /\ rx_buffer \in Seq(Byte) /\ rcvd \in Seq(Byte) /\ delivered \in Seq(Byte)
      /\ rx_timer \in Nat \cup {Off} /\ now \in Nat /\ logStart \in Nat
  BY DEF TypeOK
<1> DEFINE buf == rx_buffer \o chunk
<1>2. buf \in Seq(Byte) /\ rcvd \o chunk \in Seq(Byte)
  BY <1>1, ConcatProperties
<1>3. /\ rx_buffer' = << >> /\ rx_buffer_size' = 0 /\ rx_first_ts' = ts
      /\ delivered' = delivered \o buf
      /\ delivered' \in Seq(Byte)
      /\ emitted' \in [data : Seq(Byte), ts : Nat]
      /\ log' \in Seq(Byte)
      /\ logStart' = logStart
  <2> HIDE DEF buf
  <2> QED BY <1>2, FlushFacts DEF buf
<1>4. << >> \in Seq(Byte) /\ Len(<< >>) = 0  BY EmptySeq
<1>5. TypeOK'  BY <1>1, <1>2, <1>3, <1>4 DEF TypeOK, Off
<1>6. Lossless'
  <2>1. (delivered \o rx_buffer) \o chunk = delivered \o (rx_buffer \o chunk)
    BY <1>1, BytesAssociate, ZenonT(40)
  <2>2. delivered \o rx_buffer = rcvd  BY DEF CoalescerInv, Lossless
  <2>3. delivered' \o << >> = delivered'  BY <1>3, ConcatEmptySeq
  <2> QED BY <1>3, <2>1, <2>2, <2>3 DEF Lossless
<1>7. SizeAgrees'  BY <1>3, <1>4 DEF SizeAgrees
<1>8. HeldBound' /\ FirstStamp'  BY <1>3 DEF HeldBound, FirstStamp
<1>9. TimerBound'  BY <1>1 DEF TimerBound
<1> QED BY <1>5, <1>6, <1>7, <1>8, <1>9 DEF CoalescerInv

\* _on_data_received below the cap.
LEMMA HoldInvariant ==
    ASSUME CoalescerIInv, NEW n \in 1..MaxChunk, NEW ts \in Nat,
           Take(Chunk(n, ts)), Hold(Chunk(n, ts), ts)
    PROVE  CoalescerIInv'
<1> USE PortSessionAssumption DEF CoalescerIInv
<1> DEFINE chunk == Chunk(n, ts)
<1>1. /\ chunk \in Seq(Byte) /\ Len(chunk) = n
      /\ \A i \in 1..n : chunk[i].ts = ts /\ chunk[i].at = now
  BY ChunkFacts
<1>2. n \in Nat \ {0} /\ 1 \in 1..n  OBVIOUS
<1> HIDE DEF chunk
<1>3. /\ rx_buffer \in Seq(Byte) /\ rcvd \in Seq(Byte) /\ delivered \in Seq(Byte)
      /\ rx_buffer_size \in Nat /\ rx_timer \in Nat \cup {Off}
      /\ rx_first_ts \in Nat /\ now \in Nat
  BY DEF TypeOK
<1>4. /\ rx_buffer_size + n < CAP
      /\ rx_first_ts' = IF rx_buffer = << >> THEN ts ELSE rx_first_ts
      /\ rx_buffer' = rx_buffer \o chunk
      /\ rx_buffer_size' = rx_buffer_size + n
      /\ rx_timer' = IF rx_timer = Off THEN now + WINDOW ELSE rx_timer
      /\ status' = status /\ is_logging' = is_logging
      /\ log' = log /\ logStart' = logStart
      /\ delivered' = delivered /\ emitted' = emitted
  BY <1>1 DEF Hold, chunk, logVars, outVars
<1>5. rcvd' = rcvd \o chunk /\ has_protocol' = has_protocol /\ now' = now
  BY DEF Take, chunk
<1>6. /\ rx_buffer' \in Seq(Byte) /\ rcvd' \in Seq(Byte)
      /\ Len(rx_buffer') = Len(rx_buffer) + n
      /\ rx_buffer # << >> => rx_buffer'[1] = rx_buffer[1]
      /\ rx_buffer = << >> => rx_buffer' = chunk
      /\ Len(rx_buffer) \in Nat
  <2>1. rx_buffer # << >> => Len(rx_buffer) \in Nat \ {0}  BY <1>3, EmptySeq
  <2>2. Len(rx_buffer) \in Nat  BY <1>3, LenProperties
  <2>3. /\ rx_buffer \o chunk \in Seq(Byte)
        /\ rcvd \o chunk \in Seq(Byte)
        /\ Len(rx_buffer \o chunk) = Len(rx_buffer) + n
        /\ \A i \in 1..Len(rx_buffer) + n :
             (rx_buffer \o chunk)[i] =
               IF i <= Len(rx_buffer) THEN rx_buffer[i] ELSE chunk[i - Len(rx_buffer)]
    BY <1>1, <1>3, ConcatProperties
  <2>4. rx_buffer = << >> => rx_buffer \o chunk = chunk
    BY <1>1, ConcatEmptySeq
  <2>5. rx_buffer # << >> => (rx_buffer \o chunk)[1] = rx_buffer[1]
    BY <1>2, <2>1, <2>3
  <2> QED BY <1>4, <1>5, <2>2, <2>3, <2>4, <2>5
<1>7. TypeOK'
  BY <1>2, <1>3, <1>4, <1>5, <1>6 DEF TypeOK, Off
<1>8. Lossless'
  <2>1. (delivered \o rx_buffer) \o chunk = delivered \o (rx_buffer \o chunk)
    BY <1>1, <1>3, BytesAssociate
  <2>2. delivered \o rx_buffer = rcvd  BY DEF CoalescerInv, Lossless
  <2> QED BY <1>4, <1>5, <2>1, <2>2 DEF Lossless
<1>9. SizeAgrees'
  <2>1. rx_buffer_size = Len(rx_buffer)  BY DEF CoalescerInv, SizeAgrees
  <2> QED BY <1>4, <1>6, <2>1 DEF SizeAgrees
<1>10. HeldBound'
  <2>1. CASE rx_buffer = << >>
    <3>1. rx_buffer'[1].at = now  BY <1>1, <1>2, <1>6, <2>1
    <3>2. rx_timer' # Off /\ rx_timer' <= now + WINDOW
      BY <1>3, <1>4 DEF TimerBound, Off
    <3> QED BY <3>1, <3>2 DEF HeldBound
  <2>2. CASE rx_buffer # << >>
    <3>1. rx_timer # Off /\ rx_timer <= rx_buffer[1].at + WINDOW
      BY <2>2 DEF CoalescerInv, HeldBound
    <3>2. rx_timer' = rx_timer /\ rx_buffer'[1] = rx_buffer[1]
      BY <1>4, <1>6, <2>2, <3>1
    <3>3. Off' = Off  BY DEF Off
    <3> QED BY <3>1, <3>2, <3>3 DEF HeldBound
  <2> QED BY <2>1, <2>2
<1>11. FirstStamp'
  <2>1. CASE rx_buffer = << >>
    <3>1. rx_buffer'[1].ts = ts  BY <1>1, <1>2, <1>6, <2>1
    <3> QED BY <1>4, <2>1, <3>1 DEF FirstStamp
  <2>2. CASE rx_buffer # << >>
    <3>1. rx_first_ts = rx_buffer[1].ts  BY <2>2 DEF CoalescerInv, FirstStamp
    <3> QED BY <1>4, <1>6, <2>2, <3>1 DEF FirstStamp
  <2> QED BY <2>1, <2>2
<1>12. TimerBound'  BY <1>3, <1>4, <1>5 DEF TimerBound, Off
<1> QED BY <1>7, <1>8, <1>9, <1>10, <1>11, <1>12 DEF CoalescerInv

\* What a trigger may do from inside the fan-out leaves the state well typed.
LEMMA ReactionFacts ==
    ASSUME TypeOK, NEW timer \in {rx_timer, Off}, Reaction(timer)
    PROVE  /\ status' \in Status /\ is_logging' \in BOOLEAN
           /\ rx_timer' \in {rx_timer, Off}
BY DEF Reaction, TypeOK, Status

\* _on_data_received, below the cap or at it, keeps the invariant.
LEMMA DataReceivedInvariant ==
    ASSUME CoalescerIInv, DataReceived PROVE CoalescerIInv'
<1>1. PICK n \in 1..MaxChunk, ts \in Stamps :
        /\ Take(Chunk(n, ts))
        /\ \/ Hold(Chunk(n, ts), ts)
           \/ ForceFlush(Chunk(n, ts), ts) /\ Reaction(rx_timer)
  BY DEF DataReceived
<1>2. TypeOK  BY DEF CoalescerIInv
<1>3. ts \in Nat  BY <1>2 DEF Stamps, TypeOK
<1>4. CASE Hold(Chunk(n, ts), ts)
  BY <1>1, <1>3, <1>4, HoldInvariant
<1>5. CASE ForceFlush(Chunk(n, ts), ts) /\ Reaction(rx_timer)
  <2> DEFINE first == IF rx_buffer = << >> THEN ts ELSE rx_first_ts
  <2>1. Chunk(n, ts) \in Seq(Byte)  BY <1>2, <1>3, ChunkFacts
  <2>2. first \in Nat  BY <1>2, <1>3 DEF TypeOK
  <2>3. Flush(rx_buffer \o Chunk(n, ts), first)  BY <1>5 DEF ForceFlush
  <2>4. /\ status' \in Status /\ is_logging' \in BOOLEAN
        /\ rx_timer' \in {rx_timer, Off}
    BY <1>2, <1>5, ReactionFacts
  <2>5. /\ rcvd' = rcvd \o Chunk(n, ts) /\ now' = now
        /\ has_protocol' \in BOOLEAN
    BY <1>1, <1>2 DEF Take, TypeOK
  <2> HIDE DEF first
  <2> QED BY <2>1, <2>2, <2>3, <2>4, <2>5, FlushedInvariant
<1> QED BY <1>1, <1>4, <1>5

\* Flushing what is held, with nothing new.
LEMMA FlushHeldInvariant ==
    ASSUME CoalescerIInv, Flush(rx_buffer, rx_first_ts),
           rcvd' = rcvd, has_protocol' = has_protocol, now' = now,
           status' \in Status, is_logging' \in BOOLEAN,
           rx_timer' \in {rx_timer, Off}
    PROVE  CoalescerIInv'
<1>1. /\ rx_buffer \in Seq(Byte) /\ rcvd \in Seq(Byte) /\ rx_first_ts \in Nat
      /\ has_protocol \in BOOLEAN
  BY DEF CoalescerIInv, TypeOK
<1>2. rx_buffer \o << >> = rx_buffer /\ rcvd \o << >> = rcvd
  BY <1>1, ConcatEmptySeq
<1>3. << >> \in Seq(Byte)  BY EmptySeq
<1> QED BY <1>1, <1>2, <1>3, FlushedInvariant

\* The idle timer's timeout keeps the invariant.
LEMMA RxTimeoutInvariant ==
    ASSUME CoalescerIInv, RxTimeout PROVE CoalescerIInv'
<1>1. TypeOK  BY DEF CoalescerIInv
<1>2. /\ Flush(rx_buffer, rx_first_ts)
      /\ has_protocol' = has_protocol /\ rcvd' = rcvd /\ now' = now
  BY DEF RxTimeout, TimerFlush
<1>3. /\ status' \in Status /\ is_logging' \in BOOLEAN
      /\ rx_timer' \in {rx_timer, Off}
  <2>1. CASE Reaction(Off)  BY <1>1, <2>1, ReactionFacts
  <2>2. CASE rx_timer' = Off /\ UNCHANGED <<status, is_logging>>
    BY <1>1, <2>2 DEF TypeOK
  <2> QED BY <2>1, <2>2 DEF RxTimeout
<1> QED BY <1>2, <1>3, FlushHeldInvariant

\* disconnect() keeps the invariant: it flushes what is held.
LEMMA DisconnectInvariant ==
    ASSUME CoalescerIInv, NEW outcome \in {status, "disconnected"}, Disconnect(outcome)
    PROVE  CoalescerIInv'
<1>1. status' \in Status  BY DEF Disconnect, CoalescerIInv, TypeOK, Status
<1> QED BY <1>1, FlushHeldInvariant DEF Disconnect

\* The remaining steps leave the receive path alone.
LEMMA OtherInvariant ==
    ASSUME CoalescerIInv,
           UNCHANGED <<rxVars, rcvd, outVars>>,
           status' \in Status, has_protocol' \in BOOLEAN, is_logging' \in BOOLEAN,
           log' \in Seq(Byte), logStart' \in Nat, now' \in {now, now + 1}
    PROVE  CoalescerIInv'
<1> USE PortSessionAssumption DEF CoalescerIInv, CoalescerInv
<1>1. TypeOK'
  <2>1. now' \in Nat  BY DEF TypeOK
  <2> QED BY <2>1 DEF TypeOK, rxVars, outVars, Off
<1>2. Lossless' /\ SizeAgrees' /\ FirstStamp'
  BY DEF Lossless, SizeAgrees, FirstStamp, rxVars, outVars
<1>3. HeldBound'  BY DEF HeldBound, rxVars, Off
<1>4. TimerBound'
  <2>1. rx_timer' = rx_timer /\ rx_timer \in Nat \cup {Off} /\ now \in Nat
    BY DEF TypeOK, rxVars
  <2>2. WINDOW \in Nat  BY DEF PortSessionAssumption
  <2>3. rx_timer # Off => rx_timer <= now + WINDOW  BY DEF TimerBound
  <2>4. \A t, m, n, w \in Nat : t <= m + w /\ n \in {m, m + 1} => t <= n + w
    OBVIOUS
  <2>5. rx_timer' # Off => rx_timer' <= now' + WINDOW
    BY <1>1, <2>1, <2>2, <2>3, <2>4 DEF TypeOK
  <2> QED BY <2>5 DEF TimerBound, Off
<1> QED BY <1>1, <1>2, <1>3, <1>4

\* Every step keeps the invariant.
LEMMA StepInvariant ==
    ASSUME CoalescerIInv, [SessionNext]_sessionVars PROVE CoalescerIInv'
<1>1. TypeOK  BY DEF CoalescerIInv
<1>2. CASE DataReceived  BY <1>2, DataReceivedInvariant
<1>3. CASE RxTimeout  BY <1>3, RxTimeoutInvariant
<1>4. ASSUME NEW s \in {"connecting", "connected", "error"}, Connect(s)
      PROVE  CoalescerIInv'
  BY <1>1, <1>4, OtherInvariant DEF Connect, TypeOK, Status, logVars
<1>5. ASSUME NEW s \in {status, "disconnected"}, Disconnect(s)
      PROVE  CoalescerIInv'
  BY <1>5, DisconnectInvariant
<1>6. ASSUME NEW s \in {"connected", "disconnected", "error"}, OnProtocolSignal(s)
      PROVE  CoalescerIInv'
  BY <1>1, <1>6, OtherInvariant DEF OnProtocolSignal, TypeOK, Status, logVars
<1>7. CASE StartLogging
  <2>1. << >> \in Seq(Byte) /\ Len(delivered) \in Nat
    BY <1>1, EmptySeq, LenProperties DEF TypeOK
  <2> QED BY <1>1, <1>7, <2>1, OtherInvariant DEF StartLogging, TypeOK
<1>8. CASE StopLogging
  BY <1>1, <1>8, OtherInvariant DEF StopLogging, TypeOK
<1>9. CASE Tick
  BY <1>1, <1>9, OtherInvariant DEF Tick, TypeOK, logVars
<1>10. CASE UNCHANGED sessionVars
  BY <1>1, <1>10, OtherInvariant DEF sessionVars, TypeOK, logVars
<1> QED BY <1>2, <1>3, <1>4, <1>5, <1>6, <1>7, <1>8, <1>9, <1>10 DEF SessionNext

\* The invariant holds of every state of a session.
THEOREM CoalescerInductive == SessionSpec => []CoalescerIInv
<1>1. SessionInit => CoalescerIInv  BY InitInvariant
<1>2. CoalescerIInv /\ [SessionNext]_sessionVars => CoalescerIInv'
  BY StepInvariant
<1> QED BY <1>1, <1>2, PTL DEF SessionSpec

\* Every variable of the session keeps its type.
THEOREM TypeCorrect == SessionSpec => []TypeOK
<1>1. CoalescerIInv => TypeOK  BY DEF CoalescerIInv
<1> QED BY <1>1, CoalescerInductive, PTL

\* For every cap, window and chunk size the coalescer neither loses, repeats
\* nor reorders a byte (_on_data_received, _flush_rx_buffer, disconnect).
THEOREM NothingLost == SessionSpec => []Lossless
<1>1. CoalescerIInv => Lossless  BY DEF CoalescerIInv, CoalescerInv
<1> QED BY <1>1, CoalescerInductive, PTL

\* The byte count of the buffer is exact and below the cap.
THEOREM CountExact == SessionSpec => []SizeAgrees
<1>1. CoalescerIInv => SizeAgrees  BY DEF CoalescerIInv, CoalescerInv
<1> QED BY <1>1, CoalescerInductive, PTL

\* Held bytes always have a timer that expires within one window of the oldest.
THEOREM HeldInTime == SessionSpec => []HeldBound
<1>1. CoalescerIInv => HeldBound  BY DEF CoalescerIInv, CoalescerInv
<1> QED BY <1>1, CoalescerInductive, PTL

\* The timestamp kept for the held bytes is that of the oldest.
THEOREM StampOfFirst == SessionSpec => []FirstStamp
<1>1. CoalescerIInv => FirstStamp  BY DEF CoalescerIInv, CoalescerInv
<1> QED BY <1>1, CoalescerInductive, PTL

-----------------------------------------------------------------------------
(* Timestamps never run backwards.                                          *)

\* What was emitted last is no younger than the newest byte received and than
\* the oldest byte held.
StampInv ==
    /\ rcvd = << >> => emitted.ts = 0
    /\ rcvd # << >> => emitted.ts <= rcvd[Len(rcvd)].ts
    /\ rx_buffer # << >> =>
         /\ rcvd # << >>
         /\ emitted.ts <= rx_first_ts
         /\ rx_first_ts <= rcvd[Len(rcvd)].ts

\* A chunk becomes the end of what was received.
LEMMA ChunkIsLast ==
    ASSUME TypeOK, NEW n \in 1..MaxChunk, NEW ts \in Nat, Take(Chunk(n, ts))
    PROVE  rcvd' # << >> /\ rcvd'[Len(rcvd')].ts = ts
<1> DEFINE chunk == Chunk(n, ts)
<1>1. n \in Nat \ {0}  BY DEF PortSessionAssumption
<1>2. /\ chunk \in Seq(Byte) /\ Len(chunk) = n /\ \A i \in 1..n : chunk[i].ts = ts
  BY ChunkFacts
<1>3. rcvd \in Seq(Byte) /\ Len(rcvd) \in Nat  BY LenProperties DEF TypeOK
<1>4. rcvd' = rcvd \o chunk  BY DEF Take
<1> HIDE DEF chunk
<1>5. /\ rcvd \o chunk \in Seq(Byte)
      /\ Len(rcvd \o chunk) = Len(rcvd) + n
      /\ \A i \in 1..Len(rcvd) + n :
           (rcvd \o chunk)[i] = IF i <= Len(rcvd) THEN rcvd[i] ELSE chunk[i - Len(rcvd)]
  BY <1>2, <1>3, ConcatProperties
<1>6. rcvd'[Len(rcvd')].ts = ts
  <2>1. Len(rcvd) + n \in 1..Len(rcvd) + n /\ ~(Len(rcvd) + n <= Len(rcvd))
        /\ (Len(rcvd) + n) - Len(rcvd) = n /\ n \in 1..n
    BY <1>1, <1>3
  <2>2. (rcvd \o chunk)[Len(rcvd) + n] = chunk[n]  BY <1>5, <2>1
  <2> QED BY <1>2, <1>4, <1>5, <2>1, <2>2
<1>7. rcvd' # << >>
  <2>1. Len(rcvd') # 0  BY <1>1, <1>3, <1>4, <1>5
  <2> QED BY <2>1, EmptySeq
<1> QED BY <1>6, <1>7

\* Its timestamp is no older than what was emitted or is held.
LEMMA ChunkIsNewest ==
    ASSUME CoalescerIInv, StampInv, NEW n \in 1..MaxChunk, NEW ts \in Stamps,
           Take(Chunk(n, ts))
    PROVE  /\ ts \in Nat
           /\ emitted.ts \in Nat
           /\ rcvd' # << >>
           /\ rcvd'[Len(rcvd')].ts = ts
           /\ emitted.ts <= ts
           /\ rx_buffer # << >> => rx_first_ts <= ts
<1>1. TypeOK  BY DEF CoalescerIInv
<1>2. ts \in Nat  BY <1>1 DEF Stamps, TypeOK
<1>3. emitted.ts \in Nat  BY <1>1 DEF TypeOK
<1>4. rcvd' # << >> /\ rcvd'[Len(rcvd')].ts = ts  BY <1>1, <1>2, ChunkIsLast
<1>5. rcvd \in Seq(Byte) /\ Len(rcvd) \in Nat  BY <1>1, LenProperties DEF TypeOK
<1>6. rcvd # << >> => rcvd[Len(rcvd)].ts <= ts  BY DEF Stamps
<1>7. rcvd # << >> => rcvd[Len(rcvd)].ts \in Nat
  <2>1. rcvd # << >> => Len(rcvd) \in 1..Len(rcvd)  BY <1>5, EmptySeq
  <2>2. rcvd # << >> => rcvd[Len(rcvd)] \in Byte  BY <1>5, <2>1, ElementOfSeq
  <2> QED BY <2>2 DEF Byte
<1>8. emitted.ts <= ts
  BY <1>2, <1>3, <1>6, <1>7 DEF StampInv
<1>9. rx_buffer # << >> => rx_first_ts <= ts
  <2>1. rx_first_ts \in Nat  BY <1>1 DEF TypeOK
  <2> QED BY <1>2, <1>6, <1>7, <2>1 DEF StampInv
<1> QED BY <1>2, <1>3, <1>4, <1>8, <1>9

\* What StampsOrdered says of a fan-out.
InOrder ==
    emitted' # emitted =>
        emitted'.ts = emitted'.data[1].ts /\ emitted'.ts >= emitted.ts

\* The first byte of what is held, joined with a chunk, is the oldest held.
LEMMA FirstOfJoined ==
    ASSUME NEW held \in Seq(Byte), NEW chunk \in Seq(Byte), chunk # << >>
    PROVE  /\ held \o chunk # << >>
           /\ held = << >> => (held \o chunk)[1] = chunk[1]
           /\ held # << >> => (held \o chunk)[1] = held[1]
<1>1. Len(chunk) \in Nat \ {0} /\ Len(held) \in Nat  BY EmptySeq, LenProperties
<1>2. held # << >> => Len(held) \in Nat \ {0}  BY EmptySeq
<1>3. /\ held \o chunk \in Seq(Byte)
      /\ Len(held \o chunk) = Len(held) + Len(chunk)
      /\ \A i \in 1..Len(held) + Len(chunk) :
           (held \o chunk)[i] = IF i <= Len(held) THEN held[i] ELSE chunk[i - Len(held)]
  BY ConcatProperties
<1>4. held \o chunk # << >>
  <2>1. Len(held \o chunk) # 0  BY <1>1, <1>3
  <2> QED BY <2>1, EmptySeq
<1>5. held = << >> => held \o chunk = chunk  BY ConcatEmptySeq
<1>6. held # << >> => (held \o chunk)[1] = held[1]
  BY <1>1, <1>2, <1>3
<1> QED BY <1>4, <1>5, <1>6

\* _on_data_received stamps a fan-out with its first byte and keeps the stamps in
\* order.
LEMMA DataReceivedInOrder ==
    ASSUME CoalescerIInv, StampInv, DataReceived PROVE StampInv' /\ InOrder
<1>1. PICK n \in 1..MaxChunk, ts \in Stamps :
        /\ Take(Chunk(n, ts))
        /\ \/ Hold(Chunk(n, ts), ts)
           \/ ForceFlush(Chunk(n, ts), ts) /\ Reaction(rx_timer)
  BY DEF DataReceived
<1>2. TypeOK /\ FirstStamp  BY DEF CoalescerIInv, CoalescerInv
<1>3. /\ ts \in Nat /\ emitted.ts \in Nat
      /\ rcvd' # << >> /\ rcvd'[Len(rcvd')].ts = ts
      /\ emitted.ts <= ts
      /\ rx_buffer # << >> => rx_first_ts <= ts
  BY <1>1, ChunkIsNewest
<1> DEFINE first == IF rx_buffer = << >> THEN ts ELSE rx_first_ts
<1>4. first \in Nat /\ emitted.ts <= first /\ first <= ts
  BY <1>2, <1>3 DEF StampInv, TypeOK
<1>5. CASE Hold(Chunk(n, ts), ts)
  <2>1. rx_first_ts' = first /\ emitted' = emitted
    BY <1>5 DEF Hold, outVars
  <2> HIDE DEF first
  <2> QED BY <1>3, <1>4, <2>1 DEF StampInv, InOrder
<1>6. CASE ForceFlush(Chunk(n, ts), ts) /\ Reaction(rx_timer)
  <2> DEFINE chunk == Chunk(n, ts)
  <2>1. chunk \in Seq(Byte) /\ chunk # << >> /\ chunk[1].ts = ts
    <3>1. 1 \in 1..n  BY DEF PortSessionAssumption
    <3> QED BY <1>2, <1>3, <3>1, ChunkFacts
  <2>2. rx_buffer \in Seq(Byte)  BY <1>2 DEF TypeOK
  <2>3. Flush(rx_buffer \o chunk, first)  BY <1>6 DEF ForceFlush
  <2> HIDE DEF chunk
  <2>4. /\ rx_buffer \o chunk # << >>
        /\ rx_buffer = << >> => (rx_buffer \o chunk)[1] = chunk[1]
        /\ rx_buffer # << >> => (rx_buffer \o chunk)[1] = rx_buffer[1]
    BY <2>1, <2>2, FirstOfJoined
  <2>5. rx_buffer \o chunk \in Seq(Byte)  BY <2>1, <2>2, ConcatProperties
  <2>6. (rx_buffer \o chunk)[1].ts = first
    BY <1>2, <2>1, <2>4 DEF FirstStamp
  <2> HIDE DEF first
  <2>7. rx_buffer' = << >> /\ emitted' = [data |-> rx_buffer \o chunk, ts |-> first]
    BY <1>2, <1>4, <2>3, <2>4, <2>5, FlushFacts
  <2>8. emitted'.ts = first /\ emitted'.data[1].ts = first
    BY <2>6, <2>7
  <2>9. InOrder  BY <1>3, <1>4, <2>8 DEF InOrder
  <2>10. StampInv'  BY <1>3, <1>4, <2>7, <2>8 DEF StampInv
  <2> QED BY <2>9, <2>10
<1> QED BY <1>1, <1>5, <1>6

\* Flushing what is held, with nothing new.
LEMMA FlushHeldInOrder ==
    ASSUME CoalescerIInv, StampInv, Flush(rx_buffer, rx_first_ts), rcvd' = rcvd
    PROVE  StampInv' /\ InOrder
<1>1. TypeOK /\ FirstStamp  BY DEF CoalescerIInv, CoalescerInv
<1>2. rx_buffer \in Seq(Byte) /\ rx_first_ts \in Nat /\ emitted.ts \in Nat
  BY <1>1 DEF TypeOK
<1>3. /\ rx_buffer' = << >>
      /\ emitted' = IF rx_buffer = << >> THEN emitted
                    ELSE [data |-> rx_buffer, ts |-> rx_first_ts]
  BY <1>1, <1>2, FlushFacts
<1>4. CASE rx_buffer = << >>
  BY <1>3, <1>4 DEF StampInv, InOrder
<1>5. CASE rx_buffer # << >>
  <2>1. emitted'.ts = rx_first_ts /\ emitted'.data[1].ts = rx_buffer[1].ts
    BY <1>3, <1>5
  <2>2. InOrder  BY <1>1, <1>2, <1>5, <2>1 DEF InOrder, FirstStamp, StampInv
  <2>3. StampInv'  BY <1>3, <1>5, <2>1 DEF StampInv
  <2> QED BY <2>2, <2>3
<1> QED BY <1>4, <1>5

\* So does every step.
LEMMA StepInOrder ==
    ASSUME CoalescerIInv, StampInv, [SessionNext]_sessionVars
    PROVE  StampInv' /\ InOrder
<1>1. CASE DataReceived  BY <1>1, DataReceivedInOrder
<1>2. CASE RxTimeout
  BY <1>2, FlushHeldInOrder DEF RxTimeout, TimerFlush
<1>3. ASSUME NEW s \in {status, "disconnected"}, Disconnect(s)
      PROVE  StampInv' /\ InOrder
  BY <1>3, FlushHeldInOrder DEF Disconnect
<1>4. CASE UNCHANGED <<rxVars, rcvd, outVars>>
  BY <1>4 DEF StampInv, InOrder, rxVars, outVars
<1>5. CASE \/ \E s \in {"connecting", "connected", "error"} : Connect(s)
           \/ \E s \in {"connected", "disconnected", "error"} : OnProtocolSignal(s)
           \/ StartLogging
           \/ StopLogging
           \/ Tick
           \/ UNCHANGED sessionVars
  BY <1>4, <1>5 DEF Connect, OnProtocolSignal, StartLogging, StopLogging, Tick, sessionVars
<1> QED BY <1>1, <1>2, <1>3, <1>5 DEF SessionNext

\* A fan-out is stamped with the time of its first byte, and the stamps handed
\* to the listeners never go back.
THEOREM StampsInOrder == SessionSpec => StampsOrdered
<1>1. SessionInit => StampInv  BY DEF SessionInit, StampInv, Nothing
<1>2. CoalescerIInv /\ StampInv /\ [SessionNext]_sessionVars => StampInv'
  BY StepInOrder
<1>3. CoalescerIInv /\ StampInv /\ [SessionNext]_sessionVars
        => [emitted' # emitted =>
              /\ emitted'.ts = emitted'.data[1].ts
              /\ emitted'.ts >= emitted.ts]_sessionVars
  BY StepInOrder DEF InOrder
<1> QED BY <1>1, <1>2, <1>3, CoalescerInductive, PTL DEF SessionSpec, StampsOrdered

-----------------------------------------------------------------------------
(* The log holds all that was fanned out since it was opened.               *)

LogHolds(file, start, stream) ==
    start <= Len(stream) /\ file = SubSeq(stream, start + 1, Len(stream))

LogInv == is_logging => LogHolds(log, logStart, delivered)

\* The tail of a stream from a fixed place grows by what the stream grows by.
LEMMA TailGrows ==
    ASSUME NEW stream \in Seq(Byte), NEW more \in Seq(Byte), NEW start \in Nat,
           start <= Len(stream)
    PROVE  SubSeq(stream \o more, start + 1, Len(stream \o more))
             = SubSeq(stream, start + 1, Len(stream)) \o more
<1> DEFINE all == stream \o more
           old == SubSeq(stream, start + 1, Len(stream))
           new == SubSeq(all, start + 1, Len(all))
<1>1. Len(stream) \in Nat /\ Len(more) \in Nat  BY LenProperties
<1>2. /\ all \in Seq(Byte)
      /\ Len(all) = Len(stream) + Len(more)
      /\ \A i \in 1..Len(stream) + Len(more) :
           all[i] = IF i <= Len(stream) THEN stream[i] ELSE more[i - Len(stream)]
  BY ConcatProperties
<1> HIDE DEF all
<1>3. /\ old \in Seq(Byte)
      /\ Len(old) = Len(stream) - start
      /\ \A i \in 1..Len(stream) - start : old[i] = stream[start + i]
  <2>1. \A i \in (start + 1)..Len(stream) : stream[i] \in Byte
    BY <1>1, ElementOfSeq
  <2> QED BY <1>1, <2>1, SubSeqProperties
<1>4. /\ new \in Seq(Byte)
      /\ Len(new) = Len(all) - start
      /\ \A i \in 1..Len(all) - start : new[i] = all[start + i]
  <2>1. \A i \in (start + 1)..Len(all) : all[i] \in Byte
    BY <1>1, <1>2, ElementOfSeq
  <2> QED BY <1>1, <1>2, <2>1, SubSeqProperties
<1> HIDE DEF old, new
<1>5. /\ old \o more \in Seq(Byte)
      /\ Len(old \o more) = Len(old) + Len(more)
      /\ \A i \in 1..Len(old) + Len(more) :
           (old \o more)[i] = IF i <= Len(old) THEN old[i] ELSE more[i - Len(old)]
  BY <1>3, ConcatProperties
<1>6. Len(new) = Len(old \o more)  BY <1>1, <1>2, <1>3, <1>4, <1>5
<1>7. ASSUME NEW i \in 1..Len(new) PROVE new[i] = (old \o more)[i]
  <2>1. i \in Nat /\ start + i \in 1..Len(stream) + Len(more)
        /\ i \in 1..Len(old) + Len(more) /\ i \in 1..Len(all) - start
    BY <1>1, <1>2, <1>3, <1>4
  <2>2. new[i] = all[start + i]  BY <1>4, <2>1
  <2>3. CASE i <= Len(old)
    <3>1. i \in 1..Len(stream) - start /\ start + i <= Len(stream)
      BY <1>1, <1>3, <2>1, <2>3
    <3>2. all[start + i] = stream[start + i]  BY <1>2, <2>1, <3>1
    <3>3. (old \o more)[i] = old[i]  BY <1>5, <2>1, <2>3
    <3> QED BY <1>3, <2>2, <3>1, <3>2, <3>3
  <2>4. CASE ~(i <= Len(old))
    <3>1. ~(start + i <= Len(stream)) /\ (start + i) - Len(stream) = i - Len(old)
      BY <1>1, <1>3, <2>1, <2>4
    <3>2. all[start + i] = more[i - Len(old)]  BY <1>2, <2>1, <3>1
    <3>3. (old \o more)[i] = more[i - Len(old)]  BY <1>5, <2>1, <2>4
    <3> QED BY <2>2, <3>2, <3>3
  <2> QED BY <2>3, <2>4
<1>8. new = old \o more  BY <1>4, <1>5, <1>6, <1>7, SeqEqual
<1> QED BY <1>8 DEF new, old, all

\* A flush keeps an open file up with the stream, whatever a trigger does to
\* the logging flag from inside the fan-out.
LEMMA FlushKeepsLog ==
    ASSUME TypeOK, LogInv, is_logging,
           NEW buf \in Seq(Byte), NEW ts \in Nat, Flush(buf, ts)
    PROVE  LogHolds(log', logStart', delivered')
<1>1. delivered \in Seq(Byte) /\ logStart \in Nat  BY DEF TypeOK
<1>2. /\ logStart <= Len(delivered)
      /\ log = SubSeq(delivered, logStart + 1, Len(delivered))
  BY DEF LogInv, LogHolds
<1>3. /\ delivered' = delivered \o buf /\ log' = log \o buf /\ logStart' = logStart
  BY FlushFacts
<1>4. SubSeq(delivered \o buf, logStart + 1, Len(delivered \o buf))
        = SubSeq(delivered, logStart + 1, Len(delivered)) \o buf
  BY <1>1, <1>2, TailGrows
<1>5. logStart <= Len(delivered \o buf)
  <2>1. Len(delivered) \in Nat /\ Len(buf) \in Nat  BY <1>1, LenProperties
  <2>2. Len(delivered \o buf) = Len(delivered) + Len(buf)  BY <1>1, ConcatProperties
  <2> QED BY <1>1, <1>2, <2>1, <2>2
<1> QED BY <1>2, <1>3, <1>4, <1>5 DEF LogHolds

\* What a step does to a file that is open when it starts.
LogKept == is_logging => LogHolds(log', logStart', delivered') /\ logStart' = logStart

\* A step that flushes all that is held keeps the log's invariant.
LEMMA FlushStepKeepsLog ==
    ASSUME TypeOK, LogInv, NEW buf \in Seq(Byte), NEW ts \in Nat, Flush(buf, ts),
           is_logging' => is_logging
    PROVE  LogKept /\ LogInv'
<1>1. LogKept
  <2>1. logStart' = logStart  BY FlushFacts
  <2> QED BY <2>1, FlushKeepsLog DEF LogKept
<1> QED BY <1>1 DEF LogKept, LogInv

\* Every step keeps the log's invariant.
LEMMA StepKeepsLog ==
    ASSUME CoalescerIInv, LogInv, [SessionNext]_sessionVars
    PROVE  LogKept /\ LogInv'
<1>1. TypeOK  BY DEF CoalescerIInv
<1>2. rx_buffer \in Seq(Byte) /\ rx_first_ts \in Nat  BY <1>1 DEF TypeOK
<1>3. ASSUME NEW timer, Reaction(timer) PROVE is_logging' => is_logging
  BY <1>3 DEF Reaction
<1>4. CASE UNCHANGED <<logVars, outVars>>
  BY <1>4 DEF LogKept, LogInv, logVars, outVars
<1>5. CASE DataReceived
  <2>1. PICK n \in 1..MaxChunk, ts \in Stamps :
          \/ Hold(Chunk(n, ts), ts)
          \/ ForceFlush(Chunk(n, ts), ts) /\ Reaction(rx_timer)
    BY <1>5 DEF DataReceived
  <2>2. ts \in Nat  BY <1>1 DEF Stamps, TypeOK
  <2>3. CASE Hold(Chunk(n, ts), ts)
    BY <1>4, <2>3 DEF Hold
  <2>4. CASE ForceFlush(Chunk(n, ts), ts) /\ Reaction(rx_timer)
    <3> DEFINE first == IF rx_buffer = << >> THEN ts ELSE rx_first_ts
    <3>1. rx_buffer \o Chunk(n, ts) \in Seq(Byte)
      BY <1>1, <1>2, <2>2, ChunkFacts, ConcatProperties
    <3>2. first \in Nat  BY <1>2, <2>2
    <3>3. Flush(rx_buffer \o Chunk(n, ts), first)  BY <2>4 DEF ForceFlush
    <3> HIDE DEF first
    <3> QED BY <1>1, <1>3, <2>4, <3>1, <3>2, <3>3, FlushStepKeepsLog
  <2> QED BY <2>1, <2>3, <2>4
<1>6. CASE RxTimeout
  <2>1. Flush(rx_buffer, rx_first_ts)  BY <1>6 DEF RxTimeout, TimerFlush
  <2>2. is_logging' => is_logging
    <3>1. CASE Reaction(Off)  BY <1>3, <3>1
    <3>2. CASE UNCHANGED <<status, is_logging>>  BY <3>2
    <3> QED BY <1>6, <3>1, <3>2 DEF RxTimeout
  <2> QED BY <1>1, <1>2, <2>1, <2>2, FlushStepKeepsLog
<1>7. ASSUME NEW s \in {status, "disconnected"}, Disconnect(s)
      PROVE  LogKept /\ LogInv'
  <2>1. Flush(rx_buffer, rx_first_ts) /\ ~is_logging'  BY <1>7 DEF Disconnect
  <2> QED BY <1>1, <1>2, <2>1, FlushStepKeepsLog
<1>8. CASE StartLogging
  <2>1. /\ ~is_logging /\ log' = << >> /\ logStart' = Len(delivered)
        /\ delivered' = delivered
    BY <1>8 DEF StartLogging, outVars
  <2>2. Len(delivered) \in Nat  BY <1>1, LenProperties DEF TypeOK
  <2>3. SubSeq(delivered, Len(delivered) + 1, Len(delivered)) = << >>
    BY <2>2, SubSeqEmpty
  <2> QED BY <2>1, <2>2, <2>3 DEF LogKept, LogInv, LogHolds
<1>9. CASE StopLogging
  BY <1>9 DEF StopLogging, LogKept, LogInv, LogHolds, outVars
<1>10. CASE \/ \E s \in {"connecting", "connected", "error"} : Connect(s)
            \/ \E s \in {"connected", "disconnected", "error"} : OnProtocolSignal(s)
            \/ Tick
            \/ UNCHANGED sessionVars
  BY <1>4, <1>10 DEF Connect, OnProtocolSignal, Tick, sessionVars
<1> QED BY <1>5, <1>6, <1>7, <1>8, <1>9, <1>10 DEF SessionNext

\* A step that stops the log and leaves nothing held has put every byte received
\* since the file was opened into it: disconnect() flushes before it stops.
THEOREM LogHasTail == SessionSpec => LogTail
<1>1. SessionInit => LogInv  BY DEF SessionInit, LogInv
<1>2. CoalescerIInv /\ LogInv /\ [SessionNext]_sessionVars => LogInv'
  BY StepKeepsLog
<1>3. CoalescerIInv /\ CoalescerIInv' /\ LogInv /\ [SessionNext]_sessionVars
        => [is_logging /\ ~is_logging' /\ rx_buffer' = << >> =>
              log' = SubSeq(rcvd', logStart + 1, Len(rcvd'))]_sessionVars
  <2> SUFFICES ASSUME CoalescerIInv, CoalescerIInv', LogInv, [SessionNext]_sessionVars,
                      is_logging, rx_buffer' = << >>
               PROVE  log' = SubSeq(rcvd', logStart + 1, Len(rcvd'))
    OBVIOUS
  <2>1. LogHolds(log', logStart', delivered') /\ logStart' = logStart
    BY StepKeepsLog DEF LogKept
  <2>2. delivered' \in Seq(Byte) /\ delivered' \o rx_buffer' = rcvd'
    BY DEF CoalescerIInv, CoalescerInv, TypeOK, Lossless
  <2>3. delivered' = rcvd'  BY <2>2, ConcatEmptySeq
  <2> QED BY <2>1, <2>3 DEF LogHolds
<1> QED BY <1>1, <1>2, <1>3, CoalescerInductive, PTL DEF SessionSpec, LogTail

-----------------------------------------------------------------------------
(* No byte is stamped ahead of the clock.  The sessions that put a handler   *)
(* in the open one's place need it: they stamp a chunk with the clock, and   *)
(* that must never run behind a stamp already received.                      *)

ClockLeads == rcvd # << >> => rcvd[Len(rcvd)].ts <= now

\* Every step keeps the clock ahead of the stamps.
LEMMA StepClockLeads ==
    ASSUME CoalescerIInv, ClockLeads, [SessionNext]_sessionVars PROVE ClockLeads'
<1>1. TypeOK  BY DEF CoalescerIInv
<1>2. CASE DataReceived
  <2>1. PICK n \in 1..MaxChunk, ts \in Stamps : Take(Chunk(n, ts))
    BY <1>2 DEF DataReceived
  <2>2. ts \in Nat /\ ts <= now  BY <1>1 DEF Stamps, TypeOK
  <2>3. rcvd'[Len(rcvd')].ts = ts  BY <1>1, <2>1, <2>2, ChunkIsLast
  <2> QED BY <2>1, <2>2, <2>3 DEF ClockLeads, Take
<1>3. CASE Tick
  <2>1. rcvd' = rcvd /\ now' = now + 1 /\ now \in Nat
    BY <1>1, <1>3 DEF Tick, TypeOK
  <2>2. rcvd # << >> => rcvd[Len(rcvd)].ts \in Nat
    <3>1. rcvd \in Seq(Byte)  BY <1>1 DEF TypeOK
    <3>2. rcvd # << >> => Len(rcvd) \in 1..Len(rcvd)  BY <3>1, EmptySeq, LenProperties
    <3>3. rcvd # << >> => rcvd[Len(rcvd)] \in Byte  BY <3>1, <3>2, ElementOfSeq
    <3> QED BY <3>3 DEF Byte
  <2> QED BY <2>1, <2>2 DEF ClockLeads
<1>4. CASE UNCHANGED <<rcvd, now>>  BY <1>4 DEF ClockLeads
<1>5. CASE \/ RxTimeout
           \/ \E s \in {"connecting", "connected", "error"} : Connect(s)
           \/ \E s \in {status, "disconnected"} : Disconnect(s)
           \/ \E s \in {"connected", "disconnected", "error"} : OnProtocolSignal(s)
           \/ StartLogging
           \/ StopLogging
           \/ UNCHANGED sessionVars
  BY <1>4, <1>5 DEF RxTimeout, TimerFlush, Connect, Disconnect, OnProtocolSignal,
                    StartLogging, StopLogging, sessionVars
<1> QED BY <1>2, <1>3, <1>5 DEF SessionNext

\* A chunk stamped with the clock is in order.
LEMMA ClockStamps ==
    ASSUME TypeOK, ClockLeads PROVE now \in Stamps
BY DEF TypeOK, ClockLeads, Stamps

=============================================================================
