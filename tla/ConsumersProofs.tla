--------------------------- MODULE ConsumersProofs ---------------------------
(***************************************************************************)
(* What the bytes of a session feed: the writer thread behind a log, for   *)
(* every number of API threads, every capacity and every number of         *)
(* records, and the logs, pipelines and scripts of Consumers, for every    *)
(* set of sessions and of paths and every ring.                            *)
(*                                                                         *)
(* The writer's invariant splits the records put so far into five parts    *)
(* that do not overlap (Parts); the order of FileInOrder keeps the file,   *)
(* the hand and the queue apart.  The bound on the queue counts the        *)
(* threads between the check and the put (Room), the drop count needs the  *)
(* sentinel to be queued once (Sentinel), and what stop() promises needs   *)
(* to know why the thread left its loop (Drained).                         *)
(*                                                                         *)
(* The invariant of Consumers has a part for each group of variables.  A   *)
(* log that has its file for itself writes at its end (LogsOK), a pipeline *)
(* beyond its mark has warned (Fed), a script's calls end with its end     *)
(* (ScriptOK).                                                             *)
(***************************************************************************)
EXTENDS Consumers, LogWriter, SequenceTheorems, FiniteSetTheorems, TLAPS

-----------------------------------------------------------------------------
(* The writer thread of a log.                                              *)

\* Every record is in one place.
Parts ==
    /\ 1..puts = Written \cup Queued \cup Held \cup evicted \cup lost
    /\ evicted \cap lost = {}
    /\ (evicted \cup lost) \cap (Written \cup Queued \cup Held) = {}

\* The thread holds a record exactly while it writes.
HandHeld == hand # None <=> writer \in {"write", "drain_write"}

HasStop == \E i \in DOMAIN q : q[i] = Stop

\* The sentinel is queued by stop() and once; while it is queued no drop has
\* been one of it.
Sentinel ==
    /\ \A i, j \in DOMAIN q : q[i] = Stop /\ q[j] = Stop => i = j
    /\ HasStop => manager # "logging"
    /\ HasStop \/ manager = "logging" => dropped = Cardinality(evicted)

Putting == {p \in Producer : pc[p] = "put"}

\* What is queued and what is about to be.
Room ==
    Len(q) + Cardinality(Putting) <=
        MAX_QUEUE + Cardinality(Api) + (IF manager = "logging" THEN 0 ELSE 1)

\* A thread that lost nothing left its loop for the sentinel; when it ended,
\* nothing of before the stop was queued, and it ended before stop() returned
\* in time.
Drained ==
    /\ stopAt <= puts
    /\ lost = {} /\ writer \in {"drain", "drain_write", "ended"} => manager # "logging"
    /\ lost = {} /\ writer = "ended" => \A r \in Queued : stopAt < r
    /\ manager = "closed" /\ ~timedOut => writer = "ended"

\* The file is closed by stop(); a closed one has nothing in its buffer, and
\* nothing is lost but to the disk or to a thread that outlived stop().
Losses ==
    /\ ~fileOpen => manager = "closed" /\ flushed = Len(file)
    /\ lost # {} => disk # "sound" \/ timedOut
    /\ manager = "closed" /\ disk = "sound" => ~fileOpen
    /\ timedOut => manager = "closed"

LogIInv ==
    /\ TypeOK
    /\ FileInOrder
    /\ Parts
    /\ HandHeld
    /\ DropsCounted
    /\ Sentinel
    /\ Room
    /\ Drained
    /\ Losses

-----------------------------------------------------------------------------
(* Sequences of records.                                                    *)

Entry == Record \cup {Stop}

Elements(s) == {s[i] : i \in DOMAIN s}

\* Records and the sentinel are natural numbers, the sentinel the least.
LEMMA EntryFacts ==
    /\ Entry \subseteq Nat /\ Record \subseteq Nat \ {Stop} /\ Record \subseteq Entry
    /\ Stop = 0
    /\ IsFiniteSet(Record)
<1>1. MaxRecords \in Nat  BY LogWriterAssumption
<1>2. IsFiniteSet(Record)  BY <1>1, FS_Interval DEF Record
<1> QED BY <1>1, <1>2 DEF Entry, Record, Stop

\* An entry joins the end.
LEMMA AppendElements ==
    ASSUME NEW s \in Seq(Entry), NEW x \in Entry
    PROVE  /\ Append(s, x) \in Seq(Entry)
           /\ Len(Append(s, x)) = Len(s) + 1
           /\ Elements(Append(s, x)) = Elements(s) \cup {x}
<1>1. /\ Append(s, x) \in Seq(Entry)
      /\ Len(Append(s, x)) = Len(s) + 1 /\ Len(s) \in Nat
      /\ DOMAIN s = 1..Len(s)
      /\ DOMAIN Append(s, x) = 1..Len(s) + 1
      /\ \A i \in 1..Len(s) : Append(s, x)[i] = s[i]
      /\ Append(s, x)[Len(s) + 1] = x
  BY AppendProperties, LenProperties
<1> DEFINE t == Append(s, x)
<1> HIDE DEF t
<1>2. ASSUME NEW e \in Elements(t) PROVE e \in Elements(s) \cup {x}
  <2>1. PICK i \in 1..Len(s) + 1 : e = t[i]  BY <1>1 DEF Elements, t
  <2> QED BY <1>1, <2>1 DEF Elements, t
<1>3. ASSUME NEW e \in Elements(s) \cup {x} PROVE e \in Elements(t)
  <2>1. CASE e = x
    <3>1. Len(s) + 1 \in 1..Len(s) + 1  BY <1>1
    <3> QED BY <1>1, <2>1, <3>1 DEF Elements, t
  <2>2. CASE e \in Elements(s)
    <3>1. PICK i \in 1..Len(s) : e = s[i]  BY <1>1, <2>2 DEF Elements
    <3>2. i \in 1..Len(s) + 1  BY <1>1, <3>1
    <3> QED BY <1>1, <3>1, <3>2 DEF Elements, t
  <2> QED BY <2>1, <2>2
<1> QED BY <1>1, <1>2, <1>3 DEF t

\* The oldest entry leaves.
LEMMA TailElements ==
    ASSUME NEW s \in Seq(Entry), s # << >>
    PROVE  /\ Head(s) = s[1] /\ Head(s) \in Entry
           /\ Tail(s) \in Seq(Entry)
           /\ Len(s) \in Nat /\ Len(Tail(s)) = Len(s) - 1
           /\ DOMAIN s = 1..Len(s) /\ 1 \in DOMAIN s
           /\ DOMAIN Tail(s) = 1..Len(s) - 1
           /\ \A i \in DOMAIN Tail(s) : i + 1 \in DOMAIN s /\ Tail(s)[i] = s[i + 1]
           /\ Elements(s) = {Head(s)} \cup Elements(Tail(s))
<1>1. /\ Head(s) = s[1] /\ Head(s) \in Entry /\ Tail(s) \in Seq(Entry)
      /\ Len(s) \in Nat \ {0} /\ Len(Tail(s)) = Len(s) - 1
      /\ DOMAIN s = 1..Len(s)
      /\ DOMAIN Tail(s) = 1..Len(s) - 1
      /\ \A i \in 1..Len(s) - 1 : Tail(s)[i] = s[i + 1]
  BY HeadTailProperties, EmptySeq, LenProperties, ElementOfSeq
<1>2. \A i \in 1..Len(s) - 1 : i + 1 \in 1..Len(s)  BY <1>1
<1>3. ASSUME NEW e \in Elements(s) PROVE e \in {Head(s)} \cup Elements(Tail(s))
  <2>1. PICK i \in 1..Len(s) : e = s[i]  BY <1>1 DEF Elements
  <2>2. CASE i = 1  BY <1>1, <2>1, <2>2
  <2>3. CASE i # 1
    <3>1. i - 1 \in 1..Len(s) - 1 /\ (i - 1) + 1 = i  BY <1>1, <2>1, <2>3
    <3>2. e = Tail(s)[i - 1]  BY <1>1, <2>1, <3>1
    <3> QED BY <1>1, <3>1, <3>2 DEF Elements
  <2> QED BY <2>2, <2>3
<1>4. ASSUME NEW e \in {Head(s)} \cup Elements(Tail(s)) PROVE e \in Elements(s)
  <2>1. CASE e = Head(s)
    <3>1. 1 \in 1..Len(s)  BY <1>1
    <3> QED BY <1>1, <2>1, <3>1 DEF Elements
  <2>2. CASE e \in Elements(Tail(s))
    <3>1. PICK i \in 1..Len(s) - 1 : e = Tail(s)[i]  BY <1>1, <2>2 DEF Elements
    <3> QED BY <1>1, <1>2, <3>1 DEF Elements
  <2> QED BY <2>1, <2>2
<1> QED BY <1>1, <1>2, <1>3, <1>4

\* A record later than all before it may follow them, and so may the sentinel.
LEMMA AppendAscends ==
    ASSUME NEW s \in Seq(Entry), NEW x \in Entry, Ascending(s),
           x # Stop => \A e \in Elements(s) : e < x
    PROVE  Ascending(Append(s, x))
<1>1. /\ Len(s) \in Nat /\ DOMAIN s = 1..Len(s)
      /\ DOMAIN Append(s, x) = 1..Len(s) + 1
      /\ \A i \in 1..Len(s) : Append(s, x)[i] = s[i]
      /\ Append(s, x)[Len(s) + 1] = x
  BY AppendProperties, LenProperties
<1> DEFINE t == Append(s, x)
<1> HIDE DEF t
<1>2. ASSUME NEW i \in 1..Len(s) + 1, NEW j \in 1..Len(s) + 1, i < j, t[j] # Stop
      PROVE  t[i] < t[j]
  <2>1. i \in 1..Len(s)  BY <1>1, <1>2
  <2>2. CASE j \in 1..Len(s)  BY <1>1, <1>2, <2>1, <2>2 DEF Ascending, t
  <2>3. CASE j = Len(s) + 1
    <3>1. s[i] \in Elements(s) /\ t[j] = x /\ t[i] = s[i]
      BY <1>1, <2>1, <2>3 DEF Elements, t
    <3> QED BY <1>2, <3>1
  <2> QED BY <1>1, <2>2, <2>3
<1> QED BY <1>1, <1>2 DEF Ascending, t

\* What is left of an ascending queue ascends, and every record in it is later
\* than the one that left.
LEMMA TailAscends ==
    ASSUME NEW s \in Seq(Entry), s # << >>, Ascending(s)
    PROVE  /\ Ascending(Tail(s))
           /\ \A e \in Elements(Tail(s)) : e # Stop => Head(s) < e
<1>1. /\ Head(s) = s[1] /\ Len(s) \in Nat /\ DOMAIN s = 1..Len(s) /\ 1 \in DOMAIN s
      /\ DOMAIN Tail(s) = 1..Len(s) - 1
      /\ \A i \in DOMAIN Tail(s) : i + 1 \in DOMAIN s /\ Tail(s)[i] = s[i + 1]
  BY TailElements
<1>2. \A i, j \in DOMAIN Tail(s) : i < j => i + 1 < j + 1  BY <1>1
<1>3. Ascending(Tail(s))  BY <1>1, <1>2 DEF Ascending
<1>4. ASSUME NEW e \in Elements(Tail(s)), e # Stop PROVE Head(s) < e
  <2>1. PICK i \in DOMAIN Tail(s) : e = Tail(s)[i]  BY DEF Elements
  <2>2. 1 < i + 1 /\ i + 1 \in DOMAIN s /\ e = s[i + 1]  BY <1>1, <2>1
  <2> QED BY <1>1, <1>4, <2>2 DEF Ascending
<1> QED BY <1>3, <1>4

\* A prefix of the file and the records after it.
LEMMA PrefixFacts ==
    ASSUME NEW s \in Seq(Record), NEW k \in 0..Len(s), Ascending(s)
    PROVE  /\ SubSeq(s, 1, k) \in Seq(Record) /\ Len(SubSeq(s, 1, k)) = k
           /\ Ascending(SubSeq(s, 1, k))
           /\ Elements(s) = Elements(SubSeq(s, 1, k)) \cup {s[i] : i \in k+1..Len(s)}
           /\ Elements(SubSeq(s, 1, k)) \cap {s[i] : i \in k+1..Len(s)} = {}
<1> DEFINE t == SubSeq(s, 1, k)
<1>1. /\ Len(s) \in Nat /\ k \in Nat /\ k <= Len(s) /\ DOMAIN s = 1..Len(s)
      /\ \A i \in 1..Len(s) : s[i] \in Record
  BY LenProperties, ElementOfSeq
<1>2. \A i \in 1..k : i \in 1..Len(s)  BY <1>1
<1>3. t \in Seq(Record) /\ Len(t) = k /\ \A i \in 1..k : t[i] = s[i]
  BY <1>1, <1>2, SubSeqProperties
<1>4. DOMAIN t = 1..k  BY <1>1, <1>3, LenProperties
<1> HIDE DEF t
<1>5. Ascending(t)  BY <1>1, <1>2, <1>3, <1>4 DEF Ascending
<1>6. ASSUME NEW i \in 1..Len(s) PROVE i \in 1..k \/ i \in k+1..Len(s)
  BY <1>1
<1>7. Elements(t) = {s[i] : i \in 1..k}  BY <1>3, <1>4 DEF Elements
<1>8. Elements(s) = {s[i] : i \in 1..Len(s)}  BY <1>1 DEF Elements
<1>9. \A i \in k+1..Len(s) : i \in 1..Len(s)  BY <1>1
<1>10. ASSUME NEW i \in 1..k, NEW j \in k+1..Len(s), s[i] = s[j] PROVE FALSE
  <2>1. i < j /\ i \in 1..Len(s) /\ j \in 1..Len(s)  BY <1>1
  <2>2. s[j] # Stop /\ s[j] \in Nat  BY <1>1, <2>1, EntryFacts
  <2>3. s[i] < s[j]  BY <1>1, <2>1, <2>2 DEF Ascending
  <2> QED BY <1>10, <2>2, <2>3
<1>11. Elements(s) = Elements(t) \cup {s[i] : i \in k+1..Len(s)}
  BY <1>2, <1>6, <1>7, <1>8, <1>9
<1>12. Elements(t) \cap {s[i] : i \in k+1..Len(s)} = {}  BY <1>7, <1>10
<1> QED BY <1>3, <1>5, <1>11, <1>12 DEF t

-----------------------------------------------------------------------------
(* The records and their places.                                            *)

Core == TypeOK /\ FileInOrder /\ Parts /\ HandHeld

\* The sets of FileInOrder and Parts, as elements of the two sequences.
LEMMA PlaceFacts ==
    ASSUME Core
    PROVE  /\ q \in Seq(Entry) /\ file \in Seq(Entry) /\ file \in Seq(Record)
           /\ Written = Elements(file) /\ Queued = Elements(q) \ {Stop}
           /\ Written \cup Queued \cup Held \cup evicted \cup lost = 1..puts
           /\ 1..puts \subseteq Record /\ puts \in Nat
           /\ Ascending(file) /\ Ascending(q)
<1>1. file \in Seq(Entry)  BY DEF Core, TypeOK, Entry
<1>2. 1..puts \subseteq Record /\ puts \in Nat
  BY LogWriterAssumption DEF Core, TypeOK, Record
<1> QED BY <1>1, <1>2 DEF Core, TypeOK, FileInOrder, Parts, Written, Queued, Elements, Entry

\* A record put is later than every record there is.
LEMMA PutCore ==
    ASSUME Core, NEW p \in Producer, Put(p) PROVE Core'
<1> DEFINE r == puts + 1
<1>1. /\ q \in Seq(Entry) /\ Written = Elements(file) /\ Queued = Elements(q) \ {Stop}
      /\ Written \cup Queued \cup Held \cup evicted \cup lost = 1..puts
      /\ puts \in Nat /\ Ascending(file) /\ Ascending(q)
  BY PlaceFacts
<1>2. /\ puts < MaxRecords /\ puts' = r /\ q' = Append(q, r)
      /\ pc' = [pc EXCEPT ![p] = "idle"]
      /\ UNCHANGED <<dropped, evicted, writer, hand, file, flushed, fileOpen, lost, manager, stopAt, timedOut,
                     disk>>
  BY DEF Put, writerVars, fileVars, managerVars
<1>3. r \in Record /\ r \in Nat /\ r # Stop
  BY <1>1, <1>2, LogWriterAssumption DEF Record, Stop
<1>4. /\ q' \in Seq(Entry) /\ Elements(q') = Elements(q) \cup {r}
  BY <1>1, <1>2, <1>3, EntryFacts, AppendElements
<1>5. Queued' = Queued \cup {r} /\ Written' = Written /\ Held' = Held
  BY <1>1, <1>2, <1>3, <1>4 DEF Queued, Written, Held, Elements
<1>6. \A x \in 1..puts : x < r  BY <1>1
<1>7. Ascending(q')
  <2>1. \A e \in Elements(q) : e < r  BY <1>1, <1>3, <1>6 DEF Stop
  <2> QED BY <1>1, <1>2, <1>3, <2>1, EntryFacts, AppendAscends
<1>8. TypeOK'
  BY <1>2, <1>3, <1>4 DEF Core, TypeOK, Entry, Record
<1>9. FileInOrder'
  <2>1. \A x \in Written \cup Held : x < r  BY <1>1, <1>6
  <2> QED BY <1>1, <1>2, <1>5, <1>7, <2>1 DEF Core, FileInOrder
<1>10. Parts'
  <2>1. 1..r = 1..puts \cup {r}  BY <1>1
  <2>2. r \notin evicted \cup lost  BY <1>1, <1>6
  <2> QED BY <1>1, <1>2, <1>5, <2>1, <2>2 DEF Core, Parts
<1>11. HandHeld'  BY <1>2 DEF Core, HandHeld
<1> QED BY <1>8, <1>9, <1>10, <1>11 DEF Core

\* What leaves the queue first is its oldest entry.
LEMMA HeadFacts ==
    ASSUME Core, q # << >>
    PROVE  /\ Head(q) \in Entry /\ Tail(q) \in Seq(Entry) /\ Ascending(Tail(q))
           /\ Elements(q) = {Head(q)} \cup Elements(Tail(q))
           /\ Head(q) # Stop =>
                /\ Head(q) \in Queued /\ Head(q) \in Record
                /\ Queued = {Head(q)} \cup (Elements(Tail(q)) \ {Stop})
                /\ \A e \in Elements(Tail(q)) \ {Stop} : Head(q) < e
           /\ Head(q) = Stop => Queued = Elements(Tail(q)) \ {Stop}
<1>1. q \in Seq(Entry) /\ Queued = Elements(q) \ {Stop} /\ Ascending(q)  BY PlaceFacts
<1>2. /\ Head(q) \in Entry /\ Tail(q) \in Seq(Entry)
      /\ Elements(q) = {Head(q)} \cup Elements(Tail(q))
  BY <1>1, TailElements
<1>3. /\ Ascending(Tail(q))
      /\ \A e \in Elements(Tail(q)) : e # Stop => Head(q) < e
  BY <1>1, TailAscends
<1> QED BY <1>1, <1>2, <1>3 DEF Entry

\* The oldest entry is dropped, unless the thread was quicker.
LEMMA DropCore ==
    ASSUME Core, NEW p \in Producer, DropOldest(p) PROVE Core'
<1>1. /\ q \in Seq(Entry) /\ Queued = Elements(q) \ {Stop}
      /\ Written \cup Queued \cup Held \cup evicted \cup lost = 1..puts
      /\ 1..puts \subseteq Record
  BY PlaceFacts
<1>2. /\ pc' = [pc EXCEPT ![p] = "put"]
      /\ UNCHANGED <<puts, writer, hand, file, flushed, fileOpen, lost, manager, stopAt, timedOut, disk>>
      /\ Written' = Written /\ Held' = Held
  BY DEF DropOldest, writerVars, fileVars, managerVars, Written, Held
<1>3. CASE q = << >>
  <2>1. q' = q /\ dropped' = dropped /\ evicted' = evicted /\ Queued' = Queued
    BY <1>3 DEF DropOldest, Queued
  <2>2. TypeOK'  BY <1>2, <2>1 DEF Core, TypeOK
  <2> QED BY <1>2, <2>1, <2>2 DEF Core, FileInOrder, Parts, HandHeld
<1>4. CASE q # << >>
  <2>1. /\ q' = Tail(q) /\ dropped' = dropped + 1
        /\ evicted' = evicted \cup ({Head(q)} \ {Stop})
    BY <1>4 DEF DropOldest
  <2>2. Queued' = Elements(Tail(q)) \ {Stop}  BY <2>1 DEF Queued, Elements
  <2>3. /\ Tail(q) \in Seq(Entry) /\ Ascending(Tail(q))
        /\ Queued' \subseteq Queued
        /\ Queued = Queued' \cup ({Head(q)} \ {Stop})
        /\ Head(q) \notin Queued'
    <3>1. Tail(q) \in Seq(Entry) /\ Ascending(Tail(q))  BY <1>4, HeadFacts
    <3>2. CASE Head(q) = Stop
      BY <1>4, <2>2, <3>1, <3>2, HeadFacts
    <3>3. CASE Head(q) # Stop
      <4>1. /\ Head(q) \in Nat /\ Queued = {Head(q)} \cup Queued'
            /\ \A e \in Queued' : Head(q) < e
        BY <1>4, <2>2, <3>3, HeadFacts, EntryFacts
      <4>2. Head(q) \notin Queued'  BY <4>1
      <4> QED BY <3>1, <3>3, <4>1, <4>2
    <3> QED BY <3>2, <3>3
  <2>4. evicted' \subseteq Record  BY <1>4, <2>1, HeadFacts DEF Core, TypeOK
  <2>5. TypeOK'  BY <1>2, <2>1, <2>3, <2>4 DEF Core, TypeOK, Entry
  <2>6. FileInOrder'  BY <1>2, <2>1, <2>3 DEF Core, FileInOrder
  <2>7. Head(q) # Stop => Head(q) \notin Written \cup Held \cup lost
    <3>1. Head(q) # Stop => Head(q) \in Queued /\ Head(q) \in Nat
      BY <1>4, HeadFacts, EntryFacts
    <3> QED BY <3>1 DEF Core, FileInOrder, Parts
  <2>8. Parts'  BY <1>2, <2>1, <2>3, <2>7 DEF Core, Parts
  <2> QED BY <1>2, <2>5, <2>6, <2>8 DEF Core, HandHeld
<1> QED BY <1>3, <1>4

\* The thread takes the oldest entry into its hand, or leaves its loop.
LEMMA TakeCore ==
    ASSUME Core, Take PROVE Core'
<1>1. /\ q # << >> /\ q' = Tail(q) /\ hand = None /\ Held = {}
      /\ UNCHANGED <<puts, pc, dropped, evicted, file, flushed, fileOpen, lost, manager, stopAt, timedOut,
                     disk>>
      /\ Written' = Written
      /\ writer \in {"loop", "drain"}
  BY DEF Take, fileVars, managerVars, Core, HandHeld, Held, Written
<1>2. Queued' = Elements(Tail(q)) \ {Stop}  BY <1>1 DEF Queued, Elements
<1>3. Tail(q) \in Seq(Entry) /\ Ascending(Tail(q))  BY <1>1, HeadFacts
<1>4. CASE Head(q) = Stop
  <2>1. writer' = "drain" /\ hand' = hand  BY <1>4 DEF Take
  <2>2. Queued' = Queued  BY <1>1, <1>2, <1>4, HeadFacts
  <2>3. Held' = Held  BY <2>1 DEF Held
  <2>4. TypeOK'  BY <1>1, <1>3, <2>1 DEF Core, TypeOK, Entry
  <2>5. FileInOrder' /\ Parts'
    BY <1>1, <1>3, <2>2, <2>3 DEF Core, FileInOrder, Parts
  <2> QED BY <1>1, <2>1, <2>4, <2>5 DEF Core, HandHeld
<1>5. CASE Head(q) # Stop
  <2>1. hand' = Head(q) /\ writer' \in {"write", "drain_write"}
    BY <1>5 DEF Take
  <2>2. /\ Head(q) \in Queued /\ Head(q) \in Record
        /\ Queued = {Head(q)} \cup Queued'
        /\ \A e \in Queued' : Head(q) < e
    BY <1>1, <1>2, <1>5, HeadFacts
  <2>3. Head(q) # None /\ Held' = {Head(q)}
    <3>1. Head(q) \in Nat  BY <2>2, EntryFacts
    <3> QED BY <2>1, <3>1 DEF Held, None
  <2>4. TypeOK'  BY <1>1, <1>3, <2>1, <2>2 DEF Core, TypeOK, Entry
  <2>5. FileInOrder'
    BY <1>1, <1>3, <2>2, <2>3 DEF Core, FileInOrder
  <2>6. Parts'  BY <1>1, <2>2, <2>3 DEF Core, Parts
  <2>7. HandHeld'  BY <2>1, <2>3 DEF HandHeld
  <2> QED BY <2>4, <2>5, <2>6, <2>7 DEF Core
<1> QED BY <1>4, <1>5

\* The order keeps the written ones, the hand and the queue apart.
LEMMA PlacesApart ==
    ASSUME Core
    PROVE  Written \cap Queued = {} /\ Written \cap Held = {} /\ Queued \cap Held = {}
<1>1. \A x \in Written \cup Queued \cup Held : x \in Nat
  <2>1. Written \cup Queued \cup Held \subseteq 1..puts /\ puts \in Nat  BY PlaceFacts
  <2> QED BY <2>1
<1>2. /\ \A r \in Written, x \in Held \cup Queued : r < x
      /\ \A r \in Held, x \in Queued : r < x
  BY DEF Core, FileInOrder
<1> QED BY <1>1, <1>2

\* A flush that fails: what the buffer forgets is lost, and so is the record in
\* hand if it was to follow.
LEMMA SpillCore ==
    ASSUME Core, NEW k \in flushed..Len(file), NEW j \in flushed..k, NEW more \in SUBSET Held,
           SpillFails(j, k, more), Held' = Held \ more,
           UNCHANGED <<q, puts, evicted>>
    PROVE  /\ file' \in Seq(Record) /\ flushed' \in 0..Len(file') /\ lost' \subseteq Record
           /\ FileInOrder' /\ Parts'
<1> DEFINE gone == {file[i] : i \in k+1..Len(file)}
<1>1. /\ file' = SubSeq(file, 1, k) /\ flushed' = j /\ lost' = lost \cup more \cup gone
  BY DEF SpillFails
<1>2. /\ file \in Seq(Record) /\ Ascending(file) /\ Ascending(q)
      /\ Written = Elements(file) /\ 1..puts \subseteq Record
      /\ Written \cup Queued \cup Held \cup evicted \cup lost = 1..puts
  BY PlaceFacts
<1>3. /\ flushed \in 0..Len(file) /\ Len(file) \in Nat
  BY <1>2, LenProperties DEF Core, TypeOK
<1>4. k \in 0..Len(file) /\ j \in 0..k  BY <1>3
<1>5. /\ file' \in Seq(Record) /\ Len(file') = k /\ Ascending(file')
      /\ Elements(file) = Elements(file') \cup gone
      /\ Elements(file') \cap gone = {}
  BY <1>1, <1>2, <1>4, PrefixFacts
<1>6. Written' = Elements(file')  BY DEF Written, Elements
<1>7. Queued' = Queued  BY DEF Queued
<1> HIDE DEF gone
<1>8. Written = Written' \cup gone /\ Written' \cap gone = {} /\ Written' \subseteq Written
  BY <1>2, <1>5, <1>6
<1>9. Written \cap Queued = {} /\ Written \cap Held = {} /\ Queued \cap Held = {}
  BY PlacesApart
<1>10. lost' \subseteq Record  BY <1>1, <1>2, <1>8
<1>11. FileInOrder'
  BY <1>2, <1>5, <1>7, <1>8 DEF Core, FileInOrder
<1>12. Parts'
  <2>1. /\ evicted \cap lost = {}
        /\ (evicted \cup lost) \cap (Written \cup Queued \cup Held) = {}
    BY DEF Core, Parts
  <2>2. 1..puts = Written' \cup Queued \cup Held' \cup evicted \cup lost'
    BY <1>1, <1>2, <1>8
  <2>3. evicted \cap lost' = {}  BY <1>1, <1>8, <2>1
  <2>4. (evicted \cup lost') \cap (Written' \cup Queued \cup Held') = {}
    BY <1>1, <1>8, <1>9, <2>1
  <2> QED BY <1>7, <2>2, <2>3, <2>4 DEF Parts
<1> QED BY <1>1, <1>4, <1>5, <1>10, <1>11, <1>12

\* The record in hand goes to the end of the file, or its write fails.
LEMMA WriteCore ==
    ASSUME Core, WriteRecord PROVE Core'
<1>1. /\ hand # None /\ hand' = None /\ hand \in Record
      /\ Held = {hand} /\ Held' = {}
      /\ UNCHANGED <<q, puts, pc, dropped, evicted, fileOpen, manager, stopAt, timedOut, disk>>
      /\ Queued' = Queued
      /\ writer' \in {"loop", "drain"}
  BY DEF WriteRecord, queueVars, managerVars, Core, TypeOK, HandHeld, Held, Queued
<1>2. HandHeld'  BY <1>1 DEF HandHeld
<1>3. ASSUME file' \in Seq(Record), flushed' \in 0..Len(file'), lost' \subseteq Record
      PROVE  TypeOK'
  BY <1>1, <1>3 DEF Core, TypeOK
<1>4. file \in Seq(Record) /\ Len(file) \in Nat /\ flushed \in 0..Len(file)
      /\ lost \subseteq Record
  BY LenProperties DEF Core, TypeOK
<1>5. CASE /\ ~fileOpen /\ lost' = lost \cup {hand} /\ UNCHANGED <<file, flushed>>
  <2>1. Written' = Written  BY <1>5 DEF Written
  <2>2. hand \notin Written \cup Queued \cup evicted
    <3>1. hand \in Nat  BY <1>1, EntryFacts
    <3> QED BY <1>1, <3>1 DEF Core, FileInOrder, Parts
  <2>3. TypeOK'  BY <1>1, <1>3, <1>4, <1>5
  <2>4. FileInOrder'  BY <1>1, <1>5, <2>1 DEF Core, FileInOrder
  <2>5. Parts'  BY <1>1, <1>5, <2>1, <2>2 DEF Core, Parts
  <2> QED BY <1>2, <2>3, <2>4, <2>5 DEF Core
<1>6. CASE \E k \in flushed..Len(file) : \E j \in flushed..k : SpillFails(j, k, {hand})
  <2>0. PICK k \in flushed..Len(file) : \E j \in flushed..k : SpillFails(j, k, {hand})
    BY <1>6
  <2>1. PICK j \in flushed..k : SpillFails(j, k, {hand})  BY <2>0
  <2>2. /\ file' \in Seq(Record) /\ flushed' \in 0..Len(file') /\ lost' \subseteq Record
        /\ FileInOrder' /\ Parts'
    BY <1>1, <2>1, SpillCore
  <2> QED BY <1>2, <1>3, <2>2 DEF Core
<1>7. CASE /\ file' = Append(file, hand) /\ lost' = lost
           /\ flushed' = flushed \/ flushed' = Len(file')
  <2>2. file \in Seq(Entry) /\ Written = Elements(file)  BY PlaceFacts
  <2>3. Elements(file') = Elements(file) \cup {hand}
    BY <1>1, <1>7, <2>2, EntryFacts, AppendElements
  <2>4. Written' = Written \cup {hand}  BY <2>2, <2>3 DEF Written, Elements
  <2>5. Ascending(file')
    <3>1. \A e \in Elements(file) : e < hand  BY <1>1, <2>2 DEF Core, FileInOrder
    <3>2. Ascending(file)  BY DEF Core, FileInOrder
    <3> QED BY <1>1, <1>7, <2>2, <3>1, <3>2, EntryFacts, AppendAscends
  <2>6. TypeOK'
    <3>1. file' \in Seq(Record) /\ Len(file') = Len(file) + 1
      BY <1>1, <1>4, <1>7, AppendProperties
    <3>2. flushed' \in 0..Len(file')  BY <1>4, <1>7, <3>1
    <3> QED BY <1>3, <1>4, <1>7, <3>1, <3>2
  <2>7. FileInOrder'  BY <1>1, <2>4, <2>5 DEF Core, FileInOrder
  <2>8. Parts'  BY <1>1, <1>7, <2>4 DEF Core, Parts
  <2> QED BY <1>2, <2>6, <2>7, <2>8 DEF Core
<1> QED BY <1>5, <1>6, <1>7 DEF WriteRecord, Spill

\* What a flush, a close or the end of the file object do to the records.
FileMoves ==
    \/ file' = file /\ lost' = lost /\ flushed' \in {flushed, Len(file')}
    \/ \E k \in flushed..Len(file) : \E j \in flushed..k : SpillFails(j, k, {})

\* A flush, a close and a discard are such moves, and keep a good disk's file
\* whole.
LEMMA FileSteps ==
    ASSUME Core
    PROVE  /\ FlushFile \/ DiscardFile \/ CloseFile => FileMoves
           /\ FlushFile /\ disk # "failing" => flushed' = Len(file') /\ lost' = lost
           /\ CloseFile => fileOpen' \in BOOLEAN
           /\ DiscardFile => fileOpen' = FALSE /\ flushed' = Len(file')
           /\ CloseFile /\ disk # "failing" =>
                fileOpen' = FALSE /\ flushed' = Len(file') /\ lost' = lost
<1>1. ASSUME NEW k \in flushed..Len(file), SpillFails(k, k, {}) PROVE FileMoves
  <2>1. flushed \in Nat /\ Len(file) \in Nat
    BY LenProperties DEF Core, TypeOK
  <2>2. k \in flushed..k  BY <2>1
  <2> QED BY <1>1, <2>2 DEF FileMoves
<1>2. FlushFile => FileMoves  BY DEF FlushFile, Spill, FileMoves
<1>3. DiscardFile => FileMoves  BY <1>1 DEF DiscardFile
<1>4. CloseFile => FileMoves  BY <1>2, <1>3 DEF CloseFile, Spill, FileMoves
<1>5. FlushFile /\ disk # "failing" => flushed' = Len(file') /\ lost' = lost
  BY DEF FlushFile, Spill
<1>6. CloseFile => fileOpen' \in BOOLEAN
  BY DEF CloseFile, DiscardFile, Core, TypeOK
<1>7. CloseFile /\ disk # "failing" =>
        fileOpen' = FALSE /\ flushed' = Len(file') /\ lost' = lost
  BY DEF CloseFile, Spill
<1>8. ASSUME DiscardFile PROVE fileOpen' = FALSE /\ flushed' = Len(file')
  <2>1. PICK k \in flushed..Len(file) : SpillFails(k, k, {})  BY <1>8 DEF DiscardFile
  <2>2. k \in 0..Len(file) /\ file \in Seq(Record) /\ Ascending(file)
    <3>1. flushed \in Nat /\ Len(file) \in Nat  BY LenProperties DEF Core, TypeOK
    <3> QED BY <3>1, PlaceFacts
  <2>3. Len(SubSeq(file, 1, k)) = k  BY <2>2, PrefixFacts
  <2> QED BY <1>8, <2>1, <2>3 DEF DiscardFile, SpillFails
<1> QED BY <1>2, <1>3, <1>4, <1>5, <1>6, <1>7, <1>8

\* No step of the file brings back what is lost.
LEMMA LostGrows ==
    ASSUME Core, MaybeFlush \/ EndDrain \/ StopReturns PROVE lost \subseteq lost'
<1>1. FileMoves \/ lost' = lost
  BY FileSteps DEF MaybeFlush, EndDrain, StopReturns, fileVars, Spill
<1> QED BY <1>1 DEF FileMoves, SpillFails

\* Steps of the file alone keep every record in one place.
LEMMA FileCore ==
    ASSUME Core, FileMoves, UNCHANGED <<q, puts, pc, dropped, evicted, hand, stopAt>>,
           writer' = writer \/ (writer = "drain" /\ writer' = "ended"),
           manager' \in {"logging", "stopping", "closed"}, timedOut' \in BOOLEAN,
           fileOpen' \in BOOLEAN, disk' \in {"sound", "failing", "healed"}
    PROVE  Core'
<1>1. Held' = Held /\ Queued' = Queued  BY DEF Held, Queued
<1>2. HandHeld'  BY DEF Core, HandHeld
<1>3. ASSUME file' \in Seq(Record), flushed' \in 0..Len(file'), lost' \subseteq Record
      PROVE  TypeOK'
  BY <1>3 DEF Core, TypeOK
<1>4. CASE file' = file /\ lost' = lost /\ flushed' \in {flushed, Len(file')}
  <2>1. file \in Seq(Record) /\ Len(file) \in Nat /\ flushed \in 0..Len(file)
        /\ lost \subseteq Record
    BY LenProperties DEF Core, TypeOK
  <2>2. TypeOK'  BY <1>3, <1>4, <2>1
  <2>3. Written' = Written  BY <1>4 DEF Written
  <2> QED BY <1>1, <1>2, <1>4, <2>2, <2>3 DEF Core, FileInOrder, Parts
<1>5. CASE \E k \in flushed..Len(file) : \E j \in flushed..k : SpillFails(j, k, {})
  <2>0. PICK k \in flushed..Len(file) : \E j \in flushed..k : SpillFails(j, k, {})
    BY <1>5
  <2>1. PICK j \in flushed..k : SpillFails(j, k, {})  BY <2>0
  <2>2. Held' = Held \ {}  BY <1>1
  <2>3. /\ file' \in Seq(Record) /\ flushed' \in 0..Len(file') /\ lost' \subseteq Record
        /\ FileInOrder' /\ Parts'
    BY <2>1, <2>2, SpillCore
  <2> QED BY <1>2, <1>3, <2>3 DEF Core
<1> QED BY <1>4, <1>5 DEF FileMoves

\* stop() queues the sentinel behind everything.
LEMMA StopCore ==
    ASSUME Core, StopWriter PROVE Core'
<1>1. /\ manager' = "stopping" /\ stopAt' = puts /\ q' = Append(q, Stop)
      /\ UNCHANGED <<puts, pc, dropped, evicted, writer, hand, file, flushed, fileOpen, lost, timedOut, disk>>
      /\ Written' = Written /\ Held' = Held
  BY DEF StopWriter, writerVars, fileVars, Written, Held
<1>2. q \in Seq(Entry) /\ Queued = Elements(q) \ {Stop} /\ Ascending(q)  BY PlaceFacts
<1>3. Stop \in Entry  BY DEF Entry
<1>4. q' \in Seq(Entry) /\ Elements(q') = Elements(q) \cup {Stop} /\ Ascending(q')
  BY <1>1, <1>2, <1>3, AppendElements, AppendAscends
<1>5. Queued' = Queued  BY <1>2, <1>4 DEF Queued, Elements
<1>6. TypeOK'  BY <1>1, <1>4 DEF Core, TypeOK, Entry
<1>7. FileInOrder' /\ Parts'
  BY <1>1, <1>4, <1>5 DEF Core, FileInOrder, Parts
<1> QED BY <1>1, <1>6, <1>7 DEF Core, HandHeld

\* Every step keeps every record in one place and the file in order.
LEMMA StepCore ==
    ASSUME Core, [Next]_vars PROVE Core'
<1>1. ASSUME NEW p \in Producer, CheckSize(p) PROVE Core'
  <2>1. /\ pc' = [pc EXCEPT ![p] = IF Len(q) >= MAX_QUEUE THEN "full" ELSE "put"]
        /\ UNCHANGED <<q, puts, dropped, evicted, writer, hand, file, flushed, fileOpen, lost, manager, stopAt,
                       timedOut, disk>>
    BY <1>1 DEF CheckSize, writerVars, fileVars, managerVars
  <2>2. TypeOK'  BY <2>1 DEF Core, TypeOK
  <2> QED BY <2>1, <2>2 DEF Core, FileInOrder, Parts, HandHeld, Written, Queued, Held
<1>2. CASE MaybeFlush \/ EndDrain \/ StopReturns
  <2>1. FileMoves
    <3>1. CASE MaybeFlush  BY <3>1, FileSteps DEF MaybeFlush
    <3>2. CASE EndDrain
      <4>1. UNCHANGED fileVars \/ (UNCHANGED file /\ Spill) => FileMoves
        BY DEF FileMoves, fileVars, Spill
      <4> QED BY <3>2, <4>1, FileSteps DEF EndDrain
    <3>3. CASE StopReturns  BY <3>3, FileSteps DEF StopReturns
    <3> QED BY <1>2, <3>1, <3>2, <3>3
  <2>2. /\ UNCHANGED <<q, puts, pc, dropped, evicted, hand, stopAt, disk>>
        /\ writer' = writer \/ (writer = "drain" /\ writer' = "ended")
    BY <1>2 DEF MaybeFlush, EndDrain, StopReturns, queueVars, managerVars
  <2>3. fileOpen' \in BOOLEAN
    BY <1>2, FileSteps DEF MaybeFlush, EndDrain, StopReturns, DiscardFile, fileVars, Core, TypeOK
  <2>4. /\ manager' \in {"logging", "stopping", "closed"} /\ timedOut' \in BOOLEAN
        /\ disk' \in {"sound", "failing", "healed"}
    BY <1>2, <2>2 DEF MaybeFlush, EndDrain, StopReturns, managerVars, Core, TypeOK
  <2> QED BY <2>1, <2>2, <2>3, <2>4, FileCore
<1>3. CASE DiskChanges \/ UNCHANGED vars
  <2>1. /\ UNCHANGED <<q, puts, pc, dropped, evicted, writer, hand, file, flushed, fileOpen,
                       lost, manager, stopAt, timedOut>>
        /\ disk' \in {disk, "failing", "healed"}
    BY <1>3 DEF DiskChanges, vars, queueVars, writerVars, fileVars, managerVars
  <2>2. TypeOK'  BY <2>1 DEF Core, TypeOK
  <2> QED BY <2>1, <2>2 DEF Core, FileInOrder, Parts, HandHeld, Written, Queued, Held
<1> QED BY <1>1, <1>2, <1>3, PutCore, DropCore, TakeCore, WriteCore, StopCore
        DEF Next, Produce, Write

-----------------------------------------------------------------------------
(* The sentinel and the drop count.                                         *)

StopOnce(s) == \A i, j \in DOMAIN s : s[i] = Stop /\ s[j] = Stop => i = j

\* A record behind the others does not double the sentinel, and neither does a
\* sentinel behind records only.
LEMMA AppendStop ==
    ASSUME NEW s \in Seq(Entry), NEW x \in Entry, StopOnce(s),
           x = Stop => Stop \notin Elements(s)
    PROVE  StopOnce(Append(s, x))
<1>1. /\ Len(s) \in Nat /\ DOMAIN s = 1..Len(s)
      /\ DOMAIN Append(s, x) = 1..Len(s) + 1
      /\ \A i \in 1..Len(s) : Append(s, x)[i] = s[i]
      /\ Append(s, x)[Len(s) + 1] = x
  BY AppendProperties, LenProperties
<1> DEFINE t == Append(s, x)
<1> HIDE DEF t
<1>2. ASSUME NEW i \in 1..Len(s) + 1, NEW j \in 1..Len(s) + 1, t[i] = Stop, t[j] = Stop
      PROVE  i = j
  <2>1. x = Stop => \A k \in 1..Len(s) : s[k] # Stop  BY <1>1 DEF Elements
  <2>2. i \in 1..Len(s) \/ i = Len(s) + 1  BY <1>1
  <2>3. j \in 1..Len(s) \/ j = Len(s) + 1  BY <1>1
  <2> QED BY <1>1, <1>2, <2>1, <2>2, <2>3 DEF StopOnce, t
<1> QED BY <1>1, <1>2 DEF StopOnce, t

\* When the oldest entry leaves, and is the sentinel, none is left.
LEMMA TailStop ==
    ASSUME NEW s \in Seq(Entry), s # << >>, StopOnce(s)
    PROVE  /\ StopOnce(Tail(s))
           /\ Head(s) = Stop => Stop \notin Elements(Tail(s))
<1>1. /\ Head(s) = s[1] /\ Len(s) \in Nat /\ DOMAIN s = 1..Len(s) /\ 1 \in DOMAIN s
      /\ DOMAIN Tail(s) = 1..Len(s) - 1
      /\ \A i \in DOMAIN Tail(s) : i + 1 \in DOMAIN s /\ Tail(s)[i] = s[i + 1]
  BY TailElements
<1>2. \A i, j \in DOMAIN Tail(s) : i + 1 = j + 1 => i = j  BY <1>1
<1>3. StopOnce(Tail(s))  BY <1>1, <1>2 DEF StopOnce
<1>4. ASSUME Head(s) = Stop, Stop \in Elements(Tail(s)) PROVE FALSE
  <2>1. PICK i \in DOMAIN Tail(s) : Tail(s)[i] = Stop  BY <1>4 DEF Elements
  <2>2. s[i + 1] = Stop /\ s[1] = Stop /\ i + 1 # 1  BY <1>1, <1>4, <2>1
  <2> QED BY <1>1, <2>1, <2>2 DEF StopOnce
<1> QED BY <1>3, <1>4

\* The drop count and the sentinel, spelled with StopOnce and Elements.
LEMMA SentinelParts ==
    DropsCounted /\ Sentinel <=>
        /\ StopOnce(q)
        /\ Stop \in Elements(q) => manager # "logging"
        /\ Stop \in Elements(q) \/ manager = "logging" => dropped = Cardinality(evicted)
        /\ dropped \in {Cardinality(evicted), Cardinality(evicted) + 1}
<1>1. HasStop <=> Stop \in Elements(q)  BY DEF HasStop, Elements
<1> QED BY <1>1 DEF DropsCounted, Sentinel, StopOnce

\* Every step keeps the count of dropped records to within a sentinel.
LEMMA StepSentinel ==
    ASSUME Core, DropsCounted, Sentinel, [Next]_vars
    PROVE  DropsCounted' /\ Sentinel'
<1>1. /\ StopOnce(q)
      /\ Stop \in Elements(q) => manager # "logging"
      /\ Stop \in Elements(q) \/ manager = "logging" => dropped = Cardinality(evicted)
      /\ dropped \in {Cardinality(evicted), Cardinality(evicted) + 1}
  BY SentinelParts
<1>2. ASSUME StopOnce(q)',
             Stop \in Elements(q') => manager' # "logging",
             Stop \in Elements(q') \/ manager' = "logging" => dropped' = Cardinality(evicted'),
             dropped' \in {Cardinality(evicted'), Cardinality(evicted') + 1}
      PROVE  DropsCounted' /\ Sentinel'
  <2>1. HasStop' <=> Stop \in Elements(q')  BY DEF HasStop, Elements
  <2> QED BY <1>2, <2>1 DEF DropsCounted, Sentinel, StopOnce
<1>3. q \in Seq(Entry)  BY PlaceFacts
<1>4. IsFiniteSet(evicted) /\ Cardinality(evicted) \in Nat
  <2>1. evicted \subseteq Record  BY DEF Core, TypeOK
  <2> QED BY <2>1, EntryFacts, FS_Subset, FS_CardinalityType
<1>5. ASSUME NEW p \in Producer, Put(p) PROVE DropsCounted' /\ Sentinel'
  <2>1. /\ q' = Append(q, puts + 1) /\ puts + 1 \in Entry /\ puts + 1 # Stop
        /\ UNCHANGED <<dropped, evicted, manager>>
    <3>1. puts + 1 \in Record  BY <1>5, LogWriterAssumption DEF Put, Core, TypeOK, Record
    <3> QED BY <1>5, <3>1, EntryFacts DEF Put, managerVars
  <2>2. Elements(q') = Elements(q) \cup {puts + 1}  BY <1>3, <2>1, AppendElements
  <2>3. StopOnce(Append(q, puts + 1))  BY <1>1, <1>3, <2>1, AppendStop
  <2>4. StopOnce(q)'  BY <2>1, <2>3 DEF StopOnce
  <2> QED BY <1>1, <1>2, <2>1, <2>2, <2>4
<1>6. ASSUME q # << >>
      PROVE  /\ StopOnce(Tail(q))
             /\ Elements(q) = {Head(q)} \cup Elements(Tail(q))
             /\ Head(q) = Stop => Stop \notin Elements(Tail(q))
  BY <1>1, <1>3, <1>6, TailElements, TailStop
<1>7. ASSUME NEW p \in Producer, DropOldest(p) PROVE DropsCounted' /\ Sentinel'
  <2>1. manager' = manager  BY <1>7 DEF DropOldest, managerVars
  <2>2. CASE q = << >>
    <3>1. q' = q /\ dropped' = dropped /\ evicted' = evicted  BY <1>7, <2>2 DEF DropOldest
    <3>2. StopOnce(q)'  BY <1>1, <3>1 DEF StopOnce
    <3> QED BY <1>1, <1>2, <2>1, <3>1, <3>2
  <2>3. CASE q # << >>
    <3>1. /\ q' = Tail(q) /\ dropped' = dropped + 1
          /\ evicted' = evicted \cup ({Head(q)} \ {Stop})
      BY <1>7, <2>3 DEF DropOldest
    <3>2. StopOnce(q)'  BY <1>6, <2>3, <3>1 DEF StopOnce
    <3>3. CASE Head(q) = Stop
      <4>1. evicted' = evicted  BY <3>1, <3>3
      <4>2. Stop \in Elements(q) /\ Stop \notin Elements(q')  BY <1>6, <2>3, <3>1, <3>3
      <4> QED BY <1>1, <1>2, <1>4, <2>1, <3>1, <3>2, <4>1, <4>2
    <3>4. CASE Head(q) # Stop
      <4>1. evicted' = evicted \cup {Head(q)} /\ Head(q) \notin evicted
        <5>1. Head(q) \in Queued  BY <2>3, <3>4, HeadFacts
        <5> QED BY <3>1, <3>4, <5>1 DEF Core, Parts
      <4>2. Cardinality(evicted') = Cardinality(evicted) + 1
        BY <1>4, <4>1, FS_AddElement
      <4>3. Stop \in Elements(q') => Stop \in Elements(q)  BY <1>6, <2>3, <3>1
      <4> QED BY <1>1, <1>2, <1>4, <2>1, <3>1, <3>2, <4>2, <4>3
    <3> QED BY <3>3, <3>4
  <2> QED BY <2>2, <2>3
<1>8. CASE Take
  <2>1. q # << >> /\ q' = Tail(q) /\ UNCHANGED <<dropped, evicted, manager>>
    BY <1>8 DEF Take, managerVars
  <2>2. StopOnce(q)'  BY <1>6, <2>1 DEF StopOnce
  <2>3. Stop \in Elements(q') => Stop \in Elements(q)  BY <1>6, <2>1
  <2> QED BY <1>1, <1>2, <2>1, <2>2, <2>3
<1>9. CASE StopWriter
  <2>1. /\ manager = "logging" /\ manager' = "stopping" /\ q' = Append(q, Stop)
        /\ dropped' = dropped /\ evicted' = evicted
    BY <1>9 DEF StopWriter
  <2>2. Stop \in Entry /\ Stop \notin Elements(q)  BY <1>1, <2>1 DEF Entry
  <2>3. StopOnce(Append(q, Stop))  BY <1>1, <1>3, <2>2, AppendStop
  <2>4. StopOnce(q)'  BY <2>1, <2>3 DEF StopOnce
  <2> QED BY <1>1, <1>2, <2>1, <2>4
<1>10. ASSUME q' = q, dropped' = dropped, evicted' = evicted,
              manager' = manager \/ manager' = "closed"
       PROVE  DropsCounted' /\ Sentinel'
  <2>1. StopOnce(q)'  BY <1>1, <1>10 DEF StopOnce
  <2>2. manager' = "logging" => manager = "logging"  BY <1>10
  <2>3. Stop \in Elements(q') => manager' # "logging"  BY <1>1, <1>10, <2>2
  <2> QED BY <1>1, <1>2, <1>10, <2>1, <2>2, <2>3
<1>11. CASE \/ \E p \in Producer : CheckSize(p)
            \/ WriteRecord \/ MaybeFlush \/ EndDrain \/ StopReturns \/ DiskChanges
            \/ UNCHANGED vars
  BY <1>10, <1>11 DEF CheckSize, WriteRecord, MaybeFlush, EndDrain, StopReturns, DiskChanges,
                      vars, queueVars, managerVars
<1> QED BY <1>5, <1>7, <1>8, <1>9, <1>11 DEF Next, Produce, Write

-----------------------------------------------------------------------------
(* The bound on the queue.                                                  *)

\* At most every producer is between the check and the put.
LEMMA PuttingFacts ==
    ASSUME Core
    PROVE  /\ Cardinality(Api) \in Nat
           /\ \A S \in SUBSET Producer :
                /\ IsFiniteSet(S) /\ Cardinality(S) \in Nat
                /\ Cardinality(S) <= Cardinality(Api) + 1
           /\ \A S \in SUBSET Producer, p \in Producer :
                /\ Cardinality(S \cup {p}) <= Cardinality(S) + 1
                /\ p \in S => Cardinality(S \ {p}) = Cardinality(S) - 1
           /\ Len(q) \in Nat
<1>1. IsFiniteSet(Api) /\ Main \notin Api /\ Producer = Api \cup {Main}
  BY LogWriterAssumption DEF Producer
<1>2. /\ IsFiniteSet(Producer) /\ Cardinality(Producer) = Cardinality(Api) + 1
      /\ Cardinality(Api) \in Nat
  BY <1>1, FS_AddElement, FS_CardinalityType
<1>3. ASSUME NEW S \in SUBSET Producer
      PROVE  /\ IsFiniteSet(S) /\ Cardinality(S) \in Nat
             /\ Cardinality(S) <= Cardinality(Api) + 1
  BY <1>2, FS_Subset, FS_CardinalityType
<1>4. ASSUME NEW S \in SUBSET Producer, NEW p \in Producer
      PROVE  /\ Cardinality(S \cup {p}) <= Cardinality(S) + 1
             /\ p \in S => Cardinality(S \ {p}) = Cardinality(S) - 1
  <2>1. IsFiniteSet(S) /\ Cardinality(S) \in Nat  BY <1>3
  <2> QED BY <2>1, FS_AddElement, FS_RemoveElement
<1>5. Len(q) \in Nat  BY PlaceFacts, LenProperties
<1> QED BY <1>2, <1>3, <1>4, <1>5

\* Every step keeps the queue, with what is about to join it, to the limit, an
\* entry for each API thread and the sentinel.
LEMMA StepRoom ==
    ASSUME Core, Room, [Next]_vars PROVE Room'
<1> DEFINE n == Cardinality(Api)
           m == Cardinality(Putting)
           extra == IF manager = "logging" THEN 0 ELSE 1
<1>1. /\ n \in Nat /\ m \in Nat /\ Len(q) \in Nat /\ MAX_QUEUE \in Nat
      /\ m <= n + 1
      /\ Putting \subseteq Producer /\ Putting' \subseteq Producer
      /\ Cardinality(Putting)' \in Nat /\ Cardinality(Putting)' <= n + 1
  BY PuttingFacts, LogWriterAssumption DEF Putting
<1>2. /\ extra \in {0, 1} /\ extra' \in {0, 1}
      /\ Len(q) + m <= MAX_QUEUE + n + extra
  BY DEF Room
<1>3. ASSUME Len(q') + Cardinality(Putting') <= MAX_QUEUE + n + extra' PROVE Room'
  BY <1>3 DEF Room, Putting
<1>4. pc \in [Producer -> {"idle", "full", "put"}]  BY DEF Core, TypeOK
<1> HIDE DEF n, m, extra
<1>5. ASSUME NEW p \in Producer, CheckSize(p) PROVE Room'
  <2>1. q' = q /\ manager' = manager /\ extra' = extra
    BY <1>5 DEF CheckSize, managerVars, extra
  <2>2. CASE Len(q) >= MAX_QUEUE
    <3>1. Putting' = Putting
      BY <1>4, <1>5, <2>2 DEF CheckSize, Putting
    <3> QED BY <1>2, <1>3, <2>1, <3>1 DEF m
  <2>3. CASE ~(Len(q) >= MAX_QUEUE)
    <3>1. Len(q) + Cardinality(Putting') <= MAX_QUEUE + n + extra'
      BY <1>1, <1>2, <2>3
    <3> QED BY <1>3, <2>1, <3>1
  <2> QED BY <2>2, <2>3
<1>6. ASSUME NEW p \in Producer, DropOldest(p) PROVE Room'
  <2>1. manager' = manager /\ extra' = extra  BY <1>6 DEF DropOldest, managerVars, extra
  <2>2. Putting' = Putting \cup {p}
    BY <1>4, <1>6 DEF DropOldest, Putting
  <2>3. CASE q = << >>
    <3>1. q' = q /\ Len(q) = 0  BY <1>6, <2>3 DEF DropOldest
    <3>2. MAX_QUEUE >= 1  BY LogWriterAssumption
    <3>3. Len(q) + Cardinality(Putting') <= MAX_QUEUE + n + extra'
      BY <1>1, <1>2, <3>1, <3>2
    <3> QED BY <1>3, <3>1, <3>3
  <2>4. CASE q # << >>
    <3>1. Len(q') = Len(q) - 1
      <4>1. q' = Tail(q) /\ q \in Seq(Entry)  BY <1>6, <2>4, PlaceFacts DEF DropOldest
      <4> QED BY <2>4, <4>1, TailElements
    <3>2. Cardinality(Putting') <= m + 1  BY <1>1, <2>2, PuttingFacts DEF m
    <3>3. Len(q') + Cardinality(Putting') <= MAX_QUEUE + n + extra'
      BY <1>1, <1>2, <2>1, <3>1, <3>2
    <3> QED BY <1>3, <3>3
  <2> QED BY <2>3, <2>4
<1>7. ASSUME NEW p \in Producer, Put(p) PROVE Room'
  <2>1. manager' = manager /\ extra' = extra  BY <1>7 DEF Put, managerVars, extra
  <2>2. Putting' = Putting \ {p} /\ p \in Putting
    BY <1>4, <1>7 DEF Put, Putting
  <2>3. Cardinality(Putting') = m - 1  BY <1>1, <2>2, PuttingFacts DEF m
  <2>4. Len(q') = Len(q) + 1
    <3>1. q' = Append(q, puts + 1) /\ q \in Seq(Entry)  BY <1>7, PlaceFacts DEF Put
    <3>2. puts + 1 \in Entry
      BY <1>7, LogWriterAssumption DEF Put, Core, TypeOK, Record, Entry
    <3> QED BY <3>1, <3>2, AppendElements
  <2>5. Len(q') + Cardinality(Putting') <= MAX_QUEUE + n + extra'
    BY <1>1, <1>2, <2>1, <2>3, <2>4
  <2> QED BY <1>3, <2>5
<1>8. CASE Take
  <2>1. /\ q # << >> /\ q' = Tail(q) /\ Putting' = Putting /\ extra' = extra
        /\ q \in Seq(Entry)
    BY <1>8, PlaceFacts DEF Take, managerVars, Putting, extra
  <2>2. Len(q') = Len(q) - 1  BY <2>1, TailElements
  <2>3. Len(q') + Cardinality(Putting') <= MAX_QUEUE + n + extra'
    BY <1>1, <1>2, <2>1, <2>2 DEF m
  <2> QED BY <1>3, <2>3
<1>9. CASE StopWriter
  <2>1. /\ extra = 0 /\ extra' = 1 /\ q' = Append(q, Stop) /\ Putting' = Putting
        /\ q \in Seq(Entry) /\ Stop \in Entry
    BY <1>9, PlaceFacts DEF StopWriter, Putting, extra, Entry
  <2>2. Len(q') = Len(q) + 1  BY <2>1, AppendElements
  <2>3. Len(q') + Cardinality(Putting') <= MAX_QUEUE + n + extra'
    BY <1>1, <1>2, <2>1, <2>2 DEF m
  <2> QED BY <1>3, <2>3
<1>10. ASSUME q' = q, pc' = pc, manager' = manager \/ (manager = "stopping" /\ manager' = "closed")
       PROVE  Room'
  <2>1. Putting' = Putting /\ extra' = extra  BY <1>10 DEF Putting, extra
  <2> QED BY <1>2, <1>3, <1>10, <2>1 DEF m
<1>11. CASE WriteRecord \/ MaybeFlush \/ EndDrain \/ StopReturns \/ DiskChanges
            \/ UNCHANGED vars
  BY <1>10, <1>11 DEF WriteRecord, MaybeFlush, EndDrain, StopReturns, DiskChanges, vars,
                      queueVars, managerVars
<1> QED BY <1>5, <1>6, <1>7, <1>8, <1>9, <1>11 DEF Next, Produce, Write

-----------------------------------------------------------------------------
(* What stop() promises.                                                    *)

\* A thread that left its loop had taken the sentinel or failed to write.
LEMMA StepDrained ==
    ASSUME Core, Sentinel, Drained, [Next]_vars PROVE Drained'
<1>1. /\ stopAt <= puts
      /\ lost = {} /\ writer \in {"drain", "drain_write", "ended"} => manager # "logging"
      /\ lost = {} /\ writer = "ended" => \A r \in Queued : stopAt < r
      /\ manager = "closed" /\ ~timedOut => writer = "ended"
  BY DEF Drained
<1>2. stopAt \in Nat /\ puts \in Nat
  BY LogWriterAssumption DEF Core, TypeOK
<1>3. manager \in {"logging", "stopping", "closed"}  BY DEF Core, TypeOK
<1>4. ASSUME NEW p \in Producer, Put(p) PROVE Drained'
  <2>1. /\ puts' = puts + 1 /\ q' = Append(q, puts + 1)
        /\ UNCHANGED <<writer, lost, manager, stopAt, timedOut>>
    BY <1>4 DEF Put, writerVars, fileVars, managerVars
  <2>2. puts + 1 \in Entry
    BY <1>4, LogWriterAssumption DEF Put, Core, TypeOK, Record, Entry
  <2>3. Elements(q') = Elements(q) \cup {puts + 1}  BY <2>1, <2>2, PlaceFacts, AppendElements
  <2>4. Queued' \subseteq Queued \cup {puts + 1}  BY <2>3 DEF Queued, Elements
  <2>5. stopAt < puts + 1 /\ stopAt' <= puts'  BY <1>1, <1>2, <2>1
  <2>6. lost' = {} /\ writer' = "ended" => \A r \in Queued' : stopAt' < r
    BY <1>1, <2>1, <2>4, <2>5
  <2> QED BY <1>1, <2>1, <2>5, <2>6 DEF Drained
<1>5. ASSUME q # << >>, q' = Tail(q) PROVE Queued' \subseteq Queued
  <2>1. Queued' = Elements(Tail(q)) \ {Stop}  BY <1>5 DEF Queued, Elements
  <2> QED BY <1>5, <2>1, HeadFacts, PlaceFacts
<1>6. ASSUME NEW p \in Producer, DropOldest(p) PROVE Drained'
  <2>1. UNCHANGED <<puts, writer, lost, manager, stopAt, timedOut>>
    BY <1>6 DEF DropOldest, writerVars, fileVars, managerVars
  <2>2. Queued' \subseteq Queued
    <3>1. q = << >> => q' = q  BY <1>6 DEF DropOldest
    <3>2. q # << >> => q' = Tail(q)  BY <1>6 DEF DropOldest
    <3> QED BY <1>5, <3>1, <3>2 DEF Queued
  <2> QED BY <1>1, <2>1, <2>2 DEF Drained
<1>7. CASE Take
  <2>1. /\ q # << >> /\ q' = Tail(q) /\ writer \in {"loop", "drain"}
        /\ UNCHANGED <<puts, lost, manager, stopAt, timedOut>>
    BY <1>7 DEF Take, fileVars, managerVars
  <2>2. writer' # "ended" /\ (writer = "loop" /\ Head(q) # Stop => writer' = "write")
    <3>1. CASE Head(q) = Stop  BY <1>7, <3>1 DEF Take
    <3>2. CASE Head(q) # Stop  BY <1>7, <3>2 DEF Take
    <3> QED BY <3>1, <3>2
  <2>3. Head(q) = Stop => manager # "logging"
    <3>1. Head(q) = q[1] /\ 1 \in DOMAIN q  BY <2>1, PlaceFacts, TailElements
    <3> QED BY <3>1 DEF Sentinel, HasStop
  <2>4. lost' = {} /\ writer' \in {"drain", "drain_write", "ended"} => manager' # "logging"
    BY <1>1, <2>1, <2>2, <2>3
  <2> QED BY <1>1, <2>1, <2>2, <2>4 DEF Drained
<1>8. CASE WriteRecord
  <2>1. /\ UNCHANGED <<q, puts, manager, stopAt, timedOut>>
        /\ writer \in {"write", "drain_write"} /\ writer' # "ended"
    BY <1>8 DEF WriteRecord, queueVars, managerVars
  <2>2. \/ lost' # {}
        \/ lost' = lost /\ (writer' = "drain" => writer = "drain_write") /\ writer' # "drain_write"
    BY <1>8 DEF WriteRecord, Spill, SpillFails
  <2>3. Queued' = Queued  BY <2>1 DEF Queued
  <2> QED BY <1>1, <2>1, <2>2, <2>3 DEF Drained
<1>9. CASE EndDrain
  <2>1. /\ UNCHANGED <<puts, manager, stopAt, timedOut>>
        /\ writer = "drain" /\ writer' = "ended" /\ q' = << >>
    BY <1>9 DEF EndDrain, queueVars, managerVars
  <2>2. Queued' = {}  BY <2>1 DEF Queued
  <2>3. lost \subseteq lost'  BY <1>9, LostGrows
  <2> QED BY <1>1, <2>1, <2>2, <2>3 DEF Drained
<1>10. CASE StopWriter
  <2>1. /\ manager = "logging" /\ manager' = "stopping" /\ stopAt' = puts
        /\ UNCHANGED <<puts, writer, lost, timedOut>>
    BY <1>10 DEF StopWriter, writerVars, fileVars
  <2>2. ~(lost = {} /\ writer = "ended")  BY <1>1, <2>1
  <2> QED BY <1>1, <1>2, <2>1, <2>2 DEF Drained
<1>11. CASE StopReturns
  <2>1. /\ manager = "stopping" /\ manager' = "closed" /\ timedOut' = (writer # "ended")
        /\ UNCHANGED <<puts, writer, stopAt>> /\ Queued' = Queued
    BY <1>11 DEF StopReturns, queueVars, Queued
  <2>2. lost \subseteq lost'  BY <1>11, LostGrows
  <2> QED BY <1>1, <2>1, <2>2 DEF Drained
<1>12. ASSUME UNCHANGED <<q, puts, writer, manager, stopAt, timedOut>>, lost \subseteq lost'
       PROVE  Drained'
  BY <1>1, <1>12 DEF Drained, Queued
<1>13. CASE (\E p \in Producer : CheckSize(p)) \/ DiskChanges \/ UNCHANGED vars
  BY <1>12, <1>13 DEF CheckSize, DiskChanges, vars, queueVars, writerVars, fileVars, managerVars
<1>14. CASE MaybeFlush
  BY <1>12, <1>14, LostGrows DEF MaybeFlush, queueVars, managerVars
<1> QED BY <1>4, <1>6, <1>7, <1>8, <1>9, <1>10, <1>11, <1>13, <1>14
        DEF Next, Produce, Write

\* The file is closed by stop(); what is lost is lost to the disk or to a thread
\* that outlived stop().
LEMMA StepLosses ==
    ASSUME Core, Drained, Losses, [Next]_vars PROVE Losses'
<1>1. /\ ~fileOpen => manager = "closed" /\ flushed = Len(file)
      /\ lost # {} => disk # "sound" \/ timedOut
      /\ manager = "closed" /\ disk = "sound" => ~fileOpen
      /\ timedOut => manager = "closed"
  BY DEF Losses
<1>2. manager = "closed" /\ ~timedOut => writer = "ended"  BY DEF Drained
<1>3. fileOpen \in BOOLEAN /\ disk \in {"sound", "failing", "healed"} /\ timedOut \in BOOLEAN
  BY DEF Core, TypeOK
<1>4. ASSUME UNCHANGED <<fileVars, timedOut>>, disk' = disk \/ disk' # "sound",
             manager' = manager \/ (manager = "logging" /\ manager' = "stopping")
      PROVE  Losses'
  BY <1>1, <1>3, <1>4 DEF Losses, fileVars
<1>5. CASE WriteRecord
  <2>1. UNCHANGED <<fileOpen, manager, timedOut, disk>> /\ writer \in {"write", "drain_write"}
    BY <1>5 DEF WriteRecord, managerVars
  <2>2. CASE fileOpen
    <3>1. disk = "failing" \/ lost' = lost  BY <1>5, <2>2 DEF WriteRecord, Spill
    <3> QED BY <1>1, <2>1, <2>2, <3>1 DEF Losses
  <2>3. CASE ~fileOpen
    <3>1. file' = file /\ flushed' = flushed  BY <1>5, <2>3 DEF WriteRecord
    <3>2. timedOut  BY <1>1, <1>2, <1>3, <2>1, <2>3
    <3> QED BY <1>1, <2>1, <2>3, <3>1, <3>2 DEF Losses
  <2> QED BY <2>2, <2>3
<1>6. CASE MaybeFlush
  <2>1. fileOpen /\ UNCHANGED <<fileOpen, manager, timedOut, disk>> /\ FlushFile
    BY <1>6 DEF MaybeFlush, managerVars
  <2>2. disk = "failing" \/ lost' = lost  BY <2>1, FileSteps
  <2> QED BY <1>1, <2>1, <2>2 DEF Losses
<1>7. CASE EndDrain
  <2>1. UNCHANGED <<manager, timedOut, disk>>  BY <1>7 DEF EndDrain, managerVars
  <2>2. CASE ~fileOpen
    <3>1. UNCHANGED fileVars  BY <1>7, <2>2 DEF EndDrain
    <3> QED BY <1>4, <2>1, <3>1
  <2>3. CASE fileOpen /\ manager # "closed"
    <3>1. fileOpen' = fileOpen /\ FlushFile  BY <1>7, <2>3 DEF EndDrain
    <3>2. disk = "failing" \/ lost' = lost  BY <3>1, FileSteps
    <3> QED BY <1>1, <2>1, <2>3, <3>1, <3>2 DEF Losses
  <2>4. CASE fileOpen /\ manager = "closed"
    <3>1. disk # "sound"  BY <1>1, <2>4
    <3>2. fileOpen' = FALSE /\ flushed' = Len(file')
      <4>1. \/ fileOpen' = FALSE /\ Spill
            \/ DiscardFile
        BY <1>7, <2>4 DEF EndDrain
      <4> QED BY <4>1, FileSteps DEF Spill, DiscardFile
    <3> QED BY <2>1, <2>4, <3>1, <3>2 DEF Losses
  <2> QED BY <1>3, <2>2, <2>3, <2>4
<1>8. CASE StopReturns
  <2>1. /\ manager = "stopping" /\ manager' = "closed" /\ disk' = disk /\ CloseFile
        /\ timedOut' = (writer # "ended")
    BY <1>8 DEF StopReturns
  <2>2. fileOpen  BY <1>1, <2>1
  <2>3. lost # {} => disk # "sound"  BY <1>1, <2>1
  <2>4. CASE disk # "failing"
    <3>1. fileOpen' = FALSE /\ flushed' = Len(file') /\ lost' = lost
      BY <2>1, <2>4, FileSteps
    <3> QED BY <2>1, <2>3, <3>1 DEF Losses
  <2>5. CASE disk = "failing"
    <3>1. fileOpen' = fileOpen \/ (fileOpen' = FALSE /\ flushed' = Len(file'))
      BY <2>1, <2>5, FileSteps DEF CloseFile, Spill
    <3> QED BY <2>1, <2>2, <2>5, <3>1 DEF Losses
  <2> QED BY <2>4, <2>5
<1>9. CASE \/ \E p \in Producer : Produce(p)
           \/ Take \/ StopWriter \/ DiskChanges \/ UNCHANGED vars
  <2>1. /\ UNCHANGED <<fileVars, timedOut>>
        /\ manager' = manager \/ (manager = "logging" /\ manager' = "stopping")
        /\ disk' = disk \/ disk' # "sound"
    BY <1>9 DEF Produce, CheckSize, DropOldest, Put, Take, StopWriter, DiskChanges, vars,
                writerVars, managerVars
  <2> QED BY <1>4, <2>1
<1> QED BY <1>5, <1>6, <1>7, <1>8, <1>9 DEF Next, Write

-----------------------------------------------------------------------------
(* The invariant is inductive.                                              *)

LEMMA InitLogIInv == Init => LogIInv
<1> SUFFICES ASSUME Init PROVE LogIInv
  OBVIOUS
<1>1. /\ q = << >> /\ puts = 0 /\ pc = [p \in Producer |-> "idle"] /\ dropped = 0
      /\ evicted = {} /\ writer = "loop" /\ hand = None /\ file = << >> /\ lost = {}
      /\ manager = "logging" /\ stopAt = 0 /\ timedOut = FALSE /\ disk = "sound"
      /\ flushed = 0 /\ fileOpen = TRUE
  BY DEF Init
<1>2. Written = {} /\ Queued = {} /\ Held = {}  BY <1>1 DEF Written, Queued, Held
<1>3. TypeOK
  <2>1. puts \in 0..MaxRecords /\ stopAt \in 0..MaxRecords /\ dropped \in Nat
    BY <1>1, LogWriterAssumption
  <2>2. q \in Seq(Record \cup {Stop}) /\ file \in Seq(Record)  BY <1>1
  <2>3. pc \in [Producer -> {"idle", "full", "put"}]  BY <1>1
  <2>4. hand \in Record \cup {None} /\ evicted \subseteq Record /\ lost \subseteq Record
    BY <1>1
  <2>5. Len(file) = 0 /\ flushed \in 0..Len(file)  BY <1>1
  <2> QED BY <1>1, <2>1, <2>2, <2>3, <2>4, <2>5 DEF TypeOK
<1>4. FileInOrder  BY <1>1, <1>2 DEF FileInOrder, Ascending
<1>5. Parts  BY <1>1, <1>2 DEF Parts
<1>6. HandHeld  BY <1>1 DEF HandHeld
<1>7. DropsCounted /\ Sentinel
  <2>1. Cardinality(evicted) = 0  BY <1>1, FS_EmptySet
  <2> QED BY <1>1, <2>1 DEF DropsCounted, Sentinel, HasStop
<1>8. Room
  <2>1. Putting = {}  BY <1>1 DEF Putting
  <2>2. Len(q) + Cardinality(Putting) = 0 /\ Cardinality(Api) \in Nat
    BY <1>1, <2>1, FS_EmptySet, FS_CardinalityType, LogWriterAssumption
  <2> QED BY <1>1, <2>2, LogWriterAssumption DEF Room
<1>9. Drained  BY <1>1 DEF Drained
<1>10. Losses  BY <1>1 DEF Losses
<1> QED BY <1>3, <1>4, <1>5, <1>6, <1>7, <1>8, <1>9, <1>10 DEF LogIInv

LEMMA StepLogIInv == LogIInv /\ [Next]_vars => LogIInv'
<1> SUFFICES ASSUME LogIInv, [Next]_vars PROVE LogIInv'
  OBVIOUS
<1>1. Core /\ DropsCounted /\ Sentinel /\ Room /\ Drained /\ Losses  BY DEF LogIInv, Core
<1>2. Core'  BY <1>1, StepCore
<1>3. DropsCounted' /\ Sentinel'  BY <1>1, StepSentinel
<1>4. Room'  BY <1>1, StepRoom
<1>5. Drained'  BY <1>1, StepDrained
<1>6. Losses'  BY <1>1, StepLosses
<1> QED BY <1>2, <1>3, <1>4, <1>5, <1>6 DEF LogIInv, Core

\* Every step of the producers, the thread, stop() and the disk keeps the
\* records in their five places, in order, and the queue to its bound.
THEOREM LogInductive == Spec => []LogIInv
<1> QED BY InitLogIInv, StepLogIInv, PTL DEF Spec

-----------------------------------------------------------------------------
(* What the runs check.                                                     *)

\* The queue never exceeds its limit by more than one entry for each API
\* thread and the sentinel, and dropped_count is off by a sentinel at most.
THEOREM LogKeepsInv == Spec => []LogInv
<1>1. LogIInv => LogInv
  <2> SUFFICES ASSUME LogIInv PROVE LogInv
    OBVIOUS
  <2>1. Core /\ Room /\ TypeOK /\ DropsCounted  BY DEF LogIInv, Core
  <2>2. /\ Cardinality(Putting) \in Nat /\ Len(q) \in Nat /\ Cardinality(Api) \in Nat
        /\ MAX_QUEUE \in Nat
    <3>1. Putting \in SUBSET Producer  BY DEF Putting
    <3> QED BY <2>1, <3>1, PuttingFacts, LogWriterAssumption
  <2>3. QueueBounded  BY <2>1, <2>2 DEF Room, QueueBounded
  <2> QED BY <2>1, <2>3 DEF LogInv
<1> QED BY <1>1, LogInductive, PTL

\* Records reach the file in the order they were put.
THEOREM LogKeepsOrder == Spec => []FileInOrder
<1>1. LogIInv => FileInOrder  BY DEF LogIInv
<1> QED BY <1>1, LogInductive, PTL

\* The sizes of two parts that do not overlap add up.
LEMMA PartsAdd ==
    ASSUME NEW S, NEW T, IsFiniteSet(S), IsFiniteSet(T), S \cap T = {}
    PROVE  /\ IsFiniteSet(S \cup T)
           /\ Cardinality(S) \in Nat /\ Cardinality(T) \in Nat
           /\ Cardinality(S \cup T) = Cardinality(S) + Cardinality(T)
<1>1. /\ Cardinality(S) \in Nat /\ Cardinality(T) \in Nat /\ Cardinality({}) = 0
      /\ IsFiniteSet(S \cup T)
      /\ Cardinality(S \cup T) = Cardinality(S) + Cardinality(T) - Cardinality(S \cap T)
  BY FS_CardinalityType, FS_Union, FS_EmptySet
<1>2. Cardinality(S \cap T) = 0  BY <1>1
<1> QED BY <1>1, <1>2

\* What is flushed is all there is when the buffer is empty.
LEMMA OnDiskFacts ==
    ASSUME Core, flushed = Len(file) PROVE Written = OnDisk
<1>1. DOMAIN file = 1..Len(file)  BY LenProperties DEF Core, TypeOK
<1> QED BY <1>1 DEF Written, OnDisk

\* No record is lost or duplicated unseen, a closed file has nothing in its
\* buffer, and a loss tells of a failed disk or of a stop() that gave up.
THEOREM LogConserves == Spec => []Conserved
<1>1. LogIInv => Conserved
  <2> SUFFICES ASSUME LogIInv PROVE Conserved
    OBVIOUS
  <2>1. Core  BY DEF LogIInv, Core
  <2>2. /\ 1..puts = Written \cup Queued \cup Held \cup evicted \cup lost
        /\ evicted \cap lost = {}
        /\ (evicted \cup lost) \cap (Written \cup Queued \cup Held) = {}
    BY DEF LogIInv, Parts
  <2>3. puts \in Nat  BY <2>1, PlaceFacts
  <2>4. /\ ~fileOpen => Written = OnDisk
        /\ lost # {} => disk # "sound" \/ timedOut
    BY <2>1, OnDiskFacts DEF LogIInv, Losses
  <2>6. /\ Written \cap Queued = {} /\ Written \cap Held = {} /\ Queued \cap Held = {}
    BY <2>1, PlacesApart
  <2>7. IsFiniteSet(1..puts) /\ Cardinality(1..puts) = puts  BY <2>3, FS_Interval
  <2>8. \A S \in SUBSET (1..puts) : IsFiniteSet(S)  BY <2>7, FS_Subset
  <2>9. /\ IsFiniteSet(Written) /\ IsFiniteSet(Queued) /\ IsFiniteSet(Held)
        /\ IsFiniteSet(evicted) /\ IsFiniteSet(lost)
    BY <2>2, <2>8
  <2> DEFINE A == Written \cup Queued
             B == A \cup Held
             C == B \cup evicted
  <2>10. /\ IsFiniteSet(A) /\ Cardinality(A) = Cardinality(Written) + Cardinality(Queued)
         /\ Cardinality(Written) \in Nat /\ Cardinality(Queued) \in Nat
    BY <2>6, <2>9, PartsAdd
  <2>11. /\ IsFiniteSet(B) /\ Cardinality(B) = Cardinality(A) + Cardinality(Held)
         /\ Cardinality(Held) \in Nat
    <3>1. A \cap Held = {}  BY <2>6
    <3> HIDE DEF A
    <3> QED BY <2>9, <2>10, <3>1, PartsAdd
  <2>12. /\ IsFiniteSet(C) /\ Cardinality(C) = Cardinality(B) + Cardinality(evicted)
         /\ Cardinality(evicted) \in Nat
    <3>1. B \cap evicted = {}  BY <2>2
    <3> HIDE DEF B
    <3> QED BY <2>9, <2>11, <3>1, PartsAdd
  <2>13. /\ Cardinality(C \cup lost) = Cardinality(C) + Cardinality(lost)
         /\ Cardinality(lost) \in Nat
    <3>1. C \cap lost = {}  BY <2>2
    <3> HIDE DEF C
    <3> QED BY <2>9, <2>12, <3>1, PartsAdd
  <2>14. C \cup lost = 1..puts  BY <2>2
  <2> HIDE DEF A, B, C
  <2>15. Cardinality(Written) + Cardinality(Queued) + Cardinality(Held)
           + Cardinality(evicted) + Cardinality(lost) = puts
    BY <2>3, <2>7, <2>10, <2>11, <2>12, <2>13, <2>14
  <2> QED BY <2>2, <2>4, <2>15 DEF Conserved
<1> QED BY <1>1, LogInductive, PTL

\* When the thread ended in time and neither a write nor a flush failed, every
\* record put before the stop is on the disk or was dropped as the oldest.
THEOREM LogDrains == Spec => []StopDrains
<1>1. LogIInv => StopDrains
  <2> SUFFICES ASSUME LogIInv, manager = "closed", ~timedOut, disk = "sound",
                      NEW r \in 1..stopAt
               PROVE  r \in OnDisk \cup evicted
    BY DEF StopDrains
  <2>5. Written = OnDisk /\ lost = {}
    <3>1. Core  BY DEF LogIInv, Core
    <3> QED BY <3>1, OnDiskFacts DEF LogIInv, Losses
  <2>1. /\ writer = "ended" /\ stopAt <= puts /\ \A s \in Queued : stopAt < s
    BY <2>5 DEF LogIInv, Drained
  <2>2. Held = {}  BY <2>1 DEF LogIInv, HandHeld, Held
  <2>3. stopAt \in Nat /\ puts \in Nat
    BY LogWriterAssumption DEF LogIInv, TypeOK
  <2>4. r \in 1..puts /\ r \notin Queued  BY <2>1, <2>3
  <2> QED BY <2>2, <2>4, <2>5 DEF LogIInv, Parts
<1> QED BY <1>1, LogInductive, PTL

-----------------------------------------------------------------------------
(* Records that are numbered in order.                                      *)

Rec == [session : Session, direction : {"RX", "TX"}, n : Nat]
Files == [text : [Path -> Seq(Rec \cup {Hole})], pos : [Session -> Nat]]

\* What is at the places of I decides.
LEMMA NumberedSame ==
    ASSUME NEW f, NEW g, NEW I, NEW lo, NEW hi,
           Numbered(f, I, lo, hi), \A i \in I : g[i] = f[i]
    PROVE  Numbered(g, I, lo, hi)
<1>1. {g[i].n : i \in I} = {f[i].n : i \in I}  OBVIOUS
<1> QED BY <1>1 DEF Numbered

\* The next number joins at a later place.
LEMMA NumberedNext ==
    ASSUME NEW f, NEW I \in SUBSET Int, NEW j \in Int, NEW lo \in Nat, NEW hi \in Nat, lo <= hi,
           Numbered(f, I, lo, hi), \A i \in I : i < j, f[j].n = hi + 1
    PROVE  Numbered(f, I \cup {j}, lo, hi + 1)
<1>1. {f[i].n : i \in I} = lo + 1..hi  BY DEF Numbered
<1>2. \A i \in I : f[i].n \in lo + 1..hi  BY <1>1
<1>3. {f[i].n : i \in I \cup {j}} = {f[i].n : i \in I} \cup {f[j].n}  OBVIOUS
<1>4. (lo + 1..hi) \cup {hi + 1} = lo + 1..hi + 1  OBVIOUS
<1>5. ASSUME NEW x \in I \cup {j}, NEW y \in I \cup {j}, x < y PROVE f[x].n < f[y].n
  <2>1. x \in I  BY <1>5
  <2>2. CASE y \in I  BY <2>1, <2>2, <1>5 DEF Numbered
  <2>3. CASE y = j
    <3>1. f[x].n \in Int /\ f[x].n <= hi  BY <1>2, <2>1
    <3> QED BY <2>3, <3>1
  <2> QED BY <2>2, <2>3
<1> QED BY <1>1, <1>3, <1>4, <1>5 DEF Numbered

\* A record joins a file: the places of the chunks of s.
LEMMA FileAppend ==
    ASSUME NEW f \in Seq(Rec), NEW e \in Rec, NEW s
    PROVE  /\ Append(f, e) \in Seq(Rec)
           /\ Len(f) + 1 \in Nat /\ DOMAIN f = 1..Len(f)
           /\ DOMAIN Append(f, e) = DOMAIN f \cup {Len(f) + 1}
           /\ \A i \in DOMAIN f : Append(f, e)[i] = f[i] /\ i < Len(f) + 1
           /\ Append(f, e)[Len(f) + 1] = e
           /\ ChunksOf(f, s) \subseteq DOMAIN f
           /\ ChunksOf(Append(f, e), s) =
                ChunksOf(f, s) \cup (IF e.direction = "RX" /\ e.session = s THEN {Len(f) + 1}
                                                                        ELSE {})
<1> DEFINE g == Append(f, e)
           n == Len(f)
<1>1. /\ g \in Seq(Rec) /\ n \in Nat
      /\ DOMAIN f = 1..n /\ DOMAIN g = 1..n + 1
      /\ \A i \in 1..n : g[i] = f[i]
      /\ g[n + 1] = e
  BY AppendProperties, LenProperties
<1>2. 1..n + 1 = (1..n) \cup {n + 1}  BY <1>1
<1>3. \A i \in 1..n : i < n + 1  BY <1>1
<1>4. ChunksOf(f, s) \subseteq DOMAIN f  BY DEF ChunksOf, PlacesOf
<1> HIDE DEF g, n
<1>5. ChunksOf(g, s) =
        ChunksOf(f, s) \cup (IF e.direction = "RX" /\ e.session = s THEN {n + 1} ELSE {})
  BY <1>1, <1>2 DEF ChunksOf, PlacesOf
<1> QED BY <1>1, <1>2, <1>3, <1>4, <1>5 DEF g, n

\* The next chunk of s continues its numbers, any other record leaves them.
LEMMA FileNumbered ==
    ASSUME NEW f \in Seq(Rec), NEW e \in Rec, NEW s, NEW lo \in Nat, NEW hi \in Nat, lo <= hi,
           Numbered(f, ChunksOf(f, s), lo, hi)
    PROVE  /\ e.direction = "RX" /\ e.session = s /\ e.n = hi + 1 =>
                 Numbered(Append(f, e), ChunksOf(Append(f, e), s), lo, hi + 1)
           /\ ~(e.direction = "RX" /\ e.session = s) =>
                 Numbered(Append(f, e), ChunksOf(Append(f, e), s), lo, hi)
<1> DEFINE g == Append(f, e)
           I == ChunksOf(f, s)
           j == Len(f) + 1
<1>1. /\ j \in Int /\ I \in SUBSET Int
      /\ \A i \in I : g[i] = f[i] /\ i < j
      /\ g[j] = e
      /\ ChunksOf(g, s) = I \cup (IF e.direction = "RX" /\ e.session = s THEN {j} ELSE {})
  BY FileAppend
<1> HIDE DEF g, I, j
<1>2. Numbered(g, I, lo, hi)
  <2>1. Numbered(f, I, lo, hi)  BY DEF I
  <2> QED BY <1>1, <2>1, NumberedSame
<1>3. e.direction = "RX" /\ e.session = s /\ e.n = hi + 1 => Numbered(g, ChunksOf(g, s), lo, hi + 1)
  <2> HAVE e.direction = "RX" /\ e.session = s /\ e.n = hi + 1
  <2>1. ChunksOf(g, s) = I \cup {j}  BY <1>1
  <2>2. Numbered(g, I \cup {j}, lo, hi + 1)  BY <1>1, <1>2, NumberedNext
  <2> QED BY <2>1, <2>2
<1>4. ~(e.direction = "RX" /\ e.session = s) => Numbered(g, ChunksOf(g, s), lo, hi)
  <2> HAVE ~(e.direction = "RX" /\ e.session = s)
  <2>1. ChunksOf(g, s) = I  BY <1>1
  <2> QED BY <1>2, <2>1
<1> QED BY <1>3, <1>4 DEF g

\* An empty file has no chunk.
LEMMA FileEmpty ==
    ASSUME NEW s, NEW lo \in Nat
    PROVE  << >> \in Seq(Rec) /\ Numbered(<< >>, ChunksOf(<< >>, s), lo, lo)
<1>1. << >> \in Seq(Rec)  BY EmptySeq
<1>2. ChunksOf(<< >>, s) = {}  BY DEF ChunksOf, PlacesOf
<1>3. lo + 1..lo = {}  OBVIOUS
<1> QED BY <1>1, <1>2, <1>3 DEF Numbered

-----------------------------------------------------------------------------
(* The inductive invariant, one part for each group of variables.           *)

WindowOK ==
    /\ connected \subseteq Session /\ current \in Session

\* A pipeline that was fed k chunks: it drops only when the ring is full, and
\* has warned once the ring is beyond the mark.
Fed(p, k) ==
    /\ p.ring + p.dropped = k
    /\ p.ring <= RING_SIZE
    /\ p.dropped > 0 => p.ring = RING_SIZE
    /\ p.ring > HIGH_WATER => p.warned

FeedOK ==
    /\ fed \in [Session -> Nat]
    /\ pipeline \in [Session -> [ring : Nat, dropped : Nat, warned : BOOLEAN]]
    /\ \A s \in Session : Fed(pipeline[s], fed[s])

\* The calls of a script end with its own end, and only with that.
ScriptOK ==
    /\ script \in {"none", "running", "returned"}
    /\ posted \in Seq({"send", "start_logging", "stop_logging", "finished"})
    /\ run_enabled \in BOOLEAN
    /\ \A i \in DOMAIN posted : posted[i] = "finished" => i = Len(posted) /\ script # "running"
    /\ script # "running" /\ posted # << >> => posted[Len(posted)] = "finished"
    /\ PanelTellsScript

\* The file of an open log of s that began after lo chunks, when hi have come.
Holds(f, s, lo, hi) ==
    /\ \A i \in DOMAIN f : f[i].session = s
    /\ Numbered(f, ChunksOf(f, s), lo, hi)

\* The log of s, in files fs, when hi chunks have come and it has its file for
\* itself: it writes at the end.
LogOf(fs, s, hi) ==
    log[s] # NoLog /\ s \in apart =>
        /\ fs.text[log[s]] \in Seq(Rec)
        /\ fs.pos[s] = Len(fs.text[log[s]])
        /\ Holds(fs.text[log[s]], s, since[s], hi)

LogsOK ==
    /\ log \in [Session -> Path \cup {NoLog}]
    /\ since \in [Session -> Nat]
    /\ button \in [Session -> BOOLEAN]
    /\ files \in Files
    /\ \A s \in Session :
          /\ since[s] <= fed[s]
          /\ button[s] = (log[s] # NoLog)
          /\ LogOf(files, s, fed[s])
          /\ log[s] # NoLog /\ s \in apart => \A t \in Session \ {s} : log[t] # log[s]

SessionLogOK ==
    /\ slog_open \in BOOLEAN
    /\ slog_file \in Seq(Rec) /\ copy \in Seq(Rec)
    /\ SessionLogKept

\* Broadcasts are scheduled on a loop that runs only.
ApiOK ==
    /\ api \in {"off", "starting", "serving", "exiting"}
    /\ api_ref \in BOOLEAN
    /\ frames \in Nat
    /\ stream \in {"none", "refused", "failed"}
    /\ api \in {"off", "starting"} => frames = 0

ConsumersIInv == WindowOK /\ FeedOK /\ ScriptOK /\ LogsOK /\ SessionLogOK /\ ApiOK

-----------------------------------------------------------------------------
(* What an action leaves alone.                                             *)

ScriptActs == RunScript \/ ScriptCalls \/ ScriptReturns \/ ThreadEnds
ApiActs == \/ StartApi \/ StopApi \/ WaitReturns \/ Subscribe
           \/ ServerStarts \/ ServerExits \/ Broadcast

LEMMA ScriptActsQuiet ==
    ScriptActs => UNCHANGED <<connected, current, fed, pipeline, log, since, apart, button, files,
                              slog_open, slog_file, copy, api, api_ref, frames, stream>>
BY DEF ScriptActs, RunScript, ScriptCalls, ScriptReturns, ThreadEnds, notScript, feedVars,
       logVars, slogVars, apiVars

LEMMA ApiActsQuiet ==
    ApiActs => UNCHANGED <<connected, current, fed, pipeline, log, since, apart, button, files,
                           slog_open, slog_file, copy, script, posted, callbacks, run_enabled>>
BY DEF ApiActs, StartApi, StopApi, WaitReturns, Subscribe, ServerStarts, ServerExits,
       Broadcast, notApi, feedVars, logVars, slogVars, scriptVars

LEMMA OthersQuiet ==
    /\ UserLog \/ Export \/ TerminalSend \/ Toggle \/ SelectTab \/ CloseWindow
               \/ ServePosted \/ ApiSends =>
           UNCHANGED <<fed, pipeline>>
    /\ UserLog \/ Export \/ TerminalSend \/ Toggle \/ SelectTab \/ CloseWindow
               \/ ApiSends \/ (\E s \in Session : Receive(s)) =>
           UNCHANGED <<script, posted, callbacks, run_enabled>>
    /\ UserLog \/ Export \/ TerminalSend \/ Toggle \/ SelectTab \/ ServePosted \/ ApiSends =>
           UNCHANGED <<api, api_ref, frames, stream>>
    /\ Export \/ SelectTab => UNCHANGED <<log, since, apart, button, files>>
    /\ UserLog \/ Toggle \/ SelectTab \/ ApiSends =>
           UNCHANGED <<slog_open, slog_file, copy>>
    /\ UserLog \/ Export \/ TerminalSend \/ ServePosted \/ ApiSends
               \/ (\E s \in Session : Receive(s)) =>
           UNCHANGED <<connected, current>>
<1>1. UserLog => UNCHANGED <<fed, pipeline, script, posted, callbacks, run_enabled, api, api_ref,
                             frames, stream, slog_open, slog_file, copy, connected, current>>
  BY DEF UserLog, feedVars, slogVars, scriptVars, apiVars
<1>2. Export => UNCHANGED <<fed, pipeline, script, posted, callbacks, run_enabled, api, api_ref,
                            frames, stream, log, since, apart, button, files, connected, current>>
  BY DEF Export, feedVars, logVars, scriptVars, apiVars
<1>3. TerminalSend => UNCHANGED <<fed, pipeline, script, posted, callbacks, run_enabled, api,
                                  api_ref, frames, stream, connected, current>>
  BY DEF TerminalSend, feedVars, scriptVars, apiVars
<1>4. Toggle => UNCHANGED <<fed, pipeline, script, posted, callbacks, run_enabled, api, api_ref,
                            frames, stream, slog_open, slog_file, copy>>
  BY DEF Toggle, feedVars, slogVars, scriptVars, apiVars
<1>5. SelectTab =>
        UNCHANGED <<fed, pipeline, script, posted, callbacks, run_enabled, api, api_ref, frames,
                    stream, slog_open, slog_file, copy, log, since, apart, button, files>>
  BY DEF SelectTab, feedVars, logVars, slogVars, scriptVars, apiVars
<1>6. CloseWindow => UNCHANGED <<fed, pipeline, script, posted, callbacks, run_enabled>>
  BY DEF CloseWindow, feedVars, scriptVars
<1>7. ServePosted => UNCHANGED <<fed, pipeline, api, api_ref, frames, stream, connected, current>>
  BY DEF ServePosted, feedVars, apiVars
<1>8. ApiSends => UNCHANGED <<fed, pipeline, script, posted, callbacks, run_enabled, api, api_ref,
                              frames, stream, slog_open, slog_file, copy, connected, current>>
  BY DEF ApiSends, feedVars, slogVars, scriptVars, apiVars
<1>9. \A s \in Session : Receive(s) =>
        UNCHANGED <<script, posted, callbacks, run_enabled, connected, current>>
  BY DEF Receive, scriptVars
<1> QED BY <1>1, <1>2, <1>3, <1>4, <1>5, <1>6, <1>7, <1>8, <1>9

-----------------------------------------------------------------------------
(* One step, part by part.                                                  *)

LEMMA WindowStep == WindowOK /\ [ConsumersNext]_consumersVars => WindowOK'
<1> SUFFICES ASSUME WindowOK, [ConsumersNext]_consumersVars PROVE WindowOK'
  OBVIOUS
<1>1. CASE UNCHANGED <<connected, current>>  BY <1>1 DEF WindowOK
<1>2. CASE Toggle
  <2>1. connected' \subseteq Session /\ current' = current
    BY <1>2 DEF Toggle, WindowOK
  <2> QED BY <2>1 DEF WindowOK
<1>3. CASE SelectTab  BY <1>3 DEF SelectTab, WindowOK
<1>4. CASE CloseWindow  BY <1>4 DEF CloseWindow, WindowOK
<1>5. CASE UNCHANGED consumersVars  BY <1>1, <1>5 DEF consumersVars
<1> QED BY <1>1, <1>2, <1>3, <1>4, <1>5, ScriptActsQuiet, ApiActsQuiet, OthersQuiet
        DEF ConsumersNext, ScriptActs, ApiActs, Server

LEMMA PipelineFeedFacts ==
    ASSUME NEW p \in [ring : Nat, dropped : Nat, warned : BOOLEAN], NEW k \in Nat, Fed(p, k)
    PROVE  /\ PipelineFeed(p) \in [ring : Nat, dropped : Nat, warned : BOOLEAN]
           /\ Fed(PipelineFeed(p), k + 1)
<1> DEFINE w == \/ p.warned /\ p.ring >= HIGH_WATER \div 2
                \/ p.ring >= HIGH_WATER /\ p.ring < RING_SIZE
                \/ p.warned /\ p.ring >= RING_SIZE
           next == PipelineFeed(p)
<1>1. RING_SIZE \in Nat \ {0} /\ HIGH_WATER \in Nat \ {0}  BY ConsumersAssumption
<1>2. /\ next.ring = IF p.ring >= RING_SIZE THEN p.ring ELSE p.ring + 1
      /\ next.dropped = IF p.ring >= RING_SIZE THEN p.dropped + 1 ELSE p.dropped
      /\ next.warned = w
      /\ next = [ring |-> next.ring, dropped |-> next.dropped, warned |-> next.warned]
  BY DEF PipelineFeed
<1>3. p.ring \in Nat /\ p.dropped \in Nat /\ p.warned \in BOOLEAN  OBVIOUS
<1>4. w \in BOOLEAN  OBVIOUS
<1>5. next.ring > HIGH_WATER => w
  <2>1. p.ring > HIGH_WATER => p.warned  BY DEF Fed
  <2>2. CASE p.ring >= RING_SIZE
    <3>1. next.ring = p.ring  BY <1>2, <2>2
    <3> QED BY <2>1, <2>2, <3>1
  <2>3. CASE ~(p.ring >= RING_SIZE)
    <3>1. next.ring = p.ring + 1 /\ p.ring < RING_SIZE  BY <1>1, <1>2, <1>3, <2>3
    <3>2. next.ring > HIGH_WATER => p.ring >= HIGH_WATER  BY <1>1, <1>3, <3>1
    <3> QED BY <3>1, <3>2
  <2> QED BY <2>2, <2>3
<1> HIDE DEF w, next
<1>6. next \in [ring : Nat, dropped : Nat, warned : BOOLEAN]
  <2>1. next.ring \in Nat /\ next.dropped \in Nat /\ next.warned \in BOOLEAN  BY <1>2, <1>3, <1>4
  <2> QED BY <1>2, <2>1
<1>7. /\ next.ring + next.dropped = k + 1 /\ next.ring <= RING_SIZE
      /\ next.dropped > 0 => next.ring = RING_SIZE
  <2>1. /\ p.ring + p.dropped = k /\ p.ring <= RING_SIZE
        /\ p.dropped > 0 => p.ring = RING_SIZE
    BY DEF Fed
  <2>2. CASE p.ring >= RING_SIZE
    <3>1. next.ring = p.ring /\ next.dropped = p.dropped + 1  BY <1>2, <2>2
    <3> QED BY <1>1, <1>3, <2>1, <2>2, <3>1
  <2>3. CASE ~(p.ring >= RING_SIZE)
    <3>1. next.ring = p.ring + 1 /\ next.dropped = p.dropped  BY <1>2, <2>3
    <3> QED BY <1>1, <1>3, <2>1, <2>3, <3>1
  <2> QED BY <2>2, <2>3
<1>8. next.ring > HIGH_WATER => next.warned  BY <1>2, <1>5
<1>9. Fed(next, k + 1)  BY <1>7, <1>8 DEF Fed
<1> QED BY <1>6, <1>9 DEF next

LEMMA FeedStep == FeedOK /\ [ConsumersNext]_consumersVars => FeedOK'
<1> SUFFICES ASSUME FeedOK, [ConsumersNext]_consumersVars PROVE FeedOK'
  OBVIOUS
<1>1. CASE UNCHANGED <<fed, pipeline>>  BY <1>1 DEF FeedOK, Fed
<1>2. ASSUME NEW s \in Session, Receive(s) PROVE FeedOK'
  <2>1. /\ fed' = [fed EXCEPT ![s] = @ + 1]
        /\ pipeline' = [pipeline EXCEPT ![s] = PipelineFeed(@)]
    BY <1>2 DEF Receive
  <2>2. /\ fed[s] \in Nat /\ Fed(pipeline[s], fed[s])
        /\ pipeline[s] \in [ring : Nat, dropped : Nat, warned : BOOLEAN]
    BY DEF FeedOK
  <2>3. /\ PipelineFeed(pipeline[s]) \in [ring : Nat, dropped : Nat, warned : BOOLEAN]
        /\ Fed(PipelineFeed(pipeline[s]), fed[s] + 1)
    BY <2>2, PipelineFeedFacts
  <2>4. /\ fed' \in [Session -> Nat]
        /\ pipeline' \in [Session -> [ring : Nat, dropped : Nat, warned : BOOLEAN]]
    BY <2>1, <2>2, <2>3 DEF FeedOK
  <2>5. \A t \in Session : fed'[t] = (IF t = s THEN fed[s] + 1 ELSE fed[t])
                           /\ pipeline'[t] = (IF t = s THEN PipelineFeed(pipeline[s])
                                                       ELSE pipeline[t])
    BY <2>1 DEF FeedOK
  <2>6. \A t \in Session : Fed(pipeline'[t], fed'[t])  BY <2>3, <2>5 DEF FeedOK
  <2> QED BY <2>4, <2>6 DEF FeedOK, Fed
<1>3. CASE UNCHANGED consumersVars  BY <1>1, <1>3 DEF consumersVars, feedVars
<1> QED BY <1>1, <1>2, <1>3, ScriptActsQuiet, ApiActsQuiet, OthersQuiet
        DEF ConsumersNext, ScriptActs, ApiActs, Server

Call == {"send", "start_logging", "stop_logging", "finished"}

LEMMA ScriptStep == ScriptOK /\ [ConsumersNext]_consumersVars => ScriptOK'
<1> SUFFICES ASSUME ScriptOK, [ConsumersNext]_consumersVars PROVE ScriptOK'
  OBVIOUS
<1>t. posted \in Seq(Call) /\ Len(posted) \in Nat /\ DOMAIN posted = 1..Len(posted)
  BY LenProperties DEF ScriptOK, Call
<1>1. CASE UNCHANGED <<script, posted, callbacks, run_enabled>>
  BY <1>1 DEF ScriptOK, PanelTellsScript
<1>2. CASE RunScript
  <2>1. CASE UNCHANGED scriptVars  BY <1>1, <2>1 DEF scriptVars
  <2>2. CASE script = "none" /\ script' = "running" /\ run_enabled' = FALSE /\ posted' = posted
    <3>1. posted = << >>  BY <1>2 DEF RunScript, ScriptOK, PanelTellsScript
    <3>2. DOMAIN posted' = {} /\ posted' = << >> /\ posted' \in Seq(Call)
      BY <1>t, <2>2, <3>1
    <3> QED BY <2>2, <3>2 DEF ScriptOK, PanelTellsScript, Call
  <2> QED BY <1>2, <2>1, <2>2 DEF RunScript
\* A call joins while the script runs.
<1>3. ASSUME NEW call \in Call, posted' = Append(posted, call), script = "running",
             run_enabled' = run_enabled,
             script' = IF call = "finished" THEN "returned" ELSE "running"
      PROVE  ScriptOK'
  <2>1. /\ posted' \in Seq(Call) /\ Len(posted') = Len(posted) + 1
        /\ DOMAIN posted' = 1..Len(posted) + 1
        /\ \A i \in 1..Len(posted) : posted'[i] = posted[i]
        /\ posted'[Len(posted) + 1] = call
    BY <1>3, <1>t, AppendProperties, LenProperties
  <2>2. \A i \in DOMAIN posted : posted[i] # "finished"  BY <1>3 DEF ScriptOK
  <2>3. 1..Len(posted) + 1 = (1..Len(posted)) \cup {Len(posted) + 1}  BY <1>t
  <2>4. posted' # << >>  BY <1>t, <2>1
  <2>5. run_enabled' = FALSE  BY <1>3 DEF ScriptOK, PanelTellsScript
  <2>6. \A i \in DOMAIN posted' : posted'[i] = "finished" => i = Len(posted') /\ script' # "running"
    BY <1>3, <1>t, <2>1, <2>2, <2>3
  <2>7. script' # "running" /\ posted' # << >> => posted'[Len(posted')] = "finished"
    BY <1>3, <2>1
  <2> QED BY <1>3, <2>1, <2>4, <2>5, <2>6, <2>7 DEF ScriptOK, PanelTellsScript, Call
<1>4. CASE ScriptCalls
  <2>1. script = "running" /\ script' = script /\ run_enabled' = run_enabled
    BY <1>4 DEF ScriptCalls
  <2>2. CASE posted' = posted  BY <2>1, <2>2 DEF ScriptOK, PanelTellsScript
  <2>3. CASE \E call \in {"send", "start_logging", "stop_logging"} : posted' = Append(posted, call)
    <3>1. PICK call \in {"send", "start_logging", "stop_logging"} : posted' = Append(posted, call)
      BY <2>3
    <3>2. call \in Call /\ call # "finished"  BY DEF Call
    <3>3. /\ posted' = Append(posted, call) /\ script = "running" /\ run_enabled' = run_enabled
          /\ script' = IF call = "finished" THEN "returned" ELSE "running"
      BY <2>1, <3>1, <3>2
    <3>4. call \in Call  BY <3>2
    <3> QED BY <1>3, <3>3, <3>4
  <2> QED BY <1>4, <2>2, <2>3 DEF ScriptCalls
<1>5. CASE ScriptReturns
  <2>1. /\ script = "running" /\ script' = "returned" /\ run_enabled' = run_enabled
        /\ posted' = Append(posted, "finished")
    BY <1>5 DEF ScriptReturns
  <2>2. "finished" \in Call  BY DEF Call
  <2> QED BY <1>3, <2>1, <2>2
<1>6. CASE ThreadEnds
  BY <1>6 DEF ThreadEnds, ScriptOK, PanelTellsScript
<1>7. CASE ServePosted
  <2> DEFINE n == Len(posted)
             call == Head(posted)
  <2>1. /\ posted # << >> /\ posted' = Tail(posted) /\ script' = script
        /\ run_enabled' = (run_enabled \/ call = "finished")
    BY <1>7 DEF ServePosted
  <2>2. /\ posted' \in Seq(Call) /\ n \in Nat \ {0} /\ call = posted[1]
        /\ Len(posted') = n - 1 /\ DOMAIN posted' = 1..n - 1
        /\ \A i \in 1..n - 1 : posted'[i] = posted[i + 1]
    BY <1>t, <2>1, HeadTailProperties, EmptySeq, LenProperties
  <2>3. DOMAIN posted = 1..n  BY <1>t
  <2> HIDE DEF n, call
  <2>4. /\ \A i \in 1..n : posted[i] = "finished" => i = n /\ script # "running"
        /\ script # "running" => posted[n] = "finished"
        /\ run_enabled = FALSE
    BY <2>1, <2>3 DEF ScriptOK, PanelTellsScript, n
  <2>5. \A i \in DOMAIN posted' : posted'[i] = "finished" => i = Len(posted') /\ script' # "running"
    <3> SUFFICES ASSUME NEW i \in 1..n - 1, posted'[i] = "finished"
                 PROVE  i = n - 1 /\ script # "running"
      BY <2>1, <2>2
    <3>1. i + 1 \in 1..n /\ posted[i + 1] = "finished"  BY <2>2
    <3>2. i + 1 = n /\ script # "running"  BY <2>4, <3>1
    <3> QED BY <2>2, <3>2
  <2>6. script' # "running" /\ posted' # << >> => posted'[Len(posted')] = "finished"
    <3> SUFFICES ASSUME script # "running", posted' # << >>
                 PROVE  posted'[n - 1] = "finished"
      BY <2>1, <2>2
    <3>1. n - 1 # 0  BY <2>2, EmptySeq
    <3>2. n - 1 \in 1..n - 1 /\ (n - 1) + 1 = n  BY <2>2, <3>1
    <3>3. posted'[n - 1] = posted[n]  BY <2>2, <3>2
    <3> QED BY <2>4, <3>3
  <2>7. run_enabled' <=> script' # "running" /\ posted' = << >>
    <3>1. posted' = << >> <=> n = 1
      <4>1. posted' = << >> <=> Len(posted') = 0  BY <2>2, EmptySeq
      <4> QED BY <2>2, <4>1
    <3>2. call = "finished" <=> script # "running" /\ n = 1
      <4>1. 1 \in 1..n  BY <2>2
      <4> QED BY <2>2, <2>4, <4>1
    <3> QED BY <2>1, <2>4, <3>1, <3>2
  <2>8. run_enabled' \in BOOLEAN /\ script' \in {"none", "running", "returned"}
    BY <2>1 DEF ScriptOK
  <2> QED BY <2>2, <2>5, <2>6, <2>7, <2>8 DEF ScriptOK, PanelTellsScript, Call
<1>8. CASE UNCHANGED consumersVars  BY <1>1, <1>8 DEF consumersVars, scriptVars
<1> QED BY <1>1, <1>2, <1>4, <1>5, <1>6, <1>7, <1>8, ApiActsQuiet, OthersQuiet
        DEF ConsumersNext, ApiActs, Server

-----------------------------------------------------------------------------
(* The logs of the sessions.                                                *)

\* A record of s joins the file of its open log.
LEMMA HoldsAppend ==
    ASSUME NEW f \in Seq(Rec), NEW e \in Rec, NEW s, NEW lo \in Nat, NEW hi \in Nat, lo <= hi,
           Holds(f, s, lo, hi), e.session = s
    PROVE  /\ e.direction = "RX" /\ e.n = hi + 1 => Holds(Append(f, e), s, lo, hi + 1)
           /\ e.direction = "TX" => Holds(Append(f, e), s, lo, hi)
<1> DEFINE g == Append(f, e)
<1>1. /\ DOMAIN g = DOMAIN f \cup {Len(f) + 1}
      /\ \A i \in DOMAIN f : g[i] = f[i]
      /\ g[Len(f) + 1] = e
  BY FileAppend
<1>2. Numbered(f, ChunksOf(f, s), lo, hi) /\ \A i \in DOMAIN f : f[i].session = s  BY DEF Holds
<1>3. \A i \in DOMAIN g : g[i].session = s  BY <1>1, <1>2
<1>4. /\ e.direction = "RX" /\ e.n = hi + 1 => Numbered(g, ChunksOf(g, s), lo, hi + 1)
      /\ e.direction = "TX" => Numbered(g, ChunksOf(g, s), lo, hi)
  BY <1>2, FileNumbered
<1> QED BY <1>3, <1>4 DEF Holds

\* A record is written somewhere; at the end it joins what is there.
LEMMA WriteAtFacts ==
    ASSUME NEW T, NEW f \in Seq(T), NEW at \in Nat, NEW e \in T, Hole \in T
    PROVE  /\ WriteAt(f, at, e) \in Seq(T)
           /\ at = Len(f) => WriteAt(f, at, e) = Append(f, e)
<1>1. CASE at = Len(f)  BY <1>1, AppendProperties DEF WriteAt
<1>2. CASE at # Len(f)
  <2> DEFINE n == IF at < Len(f) THEN Len(f) ELSE at + 1
             g == [i \in 1..n |->
                     IF i = at + 1 THEN e ELSE IF i <= Len(f) THEN f[i] ELSE Hole]
  <2>1. Len(f) \in Nat /\ n \in Nat /\ \A i \in 1..Len(f) : f[i] \in T
    BY LenProperties, ElementOfSeq
  <2>2. g \in [1..n -> T]  BY <2>1
  <2>3. g \in Seq(T)
    <3> HIDE DEF g, n
    <3> QED BY <2>1, <2>2, SeqDef
  <2>4. WriteAt(f, at, e) = g  BY <1>2 DEF WriteAt
  <2> QED BY <1>2, <2>3, <2>4
<1> QED BY <1>1, <1>2

\* feed() of one log touches no log that has its file for itself but its own.
LEMMA OwnFeedFacts ==
    ASSUME LogsOK, NEW fs \in Files, NEW e \in Rec
    PROVE  /\ OwnFeed(fs, e) \in Files
           /\ \A s \in Session :
                 /\ log[s] # NoLog /\ s \in apart
                 /\ fs.text[log[s]] \in Seq(Rec) /\ fs.pos[s] = Len(fs.text[log[s]])
                 => /\ OwnFeed(fs, e).text[log[s]] =
                          IF s = e.session THEN Append(fs.text[log[s]], e) ELSE fs.text[log[s]]
                    /\ OwnFeed(fs, e).pos[s] =
                          IF s = e.session THEN fs.pos[s] + 1 ELSE fs.pos[s]
<1> DEFINE r == e.session
           w == WriteAt(fs.text[log[r]], fs.pos[r], e)
           text == [fs.text EXCEPT ![log[r]] = w]
           pos == [fs.pos EXCEPT ![r] = fs.pos[r] + 1]
<1>1. r \in Session  BY DEF Rec
<1>2. \A s \in Session : log[s] # NoLog => log[s] \in Path  BY DEF LogsOK
<1>3. \A s, t \in Session : s # t /\ log[s] # NoLog /\ s \in apart => log[t] # log[s]
  BY DEF LogsOK
<1>4. fs.text \in [Path -> Seq(Rec \cup {Hole})] /\ fs.pos \in [Session -> Nat]  BY DEF Files
<1>5. CASE log[r] = NoLog
  <2>1. OwnFeed(fs, e) = fs  BY <1>5 DEF OwnFeed
  <2> QED BY <1>5, <2>1
<1>6. CASE log[r] # NoLog
  <2>1. OwnFeed(fs, e) = [text |-> text, pos |-> pos]  BY <1>6 DEF OwnFeed
  <2>2. w \in Seq(Rec \cup {Hole})
    <3>1. fs.text[log[r]] \in Seq(Rec \cup {Hole}) /\ fs.pos[r] \in Nat
      BY <1>1, <1>2, <1>4, <1>6
    <3> QED BY <3>1, WriteAtFacts
  <2>3. ASSUME fs.text[log[r]] \in Seq(Rec), fs.pos[r] = Len(fs.text[log[r]])
        PROVE  w = Append(fs.text[log[r]], e)
    <3> DEFINE f == fs.text[log[r]]
               at == fs.pos[r]
               T == Rec \cup {Hole}
    <3>1. f \in Seq(T) /\ at \in Nat /\ e \in T /\ Hole \in T /\ at = Len(f)
      BY <1>1, <1>2, <1>4, <1>6, <2>3
    <3> HIDE DEF f, at, T
    <3>2. WriteAt(f, at, e) = Append(f, e)  BY <3>1, WriteAtFacts
    <3> QED BY <3>2 DEF f, at
  <2> HIDE DEF w, r
  <2>4. text \in [Path -> Seq(Rec \cup {Hole})] /\ pos \in [Session -> Nat]
    BY <1>1, <1>2, <1>4, <1>6, <2>2
  <2>5. \A p \in Path : text[p] = IF p = log[r] THEN w ELSE fs.text[p]  BY <1>4
  <2>6. \A s \in Session : pos[s] = IF s = r THEN fs.pos[s] + 1 ELSE fs.pos[s]  BY <1>4
  <2> HIDE DEF text, pos
  <2>7. OwnFeed(fs, e).text = text /\ OwnFeed(fs, e).pos = pos  BY <2>1
  <2>8. OwnFeed(fs, e) \in Files  BY <2>1, <2>4 DEF Files
  <2>9. ASSUME NEW s \in Session, log[s] # NoLog, s \in apart,
               fs.text[log[s]] \in Seq(Rec), fs.pos[s] = Len(fs.text[log[s]])
        PROVE  /\ text[log[s]] = IF s = r THEN Append(fs.text[log[s]], e) ELSE fs.text[log[s]]
               /\ pos[s] = IF s = r THEN fs.pos[s] + 1 ELSE fs.pos[s]
    <3>1. CASE s = r  BY <1>2, <2>3, <2>5, <2>6, <2>9, <3>1
    <3>2. CASE s # r  BY <1>1, <1>2, <1>3, <2>5, <2>6, <2>9, <3>2
    <3> QED BY <3>1, <3>2
  <2> QED BY <2>7, <2>8, <2>9 DEF r
<1> QED BY <1>5, <1>6

LEMMA RecFacts ==
    ASSUME NEW s \in Session
    PROVE  /\ Tx(s) \in Rec /\ Tx(s).session = s /\ Tx(s).direction = "TX"
           /\ \A k \in Nat : /\ Rx(s, k) \in Rec /\ Rx(s, k).session = s
                             /\ Rx(s, k).direction = "RX" /\ Rx(s, k).n = k
BY DEF Tx, Rx, Rec

\* What is sent joins the files and changes no number.
LEMMA TxKeeps ==
    ASSUME LogsOK, NEW s \in Session, NEW fs \in Files, NEW k \in [Session -> Nat],
           \A t \in Session : since[t] <= k[t] /\ LogOf(fs, t, k[t])
    PROVE  /\ OwnFeed(fs, Tx(s)) \in Files
           /\ \A t \in Session : LogOf(OwnFeed(fs, Tx(s)), t, k[t])
<1> DEFINE e == Tx(s)
           gs == OwnFeed(fs, e)
<1>1. e \in Rec /\ e.session = s /\ e.direction = "TX"  BY RecFacts
<1> HIDE DEF e
<1>2. gs \in Files  BY <1>1, OwnFeedFacts
<1>3. ASSUME NEW t \in Session, log[t] # NoLog, t \in apart
      PROVE  /\ gs.text[log[t]] \in Seq(Rec) /\ gs.pos[t] = Len(gs.text[log[t]])
             /\ Holds(gs.text[log[t]], t, since[t], k[t])
  <2> DEFINE f == fs.text[log[t]]
             lo == since[t]
             hi == k[t]
  <2>1. lo \in Nat /\ hi \in Nat /\ lo <= hi  BY <1>3 DEF LogsOK
  <2>2. f \in Seq(Rec) /\ fs.pos[t] = Len(f) /\ Holds(f, t, lo, hi)  BY <1>3 DEF LogOf
  <2>3. /\ gs.text[log[t]] = IF t = s THEN Append(f, e) ELSE f
        /\ gs.pos[t] = IF t = s THEN fs.pos[t] + 1 ELSE fs.pos[t]
    BY <1>1, <1>3, <2>2, OwnFeedFacts
  <2> HIDE DEF f, lo, hi, gs
  <2>4. t = s => Holds(Append(f, e), t, lo, hi)  BY <1>1, <2>1, <2>2, HoldsAppend
  <2>5. Append(f, e) \in Seq(Rec) /\ Len(Append(f, e)) = Len(f) + 1
    BY <1>1, <2>2, AppendProperties
  <2>6. Holds(gs.text[log[t]], t, lo, hi)  BY <2>2, <2>3, <2>4
  <2> QED BY <2>2, <2>3, <2>5, <2>6 DEF lo, hi
<1> HIDE DEF gs
<1> QED BY <1>2, <1>3 DEF LogOf, gs, e

\* An action that changes only files and fed.
LEMMA FilesStep ==
    ASSUME LogsOK, NEW fs \in Files, NEW k \in [Session -> Nat],
           \A t \in Session : since[t] <= k[t] /\ LogOf(fs, t, k[t]),
           files' = fs, fed' = k, UNCHANGED <<log, since, apart, button>>
    PROVE  LogsOK'
BY DEF LogsOK, LogOf, Holds, Numbered, ChunksOf, PlacesOf

LEMMA LogsOfNow ==
    ASSUME LogsOK
    PROVE  /\ files \in Files
           /\ \A t \in Session : since[t] <= fed[t] /\ LogOf(files, t, fed[t])
BY DEF LogsOK

\* A session is sent something, and its log is fed.
LEMMA TxStep ==
    ASSUME LogsOK, fed \in [Session -> Nat], NEW s \in Session,
           files' = OwnFeed(files, Tx(s)), UNCHANGED <<fed, log, since, apart, button>>
    PROVE  LogsOK'
<1> DEFINE gs == OwnFeed(files, Tx(s))
<1>1. gs \in Files /\ \A t \in Session : LogOf(gs, t, fed[t])
  BY LogsOfNow, TxKeeps
<1> HIDE DEF gs
<1>2. files' = gs  BY DEF gs
<1>3. \A t \in Session : since[t] <= fed[t] /\ LogOf(gs, t, fed[t])  BY <1>1, LogsOfNow
<1>4. fed' = fed  OBVIOUS
<1> QED BY <1>1, <1>2, <1>3, <1>4, FilesStep

\* A chunk is fed to the log of its session and to no other.
LEMMA ReceiveLogs ==
    ASSUME WindowOK, LogsOK, fed \in [Session -> Nat], NEW s \in Session, Receive(s)
    PROVE  LogsOK'
<1> DEFINE k == [fed EXCEPT ![s] = @ + 1]
           e == Rx(s, fed[s] + 1)
           own == OwnFeed(files, e)
           both == OwnFeed(own, Tx(current))
<1>1. /\ fed' = k /\ UNCHANGED <<log, since, apart, button>>
      /\ \E replies \in BOOLEAN : files' = IF replies THEN both ELSE own
  BY DEF Receive
<1>2. e \in Rec /\ e.session = s /\ e.direction = "RX" /\ e.n = fed[s] + 1
  <2>1. fed[s] + 1 \in Nat  OBVIOUS
  <2> QED BY <2>1, RecFacts
<1>3. /\ k \in [Session -> Nat] /\ k[s] = fed[s] + 1
      /\ \A t \in Session : t # s => k[t] = fed[t]
  OBVIOUS
<1>4. own \in Files
  <2> HIDE DEF e
  <2> QED BY <1>2, LogsOfNow, OwnFeedFacts
<1>o. ASSUME NEW t \in Session, log[t] # NoLog, t \in apart,
             files.text[log[t]] \in Seq(Rec), files.pos[t] = Len(files.text[log[t]])
      PROVE  /\ own.text[log[t]] = IF t = s THEN Append(files.text[log[t]], e)
                                           ELSE files.text[log[t]]
             /\ own.pos[t] = IF t = s THEN files.pos[t] + 1 ELSE files.pos[t]
  <2> HIDE DEF e
  <2> QED BY <1>2, <1>o, LogsOfNow, OwnFeedFacts
<1> HIDE DEF k, e, own
<1>5. ASSUME NEW t \in Session PROVE since[t] <= k[t] /\ LogOf(own, t, k[t])
  <2> DEFINE f == files.text[log[t]]
             lo == since[t]
             hi == fed[t]
  <2>1. lo \in Nat /\ hi \in Nat /\ lo <= hi  BY DEF LogsOK
  <2>2. since[t] <= k[t]
    <3>1. k[t] = hi + 1 \/ k[t] = hi  BY <1>3
    <3> QED BY <2>1, <3>1
  <2>3. ASSUME log[t] # NoLog, t \in apart
        PROVE  /\ own.text[log[t]] \in Seq(Rec) /\ own.pos[t] = Len(own.text[log[t]])
               /\ Holds(own.text[log[t]], t, lo, k[t])
    <3>1. f \in Seq(Rec) /\ files.pos[t] = Len(f) /\ Holds(f, t, lo, hi)
      BY <2>3 DEF LogsOK, LogOf
    <3>2. /\ own.text[log[t]] = IF t = s THEN Append(f, e) ELSE f
          /\ own.pos[t] = IF t = s THEN files.pos[t] + 1 ELSE files.pos[t]
      BY <1>o, <2>3, <3>1
    <3> HIDE DEF f, lo
    <3>3. CASE t = s
      <4>1. k[t] = hi + 1 /\ e.n = hi + 1 /\ e.session = t  BY <1>2, <1>3, <3>3
      <4> HIDE DEF hi
      <4>2. Holds(Append(f, e), t, lo, hi + 1)  BY <1>2, <2>1, <3>1, <4>1, HoldsAppend
      <4>3. Append(f, e) \in Seq(Rec) /\ Len(Append(f, e)) = Len(f) + 1
        BY <1>2, <3>1, AppendProperties
      <4> QED BY <3>1, <3>2, <3>3, <4>1, <4>2, <4>3
    <3>4. CASE t # s
      <4>1. k[t] = hi  BY <1>3, <3>4
      <4> QED BY <3>1, <3>2, <3>4, <4>1
    <3> QED BY <3>3, <3>4
  <2> QED BY <2>2, <2>3 DEF LogOf, lo
<1>6. /\ both \in Files
      /\ \A t \in Session : LogOf(both, t, k[t])
  <2>1. current \in Session  BY DEF WindowOK
  <2> QED BY <1>3, <1>4, <1>5, <2>1, TxKeeps
<1> HIDE DEF both
<1>7. CASE files' = own
  <2>1. fed' = k /\ UNCHANGED <<log, since, apart, button>>  BY <1>1
  <2> QED BY <1>3, <1>4, <1>5, <1>7, <2>1, FilesStep
<1>8. CASE files' = both
  <2>1. fed' = k /\ UNCHANGED <<log, since, apart, button>>  BY <1>1
  <2>2. \A t \in Session : since[t] <= k[t] /\ LogOf(both, t, k[t])  BY <1>5, <1>6
  <2> QED BY <1>3, <1>6, <1>8, <2>1, <2>2, FilesStep
<1> QED BY <1>1, <1>7, <1>8

\* A log is opened anew, or not at all.
LEMMA StartLogStep ==
    ASSUME WindowOK, LogsOK, fed \in [Session -> Nat], fed' = fed,
           NEW s \in Session, NEW path \in Path, NEW opens \in BOOLEAN,
           StartLog(s, path, opens)
    PROVE  LogsOK'
<1> DEFINE others == {t \in Session \ {s} : log[t] = path}
<1>1. /\ log' = [log EXCEPT ![s] = IF opens THEN path ELSE NoLog]
      /\ since' = [since EXCEPT ![s] = fed[s]]
      /\ button' = [button EXCEPT ![s] = opens]
      /\ opens => /\ files' = [files EXCEPT !.text[path] = << >>, !.pos[s] = 0]
                  /\ apart' = (apart \ (others \cup {s})) \cup {t \in {s} : others = {}}
      /\ ~opens => files' = files /\ apart' = apart
  BY DEF StartLog
<1>2. path # NoLog  BY ConsumersAssumption
<1>3. << >> \in Seq(Rec) /\ << >> \in Seq(Rec \cup {Hole}) /\ Len(<< >>) = 0
  BY EmptySeq
<1>4. /\ log \in [Session -> Path \cup {NoLog}] /\ since \in [Session -> Nat]
      /\ button \in [Session -> BOOLEAN] /\ files \in Files
      /\ files.text \in [Path -> Seq(Rec \cup {Hole})] /\ files.pos \in [Session -> Nat]
  BY DEF LogsOK, Files
<1>5. ASSUME opens
      PROVE  /\ files'.text = [files.text EXCEPT ![path] = << >>]
             /\ files'.pos = [files.pos EXCEPT ![s] = 0]
             /\ files' \in Files
  <2> DEFINE text == files.text
             pos == files.pos
             newText == [text EXCEPT ![path] = << >>]
             newPos == [pos EXCEPT ![s] = 0]
  <2>1. files = [text |-> text, pos |-> pos]  BY <1>4 DEF Files
  <2>2. files' = [files EXCEPT !.text[path] = << >>, !.pos[s] = 0]  BY <1>1, <1>5
  <2>3. newText \in [Path -> Seq(Rec \cup {Hole})] /\ newPos \in [Session -> Nat]
    BY <1>3, <1>4
  <2> HIDE DEF text, pos
  <2>4. files' = [text |-> newText, pos |-> newPos]  BY <2>1, <2>2
  <2> HIDE DEF newText, newPos
  <2>5. files'.text = newText /\ files'.pos = newPos /\ files' \in Files
    BY <2>3, <2>4 DEF Files
  <2> QED BY <2>5 DEF newText, newPos, text, pos
<1>6. /\ log' \in [Session -> Path \cup {NoLog}] /\ since' \in [Session -> Nat]
      /\ button' \in [Session -> BOOLEAN] /\ files' \in Files
  BY <1>1, <1>4, <1>5
<1>7. ASSUME NEW t \in Session, t # s
      PROVE  since'[t] = since[t] /\ button'[t] = button[t] /\ log'[t] = log[t]
  BY <1>1, <1>4, <1>7
<1>8. /\ since'[s] = fed[s] /\ fed[s] \in Nat /\ button'[s] = opens
      /\ log'[s] = IF opens THEN path ELSE NoLog
  BY <1>1, <1>4
<1>9. ASSUME NEW t \in Session, log'[t] # NoLog, t \in apart'
      PROVE  /\ \A u \in Session \ {t} : log'[u] # log'[t]
             /\ t # s => /\ log[t] # NoLog /\ t \in apart /\ (opens => log[t] # path)
  <2>1. CASE t = s
    <3>1. opens /\ log'[s] = path  BY <1>8, <1>9, <2>1
    <3>2. others = {}  BY <1>1, <1>9, <2>1, <3>1
    <3>3. \A u \in Session \ {s} : log[u] # path  BY <3>2
    <3> QED BY <1>7, <2>1, <3>1, <3>3
  <2>2. CASE t # s
    <3>1. t \in apart /\ log[t] # NoLog /\ log'[t] = log[t] /\ (opens => log[t] # path)
      BY <1>1, <1>7, <1>9, <2>2
    <3>2. \A u \in Session \ {t} : log[u] # log[t]  BY <3>1 DEF LogsOK
    <3> QED BY <1>7, <1>8, <2>2, <3>1, <3>2
  <2> QED BY <2>1, <2>2
<1> HIDE DEF others
<1>10. ASSUME NEW t \in Session, log'[t] # NoLog, t \in apart'
       PROVE  /\ files'.text[log'[t]] \in Seq(Rec)
              /\ files'.pos[t] = Len(files'.text[log'[t]])
              /\ Holds(files'.text[log'[t]], t, since'[t], fed[t])
  <2>1. CASE t = s
    <3>1. opens /\ log'[t] = path /\ since'[t] = fed[t] /\ fed[t] \in Nat
      BY <1>8, <1>10, <2>1
    <3>2. files'.text[path] = << >> /\ files'.pos[t] = 0  BY <1>4, <1>5, <2>1, <3>1
    <3>3. Numbered(<< >>, ChunksOf(<< >>, t), fed[t], fed[t])  BY <3>1, FileEmpty
    <3>4. Holds(<< >>, t, fed[t], fed[t])  BY <3>3 DEF Holds
    <3> QED BY <1>3, <3>1, <3>2, <3>4
  <2>2. CASE t # s
    <3>1. log[t] # NoLog /\ t \in apart /\ (opens => log[t] # path)  BY <1>9, <1>10, <2>2
    <3>2. log[t] \in Path /\ log'[t] = log[t] /\ since'[t] = since[t]
      BY <1>4, <1>7, <2>2, <3>1
    <3>3. files'.text[log[t]] = files.text[log[t]] /\ files'.pos[t] = files.pos[t]
      BY <1>1, <1>4, <1>5, <2>2, <3>1, <3>2
    <3>4. LogOf(files, t, fed[t])  BY DEF LogsOK
    <3> QED BY <3>1, <3>2, <3>3, <3>4 DEF LogOf
  <2> QED BY <2>1, <2>2
<1>11. ASSUME NEW t \in Session
       PROVE  since'[t] <= fed[t] /\ button'[t] = (log'[t] # NoLog)
  <2>1. CASE t = s  BY <1>2, <1>8, <2>1
  <2>2. CASE t # s  BY <1>7, <2>2 DEF LogsOK
  <2> QED BY <2>1, <2>2
<1> QED BY <1>6, <1>9, <1>10, <1>11 DEF LogsOK, LogOf, Holds, Numbered, ChunksOf, PlacesOf

\* Logs are stopped.
LEMMA StopLogsStep ==
    ASSUME LogsOK, fed' = fed, NEW which, StopLogs(which)
    PROVE  LogsOK'
<1>1. /\ log' = [s \in Session |-> IF s \in which THEN NoLog ELSE log[s]]
      /\ button' = [s \in Session |-> button[s] /\ ~(s \in which /\ log[s] # NoLog)]
      /\ since' = since /\ apart' = apart /\ files' = files
  BY DEF StopLogs
<1>2. /\ log' \in [Session -> Path \cup {NoLog}] /\ button' \in [Session -> BOOLEAN]
      /\ since' \in [Session -> Nat] /\ files' \in Files
  BY <1>1 DEF LogsOK
<1>3. ASSUME NEW t \in Session
      PROVE  /\ since[t] <= fed[t]
             /\ button'[t] = (log'[t] # NoLog)
             /\ log'[t] # NoLog => log'[t] = log[t]
  <2>1. log'[t] = (IF t \in which THEN NoLog ELSE log[t])  BY <1>1
  <2>2. button'[t] = (button[t] /\ ~(t \in which /\ log[t] # NoLog))  BY <1>1
  <2>3. button[t] = (log[t] # NoLog) /\ since[t] <= fed[t]  BY DEF LogsOK
  <2>4. button'[t] = (log'[t] # NoLog)  BY <2>1, <2>2, <2>3
  <2> QED BY <2>1, <2>3, <2>4
<1>4. ASSUME NEW t \in Session, log'[t] # NoLog, t \in apart
      PROVE  /\ files.text[log[t]] \in Seq(Rec)
             /\ files.pos[t] = Len(files.text[log[t]])
             /\ Holds(files.text[log[t]], t, since[t], fed[t])
             /\ \A u \in Session \ {t} : log'[u] # log'[t]
  <2>1. log'[t] = log[t] /\ \A u \in Session : log'[u] \in {NoLog, log[u]}  BY <1>1, <1>3, <1>4
  <2>2. \A u \in Session \ {t} : log[u] # log[t]  BY <1>4, <2>1 DEF LogsOK
  <2>3. LogOf(files, t, fed[t])  BY DEF LogsOK
  <2> QED BY <1>4, <2>1, <2>2, <2>3 DEF LogOf
<1>5. ASSUME NEW t \in Session PROVE LogOf(files, t, fed[t])'
  <2>1. CASE log'[t] # NoLog /\ t \in apart
    <3>1. log'[t] = log[t] /\ fed'[t] = fed[t] /\ files' = files /\ since'[t] = since[t]
      BY <1>1, <1>3, <2>1
    <3>2. LogOf(files, t, fed[t])' <=>
            /\ files'.text[log'[t]] \in Seq(Rec)
            /\ files'.pos[t] = Len(files'.text[log'[t]])
            /\ Holds(files'.text[log'[t]], t, since'[t], fed'[t])
      BY <1>1, <2>1 DEF LogOf, Holds, Numbered, ChunksOf, PlacesOf
    <3> QED BY <1>4, <2>1, <3>1, <3>2
  <2>2. CASE ~(log'[t] # NoLog /\ t \in apart)  BY <1>1, <2>2 DEF LogOf
  <2> QED BY <2>1, <2>2
<1> QED BY <1>1, <1>2, <1>3, <1>4, <1>5 DEF LogsOK

LEMMA LogsStep ==
    WindowOK /\ FeedOK /\ LogsOK /\ [ConsumersNext]_consumersVars => LogsOK'
<1> SUFFICES ASSUME WindowOK, FeedOK, LogsOK, [ConsumersNext]_consumersVars PROVE LogsOK'
  OBVIOUS
<1>t. fed \in [Session -> Nat] /\ current \in Session /\ connected \subseteq Session
  BY DEF FeedOK, WindowOK
<1>1. CASE UNCHANGED <<fed, log, since, apart, button, files>>
  BY <1>1 DEF LogsOK, LogOf, Holds, Numbered, ChunksOf, PlacesOf
<1>2. CASE UserLog
  <2>1. fed' = fed  BY <1>2, OthersQuiet
  <2>2. PICK s \in Session : \/ \E path \in Path, opens \in BOOLEAN : StartLog(s, path, opens)
                             \/ StopLogs({s})
    BY <1>2 DEF UserLog
  <2> QED BY <1>t, <2>1, <2>2, StartLogStep, StopLogsStep
<1>3. ASSUME NEW s \in Session, fed' = fed, UNCHANGED <<log, since, apart, button>>,
             files' = OwnFeed(files, Tx(s)) \/ files' = files
      PROVE  LogsOK'
  BY <1>t, <1>1, <1>3, TxStep
<1>4. CASE TerminalSend
  <2>1. fed' = fed  BY <1>4, OthersQuiet
  <2>2. PICK s \in Session : files' = IF s \in connected THEN OwnFeed(files, Tx(s)) ELSE files
    BY <1>4 DEF TerminalSend
  <2>3. UNCHANGED <<log, since, apart, button>>  BY <1>4 DEF TerminalSend
  <2> QED BY <1>3, <2>1, <2>2, <2>3
<1>5. CASE ApiSends
  <2>1. fed' = fed  BY <1>5, OthersQuiet
  <2>2. PICK s \in connected : files' = OwnFeed(files, Tx(s))  BY <1>5 DEF ApiSends
  <2>3. UNCHANGED <<log, since, apart, button>> /\ s \in Session  BY <1>5, <1>t DEF ApiSends
  <2> QED BY <1>3, <2>1, <2>2, <2>3
<1>6. CASE Toggle
  <2>1. fed' = fed  BY <1>6, OthersQuiet
  <2>2. (\E s \in Session : StopLogs({s})) \/ UNCHANGED logVars  BY <1>6 DEF Toggle
  <2> QED BY <1>1, <2>1, <2>2, StopLogsStep DEF logVars
<1>7. CASE CloseWindow
  <2>1. fed' = fed /\ StopLogs(Session)  BY <1>7, OthersQuiet DEF CloseWindow
  <2> QED BY <2>1, StopLogsStep
<1>8. CASE ServePosted
  <2>1. fed' = fed  BY <1>8, OthersQuiet
  <2>2. \/ TransmitTo(current) /\ UNCHANGED <<log, since, apart, button>>
        \/ \E path \in Path, opens \in BOOLEAN : StartLog(current, path, opens)
        \/ StopLogs({current})
        \/ UNCHANGED logVars
    BY <1>8 DEF ServePosted
  <2>3. CASE TransmitTo(current) /\ UNCHANGED <<log, since, apart, button>>
    <3>1. files' = OwnFeed(files, Tx(current)) \/ files' = files  BY <2>3 DEF TransmitTo
    <3> QED BY <1>3, <1>t, <2>1, <2>3, <3>1
  <2> QED BY <1>1, <1>t, <2>1, <2>2, <2>3, StartLogStep, StopLogsStep DEF logVars
<1>9. CASE \E s \in Session : Receive(s)  BY <1>9, <1>t, ReceiveLogs
<1>10. CASE UNCHANGED consumersVars  BY <1>1, <1>10 DEF consumersVars, feedVars, logVars
<1> QED BY <1>1, <1>2, <1>4, <1>5, <1>6, <1>7, <1>8, <1>9, <1>10, ScriptActsQuiet, ApiActsQuiet,
        OthersQuiet
    DEF ConsumersNext, ScriptActs, ApiActs, Server

-----------------------------------------------------------------------------
(* The log of all sessions.                                                 *)

\* The file f of the session log when k[s] chunks of each s have come.
SlogIs(f, k) ==
    /\ f \in Seq(Rec) /\ IsPrefix(copy, f)
    /\ \A s \in Session : \E j \in 0..k[s] : /\ Numbered(f, ChunksOf(f, s), 0, j)
                                             /\ slog_open => j = k[s]

LEMMA SlogNow ==
    /\ SessionLogOK => SlogIs(slog_file, fed)
    /\ slog_open \in BOOLEAN /\ copy \in Seq(Rec) /\ SlogIs(slog_file, fed) => SessionLogOK
BY DEF SessionLogOK, SessionLogKept, SlogIs

\* What was copied stays a part of what is logged.
LEMMA PrefixAppend ==
    ASSUME NEW c \in Seq(Rec), NEW f \in Seq(Rec), NEW e \in Rec, IsPrefix(c, f)
    PROVE  IsPrefix(c, Append(f, e))
<1> DEFINE g == Append(f, e)
           m == Len(c)
           n == Len(f)
<1>1. m <= n /\ SubSeq(c, 1, m) = SubSeq(f, 1, m) /\ m \in Nat /\ n \in Nat
  BY LenProperties DEF IsPrefix
<1>2. g = f \o <<e>> /\ <<e>> \in Seq(Rec) /\ Len(g) = n + 1
  BY AppendIsConcat, AppendProperties
<1>3. SubSeq(g, 1, m) = SubSeq(f, 1, m)
  <2>1. CASE m = 0
    <3>1. SubSeq(g, 1, 0) = << >> /\ SubSeq(f, 1, 0) = << >>  BY SubSeqEmpty
    <3> QED BY <2>1, <3>1
  <2>2. CASE m # 0
    <3> HIDE DEF g, m
    <3>1. 1 \in 1..Len(f) /\ m \in 1..Len(f)  BY <1>1, <2>2
    <3>2. SubSeq(f \o <<e>>, 1, m) = SubSeq(f, 1, m)  BY <1>2, <3>1, SubSeqOfConcat1
    <3> QED BY <1>2, <3>2
  <2> QED BY <2>1, <2>2
<1>4. m <= Len(g)  BY <1>1, <1>2
<1> QED BY <1>1, <1>3, <1>4 DEF IsPrefix

\* What is sent joins the file and changes no number.
LEMMA SlogTx ==
    ASSUME copy \in Seq(Rec), NEW f \in Seq(Rec), NEW k \in [Session -> Nat], SlogIs(f, k),
           NEW t \in Session
    PROVE  SlogIs(Append(f, Tx(t)), k)
<1> DEFINE e == Tx(t)
<1>1. e \in Rec /\ e.direction = "TX"  BY RecFacts
<1> HIDE DEF e
<1>2. Append(f, e) \in Seq(Rec)  BY <1>1, AppendProperties
<1>3. IsPrefix(copy, Append(f, e))  BY <1>1, PrefixAppend DEF SlogIs
<1>4. ASSUME NEW s \in Session
      PROVE  \E j \in 0..k[s] : /\ Numbered(Append(f, e), ChunksOf(Append(f, e), s), 0, j)
                                /\ slog_open => j = k[s]
  <2>1. PICK j \in 0..k[s] : Numbered(f, ChunksOf(f, s), 0, j) /\ (slog_open => j = k[s])
    BY DEF SlogIs
  <2>2. j \in Nat /\ 0 <= j /\ 0 \in Nat /\ k[s] \in Nat  OBVIOUS
  <2>3. Numbered(Append(f, e), ChunksOf(Append(f, e), s), 0, j)
    BY <1>1, <2>1, <2>2, FileNumbered
  <2> QED BY <2>1, <2>3
<1> QED BY <1>2, <1>3, <1>4 DEF SlogIs, e

\* The next chunk of s joins the file while the log is open.
LEMMA SlogRx ==
    ASSUME copy \in Seq(Rec), NEW f \in Seq(Rec), NEW k \in [Session -> Nat], SlogIs(f, k),
           NEW s \in Session, slog_open
    PROVE  SlogIs(Append(f, Rx(s, k[s] + 1)), [k EXCEPT ![s] = @ + 1])
<1> DEFINE e == Rx(s, k[s] + 1)
           l == [k EXCEPT ![s] = @ + 1]
           g == Append(f, e)
<1>1. e \in Rec /\ e.session = s /\ e.direction = "RX" /\ e.n = k[s] + 1
  <2>1. k[s] + 1 \in Nat  OBVIOUS
  <2> QED BY <2>1, RecFacts
<1>2. l[s] = k[s] + 1 /\ \A t \in Session : t # s => l[t] = k[t]  OBVIOUS
<1> HIDE DEF e, l
<1>3. g \in Seq(Rec)  BY <1>1, AppendProperties
<1>4. IsPrefix(copy, g)  BY <1>1, PrefixAppend DEF SlogIs
<1>5. ASSUME NEW t \in Session
      PROVE  \E j \in 0..l[t] : Numbered(g, ChunksOf(g, t), 0, j) /\ (slog_open => j = l[t])
  <2> DEFINE j == k[t]
  <2>1. j \in Nat /\ 0 <= j /\ 0 \in Nat  OBVIOUS
  <2>2. Numbered(f, ChunksOf(f, t), 0, j)  BY DEF SlogIs
  <2>3. CASE t = s
    <3>1. e.n = j + 1 /\ e.session = t  BY <1>1, <2>3
    <3> HIDE DEF j
    <3>2. Numbered(g, ChunksOf(g, t), 0, j + 1)  BY <1>1, <2>1, <2>2, <3>1, FileNumbered
    <3>3. l[t] = j + 1 /\ j + 1 \in 0..j + 1  BY <1>2, <2>1, <2>3 DEF j
    <3> QED BY <3>2, <3>3
  <2>4. CASE t # s
    <3>1. ~(e.direction = "RX" /\ e.session = t)  BY <1>1, <2>4
    <3>2. l[t] = j /\ j \in 0..l[t]  BY <1>2, <2>1, <2>4
    <3> HIDE DEF j
    <3>3. Numbered(g, ChunksOf(g, t), 0, j)  BY <1>1, <2>1, <2>2, <3>1, FileNumbered
    <3> QED BY <3>2, <3>3
  <2> QED BY <2>3, <2>4
<1>6. SlogIs(g, l)  BY <1>3, <1>4, <1>5 DEF SlogIs
<1> QED BY <1>6 DEF g, l, e

\* A log that an export left closed misses a chunk.
LEMMA SlogMisses ==
    ASSUME NEW f, NEW k \in [Session -> Nat], SlogIs(f, k), NEW s \in Session, ~slog_open
    PROVE  SlogIs(f, [k EXCEPT ![s] = @ + 1])
<1> DEFINE l == [k EXCEPT ![s] = @ + 1]
<1>1. ASSUME NEW t \in Session
      PROVE  \E j \in 0..l[t] : Numbered(f, ChunksOf(f, t), 0, j) /\ (slog_open => j = l[t])
  <2>1. PICK j \in 0..k[t] : Numbered(f, ChunksOf(f, t), 0, j)  BY DEF SlogIs
  <2>2. k[t] \in Nat /\ (l[t] = k[t] \/ l[t] = k[t] + 1)  OBVIOUS
  <2>3. j \in 0..l[t]  BY <2>2
  <2> QED BY <2>1, <2>3
<1> HIDE DEF l
<1>2. SlogIs(f, l)  BY <1>1 DEF SlogIs
<1> QED BY <1>2 DEF l

\* An action that changes only the file and fed.
LEMMA SlogStep ==
    ASSUME SessionLogOK, NEW f, NEW k, SlogIs(f, k), slog_file' = f, fed' = k,
           UNCHANGED <<slog_open, copy>>
    PROVE  SessionLogOK'
BY DEF SlogIs, SessionLogOK, SessionLogKept, Numbered, ChunksOf, PlacesOf, IsPrefix

LEMMA TwoAppends ==
    ASSUME NEW f \in Seq(Rec), NEW a \in Rec, NEW b \in Rec
    PROVE  f \o <<a, b>> = Append(Append(f, a), b)
<1>1. <<a>> \in Seq(Rec) /\ <<b>> \in Seq(Rec)  OBVIOUS
<1>2. Append(f, a) = f \o <<a>> /\ Append(f, a) \in Seq(Rec)
  BY AppendIsConcat, AppendProperties
<1>3. Append(Append(f, a), b) = Append(f, a) \o <<b>>  BY <1>2, AppendIsConcat
<1>4. (f \o <<a>>) \o <<b>> = f \o (<<a>> \o <<b>>)  BY <1>1, ConcatAssociative
<1>5. <<a>> \o <<b>> = <<a, b>>
  <2> DEFINE t == <<a>> \o <<b>>
             u == <<a, b>>
  <2>1. /\ t \in Seq(Rec) /\ Len(t) = 2
        /\ \A i \in 1..2 : t[i] = IF i <= 1 THEN <<a>>[i] ELSE <<b>>[i - 1]
    <3>1. Len(<<a>>) = 1 /\ Len(<<b>>) = 1 /\ 1 + 1 = 2  OBVIOUS
    <3> QED BY <1>1, <3>1, ConcatProperties
  <2>2. u \in Seq(Rec) /\ Len(u) = 2 /\ u[1] = a /\ u[2] = b  OBVIOUS
  <2>3. t[1] = a /\ t[2] = b  BY <2>1
  <2>4. 1..2 = {1, 2}  OBVIOUS
  <2> HIDE DEF t, u
  <2>5. t = u  BY <2>1, <2>2, <2>3, <2>4, SeqEqual
  <2> QED BY <2>5 DEF t, u
<1> QED BY <1>2, <1>3, <1>4, <1>5

LEMMA ReceiveSlog ==
    ASSUME WindowOK, SessionLogOK, fed \in [Session -> Nat], NEW s \in Session, Receive(s)
    PROVE  SessionLogOK'
<1> DEFINE k == [fed EXCEPT ![s] = @ + 1]
           e == Rx(s, fed[s] + 1)
           r == Tx(current)
<1>1. /\ fed' = k /\ UNCHANGED <<slog_open, copy>>
      /\ \E replies \in BOOLEAN :
            slog_file' = IF slog_open THEN slog_file \o (IF replies THEN <<r, e>> ELSE <<e>>)
                                      ELSE slog_file
  BY DEF Receive, SessionFeed
<1>2. /\ SlogIs(slog_file, fed) /\ slog_file \in Seq(Rec) /\ copy \in Seq(Rec)
      /\ slog_open \in BOOLEAN
  BY SlogNow DEF SessionLogOK
<1>3. current \in Session /\ r \in Rec /\ e \in Rec
  <2>1. fed[s] + 1 \in Nat /\ current \in Session  BY DEF WindowOK
  <2> QED BY <2>1, RecFacts
<1>4. CASE slog_open
  <2> DEFINE f == Append(slog_file, r)
  <2>1. f \in Seq(Rec) /\ SlogIs(f, fed)
    <3>1. SlogIs(f, fed)  BY <1>2, <1>3, SlogTx
    <3> QED BY <3>1 DEF SlogIs
  <2>2. SlogIs(Append(slog_file, e), k)  BY <1>2, <1>4, SlogRx
  <2> HIDE DEF f
  <2>3. SlogIs(Append(f, e), k)  BY <1>2, <1>4, <2>1, SlogRx
  <2> HIDE DEF k, e, r
  <2>4. slog_file \o <<e>> = Append(slog_file, e)  BY <1>2, <1>3, AppendIsConcat
  <2>5. slog_file \o <<r, e>> = Append(f, e)  BY <1>2, <1>3, TwoAppends DEF f
  <2>6. slog_file' = Append(f, e) \/ slog_file' = Append(slog_file, e)
    BY <1>1, <1>4, <2>4, <2>5
  <2>7. fed' = k /\ UNCHANGED <<slog_open, copy>>  BY <1>1
  <2> QED BY <2>2, <2>3, <2>6, <2>7, SlogStep
<1>5. CASE ~slog_open
  <2>1. SlogIs(slog_file, k)  BY <1>2, <1>5, SlogMisses
  <2> HIDE DEF k, e, r
  <2>2. fed' = k /\ UNCHANGED <<slog_open, copy>> /\ slog_file' = slog_file  BY <1>1, <1>5
  <2> QED BY <2>1, <2>2, SlogStep
<1> QED BY <1>4, <1>5

\* Something is sent and the log is fed.
LEMMA SentSlog ==
    ASSUME SessionLogOK, fed \in [Session -> Nat], fed' = fed, NEW s \in Session,
           SessionFeed(<<Tx(s)>>)
    PROVE  SessionLogOK'
<1> DEFINE f == Append(slog_file, Tx(s))
<1>1. /\ SlogIs(slog_file, fed) /\ slog_file \in Seq(Rec) /\ copy \in Seq(Rec)
      /\ Tx(s) \in Rec
  BY SlogNow, RecFacts DEF SessionLogOK
<1>2. SlogIs(f, fed)  BY <1>1, SlogTx
<1>3. slog_file \o <<Tx(s)>> = f  BY <1>1, AppendIsConcat
<1>4. /\ slog_file' = IF slog_open THEN slog_file \o <<Tx(s)>> ELSE slog_file
      /\ UNCHANGED <<slog_open, copy>>
  BY DEF SessionFeed
<1> HIDE DEF f
<1>5. slog_file' = f \/ slog_file' = slog_file  BY <1>3, <1>4
<1> QED BY <1>1, <1>2, <1>4, <1>5, SlogStep

LEMMA SessionLogStep ==
    WindowOK /\ FeedOK /\ SessionLogOK /\ [ConsumersNext]_consumersVars => SessionLogOK'
<1> SUFFICES ASSUME WindowOK, FeedOK, SessionLogOK, [ConsumersNext]_consumersVars
             PROVE  SessionLogOK'
  OBVIOUS
<1>t. fed \in [Session -> Nat] /\ current \in Session /\ SlogIs(slog_file, fed)
  BY SlogNow DEF FeedOK, WindowOK
<1>1. CASE UNCHANGED <<fed, slog_open, slog_file, copy>>
  BY <1>1 DEF SessionLogOK, SessionLogKept, Numbered, ChunksOf, PlacesOf, IsPrefix
<1>2. CASE Export
  <2>1. /\ fed' = fed /\ slog_file' = slog_file /\ (copy' = slog_file \/ copy' = copy)
        /\ slog_open' \in BOOLEAN /\ (slog_open' => slog_open)
    BY <1>2, OthersQuiet DEF Export, SessionLogOK
  <2>2. copy' \in Seq(Rec)  BY <2>1 DEF SessionLogOK
  <2>3. IsPrefix(copy', slog_file)
    <3>1. IsPrefix(slog_file, slog_file)
      <4>1. Len(slog_file) \in Nat  BY LenProperties DEF SessionLogOK
      <4> QED BY <4>1 DEF IsPrefix
    <3> QED BY <2>1, <3>1 DEF SessionLogOK, SessionLogKept
  <2>4. \A s \in Session : \E k \in 0..fed[s] :
           Numbered(slog_file, ChunksOf(slog_file, s), 0, k) /\ (slog_open' => k = fed[s])
    <3> TAKE s \in Session
    <3>1. PICK k \in 0..fed[s] :
             Numbered(slog_file, ChunksOf(slog_file, s), 0, k) /\ (slog_open => k = fed[s])
      BY DEF SessionLogOK, SessionLogKept
    <3> QED BY <2>1, <3>1
  <2> QED BY <2>1, <2>2, <2>3, <2>4
          DEF SessionLogOK, SessionLogKept, Numbered, ChunksOf, PlacesOf, IsPrefix
<1>3. CASE TerminalSend
  <2>1. fed' = fed  BY <1>3, OthersQuiet
  <2>2. \E s \in Session : SessionFeed(<<Tx(s)>>)  BY <1>3 DEF TerminalSend
  <2> QED BY <1>t, <2>1, <2>2, SentSlog
<1>4. CASE ServePosted
  <2>1. fed' = fed  BY <1>4, OthersQuiet
  <2>2. SessionFeed(<<Tx(current)>>) \/ UNCHANGED slogVars
    BY <1>4 DEF ServePosted, TransmitTo
  <2> QED BY <1>1, <1>t, <2>1, <2>2, SentSlog DEF slogVars
<1>5. CASE CloseWindow
  <2>1. fed' = fed /\ slog_file' = slog_file /\ copy' = copy /\ slog_open' = FALSE
    BY <1>5, OthersQuiet DEF CloseWindow
  <2>2. \A s \in Session : \E k \in 0..fed[s] :
           Numbered(slog_file, ChunksOf(slog_file, s), 0, k) /\ (slog_open' => k = fed[s])
    BY <2>1 DEF SessionLogOK, SessionLogKept
  <2>3. /\ copy' \in Seq(Rec) /\ IsPrefix(copy', slog_file') /\ slog_file' \in Seq(Rec)
        /\ slog_open' \in BOOLEAN
    BY <2>1 DEF SessionLogOK, SessionLogKept
  <2>4. SessionLogKept'
    <3>1. \A s \in Session : \E k \in 0..fed'[s] :
             Numbered(slog_file', ChunksOf(slog_file', s), 0, k) /\ (slog_open' => k = fed'[s])
      BY <2>1, <2>2
    <3> QED BY <2>3, <3>1
            DEF SessionLogKept, Numbered, ChunksOf, PlacesOf, IsPrefix
  <2> QED BY <2>3, <2>4 DEF SessionLogOK
<1>6. CASE \E s \in Session : Receive(s)  BY <1>6, <1>t, ReceiveSlog
<1>7. CASE UNCHANGED consumersVars  BY <1>1, <1>7 DEF consumersVars, feedVars, slogVars
<1> QED BY <1>1, <1>2, <1>3, <1>4, <1>5, <1>6, <1>7, ScriptActsQuiet, ApiActsQuiet, OthersQuiet
        DEF ConsumersNext, ScriptActs, ApiActs, Server

-----------------------------------------------------------------------------
(* The API server.                                                          *)

LEMMA ApiStep == ApiOK /\ [ConsumersNext]_consumersVars => ApiOK'
<1> SUFFICES ASSUME ApiOK, [ConsumersNext]_consumersVars PROVE ApiOK'
  OBVIOUS
<1>1. CASE UNCHANGED <<api, api_ref, frames, stream>>  BY <1>1 DEF ApiOK
<1>2. CASE ApiActs
  <2>1. StartApi \/ StopApi \/ WaitReturns => ApiOK'
    BY DEF StartApi, StopApi, AskToExit, WaitReturns, ApiOK
  <2>2. Subscribe \/ ServerStarts \/ ServerExits => ApiOK'
    BY DEF Subscribe, ServerStarts, ServerExits, ApiOK
  <2>3. Broadcast => ApiOK'  BY DEF Broadcast, ApiOK
  <2> QED BY <1>2, <2>1, <2>2, <2>3 DEF ApiActs
<1>3. CASE CloseWindow  BY <1>3 DEF CloseWindow, AskToExit, ApiOK
<1>4. CASE \E s \in Session : Receive(s)
  <2>1. UNCHANGED <<api, api_ref, stream>> /\ frames' = Pushed  BY <1>4 DEF Receive
  <2> QED BY <2>1 DEF Pushed, ApiOK
<1>5. CASE UNCHANGED consumersVars  BY <1>1, <1>5 DEF consumersVars, apiVars
<1> QED BY <1>1, <1>2, <1>3, <1>4, <1>5, ScriptActsQuiet, OthersQuiet
        DEF ConsumersNext, ScriptActs, ApiActs, Server

-----------------------------------------------------------------------------
(* The theorems.                                                            *)

LEMMA ConsumersStart == ConsumersInit => ConsumersIInv
<1> SUFFICES ASSUME ConsumersInit PROVE ConsumersIInv  OBVIOUS
<1>1. /\ connected = {} /\ current \in Session
      /\ fed = [s \in Session |-> 0] /\ since = fed
      /\ pipeline = [s \in Session |-> [ring |-> 0, dropped |-> 0, warned |-> FALSE]]
      /\ log = [s \in Session |-> NoLog] /\ button = [s \in Session |-> FALSE]
      /\ apart = {}
      /\ files = [text |-> [p \in Path |-> << >>], pos |-> [s \in Session |-> 0]]
      /\ slog_open \in BOOLEAN /\ slog_file = << >> /\ copy = << >>
      /\ script = "none" /\ posted = << >> /\ run_enabled = TRUE
      /\ api = "off" /\ api_ref = FALSE /\ frames = 0 /\ stream = "none"
  BY DEF ConsumersInit
<1>2. WindowOK  BY <1>1 DEF WindowOK
<1>3. FeedOK
  <2>1. RING_SIZE \in Nat /\ HIGH_WATER \in Nat  BY ConsumersAssumption
  <2>2. \A s \in Session : /\ pipeline[s].ring = 0 /\ pipeline[s].dropped = 0 /\ fed[s] = 0
                           /\ pipeline[s].warned = FALSE
    BY <1>1
  <2>3. \A s \in Session : Fed(pipeline[s], fed[s])  BY <2>1, <2>2 DEF Fed
  <2> QED BY <1>1, <2>3 DEF FeedOK
<1>4. ScriptOK
  <2>1. << >> \in Seq(Call) /\ DOMAIN << >> = {}  BY EmptySeq
  <2> QED BY <1>1, <2>1 DEF ScriptOK, PanelTellsScript, Call
<1>5. LogsOK
  <2>1. << >> \in Seq(Rec \cup {Hole})  BY EmptySeq
  <2>2. \A s \in Session : since[s] = 0 /\ fed[s] = 0 /\ button[s] = FALSE /\ log[s] = NoLog
    BY <1>1
  <2>3. /\ log \in [Session -> Path \cup {NoLog}] /\ since \in [Session -> Nat]
        /\ button \in [Session -> BOOLEAN] /\ files \in Files
    BY <1>1, <2>1 DEF Files
  <2>4. \A s \in Session : since[s] <= fed[s] /\ button[s] = (log[s] # NoLog) /\ log[s] = NoLog
    <3> TAKE s \in Session
    <3>1. button[s] = (log[s] # NoLog)
      <4>1. (log[s] # NoLog) = FALSE  BY <2>2
      <4> QED BY <2>2, <4>1
    <3>2. since[s] <= fed[s]  BY <2>2
    <3> QED BY <2>2, <3>1, <3>2
  <2> QED BY <1>1, <2>3, <2>4 DEF LogsOK, LogOf
<1>6. SessionLogOK
  <2>1. << >> \in Seq(Rec)  BY EmptySeq
  <2>2. IsPrefix(<< >>, << >>)  BY DEF IsPrefix
  <2>3. \A s \in Session : Numbered(<< >>, ChunksOf(<< >>, s), 0, 0) /\ 0 \in 0..fed[s]
                           /\ fed[s] = 0
    BY <1>1, FileEmpty
  <2>4. SessionLogKept  BY <1>1, <2>2, <2>3 DEF SessionLogKept
  <2> QED BY <1>1, <2>1, <2>4 DEF SessionLogOK
<1>7. ApiOK  BY <1>1 DEF ApiOK
<1> QED BY <1>2, <1>3, <1>4, <1>5, <1>6, <1>7 DEF ConsumersIInv

\* Every part of the invariant holds along every behaviour, whoever acts: the
\* user, a script, the API clients and the server's loop.
THEOREM ConsumersInductive == ConsumersSpec => []ConsumersIInv
<1>1. ConsumersIInv /\ [ConsumersNext]_consumersVars => ConsumersIInv'
  BY WindowStep, FeedStep, ScriptStep, LogsStep, SessionLogStep, ApiStep DEF ConsumersIInv
<1> QED BY <1>1, ConsumersStart, PTL DEF ConsumersSpec

\* A log that is open, its file opened by no other since, has every chunk of its
\* session from its start on and nothing else, and the session log every chunk
\* of every session; the pipelines have counted them all.
THEOREM LogsAreKept == ConsumersSpec => []LogsKept
<1>1. ConsumersIInv => LogsKept
  <2> SUFFICES ASSUME ConsumersIInv PROVE LogsKept  OBVIOUS
  <2>1. ASSUME NEW s \in Session
        PROVE  /\ button[s] = (log[s] # NoLog)
               /\ log[s] # NoLog /\ s \in apart =>
                    Holds(files.text[log[s]], s, since[s], fed[s])
               /\ pipeline[s].ring + pipeline[s].dropped = fed[s]
               /\ pipeline[s].ring <= RING_SIZE
               /\ pipeline[s].dropped > 0 => pipeline[s].warned \/ HIGH_WATER >= RING_SIZE
    <3>1. Fed(pipeline[s], fed[s])  BY DEF ConsumersIInv, FeedOK
    <3>2. RING_SIZE \in Nat /\ HIGH_WATER \in Nat  BY ConsumersAssumption
    <3>3. RING_SIZE > HIGH_WATER \/ HIGH_WATER >= RING_SIZE  BY <3>2
    <3>4. pipeline[s].dropped > 0 => pipeline[s].warned \/ HIGH_WATER >= RING_SIZE
      BY <3>1, <3>3 DEF Fed
    <3> QED BY <3>1, <3>4 DEF ConsumersIInv, LogsOK, LogOf, Fed
  <2>2. LogHoldsChunks  BY <2>1 DEF LogHoldsChunks, Holds
  <2>3. SessionLogKept  BY DEF ConsumersIInv, SessionLogOK
  <2> QED BY <2>2, <2>3 DEF LogsKept
<1> QED BY <1>1, ConsumersInductive, PTL

\* The Run button is on exactly when no script runs and all it posted is served.
THEOREM PanelIsRight == ConsumersSpec => []PanelTellsScript
<1>1. ConsumersIInv => PanelTellsScript  BY DEF ConsumersIInv, ScriptOK
<1> QED BY <1>1, ConsumersInductive, PTL
=============================================================================
