------------------------------ MODULE EngineProofs ------------------------------
(***************************************************************************)
(* The two engines that the window puts beside a session: what             *)
(* SequenceRunner promises for every set of counts, and TriggerEngine for  *)
(* every alphabet, set of rules and cut of the stream into chunks.         *)
(*                                                                         *)
(* RunnerInv is not inductive: that a run never sends more than its count  *)
(* needs the ticks signalled to be the sends counted, and a run that is    *)
(* still running to be short of its count.  A counted run that is paused   *)
(* must have something left to send, or resume() would start it over its   *)
(* end.                                                                    *)
(*                                                                         *)
(* TailIsSuffix is not inductive either: it says nothing of a tail that    *)
(* still has bytes of an older pattern, and those must be pushed out by    *)
(* the new pattern's own.                                                  *)
(***************************************************************************)
EXTENDS SequenceRunner, TriggerEngine, SequenceTheorems, TLAPS

-----------------------------------------------------------------------------
(* The sequence runner.                                                     *)


\* Every send is signalled as a tick of the same run.
TicksAreSends == ticks = sent

\* A run that goes on has not reached its count; no run passed it.
ShortOfCount ==
    /\ total > 0 => sent <= total
    /\ running /\ total > 0 => sent < total

RunnerIInv == RunnerInv /\ OneFinishPerRun /\ TicksAreSends /\ ShortOfCount

\* The invariant holds of a runner that was never started.
LEMMA RunnerStarts == Init => RunnerIInv
<1> SUFFICES ASSUME Init PROVE RunnerIInv  OBVIOUS
<1>1. TypeOK
  <2>1. /\ running \in BOOLEAN /\ paused \in BOOLEAN /\ timer \in BOOLEAN
        /\ sent \in Nat /\ total \in Nat
        /\ runs \in Nat /\ ends \in Nat /\ ticks \in Nat
    BY DEF Init
  <2> QED BY <2>1 DEF TypeOK
<1>2. NeverTooMany /\ TimerDrivesRun /\ OneFinishPerRun /\ TicksAreSends /\ ShortOfCount
  BY DEF Init, NeverTooMany, TimerDrivesRun, OneFinishPerRun, TicksAreSends, ShortOfCount
<1> QED BY <1>1, <1>2 DEF RunnerIInv, RunnerInv

\* start(), which stops what runs, sends once and may be stopped from inside.
LEMMA StartInvariant ==
    ASSUME RunnerIInv, NEW count \in Counts, Start(count) PROVE RunnerIInv'
<1> DEFINE n == IF count > 0 THEN count ELSE 0
<1>1. n \in Nat /\ (n > 0 => n >= 1)
  <2>1. count \in Int  BY SequenceRunnerAssumption
  <2> QED BY <2>1
<1>2. StartWith(n)  BY DEF Start
<1> HIDE DEF n
<1>3. TypeOK /\ OneFinishPerRun  BY DEF RunnerIInv, RunnerInv
<1>4. /\ total' = n /\ sent' = 1 /\ ticks' = 1 /\ paused' = FALSE
      /\ timer' = (n # 1) /\ runs' = runs + 1
      /\ running' => n # 1
  BY <1>2 DEF StartWith
<1>5. /\ running' \in BOOLEAN /\ ends' \in Nat
      /\ runs' = ends' + (IF running' THEN 1 ELSE 0)
  <2> DEFINE e == IF running THEN ends + 1 ELSE ends
  <2>1. runs = e /\ e \in Nat  BY <1>3 DEF TypeOK, OneFinishPerRun
  <2>2. \/ n # 1 /\ running' = TRUE /\ ends' = e
        \/ running' = FALSE /\ ends' = e + 1
    BY <1>2 DEF StartWith
  <2> HIDE DEF e
  <2>3. CASE running' = TRUE /\ ends' = e  BY <1>4, <2>1, <2>3
  <2>4. CASE running' = FALSE /\ ends' = e + 1
    <3>1. runs' = e + 1  BY <1>4, <2>1
    <3>2. e + 1 = ends' + 0  BY <2>1, <2>4
    <3>3. running' \in BOOLEAN  BY <2>4, Zenon
    <3>4. ends' \in Nat  BY <2>1, <2>4
    <3> QED BY <2>4, <3>1, <3>2, <3>3, <3>4, Zenon
  <2> QED BY <2>2, <2>3, <2>4
<1>6. TypeOK'
  <2>1. /\ running' \in BOOLEAN /\ paused' \in BOOLEAN /\ timer' \in BOOLEAN
        /\ sent' \in Nat /\ total' \in Nat
        /\ runs' \in Nat /\ ends' \in Nat /\ ticks' \in Nat
    <3>1. runs \in Nat  BY <1>3 DEF TypeOK
    <3>2. timer' \in BOOLEAN /\ paused' \in BOOLEAN  BY <1>4, Zenon
    <3>3. sent' \in Nat /\ total' \in Nat /\ runs' \in Nat /\ ticks' \in Nat
      BY <1>1, <1>4, <3>1
    <3> QED BY <1>5, <3>2, <3>3
  <2> QED BY <2>1 DEF TypeOK
<1>7. NeverTooMany' /\ TicksAreSends' /\ ShortOfCount'
  BY <1>1, <1>4 DEF NeverTooMany, TicksAreSends, ShortOfCount
<1>8. TimerDrivesRun'  BY <1>4 DEF TimerDrivesRun
<1>9. OneFinishPerRun'  BY <1>5 DEF OneFinishPerRun
<1> QED BY <1>6, <1>7, <1>8, <1>9 DEF RunnerIInv, RunnerInv

\* A step that ends the run at hand, after a send or after none.
LEMMA StopInvariant ==
    ASSUME RunnerIInv, StopEffect(running, ends),
           UNCHANGED <<total, runs>>, ticks' = sent',
           sent' \in Nat, total > 0 => sent' <= total
    PROVE  RunnerIInv'
<1> USE DEF RunnerIInv, RunnerInv
<1>1. TypeOK'
  <2>1. /\ running' \in BOOLEAN /\ paused' \in BOOLEAN /\ timer' \in BOOLEAN
        /\ sent' \in Nat /\ total' \in Nat
        /\ runs' \in Nat /\ ends' \in Nat /\ ticks' \in Nat
    <3>1. sent \in Nat /\ total \in Nat /\ runs \in Nat /\ ends \in Nat
      BY DEF TypeOK
    <3>2. running' = FALSE /\ paused' = FALSE /\ timer' = FALSE /\ ends' \in Nat
      BY <3>1 DEF StopEffect
    <3> QED BY <3>1, <3>2
  <2> QED BY <2>1 DEF TypeOK
<1>2. OneFinishPerRun'  BY DEF StopEffect, TypeOK, OneFinishPerRun
<1>3. NeverTooMany' /\ TicksAreSends' /\ ShortOfCount' /\ TimerDrivesRun'
  BY DEF StopEffect, TypeOK, NeverTooMany, TicksAreSends, ShortOfCount, TimerDrivesRun
<1> QED BY <1>1, <1>2, <1>3

\* _on_timeout: the send that reaches the count ends the run.
LEMMA TimeoutInvariant ==
    ASSUME RunnerIInv, Timeout PROVE RunnerIInv'
<1>1. /\ TypeOK /\ NeverTooMany /\ TimerDrivesRun /\ OneFinishPerRun
      /\ TicksAreSends /\ ShortOfCount
  BY DEF RunnerIInv, RunnerInv
<1>2. timer /\ running /\ total' = total /\ runs' = runs
  BY DEF Timeout
<1>3. ~Reached(sent) /\ (total > 0 => sent + 1 <= total)
  BY <1>1, <1>2 DEF ShortOfCount, Reached, TypeOK
<1>4. /\ sent' = sent + 1 /\ ticks' = ticks + 1
      /\ \/ ~Reached(sent + 1) /\ UNCHANGED <<timer, paused, running, ends>>
         \/ StopEffect(TRUE, ends)
  BY <1>3 DEF Timeout
<1>5. ticks' = sent' /\ sent' \in Nat /\ (total > 0 => sent' <= total)
  BY <1>1, <1>3, <1>4 DEF TicksAreSends, TypeOK
<1>6. CASE ~Reached(sent + 1) /\ UNCHANGED <<timer, paused, running, ends>>
  <2>1. TypeOK' /\ TimerDrivesRun' /\ OneFinishPerRun'
    BY <1>1, <1>2, <1>5, <1>6 DEF TypeOK, TimerDrivesRun, OneFinishPerRun
  <2>2. NeverTooMany' /\ TicksAreSends'
    BY <1>2, <1>5 DEF NeverTooMany, TicksAreSends
  <2>3. ShortOfCount'
    BY <1>1, <1>2, <1>4, <1>5, <1>6 DEF ShortOfCount, Reached, TypeOK
  <2> QED BY <2>1, <2>2, <2>3 DEF RunnerIInv, RunnerInv
<1>7. CASE StopEffect(TRUE, ends)
  <2>1. running = TRUE  BY <1>1, <1>2 DEF TypeOK
  <2> QED BY <1>2, <1>5, <1>7, <2>1, StopInvariant
<1> QED BY <1>4, <1>6, <1>7

\* Every step keeps the invariant.
LEMMA RunnerSteps ==
    ASSUME RunnerIInv, [Next]_vars PROVE RunnerIInv'
<1> USE DEF RunnerIInv, RunnerInv
<1>1. ASSUME NEW n \in Counts, Start(n) PROVE RunnerIInv'
  BY <1>1, StartInvariant
<1>2. CASE Stop
  <2>1. ticks' = sent' /\ sent' \in Nat /\ (total > 0 => sent' <= total)
    BY <1>2 DEF Stop, TypeOK, TicksAreSends, ShortOfCount
  <2> QED BY <1>2, <2>1, StopInvariant DEF Stop
<1>3. CASE Pause \/ Resume
  <2>1. UNCHANGED <<running, sent, total, runs, ends, ticks>>
        /\ running /\ {paused', timer'} \subseteq BOOLEAN /\ timer' = ~paused'
    BY <1>3 DEF Pause, Resume
  <2>2. TypeOK' /\ TimerDrivesRun'  BY <2>1 DEF TypeOK, TimerDrivesRun
  <2>3. NeverTooMany' /\ OneFinishPerRun' /\ TicksAreSends' /\ ShortOfCount'
    BY <2>1 DEF NeverTooMany, OneFinishPerRun, TicksAreSends, ShortOfCount
  <2> QED BY <2>2, <2>3
<1>4. CASE Timeout  BY <1>4, TimeoutInvariant
<1>5. CASE UNCHANGED vars
  BY <1>5 DEF vars, TypeOK, NeverTooMany, TimerDrivesRun, OneFinishPerRun,
              TicksAreSends, ShortOfCount
<1> QED BY <1>1, <1>2, <1>3, <1>4, <1>5 DEF Next

-----------------------------------------------------------------------------
\* The strengthened invariant holds in every state of the runner.
THEOREM RunnerInductive == Spec => []RunnerIInv
<1>1. RunnerIInv /\ [Next]_vars => RunnerIInv'  BY RunnerSteps
<1> QED BY <1>1, RunnerStarts, PTL DEF Spec

\* A counted run never sends more than its count, and a run that goes on has a
\* timer exactly while it is not paused, whatever order start, stop, pause,
\* resume, timeouts and a stop from inside a tick come in.
THEOREM RunnerKeepsCount == Spec => []RunnerInv
<1>1. RunnerIInv => RunnerInv  BY DEF RunnerIInv
<1> QED BY <1>1, RunnerInductive, PTL

\* Each call of start() is answered by exactly one finished signal, however the
\* run ends.
THEOREM FinishedOnce == Spec => []OneFinishPerRun
<1>1. RunnerIInv => OneFinishPerRun  BY DEF RunnerIInv
<1> QED BY <1>1, RunnerInductive, PTL

-----------------------------------------------------------------------------
(* The trigger engine: suffixes and occurrences.                            *)

LEMMA SuffixFacts ==
    ASSUME NEW B, NEW s \in Seq(B), NEW k \in Nat, NEW m \in Nat,
           m = IF k >= Len(s) THEN Len(s) ELSE k
    PROVE  /\ Suffix(s, k) \in Seq(B) /\ Len(Suffix(s, k)) = m
           /\ \A i \in 1..m : Suffix(s, k)[i] = s[Len(s) - m + i]
<1> DEFINE n == Len(s)
<1>1. n \in Nat /\ \A i \in 1..n : s[i] \in B  BY LenProperties, ElementOfSeq
<1>2. CASE k >= n
  <2>1. Suffix(s, k) = s /\ m = n  BY <1>2 DEF Suffix
  <2>2. \A i \in 1..n : n - n + i = i  BY <1>1
  <2> QED BY <2>1, <2>2
<1>3. CASE ~(k >= n)
  <2> DEFINE t == SubSeq(s, n - k + 1, n)
  <2>1. Suffix(s, k) = t /\ m = k  BY <1>3 DEF Suffix
  <2>2. n - k + 1 \in 1..n + 1 /\ n - (n - k + 1) + 1 = k  BY <1>1, <1>3
  <2>3. \A i \in n - k + 1..n : s[i] \in B  BY <1>1, <2>2
  <2> HIDE DEF n
  <2>4. /\ t \in Seq(B)
        /\ Len(t) = IF n - k + 1 <= n THEN n - (n - k + 1) + 1 ELSE 0
        /\ \A i \in 1..n - (n - k + 1) + 1 : t[i] = s[n - k + 1 + i - 1]
    BY <1>1, <2>2, <2>3, SubSeqProperties
  <2> HIDE DEF t
  <2>5. Len(t) = k  BY <1>1, <1>3, <2>2, <2>4
  <2>6. \A i \in 1..k : t[i] = s[n - k + i]
    <3>1. \A i \in 1..k : n - k + 1 + i - 1 = n - k + i  BY <1>1
    <3> QED BY <2>2, <2>4, <3>1
  <2> QED BY <2>1, <2>4, <2>5, <2>6 DEF n
<1> QED BY <1>2, <1>3

LEMMA JoinFacts ==
    ASSUME NEW B, NEW s \in Seq(B), NEW t \in Seq(B)
    PROVE  /\ s \o t \in Seq(B) /\ Len(s \o t) = Len(s) + Len(t)
           /\ \A i \in 1..Len(s) + Len(t) :
                 (s \o t)[i] = IF i <= Len(s) THEN s[i] ELSE t[i - Len(s)]
           /\ Len(s) \in Nat /\ Len(t) \in Nat
BY ConcatProperties, LenProperties

\* To cut a sequence to its last k places, before or after more is appended,
\* is the same.
LEMMA SuffixOfSuffix ==
    ASSUME NEW B, NEW s \in Seq(B), NEW d \in Seq(B), NEW k \in Nat
    PROVE  Suffix(Suffix(s, k) \o d, k) = Suffix(s \o d, k)
<1> DEFINE n == Len(s)
           e == Len(d)
           c == Suffix(s, k)
           a == c \o d
           b == s \o d
           x == Suffix(a, k)
           y == Suffix(b, k)
<1>1. /\ b \in Seq(B) /\ Len(b) = n + e /\ n \in Nat /\ e \in Nat
      /\ \A i \in 1..n + e : b[i] = IF i <= n THEN s[i] ELSE d[i - n]
  BY JoinFacts
<1>2. CASE k >= n
  <2>1. Suffix(s, k) = s  BY <1>2 DEF Suffix
  <2> QED BY <2>1
<1>3. CASE ~(k >= n)
  <2>1. /\ c \in Seq(B) /\ Len(c) = k
        /\ \A i \in 1..k : c[i] = s[n - k + i]
    <3>1. k = IF k >= Len(s) THEN Len(s) ELSE k  BY <1>3
    <3> QED BY <3>1, SuffixFacts
  <2> HIDE DEF c
  <2>2. /\ a \in Seq(B) /\ Len(a) = k + e
        /\ \A i \in 1..k + e : a[i] = IF i <= k THEN c[i] ELSE d[i - k]
    BY <2>1, JoinFacts
  <2> HIDE DEF a, b, n, e
  <2>3. /\ x \in Seq(B) /\ Len(x) = k
        /\ \A i \in 1..k : x[i] = a[e + i]
    <3>1. k = IF k >= Len(a) THEN Len(a) ELSE k  BY <1>1, <2>2
    <3>2. /\ x \in Seq(B) /\ Len(x) = k
          /\ \A i \in 1..k : x[i] = a[Len(a) - k + i]
      BY <2>2, <3>1, SuffixFacts
    <3>3. Len(a) - k = e  BY <1>1, <2>2
    <3> QED BY <3>2, <3>3
  <2>4. /\ y \in Seq(B) /\ Len(y) = k
        /\ \A i \in 1..k : y[i] = b[n + e - k + i]
    <3>1. k = IF k >= Len(b) THEN Len(b) ELSE k  BY <1>1, <1>3
    <3>2. /\ y \in Seq(B) /\ Len(y) = k
          /\ \A i \in 1..k : y[i] = b[Len(b) - k + i]
      <4>1. b \in Seq(B)  BY <1>1
      <4> QED BY <3>1, <4>1, SuffixFacts
    <3> QED BY <1>1, <3>2
  <2> HIDE DEF x, y
  <2>5. ASSUME NEW i \in 1..k PROVE x[i] = y[i]
    <3>1. /\ e + i \in 1..k + e /\ n + e - k + i \in 1..n + e
          /\ e + i <= k <=> n + e - k + i <= n
      BY <1>1, <1>3
    <3>2. x[i] = a[e + i] /\ y[i] = b[n + e - k + i]  BY <2>3, <2>4
    <3>3. CASE e + i <= k
      <4>1. e + i \in 1..k /\ n - k + (e + i) = n + e - k + i  BY <1>1, <3>3
      <4>2. a[e + i] = s[n + e - k + i]  BY <2>1, <2>2, <3>1, <3>3, <4>1
      <4>3. b[n + e - k + i] = s[n + e - k + i]  BY <1>1, <3>1, <3>3
      <4> QED BY <3>2, <4>2, <4>3
    <3>4. CASE ~(e + i <= k)
      <4>1. (e + i) - k = (n + e - k + i) - n  BY <1>1
      <4>2. a[e + i] = d[(e + i) - k]  BY <2>2, <3>1, <3>4
      <4>3. b[n + e - k + i] = d[(n + e - k + i) - n]  BY <1>1, <3>1, <3>4
      <4> QED BY <3>2, <4>1, <4>2, <4>3
    <3> QED BY <3>3, <3>4
  <2>6. x = y  BY <2>3, <2>4, <2>5, SeqEqual
  <2> QED BY <2>6 DEF x, y, a, b, c
<1> QED BY <1>2, <1>3

\* What lies before the last k places does not show in them.
LEMMA SuffixCut ==
    ASSUME NEW B, NEW o \in Seq(B), NEW s \in Seq(B), NEW k \in Nat, k <= Len(s)
    PROVE  Suffix(o \o s, k) = Suffix(s, k)
<1> DEFINE n == Len(s)
           m == Len(o)
           b == o \o s
           x == Suffix(s, k)
           y == Suffix(b, k)
<1>1. /\ b \in Seq(B) /\ Len(b) = m + n /\ m \in Nat /\ n \in Nat
      /\ \A i \in 1..m + n : b[i] = IF i <= m THEN o[i] ELSE s[i - m]
  BY JoinFacts
<1>2. k <= n  OBVIOUS
<1> HIDE DEF b
<1>3. /\ x \in Seq(B) /\ Len(x) = k
      /\ \A i \in 1..k : x[i] = s[n - k + i]
  <2>1. k = IF k >= Len(s) THEN Len(s) ELSE k  BY <1>1, <1>2
  <2> QED BY <2>1, SuffixFacts
<1> HIDE DEF n, m
<1>4. /\ y \in Seq(B) /\ Len(y) = k
      /\ \A i \in 1..k : y[i] = b[m + n - k + i]
  <2>1. k = IF k >= Len(b) THEN Len(b) ELSE k  BY <1>1, <1>2
  <2>2. /\ y \in Seq(B) /\ Len(y) = k
        /\ \A i \in 1..k : y[i] = b[Len(b) - k + i]
    <3>1. b \in Seq(B)  BY <1>1
    <3> QED BY <2>1, <3>1, SuffixFacts
  <2> QED BY <1>1, <2>2
<1> HIDE DEF x, y
<1>5. ASSUME NEW i \in 1..k PROVE x[i] = y[i]
  <2>1. /\ m + n - k + i \in 1..m + n /\ ~(m + n - k + i <= m)
        /\ (m + n - k + i) - m = n - k + i
    BY <1>1, <1>2
  <2>2. b[m + n - k + i] = s[n - k + i]  BY <1>1, <2>1
  <2> QED BY <1>3, <1>4, <2>2
<1>6. x = y  BY <1>3, <1>4, <1>5, SeqEqual
<1> QED BY <1>6 DEF x, y, b

\* An occurrence, place by place.
LEMMA OccursPlacewise ==
    ASSUME NEW B, NEW s \in Seq(B), NEW w \in Seq(B), NEW i \in Nat \ {0}
    PROVE  OccursAt(w, s, i) <=> /\ i + Len(w) - 1 <= Len(s)
                                 /\ \A j \in 1..Len(w) : s[i + j - 1] = w[j]
<1> DEFINE l == Len(w)
           n == Len(s)
           p == i + l - 1
           t == SubSeq(s, i, p)
<1>1. l \in Nat /\ n \in Nat /\ p \in Int /\ \A j \in 1..n : s[j] \in B
  BY LenProperties, ElementOfSeq
<1>2. CASE p <= n
  <2>1. \A j \in i..p : s[j] \in B  BY <1>1, <1>2
  <2> HIDE DEF l, n
  <2>2. /\ t \in Seq(B) /\ Len(t) = IF i <= p THEN p - i + 1 ELSE 0
        /\ \A j \in 1..p - i + 1 : t[j] = s[i + j - 1]
    <3> HIDE DEF p
    <3> QED BY <1>1, <2>1, SubSeqProperties
  <2> HIDE DEF t
  <2>3. p - i + 1 = l /\ Len(t) = l  BY <1>1, <2>2
  <2>4. \A j \in 1..l : t[j] = s[i + j - 1]  BY <2>2, <2>3
  <2>5. t = w <=> \A j \in 1..l : t[j] = w[j]
    BY <2>2, <2>3, SeqEqual DEF l
  <2>6. OccursAt(w, s, i) <=> p <= n /\ t = w  BY DEF OccursAt, t, p, l, n
  <2>7. (\A j \in 1..l : t[j] = w[j]) <=> (\A j \in 1..l : s[i + j - 1] = w[j])
    BY <2>4
  <2>8. OccursAt(w, s, i) <=> p <= n /\ \A j \in 1..l : s[i + j - 1] = w[j]
    BY <1>2, <2>5, <2>6, <2>7
  <2> QED BY <2>8 DEF l, n, p
<1>3. CASE ~(p <= n)  BY <1>3 DEF OccursAt
<1> QED BY <1>2, <1>3

\* The same of bytes, for every sequence at once.
LEMMA BytesOfSuffix ==
    \A s \in Seq(Byte), k \in Nat, m \in Nat :
        m = (IF k >= Len(s) THEN Len(s) ELSE k) =>
            /\ Suffix(s, k) \in Seq(Byte) /\ Len(Suffix(s, k)) = m
            /\ \A i \in 1..m : Suffix(s, k)[i] = s[Len(s) - m + i]
BY SuffixFacts, ZenonT(60)

LEMMA BytesOfOccurrence ==
    \A s \in Seq(Byte), w \in Seq(Byte), i \in Nat \ {0} :
        OccursAt(w, s, i) <=> /\ i + Len(w) - 1 <= Len(s)
                              /\ \A j \in 1..Len(w) : s[i + j - 1] = w[j]
BY OccursPlacewise

LEMMA BytesRegrouped ==
    \A a, b, c \in Seq(Byte) : (a \o b) \o c = a \o (b \o c)
BY ConcatAssociative

\* A pattern is found in the tail and the chunk exactly when the stream has an
\* occurrence of it that the chunk completes.
LEMMA StraddleExact ==
    ASSUME NEW s \in Seq(Byte), NEW d \in Seq(Byte), NEW w \in Seq(Byte), NEW k \in Nat
    PROVE  Len(w) = k + 1 =>
               (Occurs(w, Suffix(s, k) \o d) <=> EndsBeyond(w, s \o d, Len(s)))
<1>0. SUFFICES ASSUME Len(w) = k + 1
               PROVE  Occurs(w, Suffix(s, k) \o d) <=> EndsBeyond(w, s \o d, Len(s))
  OBVIOUS
<1>s. ASSUME NEW x \in Nat, x = IF k >= Len(s) THEN Len(s) ELSE k
      PROVE  /\ Suffix(s, k) \in Seq(Byte) /\ Len(Suffix(s, k)) = x
             /\ \A i \in 1..x : Suffix(s, k)[i] = s[Len(s) - x + i]
  BY <1>s, BytesOfSuffix
<1> DEFINE n == Len(s)
           e == Len(d)
           m == IF k >= n THEN n ELSE k
           c == Suffix(s, k)
           a == c \o d
           b == s \o d
<1>1. /\ b \in Seq(Byte) /\ Len(b) = n + e /\ n \in Nat /\ e \in Nat
      /\ \A i \in 1..n + e : b[i] = IF i <= n THEN s[i] ELSE d[i - n]
  BY JoinFacts
<1>2. m \in Nat /\ m <= n /\ m <= k /\ (m = n \/ m = k)  BY <1>1
<1>3. /\ c \in Seq(Byte) /\ Len(c) = m
      /\ \A i \in 1..m : c[i] = s[n - m + i]
  <2>1. m = IF k >= Len(s) THEN Len(s) ELSE k  OBVIOUS
  <2>2. m \in Nat  BY <1>2
  <2> HIDE DEF m
  <2>3. /\ Suffix(s, k) \in Seq(Byte) /\ Len(Suffix(s, k)) = m
        /\ \A i \in 1..m : Suffix(s, k)[i] = s[Len(s) - m + i]
    BY <1>s, <2>1, <2>2
  <2> QED BY <2>3
<1> HIDE DEF m, c
<1>4. /\ a \in Seq(Byte) /\ Len(a) = m + e
      /\ \A i \in 1..m + e : a[i] = IF i <= m THEN c[i] ELSE d[i - m]
  BY <1>3, JoinFacts, ZenonT(40)
<1> HIDE DEF a, b, n, e
\* Place i of the tail and the chunk is place n - m + i of the stream.
<1>5. \A i \in 1..m + e : n - m + i \in 1..n + e /\ a[i] = b[n - m + i]
  <2> TAKE i \in 1..m + e
  <2>1. n - m + i \in 1..n + e /\ (i <= m <=> n - m + i <= n) /\ (n - m + i) - n = i - m
    BY <1>1, <1>2
  <2>2. CASE i <= m
    <3>1. i \in 1..m  BY <1>2, <2>2
    <3>2. a[i] = s[n - m + i]  BY <1>3, <1>4, <2>2, <3>1
    <3>3. b[n - m + i] = s[n - m + i]  BY <1>1, <2>1, <2>2
    <3> QED BY <2>1, <3>2, <3>3
  <2>3. CASE ~(i <= m)
    <3>1. a[i] = d[i - m]  BY <1>4, <2>3
    <3>2. b[n - m + i] = d[(n - m + i) - n]  BY <1>1, <2>1, <2>3
    <3> QED BY <2>1, <3>1, <3>2
  <2> QED BY <2>2, <2>3
<1> DEFINE l == Len(w)
<1>p. ASSUME NEW x \in Seq(Byte), NEW i \in Nat \ {0}
      PROVE  OccursAt(w, x, i) <=> /\ i + Len(w) - 1 <= Len(x)
                                   /\ \A j \in 1..Len(w) : x[i + j - 1] = w[j]
  BY BytesOfOccurrence
<1>6. l = k + 1 /\ l \in Nat  BY <1>0
<1> HIDE DEF l
<1>7. ASSUME NEW i \in 1..m + e
      PROVE  OccursAt(w, a, i) <=> OccursAt(w, b, n - m + i)
  <2>1. /\ OccursAt(w, a, i) <=> /\ i + l - 1 <= m + e
                                 /\ \A j \in 1..l : a[i + j - 1] = w[j]
        /\ OccursAt(w, b, n - m + i) <=> /\ n - m + i + l - 1 <= n + e
                                         /\ \A j \in 1..l : b[n - m + i + j - 1] = w[j]
    <3>1. i \in Nat \ {0} /\ n - m + i \in Nat \ {0}  BY <1>1, <1>2
    <3>2. OccursAt(w, a, i) <=> /\ i + l - 1 <= m + e
                                /\ \A j \in 1..l : a[i + j - 1] = w[j]
      <4>1. a \in Seq(Byte) /\ Len(a) = m + e /\ Len(w) = l  BY <1>4 DEF l
      <4>2. OccursAt(w, a, i) <=> /\ i + Len(w) - 1 <= Len(a)
                                  /\ \A j \in 1..Len(w) : a[i + j - 1] = w[j]
        BY <3>1, <4>1, <1>p
      <4> QED BY <4>1, <4>2
    <3> DEFINE q == n - m + i
    <3>3. OccursAt(w, b, q) <=> /\ q + l - 1 <= n + e
                                /\ \A j \in 1..l : b[q + j - 1] = w[j]
      <4>1. b \in Seq(Byte) /\ Len(b) = n + e /\ Len(w) = l /\ q \in Nat \ {0}
        BY <1>1, <3>1 DEF l
      <4> HIDE DEF q
      <4>2. OccursAt(w, b, q) <=> /\ q + Len(w) - 1 <= Len(b)
                                  /\ \A j \in 1..Len(w) : b[q + j - 1] = w[j]
        BY <4>1, <1>p
      <4> QED BY <4>1, <4>2
    <3> QED BY <3>2, <3>3
  <2>2. i + l - 1 <= m + e <=> n - m + i + l - 1 <= n + e  BY <1>1, <1>2, <1>6
  <2>3. ASSUME i + l - 1 <= m + e, NEW j \in 1..l
        PROVE  a[i + j - 1] = b[n - m + i + j - 1]
    <3>1. i + j - 1 \in 1..m + e /\ n - m + (i + j - 1) = n - m + i + j - 1
      BY <1>1, <1>2, <1>6, <2>3
    <3> QED BY <1>5, <3>1
  <2>4. i + l - 1 <= m + e =>
          ((\A j \in 1..l : a[i + j - 1] = w[j]) <=>
              (\A j \in 1..l : b[n - m + i + j - 1] = w[j]))
    BY <2>3
  <2> QED BY <2>1, <2>2, <2>4
<1>8. ASSUME Occurs(w, a) PROVE EndsBeyond(w, b, n)
  <2>1. PICK i \in 1..m + e : OccursAt(w, a, i)  BY <1>4, <1>8 DEF Occurs
  <2> DEFINE q == n - m + i
  <2>2. OccursAt(w, b, q) /\ q \in 1..n + e  BY <1>5, <1>7, <2>1
  <2>3. q + l - 1 > n  BY <1>1, <1>2, <1>6
  <2> HIDE DEF q
  <2> QED BY <1>1, <2>2, <2>3 DEF EndsBeyond, l
<1>9. ASSUME EndsBeyond(w, b, n) PROVE Occurs(w, a)
  <2>1. PICK q \in 1..n + e : OccursAt(w, b, q) /\ q + l - 1 > n
    BY <1>1, <1>9 DEF EndsBeyond, l
  <2> DEFINE i == q - n + m
  <2>2. i \in 1..m + e /\ n - m + i = q
    <3>1. i <= m + e /\ n - m + i = q /\ i \in Int  BY <1>1, <1>2
    <3>2. i >= 1
      <4>1. CASE m = n  BY <1>1, <4>1
      <4>2. CASE m = k  BY <1>1, <1>6, <2>1, <4>2
      <4> QED BY <1>2, <4>1, <4>2
    <3> QED BY <1>2, <1>1, <3>1, <3>2
  <2> HIDE DEF i
  <2>3. OccursAt(w, a, i)  BY <1>7, <2>1, <2>2
  <2> QED BY <1>4, <2>2, <2>3 DEF Occurs
<1>10. Occurs(w, a) <=> EndsBeyond(w, b, n)  BY <1>8, <1>9
<1> QED BY <1>10 DEF a, b, c, n

-----------------------------------------------------------------------------
(* The trigger engine: the inductive invariant.                             *)

\* The tail of a rule that was matched to something is the last len(pat) - 1
\* bytes of what it was matched to, behind bytes an older pattern may have left.
TailHasSeen ==
    \A t \in DOMAIN rules :
        seen[t] # << >> =>
            /\ rules[t].pat # << >>
            /\ \E old \in Seq(Byte) : tails[t] = Suffix(old \o seen[t], Len(rules[t].pat) - 1)

\* A settled rule has no such bytes left, whatever its type is now.
SettledTail ==
    \A t \in DOMAIN rules : settled[t] /\ rules[t].pat # << >> =>
        tails[t] = Suffix(seen[t], Len(rules[t].pat) - 1)

EngineIInv == EngineTypeOK /\ TailHasSeen /\ SettledTail

\* What a pattern keeps of the stream.
LEMMA KeepFacts ==
    ASSUME EngineTypeOK, NEW t \in DOMAIN rules, rules[t].pat # << >>
    PROVE  /\ rules[t].pat \in Seq(Byte) /\ Len(rules[t].pat) - 1 \in Nat
           /\ t \in Trigger
<1>1. rules[t] \in RuleShape  BY TriggerEngineAssumption DEF EngineTypeOK
<1>2. rules[t].pat \in Seq(Byte)  BY <1>1 DEF RuleShape
<1>3. Len(rules[t].pat) \in Nat /\ Len(rules[t].pat) # 0
  BY <1>2, LenProperties, EmptySeq
<1> QED BY <1>2, <1>3 DEF EngineTypeOK

LEMMA FeedStep ==
    ASSUME EngineIInv, NEW data \in Seq(Byte), Feed(data)
    PROVE  EngineIInv'
<1> DEFINE rolling == {t \in Active : rules[t].type \in Rolling}
           keep(t) == Len(rules[t].pat) - 1
<1>1. /\ fired' = {t \in Active : Matches(rules[t], Hay(t, data))}
      /\ tails' = [t \in Trigger |-> IF t \in rolling THEN Suffix(tails[t] \o data, keep(t))
                                                      ELSE tails[t]]
      /\ seen' = [t \in Trigger |-> IF t \in rolling THEN seen[t] \o data ELSE seen[t]]
      /\ settled' = [t \in Trigger |->
                        \/ settled[t]
                        \/ t \in rolling /\ Len(seen'[t]) >= keep(t)]
      /\ stream' = stream \o data /\ rules' = rules
      /\ data # << >>
  BY DEF Feed, NewTail
<1>2. ASSUME NEW t \in rolling
      PROVE  /\ t \in DOMAIN rules /\ t \in Trigger /\ rules[t].pat # << >> /\ keep(t) \in Nat
             /\ tails[t] \in Seq(Byte) /\ seen[t] \in Seq(Byte)
  <2>1. t \in DOMAIN rules /\ rules[t].pat # << >>  BY DEF Active
  <2>2. t \in Trigger /\ keep(t) \in Nat  BY <2>1, KeepFacts DEF EngineIInv
  <2> QED BY <2>1, <2>2 DEF EngineIInv, EngineTypeOK
<1>3. rolling \subseteq DOMAIN rules /\ Active \subseteq DOMAIN rules  BY DEF Active
<1> HIDE DEF rolling
<1>4. \A t \in rolling : /\ tails'[t] = Suffix(tails[t] \o data, keep(t))
                         /\ seen'[t] = seen[t] \o data
                         /\ settled'[t] = (settled[t] \/ Len(seen'[t]) >= keep(t))
  BY <1>1, <1>2
<1>5. \A t \in Trigger \ rolling : /\ tails'[t] = tails[t] /\ seen'[t] = seen[t]
                                   /\ settled'[t] = settled[t]
  <2>1. settled \in [Trigger -> BOOLEAN]  BY DEF EngineIInv, EngineTypeOK
  <2> QED BY <1>1, <2>1
<1>6. ASSUME NEW t \in rolling
      PROVE  /\ tails'[t] \in Seq(Byte) /\ seen'[t] \in Seq(Byte)
             /\ \E old \in Seq(Byte) : tails'[t] = Suffix(old \o seen'[t], keep(t))
             /\ settled'[t] => tails'[t] = Suffix(seen'[t], keep(t))
  <2> DEFINE k == keep(t)
             x == tails[t]
             y == seen[t]
  <2>1. k \in Nat /\ x \in Seq(Byte) /\ y \in Seq(Byte) /\ y \o data \in Seq(Byte)
        /\ x \o data \in Seq(Byte)
    BY <1>2, JoinFacts
  <2>2. tails'[t] = Suffix(x \o data, k) /\ seen'[t] = y \o data
        /\ settled'[t] = (settled[t] \/ Len(y \o data) >= k)
    BY <1>4
  <2>3. /\ y # << >> => \E old \in Seq(Byte) : x = Suffix(old \o y, k)
        /\ settled[t] => x = Suffix(y, k)
    BY <1>2 DEF EngineIInv, TailHasSeen, SettledTail
  <2> HIDE DEF k, x, y
  <2>4. Suffix(x \o data, k) \in Seq(Byte)
    <3> DEFINE z == x \o data
               m == IF k >= Len(z) THEN Len(z) ELSE k
    <3>1. z \in Seq(Byte) /\ Len(z) \in Nat  BY <2>1, LenProperties
    <3>2. m \in Nat /\ m = IF k >= Len(z) THEN Len(z) ELSE k  BY <2>1, <3>1
    <3> HIDE DEF z, m
    <3>3. Suffix(z, k) \in Seq(Byte)  BY <2>1, <3>1, <3>2, SuffixFacts
    <3> QED BY <3>3 DEF z
  <2>5. PICK old \in Seq(Byte) : Suffix(x \o data, k) = Suffix(old \o (y \o data), k)
    <3>1. CASE y = << >>
      <4>1. y \o data = data  BY <3>1, ConcatEmptySeq
      <4> QED BY <2>1, <4>1
    <3>2. CASE y # << >>
      <4>1. PICK old \in Seq(Byte) : x = Suffix(old \o y, k)  BY <2>3, <3>2
      <4>2. old \o y \in Seq(Byte)  BY <2>1, JoinFacts
      <4>3. Suffix(Suffix(old \o y, k) \o data, k) = Suffix((old \o y) \o data, k)
        BY <2>1, <4>2, SuffixOfSuffix
      <4>4. (old \o y) \o data = old \o (y \o data)
        BY <2>1, BytesRegrouped
      <4> QED BY <4>1, <4>3, <4>4
    <3> QED BY <3>1, <3>2
  <2>6. ASSUME settled'[t] PROVE Suffix(x \o data, k) = Suffix(y \o data, k)
    <3>1. CASE settled[t]
      <4>1. x = Suffix(y, k)  BY <2>3, <3>1
      <4> QED BY <2>1, <4>1, SuffixOfSuffix
    <3>2. CASE Len(y \o data) >= k
      <4> DEFINE z == y \o data
      <4>1. z \in Seq(Byte) /\ k <= Len(z)  BY <2>1, <3>2, LenProperties
      <4> HIDE DEF z
      <4>2. Suffix(old \o z, k) = Suffix(z, k)  BY <2>1, <4>1, SuffixCut
      <4> QED BY <2>5, <4>2 DEF z
    <3> QED BY <2>2, <2>6, <3>1, <3>2
  <2>7. \E o \in Seq(Byte) : tails'[t] = Suffix(o \o seen'[t], k)  BY <2>2, <2>5
  <2>8. settled'[t] => tails'[t] = Suffix(seen'[t], k)  BY <2>2, <2>6
  <2> QED BY <2>1, <2>2, <2>4, <2>7, <2>8 DEF k
<1>7. EngineTypeOK'
  <2>1. /\ DOMAIN rules' \subseteq Trigger /\ \A t \in DOMAIN rules' : rules'[t] \in Rule
        /\ fired' \subseteq DOMAIN rules' /\ stream' \in Seq(Byte)
    BY <1>1, <1>3, JoinFacts DEF EngineIInv, EngineTypeOK
  <2>2. \A t \in Trigger : tails'[t] \in Seq(Byte) /\ seen'[t] \in Seq(Byte)
    BY <1>5, <1>6 DEF EngineIInv, EngineTypeOK
  <2>3. tails' = [t \in Trigger |-> tails'[t]] /\ seen' = [t \in Trigger |-> seen'[t]]
    BY <1>1
  <2>4. settled' \in [Trigger -> BOOLEAN]  BY <1>1
  <2>5. \A t \in Trigger \ DOMAIN rules' : tails'[t] = << >>
    BY <1>1, <1>3, <1>5 DEF EngineIInv, EngineTypeOK
  <2> QED BY <2>1, <2>2, <2>3, <2>4, <2>5 DEF EngineTypeOK
<1>8. TailHasSeen'
  <2> SUFFICES ASSUME NEW t \in DOMAIN rules, seen'[t] # << >>
               PROVE  /\ rules[t].pat # << >>
                      /\ \E old \in Seq(Byte) : tails'[t] = Suffix(old \o seen'[t], keep(t))
    BY <1>1 DEF TailHasSeen
  <2>1. CASE t \in rolling  BY <1>2, <1>6, <2>1
  <2>2. CASE t \notin rolling
    <3>1. tails'[t] = tails[t] /\ seen'[t] = seen[t]
      BY <1>5, <2>2 DEF EngineIInv, EngineTypeOK
    <3> QED BY <3>1 DEF EngineIInv, TailHasSeen
  <2> QED BY <2>1, <2>2
<1>9. SettledTail'
  <2> SUFFICES ASSUME NEW t \in DOMAIN rules, settled'[t], rules[t].pat # << >>
               PROVE  tails'[t] = Suffix(seen'[t], keep(t))
    BY <1>1 DEF SettledTail
  <2>1. CASE t \in rolling  BY <1>6, <2>1
  <2>2. CASE t \notin rolling
    <3>1. tails'[t] = tails[t] /\ seen'[t] = seen[t] /\ settled'[t] = settled[t]
      BY <1>5, <2>2 DEF EngineIInv, EngineTypeOK
    <3> QED BY <3>1 DEF EngineIInv, SettledTail
  <2> QED BY <2>1, <2>2
<1> QED BY <1>7, <1>8, <1>9 DEF EngineIInv

LEMMA SetTriggersStep ==
    ASSUME EngineIInv, NEW S \in SUBSET Trigger, NEW new \in [S -> Rule], SetTriggers(new)
    PROVE  EngineIInv'
<1>1. /\ rules' = new /\ DOMAIN new = S /\ fired' = {} /\ stream' = stream
      /\ tails' = [t \in Trigger |-> IF t \in S THEN tails[t] ELSE << >>]
      /\ seen' = [t \in Trigger |-> IF t \in Same(new) THEN seen[t] ELSE << >>]
      /\ settled' = [t \in Trigger |->
                        IF t \in Same(new) THEN settled[t]
                        ELSE t \notin DOMAIN rules \/ t \notin S \/ tails[t] = << >>]
  BY DEF SetTriggers, NewHistory
<1>2. \A t \in Trigger : tails[t] \in Seq(Byte) /\ seen[t] \in Seq(Byte) /\ settled[t] \in BOOLEAN
  BY DEF EngineIInv, EngineTypeOK
<1>3. << >> \in Seq(Byte)  BY EmptySeq
<1>4. EngineTypeOK'
  <2>1. /\ DOMAIN rules' \subseteq Trigger /\ \A t \in DOMAIN rules' : rules'[t] \in Rule
        /\ fired' \subseteq DOMAIN rules' /\ stream' \in Seq(Byte)
    BY <1>1 DEF EngineIInv, EngineTypeOK
  <2>2. tails' \in [Trigger -> Seq(Byte)] /\ seen' \in [Trigger -> Seq(Byte)]
    BY <1>1, <1>2, <1>3
  <2>3. settled' \in [Trigger -> BOOLEAN]  BY <1>1, <1>2
  <2>4. \A t \in Trigger \ DOMAIN rules' : tails'[t] = << >>  BY <1>1
  <2> QED BY <2>1, <2>2, <2>3, <2>4 DEF EngineTypeOK
\* An unchanged pattern keeps its tail and what it was matched to.
<1>5. ASSUME NEW t \in Same(new)
      PROVE  /\ t \in DOMAIN rules /\ t \in S /\ t \in Trigger
             /\ rules'[t].pat = rules[t].pat
             /\ tails'[t] = tails[t] /\ seen'[t] = seen[t] /\ settled'[t] = settled[t]
  <2>1. t \in DOMAIN rules /\ t \in S /\ new[t].pat = rules[t].pat  BY <1>1 DEF Same
  <2> QED BY <1>1, <2>1
<1>6. ASSUME NEW t \in S, t \notin Same(new)
      PROVE  /\ seen'[t] = << >>
             /\ settled'[t] => tails'[t] = << >>
  <2>1. seen'[t] = << >> /\ tails'[t] = tails[t]  BY <1>1, <1>6
  <2>2. settled'[t] = (t \notin DOMAIN rules \/ t \notin S \/ tails[t] = << >>)
    BY <1>1, <1>6
  <2>3. t \notin DOMAIN rules => tails[t] = << >>  BY DEF EngineIInv, EngineTypeOK
  <2> QED BY <2>1, <2>2, <2>3
<1>7. TailHasSeen'
  <2> SUFFICES ASSUME NEW t \in S, seen'[t] # << >>
               PROVE  /\ rules'[t].pat # << >>
                      /\ \E old \in Seq(Byte) :
                             tails'[t] = Suffix(old \o seen'[t], Len(rules'[t].pat) - 1)
    BY <1>1 DEF TailHasSeen
  <2>1. t \in Same(new)  BY <1>6
  <2> QED BY <1>5, <2>1 DEF EngineIInv, TailHasSeen
<1>8. SettledTail'
  <2> SUFFICES ASSUME NEW t \in S, settled'[t], rules'[t].pat # << >>
               PROVE  tails'[t] = Suffix(seen'[t], Len(rules'[t].pat) - 1)
    BY <1>1 DEF SettledTail
  <2>1. CASE t \in Same(new)  BY <1>5, <2>1 DEF EngineIInv, SettledTail
  <2>2. CASE t \notin Same(new)
    <3>1. seen'[t] = << >> /\ tails'[t] = << >>  BY <1>6, <2>2
    <3> DEFINE k == Len(rules'[t].pat) - 1
    <3>2. k \in Nat
      <4>1. rules'[t] \in RuleShape  BY <1>1, TriggerEngineAssumption
      <4>2. rules'[t].pat \in Seq(Byte)  BY <4>1 DEF RuleShape
      <4> QED BY <4>2, LenProperties, EmptySeq
    <3> HIDE DEF k
    <3>3. Suffix(<< >>, k) = << >>  BY <3>2 DEF Suffix
    <3> QED BY <3>1, <3>3 DEF k
  <2> QED BY <2>1, <2>2
<1> QED BY <1>4, <1>7, <1>8 DEF EngineIInv

LEMMA EngineStarts == EngineInit => EngineIInv
<1> SUFFICES ASSUME EngineInit PROVE EngineIInv  OBVIOUS
<1>1. << >> \in Seq(Byte) /\ rules = << >> /\ DOMAIN rules = {}
  BY EmptySeq DEF EngineInit
<1>2. EngineTypeOK  BY <1>1 DEF EngineInit, EngineTypeOK
<1>3. TailHasSeen /\ SettledTail  BY <1>1 DEF TailHasSeen, SettledTail
<1> QED BY <1>2, <1>3 DEF EngineIInv

LEMMA ChunkFacts == \A data \in Chunks : data \in Seq(Byte)
<1> TAKE data \in Chunks
<1>1. PICK n \in 1..MaxChunk : data \in [1..n -> Byte]  BY DEF Chunks
<1>2. n \in Nat  BY TriggerEngineAssumption
<1> QED BY <1>1, <1>2, SeqDef

LEMMA EngineSteps == EngineIInv /\ [EngineNext]_engineVars => EngineIInv'
<1> SUFFICES ASSUME EngineIInv, [EngineNext]_engineVars PROVE EngineIInv'
  OBVIOUS
<1>1. CASE \E data \in Chunks : Feed(data)  BY <1>1, ChunkFacts, FeedStep
<1>2. CASE \E S \in SUBSET Trigger : \E new \in [S -> Rule] : SetTriggers(new)
  BY <1>2, SetTriggersStep
<1>3. CASE UNCHANGED engineVars
  BY <1>3 DEF engineVars, EngineIInv, EngineTypeOK, TailHasSeen, SettledTail
<1> QED BY <1>1, <1>2, <1>3 DEF EngineNext

\* Whatever the stream, its chunks and the rule lists, each tail ends with what
\* its rule was matched to, and only that once as many bytes have come.
THEOREM EngineInductive == EngineSpec => []EngineIInv
<1> QED BY EngineStarts, EngineSteps, PTL DEF EngineSpec

\* feed() keeps for each rule exactly what the next chunk can complete.
THEOREM TailsAreSuffixes == EngineSpec => []TriggerInv
<1>1. EngineIInv => TriggerInv
  BY DEF EngineIInv, SettledTail, TriggerInv, TailIsSuffix, Contains
<1> QED BY <1>1, EngineInductive, PTL

\* A feed reports a contains rule exactly when it completes an occurrence.
LEMMA FeedIsExact ==
    ASSUME EngineIInv, NEW data \in Seq(Byte), Feed(data),
           NEW t \in Active, Contains(t), settled[t]
    PROVE  t \in fired' <=> EndsBeyond(rules[t].pat, seen'[t], Len(seen[t]))
<1> DEFINE w == rules[t].pat
           k == Len(w) - 1
           s == seen[t]
<1>1. t \in DOMAIN rules /\ rules[t].type = "contains" /\ w # << >> /\ rules[t].enabled
  BY DEF Contains, Active
<1>2. rules[t] \in Rule /\ t \in Trigger  BY <1>1 DEF EngineIInv, EngineTypeOK
<1>3. w \in Seq(Byte) /\ k \in Nat /\ Len(w) = k + 1
  BY <1>1, KeepFacts DEF EngineIInv
<1>4. s \in Seq(Byte)  BY <1>2 DEF EngineIInv, EngineTypeOK
<1>5. tails[t] = Suffix(s, k)  BY <1>1 DEF EngineIInv, SettledTail
<1>6. rules[t].words = {w}  BY <1>1, <1>2, TriggerEngineAssumption
<1>7. seen'[t] = s \o data  BY <1>1, <1>2 DEF Feed, Rolling
<1>8. t \in fired' <=> Matches(rules[t], Hay(t, data))  BY DEF Feed
<1>9. Hay(t, data) = Suffix(s, k) \o data  BY <1>1, <1>5 DEF Hay, Rolling
<1>10. Matches(rules[t], Hay(t, data)) <=> Occurs(w, Hay(t, data))
  <2> DEFINE hay == Hay(t, data)
  <2> HIDE DEF hay
  <2>1. \A v : (CASE rules[t].type \in Rolling       -> Occurs(v, hay)
                  [] rules[t].type = "starts_with"   -> OccursAt(v, hay, 1)
                  [] rules[t].type = "ends_with"     ->
                         /\ Len(v) <= Len(hay)
                         /\ OccursAt(v, hay, Len(hay) - Len(v) + 1)
                  [] rules[t].type = "exact"         -> v = hay)
             = Occurs(v, hay)
    BY <1>1 DEF Rolling
  <2>2. Matches(rules[t], hay) <=> Occurs(w, hay)  BY <1>6, <2>1 DEF Matches
  <2> QED BY <2>2 DEF hay
<1>11. Occurs(w, Suffix(s, k) \o data) <=> EndsBeyond(w, s \o data, Len(s))
  <2> HIDE DEF w, k, s
  <2> QED BY <1>3, <1>4, StraddleExact
<1> QED BY <1>7, <1>8, <1>9, <1>10, <1>11

\* However a stream is cut into chunks and the rule list replaced, a contains
\* rule fires exactly in the feeds that complete an occurrence of its pattern:
\* feed() misses no match that straddles chunks and repeats none.
THEOREM MatchesAreExact == EngineSpec => ContainsExact
<1>1. EngineIInv /\ [EngineNext]_engineVars =>
        [stream' # stream =>
           \A t \in Active : Contains(t) /\ settled[t] =>
               (t \in fired' <=> EndsBeyond(rules[t].pat, seen'[t], Len(seen[t])))]_engineVars
  <2> SUFFICES ASSUME EngineIInv, [EngineNext]_engineVars, stream' # stream,
                      NEW t \in Active, Contains(t), settled[t]
               PROVE  t \in fired' <=> EndsBeyond(rules[t].pat, seen'[t], Len(seen[t]))
    OBVIOUS
  <2>1. PICK data \in Chunks : Feed(data)
    BY DEF EngineNext, SetTriggers, NewHistory, engineVars
  <2> QED BY <2>1, ChunkFacts, FeedIsExact
<1> QED BY <1>1, EngineInductive, PTL DEF EngineSpec, ContainsExact
=============================================================================
