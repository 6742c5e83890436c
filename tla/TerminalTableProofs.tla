-------------------------- MODULE TerminalTableProofs --------------------------
(***************************************************************************)
(* The terminal table for every cap, batch, filter, list of triggers and   *)
(* set of inputs.                                                          *)
(*                                                                         *)
(* Two invariants carry the proofs.  Rows relates each row to its record   *)
(* and to nothing else, so that a row's state survives a batch, the cap    *)
(* and a re-render; records that wait bear no tint yet.  Feed says that a  *)
(* number is in one of three places, once, and below the next number, and  *)
(* in which order as long as no resume has put records in front of older   *)
(* ones.  That the table is a RecordView follows from Feed.                *)
(***************************************************************************)
EXTENDS TerminalTable, SequenceTheorems, FiniteSetTheorems, TLAPS

Names == {r.name : r \in Rule} \cup {NoTrigger}

RecordType == [idx : Nat, direction : {in.direction : in \in Input},
               kind : {in.kind : in \in Input}, data : {in.data : in \in Input},
               trigger : Names]

RowType == [idx : Nat, cols : SUBSET AllColumns, trigger : Names,
            seq : BOOLEAN, amber : BOOLEAN, hidden : BOOLEAN]

Types ==
    /\ next_index \in Nat \ {0}
    /\ records \in Seq(RecordType) /\ pending \in Seq(RecordType) /\ buffer \in Seq(RecordType)
    /\ table \in Seq(RowType)
    /\ mode \in {"ascii", "MIXED"} /\ mixed_layers \in SUBSET AllColumns
    /\ rules \in RuleLists

\* Names whose triggers are all off.
SwitchedOff(list) == OffNames(list) \ OnNames(list)

\* A row is that of its record: it shows it, bears no name that is switched off,
\* has the mark of a sequence that it holds, and is hidden only for the filter.
RowOf(row, rec, list, seqs, f) ==
    /\ row.idx = rec.idx
    /\ row.trigger = rec.trigger
    /\ rec.kind # "data" => row.cols = AllColumns
    /\ row.trigger # NoTrigger => row.trigger \notin SwitchedOff(list) /\ IsRx(rec)
    /\ row.seq = SeqTint(rec, seqs)
    /\ row.hidden => Hidden(rec, f)

Untinted(s) == \A i \in DOMAIN s : s[i].trigger = NoTrigger

Rows ==
    /\ Len(table) = Len(records) /\ Len(records) <= MAX_ROWS
    /\ \A i \in DOMAIN table : RowOf(table[i], records[i], rules, seq_highlights, filter_text)
    /\ Len(table) < MAX_ROWS =>
          \A i \in DOMAIN table : table[i].hidden = Hidden(records[i], filter_text)
    /\ Untinted(pending) /\ Untinted(buffer)

FindBar ==
    /\ find_rows \in SUBSET Nat /\ IsFiniteSet(find_rows)
    /\ find_rows # {} => find_idx \in 0..Cardinality(find_rows) - 1

Ids(s) == {s[i].idx : i \in DOMAIN s}
Distinct(s) == \A i, j \in DOMAIN s : s[i].idx = s[j].idx => i = j
Rising(s) == \A i, j \in DOMAIN s : i < j => s[i].idx < s[j].idx
Before(s, t) == \A m \in Ids(s), n \in Ids(t) : m < n

Feed ==
    /\ Distinct(records) /\ Distinct(pending) /\ Distinct(buffer)
    /\ Ids(records) \cap Ids(pending) = {}
    /\ (Ids(records) \cup Ids(pending)) \cap Ids(buffer) = {}
    /\ \A n \in Ids(records) \cup Ids(pending) \cup Ids(buffer) : n < next_index
    /\ ~spliced =>
         /\ Rising(records) /\ Rising(pending) /\ Rising(buffer)
         /\ Before(records, pending) /\ Before(records, buffer) /\ Before(pending, buffer)
    /\ buffer # << >> => paused

TableIInv == Types /\ Rows /\ FindBar /\ Feed

-----------------------------------------------------------------------------
(* Numbers and sequences.                                                   *)

\* A set of naturals below a bound has a greatest one.
LEMMA GreatestOf ==
    ASSUME NEW n \in Nat, NEW S \in SUBSET (0..n), S # {}
    PROVE  Max(S) \in S /\ \A x \in S : x <= Max(S)
<1> DEFINE R == OpToRel(<, Nat)
           T == {n - x : x \in S}
<1>1. T \subseteq Nat /\ T # {}
  <2>1. ASSUME NEW x \in S PROVE n - x \in Nat  OBVIOUS
  <2> QED BY <2>1
<1>2. PICK t \in T : \A y \in T : <<y, t>> \notin R
  <2> HIDE DEF T
  <2> QED BY <1>1, NatLessThanWellFounded, WFMin
<1>3. ASSUME NEW y \in T PROVE ~(y < t)
  <2>1. y \in Nat /\ t \in Nat /\ <<y, t>> \notin R  BY <1>1, <1>2
  <2> HIDE DEF T
  <2> QED BY <2>1 DEF OpToRel
<1>4. PICK m \in S : t = n - m  BY <1>2
<1>5. ASSUME NEW x \in S PROVE m >= x
  <2>1. ~(n - x < n - m)  BY <1>3, <1>4
  <2> QED BY <2>1
<1> QED BY <1>4, <1>5 DEF Max

LEMMA GreaterOfTwo ==
    ASSUME NEW a \in Int, NEW b \in Int
    PROVE  /\ Max({a, b}) = IF a >= b THEN a ELSE b
           /\ Min({a, b}) = IF a <= b THEN a ELSE b
<1>1. Max({a, b}) = IF a >= b THEN a ELSE b
  <2> DEFINE c == IF a >= b THEN a ELSE b
  <2>1. c \in {a, b} /\ \A y \in {a, b} : c >= y  OBVIOUS
  <2>2. \A x \in {a, b} : (\A y \in {a, b} : x >= y) => x = c  OBVIOUS
  <2> QED BY <2>1, <2>2 DEF Max
<1>2. Min({a, b}) = IF a <= b THEN a ELSE b
  <2> DEFINE c == IF a <= b THEN a ELSE b
  <2>1. c \in {a, b} /\ \A y \in {a, b} : c <= y  OBVIOUS
  <2>2. \A x \in {a, b} : (\A y \in {a, b} : x <= y) => x = c  OBVIOUS
  <2> QED BY <2>1, <2>2 DEF Min
<1> QED BY <1>1, <1>2

\* A sequence made place by place.
LEMMA Placewise ==
    ASSUME NEW S, NEW n \in Nat, NEW t, t = [i \in 1..n |-> t[i]], \A i \in 1..n : t[i] \in S
    PROVE  t \in Seq(S) /\ Len(t) = n /\ DOMAIN t = 1..n
<1>1. t \in [1..n -> S]  OBVIOUS
<1> QED BY <1>1

LEMMA SeqFacts ==
    ASSUME NEW S, NEW s \in Seq(S)
    PROVE  Len(s) \in Nat /\ DOMAIN s = 1..Len(s) /\ \A i \in 1..Len(s) : s[i] \in S
BY LenProperties, ElementOfSeq

LEMMA ConcatFacts ==
    ASSUME NEW S, NEW s \in Seq(S), NEW t \in Seq(S)
    PROVE  /\ s \o t \in Seq(S) /\ Len(s \o t) = Len(s) + Len(t)
           /\ DOMAIN (s \o t) = 1..Len(s) + Len(t)
           /\ \A i \in 1..Len(s) + Len(t) :
                 (s \o t)[i] = IF i <= Len(s) THEN s[i] ELSE t[i - Len(s)]
<1>1. /\ s \o t \in Seq(S) /\ Len(s \o t) = Len(s) + Len(t)
      /\ \A i \in 1..Len(s) + Len(t) :
            (s \o t)[i] = IF i <= Len(s) THEN s[i] ELSE t[i - Len(s)]
  BY ConcatProperties
<1>2. DOMAIN (s \o t) = 1..Len(s \o t)  BY <1>1, LenProperties
<1> QED BY <1>1, <1>2

\* What is left of a sequence from place m + 1, and its first m places.
LEMMA SliceFacts ==
    ASSUME NEW S, NEW s \in Seq(S), NEW m \in Nat, m <= Len(s)
    PROVE  /\ SubSeq(s, m + 1, Len(s)) \in Seq(S)
           /\ Len(SubSeq(s, m + 1, Len(s))) = Len(s) - m
           /\ \A i \in 1..Len(s) - m : SubSeq(s, m + 1, Len(s))[i] = s[i + m]
           /\ SubSeq(s, 1, m) \in Seq(S)
           /\ Len(SubSeq(s, 1, m)) = m
           /\ \A i \in 1..m : SubSeq(s, 1, m)[i] = s[i]
<1>1. Len(s) \in Nat /\ \A i \in 1..Len(s) : s[i] \in S  BY SeqFacts
<1>2. /\ SubSeq(s, m + 1, Len(s)) \in Seq(S)
      /\ Len(SubSeq(s, m + 1, Len(s))) = IF m + 1 <= Len(s) THEN Len(s) - (m + 1) + 1 ELSE 0
      /\ \A i \in 1..Len(s) - (m + 1) + 1 : SubSeq(s, m + 1, Len(s))[i] = s[(m + 1) + i - 1]
  <2>1. \A i \in m + 1..Len(s) : s[i] \in S  BY <1>1
  <2>2. m + 1 \in Int /\ Len(s) \in Int  BY <1>1
  <2> QED BY <2>1, <2>2, SubSeqProperties
<1>3. /\ SubSeq(s, 1, m) \in Seq(S)
      /\ Len(SubSeq(s, 1, m)) = IF 1 <= m THEN m - 1 + 1 ELSE 0
      /\ \A i \in 1..m - 1 + 1 : SubSeq(s, 1, m)[i] = s[1 + i - 1]
  <2>1. \A i \in 1..m : s[i] \in S  BY <1>1
  <2> QED BY <2>1, SubSeqProperties
<1>4. /\ Len(SubSeq(s, m + 1, Len(s))) = Len(s) - m
      /\ \A i \in 1..Len(s) - m : SubSeq(s, m + 1, Len(s))[i] = s[i + m]
  <2>1. \A i \in 1..Len(s) - m : i \in 1..Len(s) - (m + 1) + 1 /\ (m + 1) + i - 1 = i + m
    BY <1>1
  <2> QED BY <1>1, <1>2, <2>1
<1>5. /\ Len(SubSeq(s, 1, m)) = m
      /\ \A i \in 1..m : SubSeq(s, 1, m)[i] = s[i]
  <2>1. \A i \in 1..m : i \in 1..m - 1 + 1 /\ 1 + i - 1 = i  OBVIOUS
  <2> QED BY <1>3, <2>1
<1> QED BY <1>2, <1>3, <1>4, <1>5

\* The cap takes as much from the top of the rows as of the records.
LEMMA CapFacts ==
    ASSUME NEW recs \in Seq(RecordType), NEW rows \in Seq(RowType),
           Len(recs) = Len(rows),
           NEW gone \in Nat, gone = IF Len(recs) > MAX_ROWS THEN Len(recs) - MAX_ROWS ELSE 0
    PROVE  LET c == EnforceCap(recs, rows) IN
           /\ c[1] \in Seq(RecordType) /\ c[2] \in Seq(RowType)
           /\ Len(c[1]) = Len(recs) - gone /\ Len(c[2]) = Len(recs) - gone
           /\ \A i \in 1..Len(recs) - gone : c[1][i] = recs[i + gone] /\ c[2][i] = rows[i + gone]
           /\ c[1] = SubSeq(recs, gone + 1, Len(recs))
<1>1. Len(recs) \in Nat /\ MAX_ROWS \in Nat \ {0}
  BY SeqFacts, TerminalTableAssumption
<1>2. CASE Len(recs) > MAX_ROWS
  <2>1. gone = Len(recs) - MAX_ROWS /\ gone \in Nat /\ gone <= Len(recs) /\ gone > 0
    BY <1>1, <1>2
  <2>2. EnforceCap(recs, rows) = <<SubSeq(recs, gone + 1, Len(recs)),
                                   SubSeq(rows, gone + 1, Len(rows))>>
    BY <2>1 DEF EnforceCap
  <2>3. /\ SubSeq(recs, gone + 1, Len(recs)) \in Seq(RecordType)
        /\ Len(SubSeq(recs, gone + 1, Len(recs))) = Len(recs) - gone
        /\ \A i \in 1..Len(recs) - gone : SubSeq(recs, gone + 1, Len(recs))[i] = recs[i + gone]
    BY <2>1, SliceFacts
  <2>4. /\ SubSeq(rows, gone + 1, Len(rows)) \in Seq(RowType)
        /\ Len(SubSeq(rows, gone + 1, Len(rows))) = Len(rows) - gone
        /\ \A i \in 1..Len(rows) - gone : SubSeq(rows, gone + 1, Len(rows))[i] = rows[i + gone]
    BY <2>1, SliceFacts, SMTT(20)
  <2> DEFINE a == SubSeq(recs, gone + 1, Len(recs))
             b == SubSeq(rows, gone + 1, Len(rows))
  <2>5. /\ a \in Seq(RecordType) /\ b \in Seq(RowType) /\ Len(a) = Len(recs) - gone /\ Len(b) = Len(recs) - gone
        /\ \A i \in 1..Len(recs) - gone : a[i] = recs[i + gone] /\ b[i] = rows[i + gone]
    BY <2>3, <2>4
  <2>6. EnforceCap(recs, rows) = <<a, b>>  BY <2>2
  <2> HIDE DEF a, b
  <2>7. LET c == EnforceCap(recs, rows) IN
        /\ c[1] \in Seq(RecordType) /\ c[2] \in Seq(RowType)
        /\ Len(c[1]) = Len(recs) - gone /\ Len(c[2]) = Len(recs) - gone
        /\ \A i \in 1..Len(recs) - gone : c[1][i] = recs[i + gone] /\ c[2][i] = rows[i + gone]
        /\ c[1] = a
    BY <2>5, <2>6
  <2> QED BY <2>7 DEF a
<1>3. CASE ~(Len(recs) > MAX_ROWS)
  <2>1. gone = 0 /\ EnforceCap(recs, rows) = <<recs, rows>>
    BY <1>1, <1>3 DEF EnforceCap
  <2>2. \A i \in 1..Len(recs) - 0 : i + 0 = i  BY <1>1
  <2>3. recs = SubSeq(recs, gone + 1, Len(recs))
    <3>1. SubSeq(recs, 1, Len(recs)) = recs  BY SubSeqFull
    <3> QED BY <2>1, <3>1
  <2> DEFINE a == SubSeq(recs, gone + 1, Len(recs))
  <2>4. a = recs  BY <2>3
  <2> HIDE DEF a
  <2>5. LET c == EnforceCap(recs, rows) IN
        /\ c[1] \in Seq(RecordType) /\ c[2] \in Seq(RowType)
        /\ Len(c[1]) = Len(recs) - gone /\ Len(c[2]) = Len(recs) - gone
        /\ \A i \in 1..Len(recs) - gone : c[1][i] = recs[i + gone] /\ c[2][i] = rows[i + gone]
        /\ c[1] = a
    BY <1>1, <2>1, <2>2, <2>4
  <2> QED BY <2>5 DEF a
<1> QED BY <1>2, <1>3

-----------------------------------------------------------------------------
(* Records and rows.                                                        *)

\* What a row must be is read off a record's direction, kind and data alone.
LEMMA SameRecord ==
    ASSUME NEW a, NEW b, a.direction = b.direction, a.kind = b.kind, a.data = b.data
    PROVE  /\ IsRx(a) = IsRx(b)
           /\ \A seqs : SeqTint(a, seqs) = SeqTint(b, seqs)
           /\ \A f : Hidden(a, f) = Hidden(b, f)
<1>1. IsRx(a) = IsRx(b)  BY DEF IsRx
<1>2. \A seqs : SeqTint(a, seqs) = SeqTint(b, seqs)  BY <1>1 DEF SeqTint, Hits
<1>3. \A f : Hidden(a, f) = Hidden(b, f)  BY DEF Hidden, MatchesFilter
<1> QED BY <1>1, <1>2, <1>3

\* A tint changes nothing of a record but its trigger.
LEMMA TintedRecord ==
    ASSUME NEW rec \in RecordType, NEW t \in Names
    PROVE  LET r == [rec EXCEPT !.trigger = t] IN
           /\ r \in RecordType /\ r.trigger = t /\ r.idx = rec.idx
           /\ r.direction = rec.direction /\ r.kind = rec.kind /\ r.data = rec.data
BY DEF RecordType

LEMMA TintedRow ==
    ASSUME NEW row \in RowType, NEW t \in Names
    PROVE  LET r == [row EXCEPT !.trigger = t] IN
           /\ r \in RowType /\ r.trigger = t /\ r.idx = row.idx
           /\ r.cols = row.cols /\ r.seq = row.seq /\ r.hidden = row.hidden
BY DEF RowType

\* The same of records and of rows, for every sequence at once.
LEMMA RecordsJoined ==
    \A s, t \in Seq(RecordType) :
        /\ s \o t \in Seq(RecordType) /\ Len(s \o t) = Len(s) + Len(t)
        /\ \A i \in 1..Len(s) + Len(t) :
              (s \o t)[i] = IF i <= Len(s) THEN s[i] ELSE t[i - Len(s)]
BY ConcatFacts

LEMMA RowsJoined ==
    \A s, t \in Seq(RowType) :
        /\ s \o t \in Seq(RowType) /\ Len(s \o t) = Len(s) + Len(t)
        /\ \A i \in 1..Len(s) + Len(t) :
              (s \o t)[i] = IF i <= Len(s) THEN s[i] ELSE t[i - Len(s)]
BY ConcatFacts

LEMMA MarkedRow ==
    ASSUME NEW row \in RowType, NEW v \in BOOLEAN
    PROVE  LET r == [row EXCEPT !.seq = v] IN
           /\ r \in RowType /\ r.seq = v /\ r.idx = row.idx
           /\ r.cols = row.cols /\ r.trigger = row.trigger /\ r.hidden = row.hidden
BY DEF RowType

LEMMA AmberRow ==
    ASSUME NEW row \in RowType, NEW v \in BOOLEAN
    PROVE  LET r == [row EXCEPT !.amber = v] IN
           /\ r \in RowType /\ r.seq = row.seq /\ r.idx = row.idx
           /\ r.cols = row.cols /\ r.trigger = row.trigger /\ r.hidden = row.hidden
BY DEF RowType

LEMMA HiddenRow ==
    ASSUME NEW row \in RowType, NEW v \in BOOLEAN
    PROVE  LET r == [row EXCEPT !.hidden = v] IN
           /\ r \in RowType /\ r.seq = row.seq /\ r.idx = row.idx
           /\ r.cols = row.cols /\ r.trigger = row.trigger /\ r.hidden = v
BY DEF RowType

LEMMA FreshRow ==
    ASSUME Types, NEW m \in {"ascii", "MIXED"}, NEW rec \in RecordType
    PROVE  /\ Row(m, rec) \in RowType /\ Row(m, rec).idx = rec.idx
           /\ Row(m, rec).trigger = NoTrigger /\ Row(m, rec).hidden = FALSE
           /\ rec.kind # "data" => Row(m, rec).cols = AllColumns
<1>1. Rendered(m, rec) \in SUBSET AllColumns
  BY DEF Types, Rendered, Visible, AllColumns
<1>2. rec.idx \in Nat  BY DEF RecordType
<1> QED BY <1>1, <1>2 DEF Row, RowType, Rendered, Names

\* The blank filter hides nothing.
LEMMA BlankFilter == \A rec : Hidden(rec, NoFilter) = FALSE
BY DEF Hidden, MatchesFilter, NoFilter

LEMMA BooleanFacts ==
    /\ \A rec, seqs : SeqTint(rec, seqs) \in BOOLEAN
    /\ \A rec, f : Hidden(rec, f) \in BOOLEAN
    /\ \A pattern, rec : Hits(pattern, rec) \in BOOLEAN
BY DEF SeqTint, Hidden, Hits

\* A filter changes whether rows are hidden, on the rows it is applied to.
LEMMA FilteredFacts ==
    ASSUME NEW n \in Nat, NEW rows \in Seq(RowType), Len(rows) = n, NEW recs, NEW f, NEW only
    PROVE  LET r == Filtered(rows, recs, f, only) IN
           /\ r \in Seq(RowType) /\ Len(r) = n /\ DOMAIN r = 1..n
           /\ \A i \in 1..n :
                /\ r[i].seq = rows[i].seq /\ r[i].idx = rows[i].idx
                /\ r[i].cols = rows[i].cols /\ r[i].trigger = rows[i].trigger
                /\ f # NoFilter /\ i \in only => r[i].hidden = Hidden(recs[i], f)
                /\ f = NoFilter \/ i \notin only => r[i].hidden = rows[i].hidden
<1> DEFINE r == Filtered(rows, recs, f, only)
<1>1. DOMAIN rows = 1..n /\ \A i \in 1..n : rows[i] \in RowType  BY SeqFacts
<1>2. r = [i \in 1..n |->
              IF f # NoFilter /\ i \in only THEN [rows[i] EXCEPT !.hidden = Hidden(recs[i], f)]
              ELSE rows[i]]
  BY <1>1 DEF Filtered
<1> HIDE DEF r
<1>3. ASSUME NEW i \in 1..n
      PROVE  /\ r[i] \in RowType
             /\ r[i].seq = rows[i].seq /\ r[i].idx = rows[i].idx
             /\ r[i].cols = rows[i].cols /\ r[i].trigger = rows[i].trigger
             /\ f # NoFilter /\ i \in only => r[i].hidden = Hidden(recs[i], f)
             /\ f = NoFilter \/ i \notin only => r[i].hidden = rows[i].hidden
  <2>1. CASE f # NoFilter /\ i \in only
    <3> DEFINE v == Hidden(recs[i], f)
    <3>1. v \in BOOLEAN  BY BooleanFacts
    <3>2. r[i] = [rows[i] EXCEPT !.hidden = v]  BY <1>2, <2>1
    <3> HIDE DEF v
    <3>3. /\ r[i] \in RowType /\ r[i].hidden = v
          /\ r[i].seq = rows[i].seq /\ r[i].idx = rows[i].idx
          /\ r[i].cols = rows[i].cols /\ r[i].trigger = rows[i].trigger
      BY <1>1, <3>1, <3>2, HiddenRow
    <3> QED BY <2>1, <3>3 DEF v
  <2>2. CASE ~(f # NoFilter /\ i \in only)
    <3>1. r[i] = rows[i]  BY <1>2, <2>2
    <3> QED BY <1>1, <2>2, <3>1
  <2> QED BY <2>1, <2>2
<1>4. r = [i \in 1..n |-> r[i]]  BY <1>2
<1>5. r \in Seq(RowType) /\ Len(r) = n /\ DOMAIN r = 1..n
  BY <1>3, <1>4, Placewise
<1> QED BY <1>3, <1>5 DEF r

\* A full rendering gives each record its row, and hides exactly what the
\* filter says.
LEMMA RerenderedFacts ==
    ASSUME Types, NEW m \in {"ascii", "MIXED"}, NEW seqs
    PROVE  LET r == Rerendered(m, seqs) IN
           /\ r \in Seq(RowType) /\ Len(r) = Len(records) /\ DOMAIN r = 1..Len(records)
           /\ \A i \in 1..Len(records) :
                /\ r[i].idx = records[i].idx /\ r[i].trigger = records[i].trigger
                /\ records[i].kind # "data" => r[i].cols = AllColumns
                /\ r[i].seq = SeqTint(records[i], seqs)
                /\ r[i].hidden = Hidden(records[i], filter_text)
<1> DEFINE n == Len(records)
           rows == [i \in DOMAIN records |->
                      [Row(m, records[i]) EXCEPT !.trigger = records[i].trigger,
                                              !.seq = SeqTint(records[i], seqs)]]
           r == Rerendered(m, seqs)
<1>1. n \in Nat /\ DOMAIN records = 1..n /\ \A i \in 1..n : records[i] \in RecordType
  BY SeqFacts DEF Types
<1>2. ASSUME NEW i \in 1..n
      PROVE  /\ rows[i] \in RowType
             /\ rows[i].idx = records[i].idx /\ rows[i].trigger = records[i].trigger
             /\ records[i].kind # "data" => rows[i].cols = AllColumns
             /\ rows[i].seq = SeqTint(records[i], seqs)
             /\ rows[i].hidden = FALSE
  <2> DEFINE rec == records[i]
             v == SeqTint(rec, seqs)
             row == Row(m, rec)
             one == [row EXCEPT !.trigger = rec.trigger]
  <2>1. rec \in RecordType /\ rec.trigger \in Names /\ v \in BOOLEAN
    BY <1>1, BooleanFacts DEF RecordType
  <2>2. rows[i] = [one EXCEPT !.seq = v]  BY <1>1
  <2> HIDE DEF rows, v, rec
  <2>3. /\ one \in RowType /\ one.idx = rec.idx /\ one.trigger = rec.trigger
        /\ one.hidden = FALSE /\ (rec.kind # "data" => one.cols = AllColumns)
    <3>1. /\ row \in RowType /\ row.idx = rec.idx /\ row.hidden = FALSE
          /\ rec.kind # "data" => row.cols = AllColumns
      BY <2>1, FreshRow
    <3> HIDE DEF row
    <3> QED BY <2>1, <3>1, TintedRow
  <2> HIDE DEF one
  <2>4. /\ rows[i] \in RowType /\ rows[i].seq = v /\ rows[i].idx = one.idx
        /\ rows[i].cols = one.cols /\ rows[i].trigger = one.trigger
        /\ rows[i].hidden = one.hidden
    BY <2>1, <2>2, <2>3, MarkedRow
  <2> QED BY <2>3, <2>4 DEF v, rec
<1>3. rows = [i \in 1..n |-> rows[i]]  BY <1>1
<1>4. r = Filtered(rows, records, filter_text, DOMAIN records)  BY DEF Rerendered
<1> HIDE DEF rows, r
<1>5. rows \in Seq(RowType) /\ Len(rows) = n  BY <1>1, <1>2, <1>3, Placewise
<1>6. /\ r \in Seq(RowType) /\ Len(r) = n /\ DOMAIN r = 1..n
      /\ \A i \in 1..n :
           /\ r[i].seq = rows[i].seq /\ r[i].idx = rows[i].idx
           /\ r[i].cols = rows[i].cols /\ r[i].trigger = rows[i].trigger
           /\ filter_text # NoFilter => r[i].hidden = Hidden(records[i], filter_text)
           /\ filter_text = NoFilter => r[i].hidden = rows[i].hidden
  BY <1>1, <1>4, <1>5, FilteredFacts
<1>7. \A i \in 1..n : r[i].hidden = Hidden(records[i], filter_text)
  <2>1. CASE filter_text = NoFilter  BY <1>2, <1>6, <2>1, BlankFilter
  <2>2. CASE filter_text # NoFilter  BY <1>6, <2>2
  <2> QED BY <2>1, <2>2
<1> QED BY <1>2, <1>6, <1>7 DEF r

-----------------------------------------------------------------------------
(* The numbers in a sequence of records.                                    *)

LEMMA IdsAreNumbers ==
    ASSUME NEW s \in Seq(RecordType)
    PROVE  Ids(s) \subseteq Nat
<1>1. DOMAIN s = 1..Len(s) /\ \A i \in 1..Len(s) : s[i] \in RecordType  BY SeqFacts
<1> QED BY <1>1 DEF Ids, RecordType

\* A sequence whose records have the same numbers.
LEMMA SameIds ==
    ASSUME NEW s \in Seq(RecordType), NEW t \in Seq(RecordType), Len(t) = Len(s),
           \A i \in 1..Len(s) : t[i].idx = s[i].idx
    PROVE  /\ Ids(t) = Ids(s)
           /\ Distinct(s) => Distinct(t)
           /\ Rising(s) => Rising(t)
<1>1. DOMAIN s = 1..Len(s) /\ DOMAIN t = 1..Len(s)  BY SeqFacts
<1> QED BY <1>1 DEF Ids, Distinct, Rising

\* A later record at the end.
LEMMA AppendIds ==
    ASSUME NEW s \in Seq(RecordType), NEW r \in RecordType, \A n \in Ids(s) : n < r.idx
    PROVE  /\ Append(s, r) \in Seq(RecordType)
           /\ Ids(Append(s, r)) = Ids(s) \cup {r.idx}
           /\ Distinct(s) => Distinct(Append(s, r))
           /\ Rising(s) => Rising(Append(s, r))
           /\ Untinted(s) /\ r.trigger = NoTrigger => Untinted(Append(s, r))
<1> DEFINE t == Append(s, r)
<1>1. /\ t \in Seq(RecordType) /\ Len(s) \in Nat /\ DOMAIN s = 1..Len(s)
      /\ DOMAIN t = 1..Len(s) + 1
      /\ \A i \in 1..Len(s) : t[i] = s[i]
      /\ t[Len(s) + 1] = r
  BY AppendProperties, SeqFacts
<1>2. \A i \in 1..Len(s) : s[i].idx < r.idx /\ s[i].idx \in Nat
  <2>1. \A i \in 1..Len(s) : s[i].idx \in Ids(s)  BY <1>1 DEF Ids
  <2>2. \A i \in 1..Len(s) : s[i] \in RecordType  BY SeqFacts
  <2> QED BY <2>1, <2>2 DEF RecordType
<1>3. r.idx \in Nat  BY DEF RecordType
<1> HIDE DEF t
<1>4. \A i \in 1..Len(s) + 1 : i \in 1..Len(s) \/ i = Len(s) + 1  BY <1>1
<1>5. \A i \in 1..Len(s) : i \in 1..Len(s) + 1  BY <1>1
<1>6. Len(s) + 1 \in 1..Len(s) + 1  BY <1>1
<1>7. Ids(t) = Ids(s) \cup {r.idx}
  <2>1. ASSUME NEW n \in Ids(t) PROVE n \in Ids(s) \cup {r.idx}
    <3>1. PICK i \in 1..Len(s) + 1 : n = t[i].idx  BY <1>1 DEF Ids
    <3> QED BY <1>1, <1>4, <3>1 DEF Ids
  <2>2. ASSUME NEW n \in Ids(s) PROVE n \in Ids(t)
    <3>1. PICK i \in 1..Len(s) : n = s[i].idx  BY <1>1 DEF Ids
    <3> QED BY <1>1, <1>5, <3>1 DEF Ids
  <2>3. r.idx \in Ids(t)  BY <1>1, <1>6 DEF Ids
  <2> QED BY <2>1, <2>2, <2>3
<1>8. ASSUME Distinct(s), NEW i \in 1..Len(s) + 1, NEW j \in 1..Len(s) + 1, t[i].idx = t[j].idx
      PROVE  i = j
  <2>1. CASE i \in 1..Len(s) /\ j \in 1..Len(s)  BY <1>1, <1>8, <2>1 DEF Distinct
  <2>2. CASE ~(i \in 1..Len(s) /\ j \in 1..Len(s))  BY <1>1, <1>2, <1>3, <1>4, <1>8, <2>2
  <2> QED BY <2>1, <2>2
<1>9. ASSUME Rising(s), NEW i \in 1..Len(s) + 1, NEW j \in 1..Len(s) + 1, i < j
      PROVE  t[i].idx < t[j].idx
  <2>1. i \in 1..Len(s)  BY <1>1, <1>9
  <2>2. CASE j \in 1..Len(s)  BY <1>1, <1>9, <2>1, <2>2 DEF Rising
  <2>3. CASE j = Len(s) + 1  BY <1>1, <1>2, <2>1, <2>3
  <2> QED BY <1>4, <2>2, <2>3
<1>10. Untinted(s) /\ r.trigger = NoTrigger => Untinted(t)
  BY <1>1, <1>4 DEF Untinted
<1> QED BY <1>1, <1>7, <1>8, <1>9, <1>10 DEF t, Distinct, Rising

\* Two sequences, one after the other.
LEMMA ConcatIds ==
    ASSUME NEW s \in Seq(RecordType), NEW t \in Seq(RecordType)
    PROVE  /\ s \o t \in Seq(RecordType)
           /\ Ids(s \o t) = Ids(s) \cup Ids(t)
           /\ Distinct(s) /\ Distinct(t) /\ Ids(s) \cap Ids(t) = {} => Distinct(s \o t)
           /\ Rising(s) /\ Rising(t) /\ Before(s, t) => Rising(s \o t)
           /\ Untinted(s) /\ Untinted(t) => Untinted(s \o t)
<1> DEFINE u == s \o t
           m == Len(s)
           n == Len(t)
<1>1. /\ u \in Seq(RecordType) /\ m \in Nat /\ n \in Nat
      /\ DOMAIN s = 1..m /\ DOMAIN t = 1..n /\ DOMAIN u = 1..m + n
      /\ \A i \in 1..m + n : u[i] = IF i <= m THEN s[i] ELSE t[i - m]
  BY ConcatFacts, SeqFacts
<1> HIDE DEF u, m, n
<1>2. \A i \in 1..m + n : (i \in 1..m /\ u[i] = s[i]) \/ (i - m \in 1..n /\ u[i] = t[i - m])
  BY <1>1
<1>3. /\ \A i \in 1..m : i \in 1..m + n /\ u[i] = s[i]
      /\ \A j \in 1..n : m + j \in 1..m + n /\ u[m + j] = t[j]
  <2>1. \A i \in 1..m : i \in 1..m + n /\ i <= m  BY <1>1
  <2>2. \A j \in 1..n : m + j \in 1..m + n /\ ~(m + j <= m) /\ (m + j) - m = j  BY <1>1
  <2> QED BY <1>1, <2>1, <2>2
<1>4. Ids(u) = Ids(s) \cup Ids(t)
  <2>1. ASSUME NEW k \in Ids(u) PROVE k \in Ids(s) \cup Ids(t)
    <3>1. PICK i \in 1..m + n : k = u[i].idx  BY <1>1 DEF Ids
    <3> QED BY <1>1, <1>2, <3>1 DEF Ids
  <2>2. ASSUME NEW k \in Ids(s) PROVE k \in Ids(u)
    <3>1. PICK i \in 1..m : k = s[i].idx  BY <1>1 DEF Ids
    <3> QED BY <1>1, <1>3, <3>1 DEF Ids
  <2>3. ASSUME NEW k \in Ids(t) PROVE k \in Ids(u)
    <3>1. PICK j \in 1..n : k = t[j].idx  BY <1>1 DEF Ids
    <3> QED BY <1>1, <1>3, <3>1 DEF Ids
  <2> QED BY <2>1, <2>2, <2>3
<1>5. /\ \A i \in 1..m : s[i].idx \in Ids(s)
      /\ \A j \in 1..n : t[j].idx \in Ids(t)
  BY <1>1 DEF Ids
<1>6. ASSUME Distinct(s), Distinct(t), Ids(s) \cap Ids(t) = {},
             NEW i \in 1..m + n, NEW j \in 1..m + n, u[i].idx = u[j].idx
      PROVE  i = j
  <2>1. CASE i \in 1..m /\ j \in 1..m  BY <1>1, <1>3, <1>6, <2>1 DEF Distinct
  <2>2. CASE i \notin 1..m /\ j \notin 1..m
    <3>1. i - m \in 1..n /\ j - m \in 1..n /\ t[i - m].idx = t[j - m].idx
      BY <1>2, <1>6, <2>2
    <3>2. i - m = j - m  BY <1>1, <1>6, <3>1 DEF Distinct
    <3> QED BY <1>1, <3>2
  <2>3. CASE i \in 1..m /\ j \notin 1..m
    <3>1. u[i].idx \in Ids(s) /\ u[j].idx \in Ids(t)  BY <1>2, <1>3, <1>5, <2>3
    <3> QED BY <1>6, <3>1
  <2>4. CASE i \notin 1..m /\ j \in 1..m
    <3>1. u[j].idx \in Ids(s) /\ u[i].idx \in Ids(t)  BY <1>2, <1>3, <1>5, <2>4
    <3> QED BY <1>6, <3>1
  <2> QED BY <2>1, <2>2, <2>3, <2>4
<1>7. ASSUME Rising(s), Rising(t), Before(s, t), NEW i \in 1..m + n, NEW j \in 1..m + n, i < j
      PROVE  u[i].idx < u[j].idx
  <2>1. CASE j \in 1..m
    <3>1. i \in 1..m  BY <1>1, <1>7, <2>1
    <3> QED BY <1>1, <1>3, <1>7, <2>1, <3>1 DEF Rising
  <2>2. CASE i \notin 1..m
    <3>1. j \notin 1..m  BY <1>1, <1>7, <2>2
    <3>2. i - m \in 1..n /\ j - m \in 1..n /\ u[i] = t[i - m] /\ u[j] = t[j - m]
      BY <1>2, <2>2, <3>1
    <3>3. i - m < j - m  BY <1>1, <1>7
    <3> QED BY <1>1, <1>7, <3>2, <3>3 DEF Rising
  <2>3. CASE i \in 1..m /\ j \notin 1..m
    <3>1. u[i].idx \in Ids(s) /\ u[j].idx \in Ids(t)  BY <1>2, <1>3, <1>5, <2>3
    <3> QED BY <1>7, <3>1 DEF Before
  <2> QED BY <2>1, <2>2, <2>3
<1>8. Untinted(s) /\ Untinted(t) => Untinted(u)
  BY <1>1, <1>2 DEF Untinted
<1> QED BY <1>1, <1>4, <1>6, <1>7, <1>8 DEF u, Distinct, Rising

\* The first m of a sequence, and the others.
LEMMA SplitIds ==
    ASSUME NEW s \in Seq(RecordType), NEW m \in Nat, m <= Len(s)
    PROVE  LET a == SubSeq(s, 1, m)
               b == SubSeq(s, m + 1, Len(s))
           IN /\ a \in Seq(RecordType) /\ b \in Seq(RecordType)
              /\ Len(a) = m /\ Len(b) = Len(s) - m
              /\ Ids(s) = Ids(a) \cup Ids(b)
              /\ Distinct(s) => Distinct(a) /\ Distinct(b) /\ Ids(a) \cap Ids(b) = {}
              /\ Rising(s) => Rising(a) /\ Rising(b) /\ Before(a, b)
              /\ Untinted(s) => Untinted(a) /\ Untinted(b)
<1> DEFINE a == SubSeq(s, 1, m)
           b == SubSeq(s, m + 1, Len(s))
           n == Len(s) - m
<1>1. /\ a \in Seq(RecordType) /\ b \in Seq(RecordType)
      /\ Len(a) = m /\ Len(b) = n
      /\ \A i \in 1..m : a[i] = s[i]
      /\ \A i \in 1..n : b[i] = s[i + m]
  BY SliceFacts
<1>2. Len(s) \in Nat /\ DOMAIN s = 1..Len(s)  BY SeqFacts
<1> HIDE DEF a, b
<1>3. DOMAIN a = 1..m /\ DOMAIN b = 1..n  BY <1>1, SeqFacts
<1>4. /\ \A i \in 1..m : i \in DOMAIN s
      /\ \A i \in 1..n : i + m \in DOMAIN s
      /\ \A i \in DOMAIN s : i \in 1..m \/ (i - m \in 1..n /\ (i - m) + m = i)
      /\ \A i \in 1..m, j \in 1..n : i < j + m
  BY <1>2
<1>5. Ids(s) = Ids(a) \cup Ids(b)
  <2>1. ASSUME NEW k \in Ids(s) PROVE k \in Ids(a) \cup Ids(b)
    <3>1. PICK i \in DOMAIN s : k = s[i].idx  BY DEF Ids
    <3>2. CASE i \in 1..m  BY <1>1, <1>3, <3>1, <3>2 DEF Ids
    <3>3. CASE i - m \in 1..n /\ (i - m) + m = i
      <4>1. b[i - m] = s[i]  BY <1>1, <3>3
      <4> QED BY <1>3, <3>1, <3>3, <4>1 DEF Ids
    <3> QED BY <1>4, <3>2, <3>3
  <2>2. ASSUME NEW k \in Ids(a) PROVE k \in Ids(s)
    <3>1. PICK i \in 1..m : k = a[i].idx  BY <1>3 DEF Ids
    <3> QED BY <1>1, <1>4, <3>1 DEF Ids
  <2>3. ASSUME NEW k \in Ids(b) PROVE k \in Ids(s)
    <3>1. PICK i \in 1..n : k = b[i].idx  BY <1>3 DEF Ids
    <3> QED BY <1>1, <1>4, <3>1 DEF Ids
  <2> QED BY <2>1, <2>2, <2>3
<1>6. ASSUME Distinct(s) PROVE Distinct(a) /\ Distinct(b) /\ Ids(a) \cap Ids(b) = {}
  <2>1. \A i, j \in 1..m : a[i].idx = a[j].idx => i = j
    <3>1. ASSUME NEW i \in 1..m, NEW j \in 1..m, a[i].idx = a[j].idx PROVE i = j
      <4>1. s[i].idx = s[j].idx /\ i \in DOMAIN s /\ j \in DOMAIN s  BY <1>1, <1>4, <3>1
      <4> QED BY <1>6, <4>1 DEF Distinct
    <3> QED BY <3>1
  <2>2. \A i, j \in 1..n : b[i].idx = b[j].idx => i = j
    <3>1. ASSUME NEW i \in 1..n, NEW j \in 1..n, b[i].idx = b[j].idx PROVE i = j
      <4>1. s[i + m].idx = s[j + m].idx /\ i + m \in DOMAIN s /\ j + m \in DOMAIN s
        BY <1>1, <1>4, <3>1
      <4>2. i + m = j + m  BY <1>6, <4>1 DEF Distinct
      <4> QED BY <4>2
    <3> QED BY <3>1
  <2>3. \A i \in 1..m, j \in 1..n : a[i].idx # b[j].idx
    <3>1. ASSUME NEW i \in 1..m, NEW j \in 1..n, a[i].idx = b[j].idx PROVE FALSE
      <4>1. s[i].idx = s[j + m].idx /\ i \in DOMAIN s /\ j + m \in DOMAIN s
        BY <1>1, <1>4, <3>1
      <4>2. i = j + m  BY <1>6, <4>1 DEF Distinct
      <4> QED BY <4>2
    <3> QED BY <3>1
  <2> QED BY <1>3, <2>1, <2>2, <2>3 DEF Distinct, Ids
<1>7. ASSUME Rising(s) PROVE Rising(a) /\ Rising(b) /\ Before(a, b)
  <2>1. \A i, j \in 1..m : i < j => a[i].idx < a[j].idx  BY <1>1, <1>4, <1>7 DEF Rising
  <2>2. \A i, j \in 1..n : i < j => b[i].idx < b[j].idx
    <3>1. ASSUME NEW i \in 1..n, NEW j \in 1..n, i < j PROVE b[i].idx < b[j].idx
      <4>1. i + m < j + m  BY <3>1
      <4>2. i + m \in DOMAIN s /\ j + m \in DOMAIN s  BY <1>4
      <4>3. s[i + m].idx < s[j + m].idx  BY <1>7, <4>1, <4>2 DEF Rising
      <4> QED BY <1>1, <4>3
    <3> QED BY <3>1
  <2>3. \A i \in 1..m, j \in 1..n : a[i].idx < b[j].idx
    <3>1. ASSUME NEW i \in 1..m, NEW j \in 1..n PROVE a[i].idx < b[j].idx
      <4>1. i < j + m /\ i \in DOMAIN s /\ j + m \in DOMAIN s  BY <1>4
      <4>2. s[i].idx < s[j + m].idx  BY <1>7, <4>1 DEF Rising
      <4> QED BY <1>1, <4>2
    <3> QED BY <3>1
  <2> QED BY <1>3, <2>1, <2>2, <2>3 DEF Rising, Before, Ids
<1>8. ASSUME Untinted(s) PROVE Untinted(a) /\ Untinted(b)
  <2>1. \A i \in 1..m : s[i].trigger = NoTrigger  BY <1>4, <1>8 DEF Untinted
  <2>2. \A i \in 1..n : s[i + m].trigger = NoTrigger  BY <1>4, <1>8 DEF Untinted
  <2>3. \A i \in 1..m : a[i].trigger = NoTrigger  BY <1>1, <2>1
  <2>4. \A i \in 1..n : b[i].trigger = NoTrigger  BY <1>1, <2>2
  <2> QED BY <1>3, <2>3, <2>4 DEF Untinted
<1> QED BY <1>1, <1>5, <1>6, <1>7, <1>8 DEF a, b

\* What is left when the front of a sequence goes.
LEMMA RestIds ==
    \A s \in Seq(RecordType), m \in Nat : m <= Len(s) =>
        /\ Ids(SubSeq(s, m + 1, Len(s))) \subseteq Ids(s)
        /\ Distinct(s) => Distinct(SubSeq(s, m + 1, Len(s)))
        /\ Rising(s) => Rising(SubSeq(s, m + 1, Len(s)))
<1> TAKE s \in Seq(RecordType), m \in Nat
<1> HAVE m <= Len(s)
<1> DEFINE a == SubSeq(s, 1, m)
           b == SubSeq(s, m + 1, Len(s))
<1>1. /\ Ids(s) = Ids(a) \cup Ids(b)
      /\ Distinct(s) => Distinct(b)
      /\ Rising(s) => Rising(b)
  BY SplitIds
<1> QED BY <1>1

-----------------------------------------------------------------------------
(* Steps of the live feed.                                                  *)

\* A tint on some rows and records leaves the rest of both as it was.
LEMMA TintFacts ==
    ASSUME Types, Rows, NEW tintOf, Tint(tintOf),
           \A i \in 1..Len(records) : tintOf[i] \in Names
    PROVE  /\ records' \in Seq(RecordType) /\ Len(records') = Len(records)
           /\ table' \in Seq(RowType) /\ Len(table') = Len(records)
           /\ \A i \in 1..Len(records) :
                /\ records'[i].idx = records[i].idx /\ records'[i].kind = records[i].kind
                /\ records'[i].direction = records[i].direction
                /\ records'[i].data = records[i].data
                /\ records'[i].trigger = tintOf[i] /\ table'[i].trigger = tintOf[i]
                /\ table'[i].idx = table[i].idx /\ table'[i].cols = table[i].cols
                /\ table'[i].seq = table[i].seq /\ table'[i].hidden = table[i].hidden
<1> DEFINE n == Len(records)
<1>1. /\ n \in Nat /\ DOMAIN records = 1..n /\ DOMAIN table = 1..n
      /\ \A i \in 1..n : records[i] \in RecordType /\ table[i] \in RowType
  BY SeqFacts DEF Types, Rows
<1>2. /\ records' = [i \in 1..n |-> [records[i] EXCEPT !.trigger = tintOf[i]]]
      /\ table' = [i \in 1..n |-> [table[i] EXCEPT !.trigger = tintOf[i]]]
  BY <1>1 DEF Tint
<1>3. ASSUME NEW i \in 1..n
      PROVE  /\ records'[i] \in RecordType
             /\ records'[i].idx = records[i].idx /\ records'[i].kind = records[i].kind
             /\ records'[i].direction = records[i].direction
             /\ records'[i].data = records[i].data /\ records'[i].trigger = tintOf[i]
  <2>1. records'[i] = [records[i] EXCEPT !.trigger = tintOf[i]]  BY <1>2
  <2>2. records[i] \in RecordType /\ tintOf[i] \in Names  BY <1>1
  <2> QED BY <2>1, <2>2, TintedRecord
<1>4. ASSUME NEW i \in 1..n
      PROVE  /\ table'[i] \in RowType
             /\ table'[i].idx = table[i].idx /\ table'[i].cols = table[i].cols
             /\ table'[i].seq = table[i].seq /\ table'[i].hidden = table[i].hidden
             /\ table'[i].trigger = tintOf[i]
  <2>1. table'[i] = [table[i] EXCEPT !.trigger = tintOf[i]]  BY <1>2
  <2>2. table[i] \in RowType /\ tintOf[i] \in Names  BY <1>1
  <2> QED BY <2>1, <2>2, TintedRow
<1>5. /\ records' = [i \in 1..n |-> records'[i]]
      /\ table' = [i \in 1..n |-> table'[i]]
  BY <1>2
<1>6. records' \in Seq(RecordType) /\ Len(records') = n  BY <1>1, <1>3, <1>5, Placewise
<1>7. table' \in Seq(RowType) /\ Len(table') = n  BY <1>1, <1>4, <1>5, Placewise
<1> QED BY <1>3, <1>4, <1>6, <1>7

\* Rows that differ from those of before in their tints only, each of which is
\* that of the record and true.
LEMMA TintKeepsRows ==
    ASSUME Types, Rows, NEW tintOf, Tint(tintOf),
           \A i \in 1..Len(records) :
              /\ tintOf[i] \in Names
              /\ tintOf[i] # NoTrigger => tintOf[i] \notin SwitchedOff(rules') /\ IsRx(records[i]),
           UNCHANGED <<filter_text, seq_highlights>>, Untinted(pending'), Untinted(buffer')
    PROVE  Rows'
<1> DEFINE n == Len(records)
<1>1. /\ records' \in Seq(RecordType) /\ Len(records') = n
      /\ table' \in Seq(RowType) /\ Len(table') = n
      /\ \A i \in 1..n :
                /\ records'[i].idx = records[i].idx /\ records'[i].kind = records[i].kind
                /\ records'[i].direction = records[i].direction
                /\ records'[i].data = records[i].data
                /\ records'[i].trigger = tintOf[i] /\ table'[i].trigger = tintOf[i]
                /\ table'[i].idx = table[i].idx /\ table'[i].cols = table[i].cols
                /\ table'[i].seq = table[i].seq /\ table'[i].hidden = table[i].hidden
  BY TintFacts
<1>2. DOMAIN table' = 1..n /\ DOMAIN table = 1..n /\ Len(table) = n /\ n <= MAX_ROWS
  BY <1>1, SeqFacts DEF Types, Rows
<1> HIDE DEF n
<1>3. ASSUME NEW i \in 1..n
      PROVE  /\ IsRx(records'[i]) = IsRx(records[i])
             /\ SeqTint(records'[i], seq_highlights) = SeqTint(records[i], seq_highlights)
             /\ Hidden(records'[i], filter_text) = Hidden(records[i], filter_text)
  BY <1>1, SameRecord
<1>4. ASSUME NEW i \in 1..n
      PROVE  RowOf(table'[i], records'[i], rules', seq_highlights, filter_text)
  <2>1. RowOf(table[i], records[i], rules, seq_highlights, filter_text)
    BY <1>2 DEF Rows
  <2>2. tintOf[i] # NoTrigger => tintOf[i] \notin SwitchedOff(rules') /\ IsRx(records[i])  BY DEF n
  <2> QED BY <1>1, <1>3, <2>1, <2>2 DEF RowOf
<1>5. ASSUME Len(table') < MAX_ROWS, NEW i \in 1..n
      PROVE  table'[i].hidden = Hidden(records'[i], filter_text)
  <2>1. table[i].hidden = Hidden(records[i], filter_text)  BY <1>1, <1>2, <1>5 DEF Rows
  <2> QED BY <1>1, <1>3, <2>1
<1> QED BY <1>1, <1>2, <1>4, <1>5 DEF Rows

\* A record made: it waits behind all others.
LEMMA AddedWaits ==
    ASSUME Types, Rows, Feed, NEW in \in Input, AddRecord(in), UNCHANGED <<paused, spliced>>,
           records' \in Seq(RecordType), Len(records') = Len(records),
           \A i \in 1..Len(records) : records'[i].idx = records[i].idx
    PROVE  /\ next_index' \in Nat \ {0}
           /\ pending' \in Seq(RecordType) /\ buffer' \in Seq(RecordType)
           /\ Untinted(pending') /\ Untinted(buffer')
           /\ Feed'
<1> DEFINE r == Record(in)
<1>1. /\ r \in RecordType /\ r.idx = next_index /\ r.trigger = NoTrigger
      /\ next_index \in Nat /\ next_index' = next_index + 1
  BY DEF Types, Record, RecordType, Names, AddRecord
<1>2. Ids(records') = Ids(records) /\ (Distinct(records) => Distinct(records'))
      /\ (Rising(records) => Rising(records'))
  BY SameIds DEF Types
<1>3. /\ \A k \in Ids(records) \cup Ids(pending) \cup Ids(buffer) : k < next_index
      /\ pending \in Seq(RecordType) /\ buffer \in Seq(RecordType)
      /\ Untinted(pending) /\ Untinted(buffer)
  BY DEF Feed, Types, Rows
<1>4. /\ Ids(records) \subseteq Nat /\ Ids(pending) \subseteq Nat /\ Ids(buffer) \subseteq Nat
  BY IdsAreNumbers DEF Types
<1>5. \A k \in Nat : k < next_index => k < next_index' /\ k # next_index  BY <1>1
<1>6. CASE paused
  <2>1. buffer' = Append(buffer, r) /\ pending' = pending  BY <1>6 DEF AddRecord
  <2> HIDE DEF r
  <2>2. /\ buffer' \in Seq(RecordType)
        /\ Ids(buffer') = Ids(buffer) \cup {next_index}
        /\ (Distinct(buffer) => Distinct(buffer')) /\ (Rising(buffer) => Rising(buffer'))
        /\ Untinted(buffer')
    BY <1>1, <1>3, <2>1, AppendIds
  <2>3. Feed'
    <3>1. Distinct(records') /\ Distinct(pending') /\ Distinct(buffer')
      BY <1>2, <2>1, <2>2 DEF Feed
    <3>2. /\ Ids(records') \cap Ids(pending') = {}
          /\ (Ids(records') \cup Ids(pending')) \cap Ids(buffer') = {}
      BY <1>2, <1>3, <1>4, <1>5, <2>1, <2>2 DEF Feed
    <3>3. \A k \in Ids(records') \cup Ids(pending') \cup Ids(buffer') : k < next_index'
      BY <1>1, <1>2, <1>3, <1>4, <1>5, <2>1, <2>2
    <3>4. ~spliced' =>
            /\ Rising(records') /\ Rising(pending') /\ Rising(buffer')
            /\ Before(records', pending') /\ Before(records', buffer')
            /\ Before(pending', buffer')
      BY <1>2, <1>3, <2>1, <2>2 DEF Feed, Before
    <3>5. buffer' # << >> => paused'  BY <1>6
    <3> QED BY <3>1, <3>2, <3>3, <3>4, <3>5 DEF Feed
  <2> QED BY <1>1, <1>3, <2>1, <2>2, <2>3
<1>7. CASE ~paused
  <2>1. pending' = Append(pending, r) /\ buffer' = buffer  BY <1>7 DEF AddRecord
  <2> HIDE DEF r
  <2>2. /\ pending' \in Seq(RecordType)
        /\ Ids(pending') = Ids(pending) \cup {next_index}
        /\ (Distinct(pending) => Distinct(pending')) /\ (Rising(pending) => Rising(pending'))
        /\ Untinted(pending')
    BY <1>1, <1>3, <2>1, AppendIds
  <2>3. buffer = << >> /\ Ids(buffer) = {}  BY <1>7 DEF Feed, Ids
  <2>4. Feed'
    <3>1. Distinct(records') /\ Distinct(pending') /\ Distinct(buffer')
      BY <1>2, <2>1, <2>2 DEF Feed
    <3>2. /\ Ids(records') \cap Ids(pending') = {}
          /\ (Ids(records') \cup Ids(pending')) \cap Ids(buffer') = {}
      BY <1>2, <1>3, <1>4, <1>5, <2>1, <2>2, <2>3 DEF Feed
    <3>3. \A k \in Ids(records') \cup Ids(pending') \cup Ids(buffer') : k < next_index'
      BY <1>1, <1>2, <1>3, <1>4, <1>5, <2>1, <2>2
    <3>4. ~spliced' =>
            /\ Rising(records') /\ Rising(pending') /\ Rising(buffer')
            /\ Before(records', pending') /\ Before(records', buffer')
            /\ Before(pending', buffer')
      BY <1>2, <1>3, <2>1, <2>2, <2>3 DEF Feed, Before
    <3>5. buffer' = << >>  BY <2>1, <2>3
    <3> QED BY <3>1, <3>2, <3>3, <3>4, <3>5 DEF Feed
  <2> QED BY <1>1, <1>3, <2>1, <2>2, <2>4
<1> QED BY <1>6, <1>7

LEMMA SameRows ==
    ASSUME Rows, UNCHANGED <<records, table, rules, seq_highlights, filter_text>>,
           Untinted(pending'), Untinted(buffer')
    PROVE  Rows'
BY DEF Rows

LEMMA LastRxFacts ==
    ASSUME Types
    PROVE  LastRx = 0 \/ (LastRx \in 1..Len(records) /\ IsRx(records[LastRx]))
<1> DEFINE n == Len(records)
           S == {0} \cup {i \in DOMAIN records : IsRx(records[i])}
<1>1. n \in Nat /\ DOMAIN records = 1..n  BY SeqFacts DEF Types
<1>2. S \in SUBSET (0..n) /\ S # {}  BY <1>1
<1>3. Max(S) \in S
  <2> HIDE DEF S
  <2> QED BY <1>1, <1>2, GreatestOf
<1> QED BY <1>1, <1>3 DEF LastRx

\* The name that triggers of a list that are on leave is not that of one switched off.
LEMMA LastNameFacts ==
    ASSUME NEW list \in RuleLists, NEW S \in SUBSET Armed(list), S # {}
    PROVE  LastName(list, S) \in Names \ SwitchedOff(list)
<1>1. PICK n \in 0..MaxRules : list \in [1..n -> Rule]  BY DEF RuleLists
<1>2. n \in Nat /\ S \in SUBSET (0..n) /\ S \in SUBSET (1..n)
  BY <1>1, TerminalTableAssumption DEF Armed
<1> DEFINE m == Max(S)
<1>3. m \in S  BY <1>2, GreatestOf
<1> HIDE DEF m
<1>4. m \in 1..n /\ list[m] \in Rule /\ list[m].on  BY <1>1, <1>2, <1>3 DEF Armed
<1>5. m \in DOMAIN list  BY <1>1, <1>4
<1>6. list[m].name \in OnNames(list)  BY <1>4, <1>5 DEF OnNames
<1>7. list[m].name \in Names  BY <1>4 DEF Names
<1> QED BY <1>6, <1>7 DEF LastName, m, SwitchedOff

LEMMA ReceiveFacts ==
    ASSUME Receive
    PROVE  \E in \in Input :
             /\ AddRecord(in)
             /\ \E fired \in SUBSET Armed(rules) :
                   IF fired = {} \/ LastRx = 0 THEN UNCHANGED <<records, table>>
                   ELSE Tint([i \in DOMAIN records |->
                                 IF i = LastRx THEN LastName(rules, fired)
                                               ELSE records[i].trigger])
             /\ UNCHANGED <<paused, mode, mixed_layers, findVars, ruleVars, spliced, uses>>
<1>1. PICK in \in Input, tailed \in SUBSET MatchesByTail(rules) :
         LET fired == tailed \cup {i \in Armed(rules) : HasBytes(rules[i].pattern, in.data)}
         IN /\ AddRecord(in)
            /\ IF fired = {} \/ LastRx = 0 THEN UNCHANGED <<records, table>>
               ELSE Tint([i \in DOMAIN records |->
                             IF i = LastRx THEN LastName(rules, fired) ELSE records[i].trigger])
            /\ UNCHANGED <<paused, mode, mixed_layers, findVars, ruleVars, spliced, uses>>
  BY DEF Receive
<1> DEFINE fired == tailed \cup {i \in Armed(rules) : HasBytes(rules[i].pattern, in.data)}
<1>2. fired \in SUBSET Armed(rules)  BY DEF MatchesByTail
<1> QED BY <1>1, <1>2

LEMMA ReceiveStep ==
    ASSUME TableIInv, Receive
    PROVE  TableIInv'
<1> USE DEF TableIInv
<1>1. PICK in \in Input :
        /\ AddRecord(in)
        /\ \E fired \in SUBSET Armed(rules) :
              IF fired = {} \/ LastRx = 0 THEN UNCHANGED <<records, table>>
              ELSE Tint([i \in DOMAIN records |->
                            IF i = LastRx THEN LastName(rules, fired) ELSE records[i].trigger])
        /\ UNCHANGED <<paused, mode, mixed_layers, findVars, ruleVars, spliced, uses>>
  BY ReceiveFacts
<1>0. PICK fired \in SUBSET Armed(rules) :
         IF fired = {} \/ LastRx = 0 THEN UNCHANGED <<records, table>>
         ELSE Tint([i \in DOMAIN records |->
                       IF i = LastRx THEN LastName(rules, fired) ELSE records[i].trigger])
  BY <1>1
<1>2. UNCHANGED <<paused, mode, mixed_layers, findVars, filter_text, seq_highlights, rules,
                  spliced>>
  BY <1>1 DEF ruleVars
<1>3. CASE fired = {} \/ LastRx = 0
  <2>1. UNCHANGED <<records, table>>  BY <1>0, <1>3
  <2>2. /\ next_index' \in Nat \ {0}
        /\ pending' \in Seq(RecordType) /\ buffer' \in Seq(RecordType)
        /\ Untinted(pending') /\ Untinted(buffer') /\ Feed'
    BY <1>1, <1>2, <2>1, AddedWaits DEF Types
  <2>3. Types'  BY <1>2, <2>1, <2>2 DEF Types
  <2>4. Rows'  BY <1>2, <2>1, <2>2, SameRows
  <2>5. FindBar'  BY <1>2 DEF FindBar, findVars
  <2> QED BY <2>2, <2>3, <2>4, <2>5
<1>4. CASE ~(fired = {} \/ LastRx = 0)
  <2> DEFINE n == Len(records)
             tintOf == [i \in DOMAIN records |->
                            IF i = LastRx THEN LastName(rules, fired) ELSE records[i].trigger]
  <2>1. Tint(tintOf)  BY <1>0, <1>4
  <2> DEFINE name == LastName(rules, fired)
  <2>2. name \in Names  BY <1>4, LastNameFacts DEF Types
  <2>3. name \notin SwitchedOff(rules)  BY <1>4, LastNameFacts DEF Types
  <2>4. LastRx \in 1..n /\ IsRx(records[LastRx])  BY <1>4, LastRxFacts
  <2>5. n \in Nat /\ DOMAIN records = 1..n /\ \A i \in 1..n : records[i] \in RecordType
    BY SeqFacts DEF Types
  <2>6. \A i \in 1..n : tintOf[i] = IF i = LastRx THEN name ELSE records[i].trigger
    BY <2>5
  <2>7. DOMAIN table = 1..n /\ Len(table) = n  BY SeqFacts DEF Types, Rows
  <2> HIDE DEF name, tintOf, n
  <2>8. \A i \in 1..n : /\ tintOf[i] \in Names
                        /\ tintOf[i] # NoTrigger => tintOf[i] \notin SwitchedOff(rules) /\ IsRx(records[i])
    <3> TAKE i \in 1..n
    <3>1. CASE i = LastRx  BY <2>2, <2>3, <2>4, <2>6, <3>1
    <3>2. CASE i # LastRx
      <4>1. tintOf[i] = records[i].trigger /\ records[i].trigger \in Names
        BY <2>5, <2>6, <3>2 DEF RecordType
      <4>2. RowOf(table[i], records[i], rules, seq_highlights, filter_text)
        BY <2>7 DEF Rows
      <4> QED BY <4>1, <4>2 DEF RowOf
    <3> QED BY <3>1, <3>2
  <2>9. /\ records' \in Seq(RecordType) /\ Len(records') = n
        /\ table' \in Seq(RowType)
        /\ \A i \in 1..n : records'[i].idx = records[i].idx
    BY <2>1, <2>8, TintFacts DEF n
  <2>10. /\ next_index' \in Nat \ {0}
         /\ pending' \in Seq(RecordType) /\ buffer' \in Seq(RecordType)
         /\ Untinted(pending') /\ Untinted(buffer') /\ Feed'
    BY <1>1, <1>2, <2>9, AddedWaits DEF n
  <2>11. Types'  BY <1>2, <2>9, <2>10 DEF Types
  <2>12. Rows'
    <3>1. rules' = rules  BY <1>2
    <3> QED BY <1>2, <2>1, <2>8, <2>10, <3>1, TintKeepsRows DEF n
  <2>13. FindBar'  BY <1>2 DEF FindBar, findVars
  <2> QED BY <2>10, <2>11, <2>12, <2>13
<1> QED BY <1>3, <1>4

LEMMA AppendOtherStep ==
    ASSUME TableIInv, AppendOther
    PROVE  TableIInv'
<1> USE DEF TableIInv
<1>1. PICK in \in Input : AddRecord(in)  BY DEF AppendOther
<1>2. UNCHANGED <<records, table, paused, mode, mixed_layers, findVars, filter_text,
                  seq_highlights, rules, spliced>>
  BY DEF AppendOther, ruleVars
<1>3. /\ next_index' \in Nat \ {0}
      /\ pending' \in Seq(RecordType) /\ buffer' \in Seq(RecordType)
      /\ Untinted(pending') /\ Untinted(buffer') /\ Feed'
  BY <1>1, <1>2, AddedWaits DEF Types
<1>4. Types'  BY <1>2, <1>3 DEF Types
<1>5. Rows'  BY <1>2, <1>3, SameRows
<1>6. FindBar'  BY <1>2 DEF FindBar, findVars
<1> QED BY <1>3, <1>4, <1>5, <1>6

\* What one drain moves: no more than waits, to rows that are those of their
\* records.
LEMMA DrainFacts ==
    ASSUME Types, Rows, DrainPending
    PROVE  \E size \in 0..Len(pending), gone \in Nat :
             LET all == records \o SubSeq(pending, 1, size) IN
             /\ gone = IF Len(all) > MAX_ROWS THEN Len(all) - MAX_ROWS ELSE 0
             /\ records' = SubSeq(all, gone + 1, Len(all))
             /\ pending' = SubSeq(pending, size + 1, Len(pending))
             /\ records' \in Seq(RecordType) /\ table' \in Seq(RowType)
             /\ Len(table') = Len(records') /\ Len(records') <= MAX_ROWS
             /\ \A i \in 1..Len(records') :
                  RowOf(table'[i], records'[i], rules, seq_highlights, filter_text)
             /\ Len(table') < MAX_ROWS =>
                  \A i \in 1..Len(records') :
                     table'[i].hidden = Hidden(records'[i], filter_text)
<1> DEFINE n == Len(records)
           w == Len(pending)
           size == Min({DRAIN_CHUNK, w})
           batch == SubSeq(pending, 1, size)
           fresh == [i \in 1..size |-> InsertedRow(batch[i])]
           all == records \o batch
           rows == table \o fresh
           gone == IF Len(all) > MAX_ROWS THEN Len(all) - MAX_ROWS ELSE 0
           capped == EnforceCap(all, rows)
           count == Len(capped[2])
           only == IF Len(table) < count THEN NewRows(size, count) ELSE {}
<1>1. /\ records' = capped[1]
      /\ table' = Filtered(capped[2], capped[1], filter_text, only)
      /\ pending' = SubSeq(pending, size + 1, Len(pending))
  BY DEF DrainPending
<1>2. /\ n \in Nat /\ w \in Nat /\ MAX_ROWS \in Nat \ {0} /\ DRAIN_CHUNK \in Nat \ {0}
      /\ Len(table) = n /\ n <= MAX_ROWS /\ DOMAIN table = 1..n
      /\ records \in Seq(RecordType) /\ pending \in Seq(RecordType) /\ table \in Seq(RowType)
  BY SeqFacts, TerminalTableAssumption DEF Types, Rows
<1>3. size \in Nat /\ size <= w /\ size \in 0..w
  <2>1. size = IF DRAIN_CHUNK <= w THEN DRAIN_CHUNK ELSE w
    <3>1. DRAIN_CHUNK \in Int /\ w \in Int  BY <1>2
    <3> HIDE DEF w
    <3> QED BY <3>1, GreaterOfTwo
  <2> QED BY <1>2, <2>1
<1> HIDE DEF size
<1>4. /\ batch \in Seq(RecordType) /\ Len(batch) = size
      /\ \A i \in 1..size : batch[i] = pending[i] /\ batch[i] \in RecordType
            /\ batch[i].trigger = NoTrigger
  <2>1. /\ batch \in Seq(RecordType) /\ Len(batch) = size
        /\ \A i \in 1..size : batch[i] = pending[i]
    BY <1>2, <1>3, SliceFacts
  <2>2. DOMAIN pending = 1..w /\ \A i \in 1..w : pending[i] \in RecordType
    BY <1>2, SeqFacts
  <2>3. \A i \in 1..size : i \in 1..w  BY <1>2, <1>3
  <2> QED BY <2>1, <2>2, <2>3 DEF Rows, Untinted
<1> HIDE DEF batch
<1>5. /\ fresh \in Seq(RowType) /\ Len(fresh) = size
      /\ \A i \in 1..size :
           /\ RowOf(fresh[i], batch[i], rules, seq_highlights, filter_text)
           /\ fresh[i].hidden = FALSE
  <2>1. ASSUME NEW i \in 1..size
        PROVE  /\ fresh[i] \in RowType /\ fresh[i].hidden = FALSE
               /\ RowOf(fresh[i], batch[i], rules, seq_highlights, filter_text)
    <3> DEFINE rec == batch[i]
               v == SeqTint(rec, seq_highlights)
               one == Row(mode, rec)
    <3>1. rec \in RecordType /\ rec.trigger = NoTrigger /\ v \in BOOLEAN
      BY <1>4, BooleanFacts
    <3>2. fresh[i] = [one EXCEPT !.seq = v]  BY DEF InsertedRow
    <3> HIDE DEF fresh, rec, v
    <3>3. /\ one \in RowType /\ one.idx = rec.idx /\ one.trigger = NoTrigger
          /\ one.hidden = FALSE /\ (rec.kind # "data" => one.cols = AllColumns)
      BY <3>1, FreshRow DEF Types
    <3> HIDE DEF one
    <3>4. /\ fresh[i] \in RowType /\ fresh[i].seq = v /\ fresh[i].idx = one.idx
          /\ fresh[i].cols = one.cols /\ fresh[i].trigger = one.trigger
          /\ fresh[i].hidden = one.hidden
      BY <3>1, <3>2, <3>3, MarkedRow
    <3> QED BY <3>1, <3>3, <3>4 DEF RowOf, v, rec
  <2>2. fresh = [i \in 1..size |-> fresh[i]]  OBVIOUS
  <2> HIDE DEF fresh
  <2> QED BY <1>3, <2>1, <2>2, Placewise
<1> HIDE DEF fresh
<1>6. /\ all \in Seq(RecordType) /\ Len(all) = n + size
      /\ rows \in Seq(RowType) /\ Len(rows) = n + size
      /\ \A i \in 1..n + size :
           /\ all[i] = IF i <= n THEN records[i] ELSE batch[i - n]
           /\ rows[i] = IF i <= n THEN table[i] ELSE fresh[i - n]
  <2>1. /\ all \in Seq(RecordType) /\ Len(all) = Len(records) + Len(batch)
        /\ \A i \in 1..Len(records) + Len(batch) :
             all[i] = IF i <= Len(records) THEN records[i] ELSE batch[i - Len(records)]
    BY <1>2, <1>4, RecordsJoined
  <2>2. /\ rows \in Seq(RowType) /\ Len(rows) = Len(table) + Len(fresh)
        /\ \A i \in 1..Len(table) + Len(fresh) :
             rows[i] = IF i <= Len(table) THEN table[i] ELSE fresh[i - Len(table)]
    BY <1>2, <1>5, RowsJoined
  <2> QED BY <1>2, <1>4, <1>5, <2>1, <2>2
<1>7. gone \in Nat /\ gone <= n + size
  BY <1>2, <1>3, <1>6
<1> HIDE DEF all, rows
<1>8. gone = IF Len(all) > MAX_ROWS THEN Len(all) - MAX_ROWS ELSE 0
  OBVIOUS
<1> HIDE DEF gone
<1>19. capped = EnforceCap(all, rows)
  OBVIOUS
<1> HIDE DEF capped
<1>9. /\ capped[1] \in Seq(RecordType) /\ capped[2] \in Seq(RowType)
      /\ Len(capped[1]) = n + size - gone /\ Len(capped[2]) = n + size - gone
      /\ \A i \in 1..n + size - gone :
            capped[1][i] = all[i + gone] /\ capped[2][i] = rows[i + gone]
      /\ capped[1] = SubSeq(all, gone + 1, Len(all))
  <2>1. LET c == EnforceCap(all, rows) IN
        /\ c[1] \in Seq(RecordType) /\ c[2] \in Seq(RowType)
        /\ Len(c[1]) = Len(all) - gone /\ Len(c[2]) = Len(all) - gone
        /\ \A i \in 1..Len(all) - gone : c[1][i] = all[i + gone] /\ c[2][i] = rows[i + gone]
        /\ c[1] = SubSeq(all, gone + 1, Len(all))
    <3>1. Len(all) = Len(rows) /\ all \in Seq(RecordType) /\ rows \in Seq(RowType)
      BY <1>6
    <3>2. gone \in Nat  BY <1>7
    <3> HIDE DEF only, count, n, w
    <3> QED BY <1>8, <3>1, <3>2, CapFacts
  <2> HIDE DEF only, count, n, w
  <2> QED BY <1>2, <1>3, <1>6, <1>7, <1>19, <2>1
<1>10. count = n + size - gone /\ count \in Nat /\ count <= MAX_ROWS
  BY <1>2, <1>3, <1>6, <1>7, <1>8, <1>9
<1> HIDE DEF count
<1>11. /\ table' \in Seq(RowType) /\ Len(table') = count
       /\ \A i \in 1..count :
            /\ table'[i].seq = capped[2][i].seq /\ table'[i].idx = capped[2][i].idx
            /\ table'[i].cols = capped[2][i].cols /\ table'[i].trigger = capped[2][i].trigger
            /\ filter_text # NoFilter /\ i \in only =>
                  table'[i].hidden = Hidden(capped[1][i], filter_text)
            /\ filter_text = NoFilter \/ i \notin only => table'[i].hidden = capped[2][i].hidden
  <2>1. Len(capped[2]) = count /\ count \in Nat /\ capped[2] \in Seq(RowType)
    BY <1>9, <1>10
  <2> HIDE DEF only, n, w
  <2> DEFINE a == capped[1]
             b == capped[2]
             c == Filtered(b, a, filter_text, only)
  <2>2. Len(b) = count /\ count \in Nat /\ b \in Seq(RowType) /\ table' = c
    BY <1>1, <2>1
  <2> HIDE DEF a, b
  <2>3. /\ c \in Seq(RowType) /\ Len(c) = count
        /\ \A i \in 1..count :
             /\ c[i].seq = b[i].seq /\ c[i].idx = b[i].idx
             /\ c[i].cols = b[i].cols /\ c[i].trigger = b[i].trigger
             /\ filter_text # NoFilter /\ i \in only => c[i].hidden = Hidden(a[i], filter_text)
             /\ filter_text = NoFilter \/ i \notin only => c[i].hidden = b[i].hidden
    BY <2>2, FilteredFacts
  <2> HIDE DEF c
  <2> QED BY <2>2, <2>3 DEF a, b
<1>12. \A i \in 1..n + size :
         RowOf(rows[i], all[i], rules, seq_highlights, filter_text)
  <2> TAKE i \in 1..n + size
  <2>1. CASE i <= n
    <3>1. i \in 1..n /\ rows[i] = table[i] /\ all[i] = records[i]  BY <1>2, <1>6, <2>1
    <3> QED BY <1>2, <3>1 DEF Rows
  <2>2. CASE ~(i <= n)
    <3>1. i - n \in 1..size  BY <1>2, <1>3, <2>2
    <3>2. rows[i] = fresh[i - n] /\ all[i] = batch[i - n]  BY <1>6, <2>2
    <3> QED BY <1>5, <3>1, <3>2
  <2> QED BY <2>1, <2>2
<1>13. \A i \in 1..count : i + gone \in 1..n + size
  BY <1>2, <1>3, <1>7, <1>10
<1>14. \A i \in 1..count : RowOf(table'[i], records'[i], rules, seq_highlights, filter_text)
  <2> TAKE i \in 1..count
  <2>1. RowOf(capped[2][i], capped[1][i], rules, seq_highlights, filter_text)
    BY <1>9, <1>10, <1>12, <1>13
  <2> HIDE DEF only
  <2>2. records'[i] = capped[1][i]  BY <1>1
  <2> QED BY <1>11, <2>1, <2>2 DEF RowOf
<1>15. ASSUME count < MAX_ROWS, NEW i \in 1..count
       PROVE  table'[i].hidden = Hidden(records'[i], filter_text)
  <2>1. gone = 0 /\ count = n + size /\ n < MAX_ROWS
    <3>1. Len(all) = n + size /\ count < MAX_ROWS  BY <1>6, <1>15
    <3> HIDE DEF n
    <3>2. gone = 0  BY <1>2, <1>3, <1>7, <1>8, <1>10, <3>1
    <3> QED BY <1>2, <1>3, <1>10, <3>1, <3>2
  <2>2. capped[1][i] = all[i] /\ capped[2][i] = rows[i] /\ i \in 1..n + size
    BY <1>9, <1>10, <2>1
  <2>3. records'[i] = all[i]  BY <1>1, <2>2
  <2>4. CASE i <= n
    <3>1. i \in 1..n /\ rows[i] = table[i] /\ all[i] = records[i]
      BY <1>2, <1>6, <2>2, <2>4
    <3>2. table[i].hidden = Hidden(records[i], filter_text)  BY <1>2, <2>1, <3>1 DEF Rows
    <3>3. i \notin only
      <4>1. Max({0, count - size}) = n
        <5>1. count - size = n /\ n \in Int /\ 0 \in Int /\ n >= 0  BY <1>2, <1>3, <2>1
        <5> HIDE DEF n
        <5> QED BY <5>1, GreaterOfTwo
      <4>2. i \notin NewRows(size, count)  BY <1>2, <2>4, <4>1 DEF NewRows
      <4> QED BY <4>2
    <3> QED BY <1>11, <2>2, <2>3, <3>1, <3>2, <3>3
  <2>5. CASE ~(i <= n)
    <3>1. i - n \in 1..size /\ i \in 1..count  BY <1>2, <1>3, <2>1, <2>5
    <3>2. rows[i] = fresh[i - n]  BY <1>6, <2>2, <2>5
    <3>3. i \in only
      <4>1. Max({0, count - size}) = n
        <5>1. count - size = n /\ n \in Int /\ 0 \in Int /\ n >= 0  BY <1>2, <1>3, <2>1
        <5> HIDE DEF n
        <5> QED BY <5>1, GreaterOfTwo
      <4>2. i \in NewRows(size, count)  BY <1>2, <1>10, <2>5, <3>1, <4>1 DEF NewRows
      <4>3. Len(table) < count  BY <1>2, <1>10, <2>5, <3>1
      <4> QED BY <4>2, <4>3
    <3> HIDE DEF only
    <3>4. CASE filter_text = NoFilter
      <4>1. fresh[i - n].hidden = FALSE  BY <1>5, <3>1
      <4>2. table'[i].hidden = FALSE  BY <1>11, <2>2, <3>2, <3>4, <4>1
      <4> QED BY <3>4, <4>2, BlankFilter
    <3>5. CASE filter_text # NoFilter  BY <1>1, <1>11, <3>3, <3>5
    <3> QED BY <3>4, <3>5
  <2> QED BY <2>4, <2>5
<1>16. LET a == records \o SubSeq(pending, 1, size) IN
             /\ gone = IF Len(a) > MAX_ROWS THEN Len(a) - MAX_ROWS ELSE 0
             /\ records' = SubSeq(a, gone + 1, Len(a))
             /\ pending' = SubSeq(pending, size + 1, Len(pending))
             /\ records' \in Seq(RecordType) /\ table' \in Seq(RowType)
             /\ Len(table') = Len(records') /\ Len(records') <= MAX_ROWS
             /\ \A i \in 1..Len(records') :
                  RowOf(table'[i], records'[i], rules, seq_highlights, filter_text)
             /\ Len(table') < MAX_ROWS =>
                  \A i \in 1..Len(records') :
                     table'[i].hidden = Hidden(records'[i], filter_text)
  <2>1. Len(records') = count /\ records' \in Seq(RecordType)
        /\ records' = SubSeq(all, gone + 1, Len(all))
    BY <1>1, <1>9, <1>10
  <2>2. all = records \o SubSeq(pending, 1, size)  BY DEF all, batch
  <2>3. gone = IF Len(all) > MAX_ROWS THEN Len(all) - MAX_ROWS ELSE 0  BY <1>8
  <2> HIDE DEF only
  <2> QED BY <1>1, <1>10, <1>11, <1>14, <1>15, <2>1, <2>2, <2>3
<1> QED BY <1>3, <1>7, <1>16

LEMMA DrainStep ==
    ASSUME TableIInv, DrainPending
    PROVE  TableIInv'
<1> USE DEF TableIInv
<1> DEFINE Taken(size, gone, all) ==
             /\ gone = IF Len(all) > MAX_ROWS THEN Len(all) - MAX_ROWS ELSE 0
             /\ records' = SubSeq(all, gone + 1, Len(all))
             /\ pending' = SubSeq(pending, size + 1, Len(pending))
             /\ records' \in Seq(RecordType) /\ table' \in Seq(RowType)
             /\ Len(table') = Len(records') /\ Len(records') <= MAX_ROWS
             /\ \A i \in 1..Len(records') :
                  RowOf(table'[i], records'[i], rules, seq_highlights, filter_text)
             /\ Len(table') < MAX_ROWS =>
                  \A i \in 1..Len(records') :
                     table'[i].hidden = Hidden(records'[i], filter_text)
<1>1. PICK size \in 0..Len(pending) : \E gone \in Nat :
         Taken(size, gone, records \o SubSeq(pending, 1, size))
  BY DrainFacts
<1> DEFINE batch == SubSeq(pending, 1, size)
           all == records \o batch
<1>2. PICK gone \in Nat : Taken(size, gone, all)
  BY <1>1
<1>3. UNCHANGED <<next_index, buffer, paused, mode, mixed_layers, findVars, filter_text,
                  seq_highlights, rules, spliced>>
  BY DEF DrainPending, ruleVars
<1>4. /\ records \in Seq(RecordType) /\ pending \in Seq(RecordType)
      /\ Len(pending) \in Nat /\ size \in Nat /\ size <= Len(pending)
  BY SeqFacts DEF Types
<1>5. /\ batch \in Seq(RecordType) /\ pending' \in Seq(RecordType)
      /\ Ids(pending) = Ids(batch) \cup Ids(pending')
      /\ Distinct(pending) => /\ Distinct(batch) /\ Distinct(pending')
                              /\ Ids(batch) \cap Ids(pending') = {}
      /\ Rising(pending) => Rising(batch) /\ Rising(pending') /\ Before(batch, pending')
      /\ Untinted(pending) => Untinted(batch) /\ Untinted(pending')
  BY <1>2, <1>4, SplitIds
<1> HIDE DEF batch
<1>6. /\ all \in Seq(RecordType) /\ Ids(all) = Ids(records) \cup Ids(batch)
      /\ Distinct(records) /\ Distinct(batch) /\ Ids(records) \cap Ids(batch) = {} =>
            Distinct(all)
      /\ Rising(records) /\ Rising(batch) /\ Before(records, batch) => Rising(all)
  BY <1>4, <1>5, ConcatIds
<1> HIDE DEF all
<1>7. gone <= Len(all)
  BY <1>2, <1>6, SeqFacts, TerminalTableAssumption
<1>8. /\ Ids(records') \subseteq Ids(all)
      /\ Distinct(all) => Distinct(records')
      /\ Rising(all) => Rising(records')
  <2>1. records' = SubSeq(all, gone + 1, Len(all))  BY <1>2
  <2> QED BY <1>6, <1>7, <2>1, RestIds
<1>9. Types'
  BY <1>2, <1>3, <1>5 DEF Types
<1>10. Rows'
  <2>1. DOMAIN table' = 1..Len(records')  BY <1>2, SeqFacts
  <2>2. Untinted(pending') /\ Untinted(buffer')  BY <1>3, <1>5 DEF Rows
  <2>3. \A i \in 1..Len(records') :
           RowOf(table'[i], records'[i], rules', seq_highlights', filter_text')
    BY <1>2, <1>3
  <2>4. Len(table') < MAX_ROWS =>
           \A i \in 1..Len(records') : table'[i].hidden = Hidden(records'[i], filter_text')
    BY <1>2, <1>3
  <2>5. Len(table') = Len(records') /\ Len(records') <= MAX_ROWS  BY <1>2
  <2> HIDE DEF Taken
  <2> QED BY <2>1, <2>2, <2>3, <2>4, <2>5 DEF Rows
<1> HIDE DEF Taken
<1>11. FindBar'  BY <1>3 DEF FindBar, findVars
<1>12. Feed'
  <2>1. Distinct(records') /\ Distinct(pending') /\ Distinct(buffer')
    BY <1>3, <1>5, <1>6, <1>8 DEF Feed
  <2>2. /\ Ids(records') \cap Ids(pending') = {}
        /\ (Ids(records') \cup Ids(pending')) \cap Ids(buffer') = {}
    BY <1>3, <1>5, <1>6, <1>8 DEF Feed
  <2>3. \A n \in Ids(records') \cup Ids(pending') \cup Ids(buffer') : n < next_index'
    BY <1>3, <1>5, <1>6, <1>8 DEF Feed
  <2>4. ASSUME ~spliced'
        PROVE  /\ Rising(records') /\ Rising(pending') /\ Rising(buffer')
               /\ Before(records', pending') /\ Before(records', buffer')
               /\ Before(pending', buffer')
    <3>1. /\ Rising(records) /\ Rising(pending) /\ Rising(buffer)
          /\ Before(records, pending) /\ Before(records, buffer) /\ Before(pending, buffer)
      BY <1>3, <2>4 DEF Feed
    <3>2. Rising(all)  BY <1>5, <1>6, <3>1 DEF Before
    <3>3. Before(all, pending')  BY <1>5, <1>6, <3>1 DEF Before
    <3>4. Before(all, buffer)  BY <1>5, <1>6, <3>1 DEF Before
    <3> QED BY <1>3, <1>5, <1>8, <3>1, <3>2, <3>3, <3>4 DEF Before
  <2>5. buffer' # << >> => paused'  BY <1>3 DEF Feed
  <2> QED BY <2>1, <2>2, <2>3, <2>4, <2>5 DEF Feed
<1> QED BY <1>9, <1>10, <1>11, <1>12

-----------------------------------------------------------------------------
(* Steps of the user.                                                       *)

\* What a step leaves alone when it touches no record.
LEMMA SameFeed ==
    ASSUME Feed, UNCHANGED <<feedVars, spliced>>, buffer # << >> => paused'
    PROVE  Feed'
BY DEF Feed, feedVars

LEMMA PauseStep ==
    ASSUME TableIInv, Pause
    PROVE  TableIInv'
<1> USE DEF TableIInv
<1>1. UNCHANGED <<next_index, records, buffer, pending, table, mode, mixed_layers, findVars,
                  filter_text, seq_highlights, rules, spliced>>
  BY DEF Pause, feedVars, ruleVars
<1>2. Types'  BY <1>1 DEF Types
<1>3. Rows'  BY <1>1 DEF Rows
<1>4. FindBar'  BY <1>1 DEF FindBar, findVars
<1>5. Feed'  BY <1>1, SameFeed DEF Pause, feedVars
<1> QED BY <1>2, <1>3, <1>4, <1>5

LEMMA ResumeStep ==
    ASSUME TableIInv, Resume
    PROVE  TableIInv'
<1> USE DEF TableIInv
<1>1. UNCHANGED <<next_index, records, table, mode, mixed_layers, findVars, filter_text,
                  seq_highlights, rules>>
  BY DEF Resume, ruleVars
<1>2. CASE buffer = << >>
  <2>1. UNCHANGED <<buffer, pending, drain_scheduled, spliced>>  BY <1>2 DEF Resume
  <2>2. Types' /\ Rows'  BY <1>1, <2>1 DEF Types, Rows
  <2>3. FindBar'  BY <1>1 DEF FindBar, findVars
  <2>4. Feed'  BY <1>1, <1>2, <2>1, SameFeed DEF feedVars
  <2> QED BY <2>2, <2>3, <2>4
<1>3. CASE buffer # << >>
  <2>1. /\ buffer' = << >> /\ pending' = buffer \o pending
        /\ spliced' = (spliced \/ pending # << >>)
    BY <1>3 DEF Resume, Splice
  <2>2. /\ buffer \in Seq(RecordType) /\ pending \in Seq(RecordType)
        /\ Untinted(buffer) /\ Untinted(pending)
    BY DEF Types, Rows
  <2>3. /\ pending' \in Seq(RecordType)
        /\ Ids(pending') = Ids(buffer) \cup Ids(pending)
        /\ Distinct(buffer) /\ Distinct(pending) /\ Ids(buffer) \cap Ids(pending) = {} =>
             Distinct(pending')
        /\ Rising(buffer) /\ Rising(pending) /\ Before(buffer, pending) => Rising(pending')
        /\ Untinted(pending')
    BY <2>1, <2>2, ConcatIds
  <2>4. /\ buffer' \in Seq(RecordType) /\ Ids(buffer') = {} /\ Distinct(buffer')
        /\ Rising(buffer') /\ Untinted(buffer')
    BY <2>1 DEF Ids, Distinct, Rising, Untinted
  <2>5. Types'  BY <1>1, <2>3, <2>4 DEF Types
  <2>6. Rows'  BY <1>1, <2>3, <2>4, SameRows
  <2>7. FindBar'  BY <1>1 DEF FindBar, findVars
  <2>8. Feed'
    <3>1. Distinct(records') /\ Distinct(pending') /\ Distinct(buffer')
      BY <1>1, <2>3, <2>4 DEF Feed
    <3>2. /\ Ids(records') \cap Ids(pending') = {}
          /\ (Ids(records') \cup Ids(pending')) \cap Ids(buffer') = {}
      BY <1>1, <2>3, <2>4 DEF Feed
    <3>3. \A n \in Ids(records') \cup Ids(pending') \cup Ids(buffer') : n < next_index'
      BY <1>1, <2>3, <2>4 DEF Feed
    <3>4. ASSUME ~spliced'
          PROVE  /\ Rising(records') /\ Rising(pending') /\ Rising(buffer')
                 /\ Before(records', pending') /\ Before(records', buffer')
                 /\ Before(pending', buffer')
      <4>1. ~spliced /\ pending = << >>  BY <2>1, <3>4
      <4>2. /\ Rising(records) /\ Rising(pending) /\ Rising(buffer)
            /\ Before(records, pending) /\ Before(records, buffer)
        BY <4>1 DEF Feed
      <4>3. Ids(pending) = {}  BY <4>1 DEF Ids
      <4> QED BY <1>1, <2>3, <2>4, <4>2, <4>3 DEF Before
    <3>5. buffer' = << >>  BY <2>1
    <3> QED BY <3>1, <3>2, <3>3, <3>4, <3>5 DEF Feed
  <2> QED BY <2>5, <2>6, <2>7, <2>8
<1> QED BY <1>2, <1>3

LEMMA ClearStep ==
    ASSUME TableIInv, Clear
    PROVE  TableIInv'
<1> USE DEF TableIInv
<1>1. /\ records' = << >> /\ table' = << >> /\ buffer' = << >> /\ pending' = << >>
      /\ next_index' = 1 /\ find_rows' = {}
      /\ UNCHANGED <<mode, mixed_layers, rules>>
  BY DEF Clear, ruleVars
<1>2. Types'  BY <1>1 DEF Types
<1>3. Rows'
  <2>1. MAX_ROWS \in Nat /\ Len(<< >>) = 0 /\ DOMAIN << >> = {}
    BY TerminalTableAssumption
  <2> QED BY <1>1, <2>1 DEF Rows, Untinted
<1>4. FindBar'  BY <1>1, FS_EmptySet DEF FindBar
<1>5. Feed'  BY <1>1 DEF Feed, Distinct, Rising, Before, Ids
<1> QED BY <1>2, <1>3, <1>4, <1>5

\* The invariant of a step that makes the rows anew and touches no record.
LEMMA RowsAnew ==
    ASSUME TableIInv, UNCHANGED <<next_index, records, buffer, pending, spliced, paused>>,
           mode' \in {"ascii", "MIXED"}, mixed_layers' \in SUBSET AllColumns,
           rules' \in RuleLists, FindBar',
           table' \in Seq(RowType), Len(table') = Len(records),
           \A i \in 1..Len(records) :
              RowOf(table'[i], records[i], rules', seq_highlights', filter_text'),
           Len(records) < MAX_ROWS =>
              \A i \in 1..Len(records) : table'[i].hidden = Hidden(records[i], filter_text')
    PROVE  TableIInv'
<1> USE DEF TableIInv
<1>1. DOMAIN table' = 1..Len(records)  BY SeqFacts
<1>2. Types'  BY DEF Types
<1>3. Rows'  BY <1>1 DEF Rows
<1>4. Feed'  BY DEF Feed
<1> QED BY <1>2, <1>3, <1>4

\* A step that renders every row.
LEMMA RerenderStep ==
    ASSUME TableIInv, NEW m \in {"ascii", "MIXED"}, table' = Rerendered(m, seq_highlights'),
           UNCHANGED <<feedVars, spliced, paused, findVars, rules, filter_text>>,
           mode' \in {"ascii", "MIXED"}, mixed_layers' \in SUBSET AllColumns
    PROVE  TableIInv'
<1> DEFINE n == Len(records)
           seqs == seq_highlights'
           r == Rerendered(m, seqs)
<1>1. /\ r \in Seq(RowType) /\ Len(r) = n /\ DOMAIN r = 1..n
      /\ \A i \in 1..n :
           /\ r[i].idx = records[i].idx /\ r[i].trigger = records[i].trigger
           /\ records[i].kind # "data" => r[i].cols = AllColumns
           /\ r[i].seq = SeqTint(records[i], seqs)
           /\ r[i].hidden = Hidden(records[i], filter_text)
  <2> HIDE DEF seqs
  <2> QED BY RerenderedFacts DEF TableIInv
<1>2. table' = r  OBVIOUS
<1> HIDE DEF r
<1>3. DOMAIN table = 1..n
  BY SeqFacts DEF TableIInv, Types, Rows
<1>4. \A i \in 1..n : RowOf(r[i], records[i], rules, seqs, filter_text)
  <2> TAKE i \in 1..n
  <2>1. RowOf(table[i], records[i], rules, seq_highlights, filter_text)
    BY <1>3 DEF TableIInv, Rows
  <2> HIDE DEF seqs
  <2> QED BY <1>1, <2>1 DEF RowOf
<1>5. FindBar'  BY DEF TableIInv, FindBar, findVars
<1>6. rules' \in RuleLists  BY DEF TableIInv, Types
<1>7. UNCHANGED <<next_index, records, buffer, pending, spliced, paused, rules, filter_text>>
  BY DEF feedVars
<1>8. \A i \in 1..n : RowOf(table'[i], records[i], rules', seq_highlights', filter_text')
  BY <1>2, <1>4, <1>7
<1>9. \A i \in 1..n : table'[i].hidden = Hidden(records[i], filter_text')
  BY <1>1, <1>2, <1>7
<1>10. table' \in Seq(RowType) /\ Len(table') = n  BY <1>1, <1>2
<1> QED BY <1>5, <1>6, <1>7, <1>8, <1>9, <1>10, RowsAnew

LEMMA ModeStep ==
    ASSUME TableIInv, ModeClicked
    PROVE  TableIInv'
<1>1. PICK m \in {"ascii", "MIXED"} : mode' = m /\ table' = Rerendered(m, seq_highlights)
  BY DEF ModeClicked
<1>2. UNCHANGED <<feedVars, spliced, paused, findVars, rules, filter_text, mixed_layers,
                  seq_highlights>>
  BY DEF ModeClicked, ruleVars
<1>3. mixed_layers' \in SUBSET AllColumns  BY <1>2 DEF TableIInv, Types
<1> QED BY <1>1, <1>2, <1>3, RerenderStep

LEMMA SettingsStep ==
    ASSUME TableIInv, SettingsApplied
    PROVE  TableIInv'
<1>1. UNCHANGED <<feedVars, spliced, paused, findVars, rules, filter_text, mode,
                  seq_highlights>>
  BY DEF SettingsApplied, ruleVars
<1>2. table' = Rerendered(mode, seq_highlights')  BY <1>1 DEF SettingsApplied
<1>3. mode \in {"ascii", "MIXED"} /\ mode' \in {"ascii", "MIXED"}
  BY <1>1 DEF TableIInv, Types
<1>4. mixed_layers' \in SUBSET AllColumns
  BY TerminalTableAssumption DEF SettingsApplied, AllColumns
<1> QED BY <1>1, <1>2, <1>3, <1>4, RerenderStep

LEMMA RemoveHighlightStep ==
    ASSUME TableIInv, RemoveSequenceHighlight
    PROVE  TableIInv'
<1>1. UNCHANGED <<feedVars, spliced, paused, findVars, rules, filter_text, mode, mixed_layers>>
  BY DEF RemoveSequenceHighlight
<1>2. table' = Rerendered(mode, seq_highlights')  BY DEF RemoveSequenceHighlight
<1>3. /\ mode \in {"ascii", "MIXED"} /\ mode' \in {"ascii", "MIXED"}
      /\ mixed_layers' \in SUBSET AllColumns
  BY <1>1 DEF TableIInv, Types
<1> QED BY <1>1, <1>2, <1>3, RerenderStep

LEMMA FilterStep ==
    ASSUME TableIInv, FilterChanged
    PROVE  TableIInv'
<1> DEFINE n == Len(records)
<1>1. PICK f \in Filter \ {filter_text} :
         /\ filter_text' = f
         /\ table' = IF f = NoFilter
                     THEN [i \in DOMAIN table |-> [table[i] EXCEPT !.hidden = FALSE]]
                     ELSE Filtered(table, records, f, DOMAIN records)
  BY DEF FilterChanged
<1>2. UNCHANGED <<next_index, records, buffer, pending, spliced, paused, mode, mixed_layers,
                  find_rows, find_idx, seq_highlights, rules>>
  BY DEF FilterChanged, feedVars, findVars
<1>3. /\ n \in Nat /\ Len(table) = n /\ DOMAIN records = 1..n /\ DOMAIN table = 1..n
      /\ table \in Seq(RowType) /\ \A i \in 1..n : table[i] \in RowType
  BY SeqFacts DEF TableIInv, Types, Rows
<1>4. /\ table' \in Seq(RowType) /\ Len(table') = n
      /\ \A i \in 1..n :
           /\ table'[i].seq = table[i].seq /\ table'[i].idx = table[i].idx
           /\ table'[i].cols = table[i].cols /\ table'[i].trigger = table[i].trigger
           /\ table'[i].hidden = Hidden(records[i], f)
  <2>1. CASE f = NoFilter
    <3>1. table' = [i \in 1..n |-> [table[i] EXCEPT !.hidden = FALSE]]  BY <1>1, <1>3, <2>1
    <3>2. ASSUME NEW i \in 1..n
          PROVE  /\ table'[i] \in RowType
                 /\ table'[i].seq = table[i].seq /\ table'[i].idx = table[i].idx
                 /\ table'[i].cols = table[i].cols /\ table'[i].trigger = table[i].trigger
                 /\ table'[i].hidden = FALSE
      <4>1. table'[i] = [table[i] EXCEPT !.hidden = FALSE] /\ table[i] \in RowType
        BY <1>3, <3>1
      <4> QED BY <4>1, HiddenRow
    <3>3. table' = [i \in 1..n |-> table'[i]]  BY <3>1
    <3>4. table' \in Seq(RowType) /\ Len(table') = n  BY <1>3, <3>2, <3>3, Placewise
    <3> QED BY <2>1, <3>2, <3>4, BlankFilter
  <2>2. CASE f # NoFilter
    <3> DEFINE r == Filtered(table, records, f, DOMAIN records)
    <3>1. /\ r \in Seq(RowType) /\ Len(r) = n
          /\ \A i \in 1..n :
               /\ r[i].seq = table[i].seq /\ r[i].idx = table[i].idx
               /\ r[i].cols = table[i].cols /\ r[i].trigger = table[i].trigger
               /\ f # NoFilter /\ i \in DOMAIN records => r[i].hidden = Hidden(records[i], f)
      BY <1>3, FilteredFacts
    <3>2. table' = r  BY <1>1, <2>2
    <3> HIDE DEF r
    <3> QED BY <1>3, <2>2, <3>1, <3>2
  <2> QED BY <2>1, <2>2
<1>5. ASSUME NEW i \in 1..n
      PROVE  RowOf(table'[i], records[i], rules', seq_highlights', filter_text')
  <2>1. RowOf(table[i], records[i], rules, seq_highlights, filter_text)
    BY <1>3 DEF TableIInv, Rows
  <2>2. RowOf(table'[i], records[i], rules, seq_highlights, f)
    BY <1>4, <2>1 DEF RowOf
  <2> QED BY <1>1, <1>2, <2>2
<1>6. FindBar'  BY <1>2 DEF TableIInv, FindBar
<1>7. /\ mode' \in {"ascii", "MIXED"} /\ mixed_layers' \in SUBSET AllColumns
      /\ rules' \in RuleLists
  BY <1>2 DEF TableIInv, Types
<1>8. \A i \in 1..n : table'[i].hidden = Hidden(records[i], filter_text')  BY <1>1, <1>4
<1> QED BY <1>2, <1>4, <1>5, <1>6, <1>7, <1>8, RowsAnew

\* A step that changes amber only.
LEMMA AmberStep ==
    ASSUME TableIInv, NEW lit,
           table' = [i \in DOMAIN table |-> [table[i] EXCEPT !.amber = lit[i]]],
           \A i \in DOMAIN table : lit[i] \in BOOLEAN,
           UNCHANGED <<feedVars, spliced, paused, mode, mixed_layers, ruleVars>>, FindBar'
    PROVE  TableIInv'
<1> DEFINE n == Len(records)
<1>1. /\ n \in Nat /\ Len(table) = n /\ DOMAIN table = 1..n
      /\ \A i \in 1..n : table[i] \in RowType
  BY SeqFacts DEF TableIInv, Types, Rows
<1>2. ASSUME NEW i \in 1..n
      PROVE  /\ table'[i] \in RowType
             /\ table'[i].seq = table[i].seq /\ table'[i].idx = table[i].idx
             /\ table'[i].cols = table[i].cols /\ table'[i].trigger = table[i].trigger
             /\ table'[i].hidden = table[i].hidden
  <2>1. table'[i] = [table[i] EXCEPT !.amber = lit[i]] /\ lit[i] \in BOOLEAN  BY <1>1
  <2> QED BY <1>1, <2>1, AmberRow
<1>3. table' \in Seq(RowType) /\ Len(table') = n
  <2>1. table' = [i \in 1..n |-> table'[i]]  BY <1>1
  <2> QED BY <1>1, <1>2, <2>1, Placewise
<1>4. UNCHANGED <<next_index, records, buffer, pending, spliced, paused, mode, mixed_layers,
                  seq_highlights, rules, filter_text>>
  BY DEF feedVars, ruleVars
<1>5. ASSUME NEW i \in 1..n
      PROVE  RowOf(table'[i], records[i], rules', seq_highlights', filter_text')
  <2>1. RowOf(table[i], records[i], rules, seq_highlights, filter_text)
    BY <1>1 DEF TableIInv, Rows
  <2>2. RowOf(table'[i], records[i], rules, seq_highlights, filter_text)
    BY <1>2, <2>1 DEF RowOf
  <2> QED BY <1>4, <2>2
<1>6. n < MAX_ROWS => \A i \in 1..n : table'[i].hidden = Hidden(records[i], filter_text')
  BY <1>1, <1>2, <1>4 DEF TableIInv, Rows
<1>7. /\ mode' \in {"ascii", "MIXED"} /\ mixed_layers' \in SUBSET AllColumns
      /\ rules' \in RuleLists
  BY <1>4 DEF TableIInv, Types
<1> QED BY <1>3, <1>4, <1>5, <1>6, <1>7, RowsAnew

\* A search finds rows there are, and the bar stands at the first of them.
LEMMA SearchStep ==
    ASSUME TableIInv, NEW needle, RunFind(needle),
           UNCHANGED <<feedVars, spliced, paused, mode, mixed_layers, ruleVars>>
    PROVE  TableIInv'
<1> DEFINE n == Len(records)
           found == {i \in DOMAIN records : needle # << >> /\ HasBytes(needle, records[i].data)}
           lit == [i \in DOMAIN table |-> (table[i].amber /\ i \notin find_rows) \/ i \in found]
<1>1. /\ n \in Nat /\ DOMAIN records = 1..n /\ Len(table) = n /\ DOMAIN table = 1..n
      /\ \A i \in 1..n : table[i] \in RowType
  BY SeqFacts DEF TableIInv, Types, Rows
<1>2. /\ find_rows' = found /\ find_idx' = IF found = {} THEN -1 ELSE 0
      /\ table' = [i \in DOMAIN table |->
                      [Unmarked(table)[i] EXCEPT !.amber = @ \/ i \in found]]
  BY DEF RunFind
<1>3. found \subseteq 1..n  BY <1>1
<1> HIDE DEF found
<1>4. table' = [i \in DOMAIN table |-> [table[i] EXCEPT !.amber = lit[i]]]
  <2>1. ASSUME NEW i \in DOMAIN table
        PROVE  [Unmarked(table)[i] EXCEPT !.amber = @ \/ i \in found]
                  = [table[i] EXCEPT !.amber = lit[i]]
    <3>1. Unmarked(table)[i] = [table[i] EXCEPT !.amber = table[i].amber /\ i \notin find_rows]
      BY DEF Unmarked
    <3>2. table[i] \in RowType  BY <1>1
    <3> DEFINE v == table[i].amber /\ i \notin find_rows
               w == i \in found
    <3>3. lit[i] = (v \/ w)  OBVIOUS
    <3> HIDE DEF v, w, lit
    <3>4. Unmarked(table)[i] = [table[i] EXCEPT !.amber = v]  BY <3>1 DEF v
    <3>5. [[table[i] EXCEPT !.amber = v] EXCEPT !.amber = @ \/ w]
             = [table[i] EXCEPT !.amber = v \/ w]
      BY <3>2 DEF RowType
    <3> QED BY <3>3, <3>4, <3>5 DEF w
  <2> HIDE DEF lit
  <2> QED BY <1>2, <2>1
<1>5. \A i \in DOMAIN table : lit[i] \in BOOLEAN  OBVIOUS
<1>6. FindBar'
  <2>1. IsFiniteSet(1..n) /\ IsFiniteSet(found)
    <3>1. IsFiniteSet(1..n)  BY <1>1, FS_Interval
    <3> QED BY <1>3, <3>1, FS_Subset
  <2>2. found # {} => Cardinality(found) \in Nat /\ Cardinality(found) # 0
    BY <2>1, FS_CardinalityType, FS_EmptySet
  <2>3. found \in SUBSET Nat  BY <1>1, <1>3
  <2> QED BY <1>2, <2>1, <2>2, <2>3 DEF FindBar
<1> HIDE DEF lit
<1> QED BY <1>4, <1>5, <1>6, AmberStep

LEMMA FindTextStep ==
    ASSUME TableIInv, FindTextChanged
    PROVE  TableIInv'
<1>1. PICK needle \in Needle \ {find_text} : RunFind(needle)  BY DEF FindTextChanged
<1> QED BY <1>1, SearchStep DEF FindTextChanged

LEMMA FindStepStep ==
    ASSUME TableIInv, FindStep
    PROVE  TableIInv'
<1>1. PICK step \in {1, -1} :
         IF find_rows = {} THEN RunFind(find_text)
         ELSE find_idx' = StepOf(step) /\ UNCHANGED <<find_text, find_rows, table>>
  BY DEF FindStep
<1>2. UNCHANGED <<feedVars, paused, mode, mixed_layers, ruleVars, spliced>>  BY DEF FindStep
<1>3. CASE find_rows = {}  BY <1>1, <1>2, <1>3, SearchStep
<1>4. CASE find_rows # {}
  <2>1. find_idx' = (find_idx + step) % Cardinality(find_rows)
        /\ UNCHANGED <<find_rows, table>>
    BY <1>1, <1>4 DEF StepOf
  <2>2. FindBar'
    <3>1. /\ find_rows \in SUBSET Nat /\ IsFiniteSet(find_rows)
          /\ find_idx \in 0..Cardinality(find_rows) - 1
      BY <1>4 DEF TableIInv, FindBar
    <3> DEFINE c == Cardinality(find_rows)
    <3>2. c \in Nat /\ c # 0  BY <1>4, <3>1, FS_CardinalityType, FS_EmptySet
    <3> HIDE DEF c
    <3>3. find_idx + step \in Int  BY <3>1
    <3>4. (find_idx + step) % c \in 0..c - 1  BY <3>2, <3>3
    <3>5. find_idx' \in 0..c - 1  BY <2>1, <3>4 DEF c
    <3> QED BY <2>1, <3>1, <3>5 DEF FindBar, c
  <2>3. Types' /\ Rows' /\ Feed'
    BY <1>2, <2>1, SameRows, SameFeed DEF TableIInv, Types, Rows, Feed, feedVars, ruleVars
  <2> QED BY <2>2, <2>3 DEF TableIInv
<1> QED BY <1>3, <1>4

LEMMA HideBarStep ==
    ASSUME TableIInv, HideFindBar
    PROVE  TableIInv'
<1> DEFINE lit == [i \in DOMAIN table |-> table[i].amber /\ i \notin find_rows]
<1>1. UNCHANGED <<feedVars, paused, mode, mixed_layers, ruleVars, spliced>>
  BY DEF HideFindBar
<1>2. table' = [i \in DOMAIN table |-> [table[i] EXCEPT !.amber = lit[i]]]
  BY DEF HideFindBar, Unmarked
<1>3. \A i \in DOMAIN table : lit[i] \in BOOLEAN  OBVIOUS
<1>4. FindBar'  BY FS_EmptySet DEF HideFindBar, FindBar
<1> HIDE DEF lit
<1> QED BY <1>1, <1>2, <1>3, <1>4, AmberStep

LEMMA AddHighlightStep ==
    ASSUME TableIInv, AddSequenceHighlight
    PROVE  TableIInv'
<1> DEFINE n == Len(records)
<1>1. PICK s \in DOMAIN SeqPattern \ seq_highlights :
         /\ seq_highlights' = seq_highlights \cup {s}
         /\ table' = [i \in DOMAIN table |->
                         [table[i] EXCEPT !.seq = @ \/ Hits(SeqPattern[s], records[i])]]
  BY DEF AddSequenceHighlight
<1>2. UNCHANGED <<next_index, records, buffer, pending, spliced, paused, mode, mixed_layers,
                  find_rows, find_idx, filter_text, rules>>
  BY DEF AddSequenceHighlight, feedVars, findVars
<1>3. /\ n \in Nat /\ Len(table) = n /\ DOMAIN table = 1..n
      /\ \A i \in 1..n : table[i] \in RowType
  BY SeqFacts DEF TableIInv, Types, Rows
<1>4. ASSUME NEW i \in 1..n
      PROVE  /\ table'[i] \in RowType
             /\ table'[i].seq = (table[i].seq \/ Hits(SeqPattern[s], records[i]))
             /\ table'[i].idx = table[i].idx
             /\ table'[i].cols = table[i].cols /\ table'[i].trigger = table[i].trigger
             /\ table'[i].hidden = table[i].hidden
  <2> DEFINE h == Hits(SeqPattern[s], records[i])
             v == table[i].seq \/ h
  <2>1. table'[i] = [table[i] EXCEPT !.seq = @ \/ h] /\ table[i] \in RowType
    BY <1>1, <1>3
  <2>2. v \in BOOLEAN  OBVIOUS
  <2> HIDE DEF h
  <2>3. [table[i] EXCEPT !.seq = @ \/ h] = [table[i] EXCEPT !.seq = v]
    BY <2>1 DEF RowType
  <2> HIDE DEF v
  <2>4. table'[i] = [table[i] EXCEPT !.seq = v]  BY <2>1, <2>3
  <2> DEFINE old == table[i]
             new == table'[i]
  <2>5. old \in RowType /\ new = [old EXCEPT !.seq = v]  BY <2>1, <2>4
  <2> HIDE DEF old, new
  <2>6. /\ new \in RowType /\ new.seq = v /\ new.idx = old.idx
        /\ new.cols = old.cols /\ new.trigger = old.trigger /\ new.hidden = old.hidden
    BY <2>2, <2>5, MarkedRow
  <2> QED BY <2>6 DEF v, h, old, new
<1>5. table' \in Seq(RowType) /\ Len(table') = n
  <2>1. table' = [i \in 1..n |-> table'[i]]  BY <1>1, <1>3
  <2> QED BY <1>3, <1>4, <2>1, Placewise
<1>6. ASSUME NEW i \in 1..n
      PROVE  RowOf(table'[i], records[i], rules', seq_highlights', filter_text')
  <2> DEFINE seqs == seq_highlights \cup {s}
  <2>1. RowOf(table[i], records[i], rules, seq_highlights, filter_text)
    BY <1>3 DEF TableIInv, Rows
  <2>2. SeqTint(records[i], seqs)
           = (SeqTint(records[i], seq_highlights) \/ Hits(SeqPattern[s], records[i]))
    BY DEF SeqTint
  <2> HIDE DEF seqs
  <2>3. table'[i].seq = SeqTint(records[i], seqs)
    BY <1>4, <2>1, <2>2 DEF RowOf
  <2>4. RowOf(table'[i], records[i], rules, seqs, filter_text)
    BY <1>4, <2>1, <2>3 DEF RowOf
  <2> QED BY <1>1, <1>2, <2>4 DEF seqs
<1>7. n < MAX_ROWS => \A i \in 1..n : table'[i].hidden = Hidden(records[i], filter_text')
  BY <1>2, <1>3, <1>4 DEF TableIInv, Rows
<1>8. /\ mode' \in {"ascii", "MIXED"} /\ mixed_layers' \in SUBSET AllColumns
      /\ rules' \in RuleLists
  BY <1>2 DEF TableIInv, Types
<1>9. FindBar'  BY <1>2 DEF TableIInv, FindBar
<1> QED BY <1>2, <1>5, <1>6, <1>7, <1>8, <1>9, RowsAnew

\* The tint a record has after the list of triggers changed is not of one that
\* was switched off, and a received record's only.
LEMMA TintAfterFacts ==
    ASSUME NEW list \in RuleLists, NEW rec,
           rec.trigger \in Names, rec.trigger # NoTrigger => IsRx(rec)
    PROVE  /\ TintAfter(list, rec) \in Names
           /\ TintAfter(list, rec) # NoTrigger =>
                 TintAfter(list, rec) \notin SwitchedOff(list) /\ IsRx(rec)
<1> DEFINE hits == {i \in Armed(list) : Hits(list[i].pattern, rec)}
<1>1. CASE hits # {}
  <2>1. IsRx(rec)  BY <1>1 DEF Hits
  <2>2. TintAfter(list, rec) = LastName(list, hits)  BY <1>1 DEF TintAfter
  <2>3. hits \in SUBSET Armed(list)  OBVIOUS
  <2> HIDE DEF hits
  <2>4. LastName(list, hits) \in Names \ SwitchedOff(list)  BY <1>1, <2>3, LastNameFacts
  <2> QED BY <2>1, <2>2, <2>4
<1>2. CASE hits = {}
  <2>1. TintAfter(list, rec) =
           IF rec.trigger \in OffNames(list) THEN NoTrigger ELSE rec.trigger
    BY <1>2 DEF TintAfter
  <2> QED BY <2>1 DEF Names, SwitchedOff
<1> QED BY <1>1, <1>2

LEMMA TriggersStep ==
    ASSUME TableIInv, TriggersChanged
    PROVE  TableIInv'
<1> DEFINE n == Len(records)
<1>1. PICK list \in RuleLists :
         /\ rules' = list
         /\ Tint([i \in DOMAIN records |-> TintAfter(list, records[i])])
  BY DEF TriggersChanged
<1> DEFINE tintOf == [i \in DOMAIN records |-> TintAfter(list, records[i])]
<1>2. UNCHANGED <<next_index, buffer, pending, spliced, paused, mode, mixed_layers,
                  find_rows, find_idx, filter_text, seq_highlights>>
  BY DEF TriggersChanged, findVars
<1>3. /\ n \in Nat /\ DOMAIN records = 1..n /\ DOMAIN table = 1..n
      /\ \A i \in 1..n : records[i] \in RecordType
  BY SeqFacts DEF TableIInv, Types, Rows
<1>4. \A i \in 1..n : /\ tintOf[i] \in Names
                      /\ tintOf[i] # NoTrigger => tintOf[i] \notin SwitchedOff(rules') /\ IsRx(records[i])
  <2> TAKE i \in 1..n
  <2>1. RowOf(table[i], records[i], rules, seq_highlights, filter_text)
    BY <1>3 DEF TableIInv, Rows
  <2>2. records[i].trigger \in Names  BY <1>3 DEF RecordType
  <2>3. records[i].trigger # NoTrigger => IsRx(records[i])  BY <2>1 DEF RowOf
  <2>4. tintOf[i] = TintAfter(list, records[i])  BY <1>3
  <2> QED BY <1>1, <2>2, <2>3, <2>4, TintAfterFacts
<1>5. Tint(tintOf)  BY <1>1
<1> HIDE DEF tintOf
<1>6. /\ records' \in Seq(RecordType) /\ Len(records') = n
      /\ table' \in Seq(RowType)
      /\ \A i \in 1..n : records'[i].idx = records[i].idx
  BY <1>4, <1>5, TintFacts DEF TableIInv
<1>7. Untinted(pending') /\ Untinted(buffer')  BY <1>2 DEF TableIInv, Rows
<1>8. Rows'
  BY <1>2, <1>4, <1>5, <1>7, TintKeepsRows DEF TableIInv
<1>9. Types'  BY <1>1, <1>2, <1>6 DEF TableIInv, Types
<1>10. FindBar'  BY <1>2 DEF TableIInv, FindBar
<1>11. Feed'
  <2>1. /\ Ids(records') = Ids(records)
        /\ Distinct(records) => Distinct(records')
        /\ Rising(records) => Rising(records')
    BY <1>6, SameIds DEF TableIInv, Types
  <2> QED BY <1>2, <2>1 DEF TableIInv, Feed, Before
<1> QED BY <1>8, <1>9, <1>10, <1>11 DEF TableIInv

-----------------------------------------------------------------------------
(* The invariant, and what it says to a reader of the table.                *)

\* At every moment each row is its record's, the numbers of the records are in
\* their places, and the find bar stands at a match.
THEOREM TableInductive == Spec => []TableIInv
<1>1. Init => TableIInv
  <2> SUFFICES ASSUME Init PROVE TableIInv  OBVIOUS
  <2> USE DEF Init
  <2>1. Types
    <3>1. << >> \in RuleLists
      <4>1. 0 \in 0..MaxRules /\ << >> \in [1..0 -> Rule]  BY TerminalTableAssumption
      <4> QED BY <4>1 DEF RuleLists
    <3> QED BY <3>1 DEF Types, AllColumns
  <2>2. Rows
    <3>1. MAX_ROWS \in Nat /\ Len(<< >>) = 0 /\ DOMAIN << >> = {}
      BY TerminalTableAssumption
    <3> QED BY <3>1 DEF Rows, Untinted
  <2>3. FindBar  BY FS_EmptySet DEF FindBar
  <2>4. Feed  BY DEF Feed, Distinct, Rising, Before, Ids
  <2> QED BY <2>1, <2>2, <2>3, <2>4 DEF TableIInv
<1>2. TableIInv /\ [Next]_vars => TableIInv'
  <2> SUFFICES ASSUME TableIInv, [Next]_vars PROVE TableIInv'  OBVIOUS
  <2>1. CASE Receive  BY <2>1, ReceiveStep
  <2>2. CASE AppendOther  BY <2>2, AppendOtherStep
  <2>3. CASE DrainPending  BY <2>3, DrainStep
  <2>4. CASE Pause  BY <2>4, PauseStep
  <2>5. CASE Resume  BY <2>5, ResumeStep
  <2>6. CASE Clear  BY <2>6, ClearStep
  <2>7. CASE FilterChanged  BY <2>7, FilterStep
  <2>8. CASE ModeClicked  BY <2>8, ModeStep
  <2>9. CASE SettingsApplied  BY <2>9, SettingsStep
  <2>10. CASE FindTextChanged  BY <2>10, FindTextStep
  <2>11. CASE FindStep  BY <2>11, FindStepStep
  <2>12. CASE HideFindBar  BY <2>12, HideBarStep
  <2>13. CASE AddSequenceHighlight  BY <2>13, AddHighlightStep
  <2>14. CASE RemoveSequenceHighlight  BY <2>14, RemoveHighlightStep
  <2>15. CASE TriggersChanged  BY <2>15, TriggersStep
  <2>16. CASE UNCHANGED vars
    <3>1. UNCHANGED <<next_index, records, buffer, pending, paused, table, mode, mixed_layers,
                      find_rows, find_idx, filter_text, seq_highlights, rules, spliced>>
      BY <2>16 DEF vars, feedVars, findVars, ruleVars
    <3>2. Types' /\ Rows'  BY <3>1 DEF TableIInv, Types, Rows
    <3>3. FindBar' /\ Feed'  BY <3>1 DEF TableIInv, FindBar, Feed
    <3> QED BY <3>2, <3>3 DEF TableIInv
  <2> QED
    BY <2>1, <2>2, <2>3, <2>4, <2>5, <2>6, <2>7, <2>8, <2>9, <2>10, <2>11, <2>12, <2>13,
       <2>14, <2>15, <2>16
    DEF Next
<1> QED BY <1>1, <1>2, PTL DEF Spec

\* Whatever the user does while records come in, row i shows record i and no
\* other, its tints are true, and the filter hides no row that matches.
THEOREM RowsAreTheirRecords == Spec => []TableInv
<1>1. TableIInv => TableInv
  <2> SUFFICES ASSUME TableIInv PROVE TableInv  OBVIOUS
  <2>1. \A i \in DOMAIN table :
           RowOf(table[i], records[i], rules, seq_highlights, filter_text)
    BY DEF TableIInv, Rows
  <2>2. RowsShowRecords
    BY <2>1 DEF TableIInv, Rows, Feed, FindBar, RowOf, RowsShowRecords
  <2>3. TintsHold  BY <2>1 DEF RowOf, TintsHold, SwitchedOff
  <2>4. FilterShows  BY <2>1 DEF TableIInv, Rows, RowOf, FilterShows
  <2> QED BY <2>2, <2>3, <2>4 DEF TableInv
<1> QED BY <1>1, TableInductive, PTL

\* Records come into view in the order they were made in, if no resume put
\* paused ones before older ones.
THEOREM RecordsKeepTheirOrder == Spec => []ArrivalOrder
<1>1. TableIInv => ArrivalOrder
  <2> SUFFICES ASSUME TableIInv, ~spliced
               PROVE  Rising(records \o pending \o buffer)
    BY DEF ArrivalOrder, Rising
  <2>1. /\ records \in Seq(RecordType) /\ pending \in Seq(RecordType)
        /\ buffer \in Seq(RecordType)
    BY DEF TableIInv, Types
  <2>2. /\ Rising(records) /\ Rising(pending) /\ Rising(buffer)
        /\ Before(records, pending) /\ Before(records, buffer) /\ Before(pending, buffer)
    BY DEF TableIInv, Feed
  <2> DEFINE front == records \o pending
  <2>3. front \in Seq(RecordType) /\ Rising(front) /\ Ids(front) = Ids(records) \cup Ids(pending)
    BY <2>1, <2>2, ConcatIds
  <2> HIDE DEF front
  <2>4. Before(front, buffer)  BY <2>2, <2>3 DEF Before
  <2>5. Rising(front \o buffer)  BY <2>1, <2>2, <2>3, <2>4, ConcatIds
  <2> QED BY <2>5 DEF front
<1> QED BY <1>1, TableInductive, PTL

-----------------------------------------------------------------------------
(* The table is a view of its records.                                      *)

\* As many numbers as records.
LEMMA DistinctCount ==
    ASSUME NEW s \in Seq(RecordType), Distinct(s)
    PROVE  IsFiniteSet(Ids(s)) /\ Cardinality(Ids(s)) = Len(s)
<1> DEFINE n == Len(s)
           f == [i \in 1..n |-> s[i].idx]
<1>1. n \in Nat /\ DOMAIN s = 1..n  BY SeqFacts
<1>2. f \in Bijection(1..n, Ids(s))
  <2>1. \A i \in 1..n : f[i] = s[i].idx  OBVIOUS
  <2>2. f \in [1..n -> Ids(s)]  BY <1>1 DEF Ids
  <2> HIDE DEF f
  <2>3. \A a, b \in 1..n : f[a] = f[b] => a = b  BY <1>1, <2>1 DEF Distinct
  <2>4. \A k \in Ids(s) : \E i \in 1..n : f[i] = k  BY <1>1, <2>1 DEF Ids
  <2> QED BY <2>2, <2>3, <2>4 DEF Bijection, Injection, Surjection, IsInjective
<1>3. ExistsBijection(1..n, Ids(s))  BY <1>2 DEF ExistsBijection
<1>4. IsFiniteSet(1..n) /\ Cardinality(1..n) = n  BY <1>1, FS_Interval
<1> HIDE DEF n
<1> QED BY <1>3, <1>4, FS_Bijection DEF n

LEMMA ViewWaiting ==
    ASSUME NEW p \in Seq(RecordType), NEW b \in Seq(RecordType)
    PROVE  {r.idx : r \in Range(p \o b)} = Ids(p) \cup Ids(b)
<1> DEFINE u == p \o b
<1>1. Ids(u) = Ids(p) \cup Ids(b)  BY ConcatIds
<1> HIDE DEF u
<1>2. {r.idx : r \in Range(u)} = Ids(u)  BY DEF Ids, Range
<1> QED BY <1>1, <1>2 DEF u

LEMMA ViewShown ==
    ASSUME NEW s \in Seq(RecordType)
    PROVE  LET v == [i \in DOMAIN s |-> s[i].idx] IN
           /\ Len(v) = Len(s) /\ DOMAIN v = 1..Len(s)
           /\ \A i \in 1..Len(s) : v[i] = s[i].idx
<1> DEFINE v == [i \in DOMAIN s |-> s[i].idx]
           n == Len(s)
<1>1. n \in Nat /\ DOMAIN s = 1..n /\ \A i \in 1..n : s[i] \in RecordType  BY SeqFacts
<1>2. v = [i \in 1..n |-> v[i]] /\ \A i \in 1..n : v[i] = s[i].idx  BY <1>1
<1>3. \A i \in 1..n : v[i] \in Nat  BY <1>1, <1>2 DEF RecordType
<1> HIDE DEF v
<1>4. Len(v) = n /\ DOMAIN v = 1..n  BY <1>1, <1>2, <1>3, Placewise
<1> QED BY <1>2, <1>4 DEF v

\* Records that keep their numbers show the same.
LEMMA SameShown ==
    ASSUME NEW s \in Seq(RecordType), NEW t \in Seq(RecordType), Len(t) = Len(s),
           \A i \in 1..Len(s) : t[i].idx = s[i].idx
    PROVE  [i \in DOMAIN t |-> t[i].idx] = [i \in DOMAIN s |-> s[i].idx]
<1>1. DOMAIN s = 1..Len(s) /\ DOMAIN t = 1..Len(s)  BY SeqFacts
<1> QED BY <1>1

\* A tint leaves what is shown.
LEMMA TintShowsSame ==
    ASSUME Types, NEW tintOf, Tint(tintOf)
    PROVE  [i \in DOMAIN records' |-> records'[i].idx] = [i \in DOMAIN records |-> records[i].idx]
<1>1. DOMAIN records = 1..Len(records) /\ \A i \in 1..Len(records) : records[i] \in RecordType
  BY SeqFacts DEF Types
<1>2. records' = [i \in DOMAIN records |-> [records[i] EXCEPT !.trigger = tintOf[i]]]
  BY DEF Tint
<1>3. \A i \in DOMAIN records : records'[i].idx = records[i].idx
  BY <1>1, <1>2 DEF RecordType
<1> QED BY <1>2, <1>3

\* A record made waits.
LEMMA AddArrives ==
    ASSUME TableIInv, TableIInv', NEW in \in Input, AddRecord(in),
           [i \in DOMAIN records' |-> records'[i].idx] = [i \in DOMAIN records |-> records[i].idx]
    PROVE  View!Arrive
<1> DEFINE r == Record(in)
<1>1. /\ pending \in Seq(RecordType) /\ buffer \in Seq(RecordType)
      /\ pending' \in Seq(RecordType) /\ buffer' \in Seq(RecordType)
      /\ \A k \in Ids(pending) \cup Ids(buffer) : k < next_index
  BY DEF TableIInv, Types, Feed
<1>2. r \in RecordType /\ r.idx = next_index
  BY DEF TableIInv, Types, Record, RecordType, Names
<1>3. Ids(pending') \cup Ids(buffer') = (Ids(pending) \cup Ids(buffer)) \cup {next_index}
  <2>1. CASE paused
    <3>1. buffer' = Append(buffer, r) /\ pending' = pending  BY <2>1 DEF AddRecord
    <3> HIDE DEF r
    <3>2. Ids(buffer') = Ids(buffer) \cup {next_index}  BY <1>1, <1>2, <3>1, AppendIds
    <3> QED BY <3>1, <3>2
  <2>2. CASE ~paused
    <3>1. pending' = Append(pending, r) /\ buffer' = buffer  BY <2>2 DEF AddRecord
    <3> HIDE DEF r
    <3>2. Ids(pending') = Ids(pending) \cup {next_index}  BY <1>1, <1>2, <3>1, AppendIds
    <3> QED BY <3>1, <3>2
  <2> QED BY <2>1, <2>2
<1>4. /\ {q.idx : q \in Range(pending \o buffer)} = Ids(pending) \cup Ids(buffer)
      /\ {q.idx : q \in Range(pending' \o buffer')} = Ids(pending') \cup Ids(buffer')
  BY <1>1, ViewWaiting
<1>5. next_index' = next_index + 1  BY DEF AddRecord
<1> QED BY <1>3, <1>4, <1>5 DEF View!Arrive

\* A batch comes into view below the others, and as many leave at the top as
\* are over the cap.
LEMMA DrainShows ==
    ASSUME TableIInv, TableIInv', DrainPending
    PROVE  View!Show
<1> DEFINE Taken(size, gone, all) ==
             /\ gone = IF Len(all) > MAX_ROWS THEN Len(all) - MAX_ROWS ELSE 0
             /\ records' = SubSeq(all, gone + 1, Len(all))
             /\ pending' = SubSeq(pending, size + 1, Len(pending))
<1>1. PICK size \in 0..Len(pending) : \E gone \in Nat :
         Taken(size, gone, records \o SubSeq(pending, 1, size))
  BY DrainFacts DEF TableIInv
<1> DEFINE batch == SubSeq(pending, 1, size)
           all == records \o batch
           n == Len(records)
<1>2. PICK gone \in Nat : Taken(size, gone, all)
  BY <1>1
<1>3. /\ records \in Seq(RecordType) /\ pending \in Seq(RecordType)
      /\ records' \in Seq(RecordType) /\ pending' \in Seq(RecordType)
      /\ buffer \in Seq(RecordType) /\ buffer' = buffer /\ next_index' = next_index
      /\ Len(pending) \in Nat /\ n \in Nat /\ size \in Nat /\ size <= Len(pending)
      /\ MAX_ROWS \in Nat
  <2>1. /\ records \in Seq(RecordType) /\ pending \in Seq(RecordType)
        /\ records' \in Seq(RecordType) /\ pending' \in Seq(RecordType)
        /\ buffer \in Seq(RecordType)
    BY DEF TableIInv, Types
  <2>2. buffer' = buffer /\ next_index' = next_index  BY DEF DrainPending
  <2>3. Len(pending) \in Nat /\ Len(records) \in Nat /\ MAX_ROWS \in Nat
    BY <2>1, SeqFacts, TerminalTableAssumption
  <2>4. size \in Nat /\ size <= Len(pending)  BY <2>3
  <2> QED BY <2>1, <2>2, <2>3, <2>4
<1>4. /\ batch \in Seq(RecordType) /\ Len(batch) = size /\ Distinct(batch)
      /\ Ids(pending) = Ids(batch) \cup Ids(pending')
      /\ Ids(batch) \cap Ids(pending') = {}
  BY <1>2, <1>3, SplitIds DEF TableIInv, Feed
<1> HIDE DEF batch
<1>5. /\ all \in Seq(RecordType) /\ Len(all) = n + size
      /\ \A i \in 1..n + size : all[i] = IF i <= n THEN records[i] ELSE batch[i - n]
  BY <1>3, <1>4, RecordsJoined
<1> HIDE DEF all, n
<1>6. gone = (IF n + size > MAX_ROWS THEN n + size - MAX_ROWS ELSE 0) /\ gone <= n + size
  BY <1>2, <1>3, <1>5
<1>7. /\ Len(records') = n + size - gone
      /\ \A i \in 1..n + size - gone : records'[i] = all[i + gone]
  BY <1>2, <1>3, <1>5, <1>6, SliceFacts
<1> HIDE DEF Taken
<1> DEFINE W == {q.idx : q \in Range(pending \o buffer)}
           V == {q.idx : q \in Range(pending' \o buffer')}
           s == [i \in DOMAIN records |-> records[i].idx]
           t == [i \in DOMAIN records' |-> records'[i].idx]
<1>8. W = Ids(pending) \cup Ids(buffer) /\ V = Ids(pending') \cup Ids(buffer)
  BY <1>3, ViewWaiting
<1>9. /\ Len(s) = n /\ DOMAIN s = 1..n /\ \A i \in 1..n : s[i] = records[i].idx
      /\ Len(t) = Len(records') /\ DOMAIN t = 1..Len(records')
      /\ \A i \in 1..Len(records') : t[i] = records'[i].idx
  BY <1>3, ViewShown DEF n
<1> HIDE DEF W, V, s, t
<1>10. V \subseteq W /\ W \ V = Ids(batch)
  <2>1. Ids(batch) \cap Ids(buffer) = {}  BY <1>4 DEF TableIInv, Feed
  <2> QED BY <1>4, <1>8, <2>1
<1>11. Cardinality(W \ V) = size  BY <1>4, <1>10, DistinctCount
<1>12. \A i \in 1..n - gone : t[i] = s[i + gone]
  <2> TAKE i \in 1..n - gone
  <2>1. /\ i \in 1..n + size - gone /\ i + gone \in 1..n + size /\ i + gone <= n
        /\ i + gone \in 1..n
    BY <1>3, <1>6
  <2>2. records'[i] = all[i + gone] /\ all[i + gone] = records[i + gone]
    BY <1>5, <1>7, <2>1
  <2>3. t[i] = records'[i].idx /\ s[i + gone] = records[i + gone].idx
    BY <1>7, <1>9, <2>1
  <2> QED BY <2>2, <2>3
<1>13. \A i, j \in DOMAIN t : t[i] = t[j] => i = j
  <2>1. \A i, j \in 1..Len(records') : records'[i].idx = records'[j].idx => i = j
    BY <1>3, SeqFacts DEF TableIInv, Feed, Distinct
  <2> QED BY <1>9, <2>1
<1>14. \A i \in DOMAIN t : i > n - gone => t[i] \in W \ V
  <2> SUFFICES ASSUME NEW i \in DOMAIN t, i > n - gone PROVE t[i] \in Ids(batch)
    BY <1>10
  <2> DEFINE j == i + gone
  <2>1. /\ i \in 1..n + size - gone /\ j \in 1..n + size /\ ~(j <= n)
        /\ j - n \in 1..size
    <3>1. i \in 1..n + size - gone  BY <1>7, <1>9
    <3>2. i \in Int /\ i > n - gone  BY <3>1
    <3>3. n \in Nat /\ size \in Nat /\ gone \in Nat  BY <1>3
    <3>4. j \in 1..n + size  BY <3>1, <3>3
    <3>5. ~(j <= n)  BY <3>2, <3>3
    <3> QED BY <3>1, <3>3, <3>4, <3>5
  <2>2. records'[i] = all[j]  BY <1>7, <2>1
  <2> HIDE DEF j
  <2>3. all[j] = batch[j - n]  BY <1>5, <2>1
  <2>4. t[i] = batch[j - n].idx  BY <1>7, <1>9, <2>1, <2>2, <2>3
  <2>5. DOMAIN batch = 1..size  BY <1>4, SeqFacts
  <2> QED BY <2>1, <2>4, <2>5 DEF Ids
<1>15. /\ next_index' = next_index /\ V \subseteq W
       /\ LET came == W \ V
              total == Len(s) + Cardinality(came)
              out == IF total > MAX_ROWS THEN total - MAX_ROWS ELSE 0
          IN /\ Len(t) = total - out
             /\ \A i \in 1..Len(s) - out : t[i] = s[i + out]
             /\ \A i, j \in DOMAIN t : t[i] = t[j] => i = j
             /\ \A i \in DOMAIN t : i > Len(s) - out => t[i] \in came
  <2> DEFINE came == W \ V
             total == Len(s) + Cardinality(came)
             out == IF total > MAX_ROWS THEN total - MAX_ROWS ELSE 0
  <2>1. total = n + size /\ Len(s) = n  BY <1>9, <1>11
  <2> HIDE DEF total
  <2>2. out = gone  BY <1>3, <1>6, <2>1
  <2>3. Len(t) = n + size - gone  BY <1>7, <1>9
  <2> HIDE DEF total, came
  <2>4. Len(t) = total - out  BY <2>1, <2>2, <2>3
  <2> HIDE DEF out
  <2>5. \A i \in 1..Len(s) - out : t[i] = s[i + out]  BY <1>12, <2>1, <2>2
  <2>6. \A i \in DOMAIN t : i > Len(s) - out => t[i] \in came
    BY <1>14, <2>1, <2>2 DEF came
  <2> QED BY <1>3, <1>10, <1>13, <2>4, <2>5, <2>6 DEF out, total, came
<1>16. \A S : View!Cardinality(S) = Cardinality(S)
  BY DEF View!Cardinality, Cardinality
<1> QED BY <1>15, <1>16 DEF View!Show, W, V, s, t

\* Every behaviour of the table is one of the view: no record is lost, shown
\* twice, or dropped anywhere but at the top of a full table.
THEOREM TableImplementsView == Spec => ImplementsView
<1>1. Init => View!ViewInit
  <2> SUFFICES ASSUME Init PROVE View!ViewInit  OBVIOUS
  <2>1. {q.idx : q \in Range(pending \o buffer)} = {}
    <3>1. pending \in Seq(RecordType) /\ buffer \in Seq(RecordType)
          /\ Ids(pending) = {} /\ Ids(buffer) = {}
      BY DEF Init, Ids
    <3> QED BY <3>1, ViewWaiting
  <2>2. [i \in DOMAIN records |-> records[i].idx] = << >>  BY DEF Init
  <2> QED BY <2>1, <2>2 DEF Init, View!ViewInit
<1>2. TableIInv /\ TableIInv' /\ [Next]_vars
         => [View!Arrive \/ View!Show \/ View!Clear]_(View!viewVars)
  <2> SUFFICES ASSUME TableIInv, TableIInv', [Next]_vars
               PROVE  \/ View!Arrive \/ View!Show \/ View!Clear
                      \/ UNCHANGED View!viewVars
    OBVIOUS
  <2>1. /\ Types
        /\ pending \in Seq(RecordType) /\ buffer \in Seq(RecordType)
    BY DEF TableIInv, Types
  <2>2. ASSUME UNCHANGED <<next_index, pending, buffer, records>>
        PROVE  UNCHANGED View!viewVars
    BY <2>2 DEF View!viewVars
  <2>3. CASE Receive
    <3>1. PICK in \in Input :
            /\ AddRecord(in)
            /\ \E fired \in SUBSET Armed(rules) :
                  IF fired = {} \/ LastRx = 0 THEN UNCHANGED <<records, table>>
                  ELSE Tint([i \in DOMAIN records |->
                                IF i = LastRx THEN LastName(rules, fired) ELSE records[i].trigger])
      BY <2>3, ReceiveFacts
    <3>2. [i \in DOMAIN records' |-> records'[i].idx] = [i \in DOMAIN records |-> records[i].idx]
      BY <2>1, <3>1, TintShowsSame
    <3> QED BY <3>1, <3>2, AddArrives
  <2>4. CASE AppendOther
    <3>1. PICK in \in Input : AddRecord(in)  BY <2>4 DEF AppendOther
    <3>2. records' = records  BY <2>4 DEF AppendOther
    <3> QED BY <3>1, <3>2, AddArrives
  <2>5. CASE DrainPending  BY <2>5, DrainShows
  <2>6. CASE Resume
    <3>1. CASE buffer = << >>  BY <2>2, <2>6, <3>1 DEF Resume
    <3>2. CASE buffer # << >>
      <4>1. buffer' = << >> /\ pending' = buffer \o pending /\ UNCHANGED <<next_index, records>>
        BY <2>6, <3>2 DEF Resume, Splice
      <4>2. /\ pending' \in Seq(RecordType) /\ buffer' \in Seq(RecordType)
            /\ Ids(pending') = Ids(buffer) \cup Ids(pending) /\ Ids(buffer') = {}
        <5>1. Ids(buffer') = {} /\ buffer' \in Seq(RecordType)  BY <4>1 DEF Ids
        <5> QED BY <2>1, <4>1, <5>1, ConcatIds
      <4>3. /\ {q.idx : q \in Range(pending \o buffer)} = Ids(pending) \cup Ids(buffer)
            /\ {q.idx : q \in Range(pending' \o buffer')} = Ids(pending') \cup Ids(buffer')
        BY <2>1, <4>2, ViewWaiting
      <4> QED BY <4>1, <4>2, <4>3 DEF View!viewVars
    <3> QED BY <3>1, <3>2
  <2>7. CASE Clear
    <3>1. /\ next_index' = 1 /\ records' = << >> /\ pending' = << >> /\ buffer' = << >>
      BY <2>7 DEF Clear
    <3>2. /\ pending' \in Seq(RecordType) /\ buffer' \in Seq(RecordType)
          /\ Ids(pending') = {} /\ Ids(buffer') = {}
      BY <3>1 DEF Ids
    <3>3. {q.idx : q \in Range(pending' \o buffer')} = {}  BY <3>2, ViewWaiting
    <3>4. [i \in DOMAIN records' |-> records'[i].idx] = << >>  BY <3>1
    <3> QED BY <3>1, <3>3, <3>4 DEF View!Clear
  <2>8. CASE TriggersChanged
    <3>1. PICK list \in RuleLists :
             Tint([i \in DOMAIN records |-> TintAfter(list, records[i])])
      BY <2>8 DEF TriggersChanged
    <3>2. [i \in DOMAIN records' |-> records'[i].idx] = [i \in DOMAIN records |-> records[i].idx]
      BY <2>1, <3>1, TintShowsSame
    <3>3. UNCHANGED <<next_index, pending, buffer>>  BY <2>8 DEF TriggersChanged
    <3> QED BY <3>2, <3>3 DEF View!viewVars
  <2>9. CASE \/ Pause \/ FilterChanged \/ ModeClicked \/ SettingsApplied \/ FindTextChanged
             \/ FindStep \/ HideFindBar \/ AddSequenceHighlight \/ RemoveSequenceHighlight
             \/ UNCHANGED vars
    <3>1. UNCHANGED <<next_index, pending, buffer, records>>
      BY <2>9
      DEF Pause, FilterChanged, ModeClicked, SettingsApplied, FindTextChanged, FindStep,
          HideFindBar, AddSequenceHighlight, RemoveSequenceHighlight, vars, feedVars
    <3> QED BY <2>2, <3>1
  <2> QED BY <2>3, <2>4, <2>5, <2>6, <2>7, <2>8, <2>9 DEF Next
<1> QED BY <1>1, <1>2, TableInductive, PTL DEF Spec, ImplementsView, View!ViewSpec
=============================================================================
