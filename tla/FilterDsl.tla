------------------------------ MODULE FilterDsl ------------------------------
(***************************************************************************)
(* kcom/core/filter.py: the predicate that decides which rows a terminal   *)
(* shows and which records a log keeps.                                    *)
(*                                                                         *)
(* A filter is a record: its key is the prefix of the text ("none" for a   *)
(* blank one, "plain" without a prefix), arg what a direction or a kind is *)
(* compared with, bytes the set of byte strings its text spells in hex     *)
(* (empty when it spells none), chars its characters.                      *)
(***************************************************************************)
EXTENDS Integers, Sequences

\* pattern in data, for bytes as for strings: an empty pattern is everywhere.
HasBytes(pattern, data) ==
    \E i \in 0..Len(data) - Len(pattern) :
        SubSeq(data, i + 1, i + Len(pattern)) = pattern

\* _ascii_sidebar: "." for every byte that cannot be printed.  A printable byte
\* is a one-character string here, any other is a number.
Sidebar(data, printable) ==
    [i \in DOMAIN data |-> IF data[i] \in printable THEN data[i] ELSE "."]

\* matches_filter.  Only info and error records have a text.
MatchesFilter(rec, f, printable) ==
    \/ f.key = "none"
    \/ f.key = "direction" /\ rec.direction = f.arg
    \/ f.key = "hex" /\ (f.bytes = {} \/ \E p \in f.bytes : HasBytes(p, rec.data))
    \/ f.key = "kind" /\ rec.kind = f.arg
    \/ /\ f.key = "plain"
       /\ \/ \E p \in f.bytes : HasBytes(p, rec.data)
          \/ HasBytes(f.chars, Sidebar(rec.data, printable))
          \/ rec.kind # "data" /\ HasBytes(f.chars, rec.data)
=============================================================================
