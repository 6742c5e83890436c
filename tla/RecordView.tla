------------------------------ MODULE RecordView ------------------------------
(***************************************************************************)
(* What a terminal promises of the records it is given: each is shown at   *)
(* most once, and leaves only from the top of a full view or when the view *)
(* is cleared.  Nothing is said of when a record is shown.                 *)
(***************************************************************************)
EXTENDS Integers, Sequences, FiniteSets

CONSTANT Limit      \* rows the view holds at most

VARIABLES
    next,       \* the number the next record gets
    waiting,    \* numbers of the records taken and not yet shown
    shown       \* numbers of the records in view, from the top

viewVars == <<next, waiting, shown>>

Shown == {shown[i] : i \in DOMAIN shown}

ViewInit == next = 1 /\ waiting = {} /\ shown = << >>

Arrive ==
    /\ next' = next + 1
    /\ waiting' = waiting \cup {next}
    /\ UNCHANGED shown

\* Some of the waiting records come below those in view; what is over the
\* limit leaves at the top.
Show ==
    /\ UNCHANGED next
    /\ waiting' \subseteq waiting
    /\ LET came == waiting \ waiting'
           all == Len(shown) + Cardinality(came)
           gone == IF all > Limit THEN all - Limit ELSE 0
       IN /\ Len(shown') = all - gone
          /\ \A i \in 1..Len(shown) - gone : shown'[i] = shown[i + gone]
          /\ \A i, j \in DOMAIN shown' : shown'[i] = shown'[j] => i = j
          /\ \A i \in DOMAIN shown' : i > Len(shown) - gone => shown'[i] \in came

Clear == next' = 1 /\ waiting' = {} /\ shown' = << >>

ViewSpec == ViewInit /\ [][Arrive \/ Show \/ Clear]_viewVars
=============================================================================
