----------------------------- MODULE TriggerEngine -----------------------------
(***************************************************************************)
(* kcom/core/trigger_engine.py: rules matched against the chunks one       *)
(* session fans out, with a tail kept per rule so that a match may straddle *)
(* chunks.  A rule keeps its id, and so its tail, when the user edits or   *)
(* toggles it (trigger_panel.py, trigger_editor_dialog.py).                *)
(***************************************************************************)
EXTENDS Integers, Sequences

CONSTANTS
    Trigger,    \* ids of rules
    Rule,       \* what a rule can say: a set of RuleShape records
    Byte,       \* the bytes that can be received
    MaxChunk,   \* bound: bytes in one chunk
    MaxStream   \* bound: bytes fed in a behaviour

\* type is match_type, pat the bytes of the pattern's text, words the byte
\* strings the pattern matches: {pat}, except for a regex.
RuleShape == [type : {"contains", "regex", "starts_with", "ends_with", "exact"},
              pat : Seq(Byte), words : SUBSET Seq(Byte), enabled : BOOLEAN]

ASSUME TriggerEngineAssumption ==
    /\ \A r \in Rule : /\ r \in RuleShape
                       /\ r.type # "regex" => r.words = {r.pat}
    /\ {MaxChunk, MaxStream} \subseteq Nat

VARIABLES
    rules,      \* _triggers: the live ids and what each says
    tails,      \* _tails; no entry is an empty tail
    stream,     \* history: every byte fed to the engine
    seen,       \* history: per id, the bytes its present pattern was matched to
    settled,    \* history: per id, no byte of its tail is older than seen
    fired       \* history: the ids trigger_fired reported in the last feed

engineVars == <<rules, tails, stream, seen, settled, fired>>

Rolling == {"contains", "regex"}

EngineTypeOK ==
    /\ DOMAIN rules \subseteq Trigger
    /\ \A t \in DOMAIN rules : rules[t] \in Rule
    /\ tails \in [Trigger -> Seq(Byte)]
    /\ \A t \in Trigger \ DOMAIN rules : tails[t] = << >>
    /\ stream \in Seq(Byte)
    /\ seen \in [Trigger -> Seq(Byte)]
    /\ settled \in [Trigger -> BOOLEAN]
    /\ fired \subseteq DOMAIN rules

EngineInit ==
    /\ rules = << >>
    /\ tails = [t \in Trigger |-> << >>]
    /\ stream = << >>
    /\ seen = [t \in Trigger |-> << >>]
    /\ settled = [t \in Trigger |-> TRUE]
    /\ fired = {}

-----------------------------------------------------------------------------

\* The last k bytes of s: s[-k:], and none for k = 0.
Suffix(s, k) == IF k >= Len(s) THEN s ELSE SubSeq(s, Len(s) - k + 1, Len(s))

OccursAt(w, s, i) ==
    /\ i + Len(w) - 1 <= Len(s)
    /\ SubSeq(s, i, i + Len(w) - 1) = w

Occurs(w, s) == \E i \in 1..Len(s) : OccursAt(w, s, i)

\* _matches
Matches(r, hay) ==
    \E w \in r.words :
        CASE r.type \in Rolling       -> Occurs(w, hay)
          [] r.type = "starts_with"   -> OccursAt(w, hay, 1)
          [] r.type = "ends_with"     -> /\ Len(w) <= Len(hay)
                                         /\ OccursAt(w, hay, Len(hay) - Len(w) + 1)
          [] r.type = "exact"         -> w = hay

\* The rules feed() looks at.
Active == {t \in DOMAIN rules : rules[t].enabled /\ rules[t].pat # << >>}

\* What a rule is matched against when data comes.
Hay(t, data) == IF rules[t].type \in Rolling THEN tails[t] \o data ELSE data

\* Mutants of NewTail: one byte too many is kept; the tail is cut from the
\* new chunk alone.
NewTailLong(t, data) == Suffix(tails[t] \o data, Len(rules[t].pat))
NewTailOfChunk(t, data) == Suffix(data, Len(rules[t].pat) - 1)

\* combined[-keep:], with keep = len(pat) - 1.
NewTail(t, data) == Suffix(tails[t] \o data, Len(rules[t].pat) - 1)

\* feed
Feed(data) ==
    LET rolling == {t \in Active : rules[t].type \in Rolling} IN
    /\ data # << >>
    /\ fired' = {t \in Active : Matches(rules[t], Hay(t, data))}
    /\ tails' = [t \in Trigger |-> IF t \in rolling THEN NewTail(t, data) ELSE tails[t]]
    /\ seen' = [t \in Trigger |-> IF t \in rolling THEN seen[t] \o data ELSE seen[t]]
    /\ settled' = [t \in Trigger |->
                     \/ settled[t]
                     \/ t \in rolling /\ Len(seen'[t]) >= Len(rules[t].pat) - 1]
    /\ stream' = stream \o data
    /\ UNCHANGED rules

\* The ids whose pattern new does not change, and what the histories become.
Same(new) == {t \in DOMAIN rules \cap DOMAIN new : new[t].pat = rules[t].pat}

NewHistory(new) ==
    /\ seen' = [t \in Trigger |-> IF t \in Same(new) THEN seen[t] ELSE << >>]
    /\ settled' = [t \in Trigger |->
                     IF t \in Same(new) THEN settled[t]
                     ELSE t \notin DOMAIN rules \/ t \notin DOMAIN new \/ tails[t] = << >>]
    /\ fired' = {}
    /\ UNCHANGED stream

\* set_triggers: replace the list, drop the tails of ids that are gone.
\* clear() is set_triggers of nothing.
SetTriggers(new) ==
    /\ rules' = new
    /\ tails' = [t \in Trigger |-> IF t \in DOMAIN new THEN tails[t] ELSE << >>]
    /\ NewHistory(new)

Chunks == UNION {[1..n -> Byte] : n \in 1..MaxChunk}

EngineNext ==
    \/ \E data \in Chunks : Len(stream) + Len(data) <= MaxStream /\ Feed(data)
    \/ \E S \in SUBSET Trigger : \E new \in [S -> Rule] : SetTriggers(new)

EngineSpec == EngineInit /\ [][EngineNext]_engineVars

-----------------------------------------------------------------------------
(* Properties.                                                              *)

\* w occurs in s with its last byte beyond the first n bytes.
EndsBeyond(w, s, n) == \E i \in 1..Len(s) : OccursAt(w, s, i) /\ i + Len(w) - 1 > n

Contains(t) == t \in DOMAIN rules /\ rules[t].type = "contains" /\ rules[t].pat # << >>

\* The tail is what the next chunk can complete and no more: the last
\* len(pat) - 1 bytes the rule was matched against, however they were cut
\* into chunks and however often the rule list was replaced meanwhile.
TailIsSuffix ==
    \A t \in Trigger : Contains(t) /\ settled[t] =>
        tails[t] = Suffix(seen[t], Len(rules[t].pat) - 1)

\* What holds of the engine in every state.
TriggerInv == EngineTypeOK /\ TailIsSuffix

\* A contains rule fires in exactly the feeds in which an occurrence of its
\* pattern is completed: one that straddles chunks is seen, and none is seen
\* again in a later feed.
ContainsExact ==
    [][stream' # stream =>
         \A t \in Active : Contains(t) /\ settled[t] =>
             (t \in fired' <=> EndsBeyond(rules[t].pat, seen'[t], Len(seen[t])))]_engineVars
=============================================================================
