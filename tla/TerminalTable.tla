---------------------------- MODULE TerminalTable ----------------------------
(***************************************************************************)
(* kcom/ui/terminal_table.py: the table of one terminal.  A record goes    *)
(* through _buffer (while paused) and _pending (until the next drain) to   *)
(* _records, of which the QTableWidget shows one row each.  Rows carry     *)
(* state of their own (what is rendered, tints, hidden) that must follow   *)
(* the records through batches, the row cap and a full re-render.          *)
(*                                                                         *)
(* The window's part is here too: a chunk that fires triggers and a change *)
(* of the trigger list, as both act on the rows.                           *)
(***************************************************************************)
EXTENDS FilterDsl, FiniteSets, FiniteSetsExt, SequencesExt

CONSTANTS
    MAX_ROWS, DRAIN_CHUNK,  \* _MAX_ROWS and _DRAIN_CHUNK
    Input,                  \* [direction, kind, data] of the records that may come
    Printable,              \* the bytes that can be printed
    Filter,                 \* filter texts, NoFilter included
    Rule,                   \* [name, pattern, on] of the "contains" triggers that may be listed
    SeqPattern,             \* SeqPattern[s] is what sequence s sends
    Needle,                 \* texts of the find bar, the empty one included
    Layers,                 \* choices of mixed layers in the settings
    MaxRules,               \* bound: triggers listed at once
    MaxRecords,             \* bound: records made
    MaxUses                 \* bound: uses of the toolbar, the settings and the other panels

NoTrigger == "none"

ASSUME TerminalTableAssumption ==
    /\ {MAX_ROWS, DRAIN_CHUNK} \subseteq Nat \ {0}
    /\ {MaxRules, MaxRecords, MaxUses} \subseteq Nat
    /\ Layers \subseteq SUBSET {"hex", "ascii", "dec", "bin"}
    /\ \A r \in Rule : r.on \in BOOLEAN /\ r.name # NoTrigger

VARIABLES
    next_index, records, buffer, pending, paused, drain_scheduled,
    table,          \* the rows of the QTableWidget
    mode,           \* _mode
    mixed_layers,   \* _mixed_layers
    filter_text,    \* _filter_text
    find_text,      \* the text in the find bar
    find_rows,      \* _find_rows: the rows that matched, which the code lists in order
    find_idx,       \* which of them the bar stands at
    seq_highlights, \* the keys of _seq_highlights
    rules,          \* the triggers of the session's engine, in the order of the panel
    spliced,        \* history: a resume put paused records before pending ones
    uses            \* how often the user has used anything but the live feed

feedVars == <<next_index, records, buffer, pending, drain_scheduled>>
findVars == <<find_text, find_rows, find_idx>>
ruleVars == <<filter_text, seq_highlights, rules>>
vars == <<feedVars, paused, table, mode, mixed_layers, findVars, ruleVars, spliced, uses>>

NoFilter == [key |-> "none", arg |-> "", bytes |-> {}, chars |-> << >>]
AllColumns == {"hex", "ascii", "dec", "bin"}

-----------------------------------------------------------------------------
(* What a row shows.                                                        *)

\* _visible_data_cols, as _apply_mode_columns sets it.
Visible(m, layers) == IF m = "MIXED" THEN layers ELSE {m}

IsRx(rec) == rec.direction = "RX" /\ rec.kind = "data"
Hits(pattern, rec) == IsRx(rec) /\ HasBytes(pattern, rec.data)

SeqTint(rec, seqs) == \E s \in seqs : Hits(SeqPattern[s], rec)

\* The columns _populate_row fills: an info or error text goes into each.
Rendered(m, rec) == IF rec.kind = "data" THEN Visible(m, mixed_layers) ELSE AllColumns

\* A row as _insert_row leaves it: no tint, not hidden.
Row(m, rec) == [idx |-> rec.idx, cols |-> Rendered(m, rec), trigger |-> NoTrigger,
                seq |-> FALSE, amber |-> FALSE, hidden |-> FALSE]

Hidden(rec, f) == ~MatchesFilter(rec, f, Printable)

\* _apply_filter on the rows of a set; a blank filter touches no row.
Filtered(rows, recs, f, only) ==
    [i \in DOMAIN rows |->
        IF f # NoFilter /\ i \in only THEN [rows[i] EXCEPT !.hidden = Hidden(recs[i], f)]
                                      ELSE rows[i]]

\* _rerender_all: every row anew, with the tints its record and the running
\* sequences call for.
Rerendered(m, seqs) ==
    Filtered([i \in DOMAIN records |->
                [Row(m, records[i]) EXCEPT !.trigger = records[i].trigger,
                                           !.seq = SeqTint(records[i], seqs)]],
             records, filter_text, DOMAIN records)

\* _apply_highlight on the record and the row at each place that has a tint to get.
Tint(tintOf) ==
    /\ records' = [i \in DOMAIN records |-> [records[i] EXCEPT !.trigger = tintOf[i]]]
    /\ table' = [i \in DOMAIN table |-> [table[i] EXCEPT !.trigger = tintOf[i]]]

-----------------------------------------------------------------------------
(* The live feed.                                                           *)

Record(in) == [idx |-> next_index, direction |-> in.direction, kind |-> in.kind,
               data |-> in.data, trigger |-> NoTrigger]

\* _add_record, for append_rx, append_tx, append_info, append_error and their
\* tap forms.
AddRecord(in) ==
    /\ next_index <= MaxRecords
    /\ next_index' = next_index + 1
    /\ IF paused
       THEN /\ buffer' = Append(buffer, Record(in))
            /\ UNCHANGED <<pending, drain_scheduled>>
       ELSE /\ pending' = Append(pending, Record(in))
            /\ drain_scheduled' = TRUE
            /\ UNCHANGED buffer

AppendOther ==
    /\ \E in \in Input : in.direction # "RX" /\ AddRecord(in)
    /\ UNCHANGED <<records, table, paused, mode, mixed_layers, findVars, ruleVars, spliced,
                   uses>>

LastRx == Max({0} \cup {i \in DOMAIN records : IsRx(records[i])})

\* The triggers of a list that can match: those that are on and have a pattern.
Armed(list) == {i \in DOMAIN list : list[i].on /\ list[i].pattern # << >>}

\* The name left on a row that several triggers of a list tint in turn.
LastName(list, places) == list[Max(places)].name

\* The engine keeps the tail of a chunk for a pattern of more than one byte, and
\* what it keeps, under this pattern or one that it replaced, may complete a match.
MatchesByTail(list) == IF \E r \in Rule : Len(r.pattern) > 1 THEN Armed(list) ELSE {}

\* A chunk received: append_rx, then the triggers it fires, each of which tints
\* the last RX row there is (highlight_last_rx): the chunk's own is not yet one.
Receive ==
    \E in \in Input :
        /\ in.direction = "RX"
        /\ AddRecord(in)
        /\ \E tailed \in SUBSET MatchesByTail(rules) :
              LET fired == tailed \cup
                           {i \in Armed(rules) : HasBytes(rules[i].pattern, in.data)}
              IN IF fired = {} \/ LastRx = 0 THEN UNCHANGED <<records, table>>
                 ELSE Tint([i \in DOMAIN records |->
                               IF i = LastRx THEN LastName(rules, fired)
                                             ELSE records[i].trigger])
        /\ UNCHANGED <<paused, mode, mixed_layers, findVars, ruleVars, spliced, uses>>

\* Mutants of EnforceCap: the table loses one row less than the records; a full
\* table keeps its old rows and loses the new ones.
EnforceCapOffByOne(recs, rows) ==
    LET overflow == Len(recs) - MAX_ROWS
    IN IF overflow > 0 THEN <<SubSeq(recs, overflow + 1, Len(recs)),
                              SubSeq(rows, overflow, Len(rows))>>
       ELSE <<recs, rows>>

EnforceCapKeepsOld(recs, rows) ==
    IF Len(recs) > MAX_ROWS THEN <<SubSeq(recs, 1, MAX_ROWS), SubSeq(rows, 1, MAX_ROWS)>>
    ELSE <<recs, rows>>

\* _enforce_cap: the oldest records and as many rows from the top.
EnforceCap(recs, rows) ==
    LET overflow == Len(recs) - MAX_ROWS
    IN IF overflow > 0 THEN <<SubSeq(recs, overflow + 1, Len(recs)),
                              SubSeq(rows, overflow + 1, Len(rows))>>
       ELSE <<recs, rows>>

\* Mutant of MoreToDrain: the rest of a backlog waits for the next record.
MoreToDrainNever == FALSE

MoreToDrain == Len(pending) > DRAIN_CHUNK

\* The rows just added, as _drain_pending counts them.
NewRows(size, count) == Max({0, count - size}) + 1..count

InsertedRow(rec) == [Row(mode, rec) EXCEPT !.seq = SeqTint(rec, seq_highlights)]

\* _drain_pending: at most DRAIN_CHUNK records become rows, the cap is enforced
\* once, and the new rows are filtered if the table has grown.
DrainPending ==
    /\ drain_scheduled
    /\ LET size == Min({DRAIN_CHUNK, Len(pending)})
           batch == SubSeq(pending, 1, size)
           capped == EnforceCap(records \o batch,
                                table \o [i \in 1..size |-> InsertedRow(batch[i])])
           count == Len(capped[2])
           only == IF Len(table) < count THEN NewRows(size, count) ELSE {}
       IN /\ pending' = SubSeq(pending, size + 1, Len(pending))
          /\ records' = capped[1]
          /\ table' = Filtered(capped[2], capped[1], filter_text, only)
    /\ drain_scheduled' = MoreToDrain
    /\ UNCHANGED <<next_index, buffer, paused, mode, mixed_layers, findVars, ruleVars,
                   spliced, uses>>

-----------------------------------------------------------------------------
(* The user.                                                                *)

Use == uses < MaxUses /\ uses' = uses + 1

Pause ==
    /\ Use
    /\ ~paused
    /\ paused' = TRUE
    /\ UNCHANGED <<feedVars, table, mode, mixed_layers, findVars, ruleVars, spliced>>

\* Mutant of Splice: the newest paused record comes first.
SpliceReversed == Reverse(buffer) \o pending

\* The paused records go in front of the pending ones.
Splice == buffer \o pending

\* set_paused(False) and _on_pause_toggled.  The button counts the paused
\* records after they are moved, so it has nothing to announce.
Resume ==
    /\ Use
    /\ paused
    /\ paused' = FALSE
    /\ IF buffer = << >> THEN UNCHANGED <<buffer, pending, drain_scheduled, spliced>>
       ELSE /\ buffer' = << >>
            /\ pending' = Splice
            /\ drain_scheduled' = TRUE
            /\ spliced' = (spliced \/ pending # << >>)
    /\ UNCHANGED <<next_index, records, table, mode, mixed_layers, findVars, ruleVars>>

\* clear(): the drain that is scheduled finds nothing.
Clear ==
    /\ Use
    /\ records' = << >> /\ table' = << >> /\ buffer' = << >> /\ pending' = << >>
    /\ next_index' = 1
    /\ find_rows' = {} /\ find_idx' = -1
    /\ spliced' = FALSE
    /\ UNCHANGED <<drain_scheduled, paused, mode, mixed_layers, find_text, ruleVars>>

\* _on_filter_changed: a filter taken away un-hides every row.
FilterChanged ==
    \E f \in Filter \ {filter_text} :
        /\ Use
        /\ filter_text' = f
        /\ table' = IF f = NoFilter THEN [i \in DOMAIN table |-> [table[i] EXCEPT !.hidden = FALSE]]
                    ELSE Filtered(table, records, f, DOMAIN records)
        /\ UNCHANGED <<feedVars, paused, mode, mixed_layers, findVars, seq_highlights, rules,
                       spliced>>

\* _on_mode_clicked.
ModeClicked ==
    \E m \in {"ascii", "MIXED"} \ {mode} :
        /\ Use
        /\ mode' = m
        /\ table' = Rerendered(m, seq_highlights)
        /\ UNCHANGED <<feedVars, paused, mixed_layers, findVars, ruleVars, spliced>>

\* The settings dialog, set_theme, apply_style and a timestamp format: a
\* re-render; then set_mixed_layers, which renders nothing.
SettingsApplied ==
    \E layers \in Layers :
        /\ Use
        /\ table' = Rerendered(mode, seq_highlights)
        /\ mixed_layers' = IF layers = {} THEN {"hex", "ascii"} ELSE layers
        /\ UNCHANGED <<feedVars, paused, mode, findVars, ruleVars, spliced>>

\* Amber taken off the rows whose numbers _find_rows holds.
Unmarked(rows) ==
    [i \in DOMAIN rows |-> [rows[i] EXCEPT !.amber = @ /\ i \notin find_rows]]

\* _run_find with a text in the bar.
RunFind(needle) ==
    LET found == {i \in DOMAIN records : needle # << >> /\ HasBytes(needle, records[i].data)}
    IN /\ find_text' = needle
       /\ find_rows' = found
       /\ find_idx' = IF found = {} THEN -1 ELSE 0
       /\ table' = [i \in DOMAIN table |-> [Unmarked(table)[i] EXCEPT !.amber = @ \/ i \in found]]

FindTextChanged ==
    /\ Use
    /\ \E needle \in Needle \ {find_text} : RunFind(needle)
    /\ UNCHANGED <<feedVars, paused, mode, mixed_layers, ruleVars, spliced>>

StepOf(step) == (find_idx + step) % Cardinality(find_rows)

\* _find_next and _find_prev: without matches the search is made again.
FindStep ==
    \E step \in {1, -1} :
        /\ Use
        /\ IF find_rows = {} THEN RunFind(find_text)
           ELSE find_idx' = StepOf(step) /\ UNCHANGED <<find_text, find_rows, table>>
        /\ UNCHANGED <<feedVars, paused, mode, mixed_layers, ruleVars, spliced>>

HideFindBar ==
    /\ Use
    /\ find_rows # {}
    /\ table' = Unmarked(table)
    /\ find_rows' = {} /\ find_idx' = -1
    /\ UNCHANGED <<feedVars, paused, mode, mixed_layers, find_text, ruleVars, spliced>>

\* A sequence starts: add_sequence_highlight tints the rows there are, for one
\* that has bytes.
AddSequenceHighlight ==
    \E s \in DOMAIN SeqPattern \ seq_highlights :
        /\ Use
        /\ SeqPattern[s] # << >>
        /\ seq_highlights' = seq_highlights \cup {s}
        /\ table' = [i \in DOMAIN table |->
                        [table[i] EXCEPT !.seq = @ \/ Hits(SeqPattern[s], records[i])]]
        /\ UNCHANGED <<feedVars, paused, mode, mixed_layers, findVars, filter_text, rules,
                       spliced>>

\* It ends: remove_sequence_highlight renders everything again.
RemoveSequenceHighlight ==
    \E s \in seq_highlights :
        /\ Use
        /\ seq_highlights' = seq_highlights \ {s}
        /\ table' = Rerendered(mode, seq_highlights \ {s})
        /\ UNCHANGED <<feedVars, paused, mode, mixed_layers, findVars, filter_text, rules,
                       spliced>>

RuleLists == UNION {[1..n -> Rule] : n \in 0..MaxRules}

\* Names of the triggers of a list that are off, and of those that are on.
OffNames(list) == {list[i].name : i \in {j \in DOMAIN list : ~list[j].on}}
OnNames(list) == {list[i].name : i \in {j \in DOMAIN list : list[j].on}}

\* Mutant of TintAfter: nothing is cleared when a trigger is switched off.
TintAfterKeeps(list, rec) ==
    LET hits == {i \in Armed(list) : Hits(list[i].pattern, rec)}
    IN IF hits # {} THEN LastName(list, hits) ELSE rec.trigger

\* _on_triggers_changed on one record: clear_trigger_highlights for the name of
\* every trigger that is off, then highlight_all_matching for those that are on,
\* in order.  A trigger that is no longer listed under its name clears nothing.
TintAfter(list, rec) ==
    LET hits == {i \in Armed(list) : Hits(list[i].pattern, rec)}
    IN IF hits # {} THEN LastName(list, hits)
       ELSE IF rec.trigger \in OffNames(list) THEN NoTrigger ELSE rec.trigger

\* The panel announces its list after an addition, an edit, a copy, a deletion or
\* a switch.  A project may have replaced that list before, which announces
\* nothing and reaches neither engine nor rows: any list may follow any other.
TriggersChanged ==
    \E list \in RuleLists :
        /\ Use
        /\ rules' = list
        /\ Tint([i \in DOMAIN records |-> TintAfter(list, records[i])])
        /\ UNCHANGED <<next_index, buffer, pending, drain_scheduled, paused, mode, mixed_layers,
                       findVars, filter_text, seq_highlights, spliced>>

-----------------------------------------------------------------------------
\* The engine of a session has the panel's list from the start: one opened with
\* triggers is as after a first TriggersChanged.
Init ==
    /\ next_index = 1
    /\ records = << >> /\ buffer = << >> /\ pending = << >> /\ table = << >>
    /\ paused = FALSE /\ drain_scheduled = FALSE
    /\ mode = "MIXED" /\ mixed_layers = {"hex", "ascii"}
    /\ filter_text = NoFilter
    /\ find_text = << >> /\ find_rows = {} /\ find_idx = -1
    /\ seq_highlights = {} /\ rules = << >>
    /\ spliced = FALSE
    /\ uses = 0

Next ==
    \/ Receive \/ AppendOther \/ DrainPending
    \/ Pause \/ Resume \/ Clear
    \/ FilterChanged \/ ModeClicked \/ SettingsApplied
    \/ FindTextChanged \/ FindStep \/ HideFindBar
    \/ AddSequenceHighlight \/ RemoveSequenceHighlight \/ TriggersChanged

Spec == Init /\ [][Next]_vars

\* The single-shot timer of the drain fires.
FairSpec == Spec /\ WF_vars(DrainPending)

-----------------------------------------------------------------------------
(* Properties.                                                              *)

\* Row i shows record i, with the record's own tint, through batches, the cap
\* and re-renders; the find bar's place is one of its matches.
RowsShowRecords ==
    /\ Len(table) = Len(records) /\ Len(records) <= MAX_ROWS
    /\ \A i \in DOMAIN table :
          /\ table[i].idx = records[i].idx
          /\ table[i].trigger = records[i].trigger
          /\ records[i].kind # "data" => table[i].cols = AllColumns
    /\ find_rows # {} => find_idx \in 0..Cardinality(find_rows) - 1
    /\ buffer # << >> => paused

\* No row bears the name of a trigger that was switched off and is still listed,
\* unless another of that name is on, whatever fired, was switched, renamed,
\* deleted or rendered again; only received rows bear one; and a running
\* sequence's mark is on a row exactly when its bytes are in it.  (The name of a
\* trigger that was renamed or deleted stays on its rows; and a live match marks
\* the newest row shown, not that of the packet that matched, which is pending.)
TintsHold ==
    \A i \in DOMAIN table :
        /\ table[i].trigger # NoTrigger =>
              /\ table[i].trigger \notin OffNames(rules) \ OnNames(rules)
              /\ IsRx(records[i])
        /\ table[i].seq = SeqTint(records[i], seq_highlights)

\* The filter never hides a row that matches; and as long as the table is not
\* full it hides every row that does not.  (A full table does not grow, so the
\* drain leaves its new rows unfiltered.)
FilterShows ==
    \A i \in DOMAIN table :
        /\ table[i].hidden => Hidden(records[i], filter_text)
        /\ Len(table) < MAX_ROWS => table[i].hidden = Hidden(records[i], filter_text)

\* What holds of the rows in every state.
TableInv == RowsShowRecords /\ TintsHold /\ FilterShows

\* Records come into view in the order in which they were made, unless a
\* resume put paused records before older ones that were still pending.
ArrivalOrder ==
    LET order == records \o pending \o buffer
    IN ~spliced => \A i, j \in DOMAIN order : i < j => order[i].idx < order[j].idx

\* The detailed table is a view of its records: none is lost, shown twice or
\* dropped anywhere but at the top of a full table.
View == INSTANCE RecordView WITH
            Limit <- MAX_ROWS,
            next <- next_index,
            waiting <- {r.idx : r \in Range(pending \o buffer)},
            shown <- [i \in DOMAIN records |-> records[i].idx]
ImplementsView == View!ViewSpec

\* Whatever the user does, records that are pending are shown.
PendingIsShown == pending # << >> ~> pending = << >>
=============================================================================
