--------------------------- MODULE MCTerminalTable ---------------------------
(* TerminalTable with two rows, over two received chunks, one that is sent and *)
(* one message; "nul" is a byte that cannot be printed.                           *)
EXTENDS TerminalTable

MCInput == {[direction |-> "RX", kind |-> "data", data |-> <<"a">>],
            [direction |-> "RX", kind |-> "data", data |-> <<"a", "nul">>],
            [direction |-> "--", kind |-> "info", data |-> <<"a", "b">>]}
MCFilter == {NoFilter,
             [NoFilter EXCEPT !.key = "direction", !.arg = "RX"],
             [NoFilter EXCEPT !.key = "plain", !.chars = <<".">>]}
\* A trigger that is on, whose match may take two chunks, and one of the same
\* name that is off.
MCRule == {[name |-> "t1", pattern |-> <<"a", "nul">>, on |-> TRUE],
           [name |-> "t1", pattern |-> <<"nul">>, on |-> FALSE]}
MCSeqPattern == [s \in {"s1"} |-> <<"nul">>]
MCNeedle == {<< >>, <<"nul">>}
MCLayers == {{}, {"dec"}}
=============================================================================
