--------------------------- MODULE MCTriggerEngine ---------------------------
(* TriggerEngine over a two-letter alphabet.  The patterns are one that can    *)
(* straddle chunks, one that overlaps itself, one of a single byte, and the    *)
(* same text switched off or read as another type.  The regex stands for a     *)
(* text such as [a], three bytes long and matching one: feed() counts the      *)
(* bytes of a regex's text and looks at none of them.                          *)
EXTENDS TriggerEngine

MCRule(type, pat, words, enabled) ==
    [type |-> type, pat |-> pat, words |-> words, enabled |-> enabled]

MCRules ==
    {MCRule("contains", p, {p}, e) :
        p \in {<<"a", "b", "a">>, <<"a", "a">>, <<"b">>}, e \in BOOLEAN}
    \cup {MCRule("ends_with", <<"a", "b">>, {<<"a", "b">>}, TRUE),
          MCRule("starts_with", <<"a", "b">>, {<<"a", "b">>}, TRUE),
          MCRule("exact", <<"a", "b">>, {<<"a", "b">>}, TRUE),
          MCRule("regex", <<"a", "a", "a">>, {<<"a">>}, TRUE)}

MCByte == {"a", "b"}
=============================================================================
