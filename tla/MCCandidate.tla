----------------------------- MODULE MCCandidate -----------------------------
(* Files of up to four symbols, SEARCH texts of up to two, one of which the    *)
(* files cannot hold (a near miss), and replacements that delete, repeat or    *)
(* create a SEARCH text.                                                       *)
EXTENDS Candidate

MCFiles == UNION {[1 .. n -> {"a", "b"}] : n \in 0 .. 4}

Searches == {<<>>, <<"a">>, <<"b">>, <<"a", "a">>, <<"a", "b">>, <<"c">>}

Replaces == {<<>>, <<"a">>, <<"b", "a">>}

MCBlocks == [search : Searches, replace : Replaces]
=============================================================================
