----------------------------- MODULE MCKnobSweep -----------------------------
(* A small instance of KnobSweep.  1010 is a gain over 1000 below the floor,   *)
(* 1040 one above it, and 1100 beats them all.                                 *)
EXTENDS KnobSweep

MCScores == {1000, 1010, 1040, 1100}

Task(kind) == [kind |-> kind, gated |-> TRUE, disk_faults |-> FALSE]

(* Every kind of tuning.yaml, the ratio rule once, and a faulty disk once each *)
(* for the grid and the toggles.                                               *)
MCConfigs ==
    {Task(kind) : kind \in Kinds}
        \cup {[Task("grid") EXCEPT !.gated = FALSE]}
        \cup {[Task(kind) EXCEPT !.disk_faults = TRUE] : kind \in {"grid", "legacy"}}
=============================================================================
