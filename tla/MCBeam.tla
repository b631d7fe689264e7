------------------------------- MODULE MCBeam -------------------------------
(* Instance of Beam for TLC: every combination of screening, rule and          *)
(* sanitizer, with no limit, one and two re-measurements.                      *)
EXTENDS Beam

MCConfigs ==
    [fast_screen : BOOLEAN, rule : Rules, top_k : 0 .. 2, cuda : {TRUE}]
        \cup {[fast_screen |-> TRUE, rule |-> "non_overlapping_ci", top_k |-> 2,
               cuda |-> FALSE]}

=============================================================================
