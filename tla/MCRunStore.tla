----------------------------- MODULE MCRunStore -----------------------------
(* One run of each command; a listing of two leaves one run out.               *)
EXTENDS RunStore

MCRuns == {"agent", "optimize", "profile"}

MCKindOf(r) == r
=============================================================================
