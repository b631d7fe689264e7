------------------------------ MODULE Incumbent ------------------------------
(* What an optimizer run promises about its incumbent, stated without its     *)
(* phases, sweeps, prompts or files.  A run measures the program it was given, *)
(* then replaces it only by programs it has measured, and the score it quotes  *)
(* was always measured on the program it would hand back.  A run that fails    *)
(* part way through a replacement promises nothing more.                       *)
EXTENDS Integers

CONSTANTS
    Programs,               \* every program the workspace can hold
    Scores                  \* metric values; larger is better

VARIABLES
    paired,                 \* candidates meet a fresh measurement of the incumbent
    incumbent,              \* the program the run would hand back
    evidence,               \* the program its quoted score was measured on
    score,                  \* the quoted score
    phase                   \* "new", "open", "closed" or "failed"

vars == <<paired, incumbent, evidence, score, phase>>

Init ==
    /\ paired \in BOOLEAN
    /\ phase = "new"
    /\ incumbent \in Programs
    /\ evidence = incumbent
    /\ score = 0

(* The baseline measurement opens the run.                                     *)
Open ==
    /\ phase = "new"
    /\ phase' = "open"
    /\ score' \in Scores
    /\ UNCHANGED <<paired, incumbent, evidence>>

(* A measured program takes over: a patch, or a better tuning of the same code.*)
Promote ==
    /\ phase = "open"
    /\ incumbent' \in Programs
    /\ evidence' = incumbent'
    /\ score' \in Scores
    /\ score' > score \/ paired
    /\ UNCHANGED <<paired, phase>>

(* The same program is measured again, and the new number is quoted.           *)
Recalibrate ==
    /\ phase = "open"
    /\ score' \in Scores
    /\ UNCHANGED <<paired, incumbent, evidence, phase>>

Close ==
    /\ phase \in {"new", "open"}
    /\ phase' = "closed"
    /\ UNCHANGED <<paired, incumbent, evidence, score>>

(* The run lost track of its workspace: nothing it quotes is promised any more.*)
Fail ==
    /\ phase' = "failed"
    /\ incumbent' \in Programs
    /\ evidence' \in Programs
    /\ score' \in Scores \cup {0}
    /\ UNCHANGED paired

Next == Open \/ Promote \/ Recalibrate \/ Close \/ Fail

Spec == Init /\ [][Next]_vars
=============================================================================
