----------------------------- MODULE MCAgentLoop -----------------------------
(* A small instance of AgentLoop.  Scores are spaced so that one pair is a     *)
(* tiny gain (2.5%), one a clear gain, and one a drift beyond the limit.       *)
EXTENDS AgentLoop

MCScores == {1000, 1025, 1100}

Plain == [paired |-> FALSE, early_stop |-> TRUE, max_cost |-> 0, tools |-> FALSE,
          tuning_editable |-> FALSE, sweep |-> TRUE, disk_faults |-> FALSE]

(* The default task, and one departure from it per setting.                    *)
MCConfigs ==
    {Plain,
     [Plain EXCEPT !.paired = TRUE, !.sweep = FALSE, !.tools = TRUE],
     [Plain EXCEPT !.tuning_editable = TRUE, !.early_stop = FALSE],
     [Plain EXCEPT !.max_cost = 2, !.sweep = FALSE, !.tools = TRUE],
     [Plain EXCEPT !.disk_faults = TRUE]}
=============================================================================
