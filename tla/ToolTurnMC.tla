----------------------------- MODULE ToolTurnMC -----------------------------
(* Model values for ToolTurn: two lanes that may be exchanged.             *)
EXTENDS ToolTurn, TLC

CONSTANTS diff, fanout

\* Every set of lanes two lanes can make.
AllLaneSets == SUBSET {diff, fanout}

\* Exchanging the lanes changes no admission, so one order of them is enough.
LanePermutations == Permutations({diff, fanout})
=============================================================================
