--------------------------- MODULE MCGoalIteration ---------------------------
(***************************************************************************)
(* GoalIteration in two scenarios.  "requests": any two requests at any    *)
(* moment of two iterations that end in any way, the first turn spending   *)
(* the budget; the constants are those of the .cfg file.  "gates": no      *)
(* request, a model that claims completion in every turn and a reviewer    *)
(* that may always reject.                                                 *)
(***************************************************************************)
EXTENDS GoalIteration

CONSTANTS r1, r2

VARIABLE scenario

Gates == INSTANCE GoalIteration WITH
    Endpoints <- {}, Outcomes <- {"done"}, TurnTokens <- {0, 6},
    MaxEvents <- 1, MaxTurns <- 9

MCInit == scenario \in {"requests", "gates"} /\ Init

MCNext ==
    /\ \/ scenario = "requests" /\ Next
       \/ scenario = "gates" /\ Gates!Next
    /\ UNCHANGED scenario

MCSpec == MCInit /\ [][MCNext]_<<vars, scenario>>

MCFairSpec == MCSpec /\ (scenario = "gates" => Gates!Fairness)

\* Requests are interchangeable, so the first comes first; and there is a second
\* request or a crash.
Bound == kind[r2] # "none" => kind[r1] # "none" /\ crashes = 0

-----------------------------------------------------------------------------
(***************************************************************************)
(* Without requests, the goal of a model that always claims completion     *)
(* ends (ClaimsAreHonoured).                                               *)
(***************************************************************************)
ClaimsEndTheGoal == scenario = "gates" => ClaimsAreHonoured
=============================================================================
