------------------------------ MODULE MCStorage ------------------------------
(***************************************************************************)
(* The parts that keep the program's files, each by itself: the per-file   *)
(* lock (FileLock, three calls on one file and one on another), the atomic *)
(* write with the startup sweep, and the plans with their streams.         *)
(***************************************************************************)
EXTENDS FileLock, AtomicWrite, Plans

CONSTANTS c1, c2, c3, c4, profile, todos, w1, w2, s1, s2

MCCalls == {c1, c2, c3, c4}
MCKeys == {profile, todos}
MCKey == [c \in MCCalls |-> IF c = c4 THEN todos ELSE profile]

VARIABLE part     \* which one

MCInit == part \in {"locks", "writes", "plans"} /\ Init /\ WriteInit /\ PlansInit

MCNext ==
    \/ part = "locks" /\ Next /\ UNCHANGED <<part, writeVars, plansVars>>
    \/ part = "writes" /\ WriteNext /\ UNCHANGED <<part, vars, plansVars>>
    \/ part = "plans" /\ PlansNext /\ UNCHANGED <<part, vars, writeVars>>

MCSpec ==
    /\ MCInit /\ [][MCNext]_<<part, vars, writeVars, plansVars>>
    /\ part = "locks" => Fairness
    /\ part = "plans" => PlansFairness

=============================================================================
