---------------------------- MODULE MCSubagents ----------------------------
(***************************************************************************)
(* What a server runs in the background, each part by itself.              *)
(*   - subagents: a research run in the foreground that dispatches a       *)
(*     search in a child process, a background run in a child process that *)
(*     has no timer, and a second background run of the same conversation  *)
(*   - the goal daemon, with one goal, one message and one restart          *)
(***************************************************************************)
EXTENDS Subagents, GoalDaemon

CONSTANTS research, search, forked, second, chat

MCTasks == {research, search, forked, second}
MCParent == [t \in MCTasks |-> IF t = search THEN research ELSE Top]
MCBackground == {forked, second}
MCForked == {search, forked}
MCUntimed == {forked}
MCConversation == [t \in MCTasks |-> chat]

VARIABLE part                                                   \* which one

MCInit ==
    /\ part \in {"subagents", "daemon"} /\ SubagentsInit /\ Init
    /\ part = "subagents" => bootStale = {} /\ bootFresh = {}

MCNext ==
    \/ part = "subagents" /\ SubagentsNext /\ UNCHANGED <<part, vars>>
    \/ part = "daemon" /\ Next /\ UNCHANGED <<part, subagentVars>>

\* before the first dispatch, fairness asks nothing of the subagents
MCSpec ==
    /\ MCInit /\ [][MCNext]_<<part, vars, subagentVars>>
    /\ SubagentsFairness
    /\ part = "daemon" => Fairness
=============================================================================
