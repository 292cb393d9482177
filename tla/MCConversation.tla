--------------------------- MODULE MCConversation ---------------------------
(***************************************************************************)
(* What a turn does to a conversation, part by part: its routes and        *)
(* questions (Conversation), its messages (History), the files its tools   *)
(* change (Checkpoints), and what the browser shows of it (ChatClient).    *)
(***************************************************************************)
EXTENDS Conversation, ChatClient, Checkpoints, History, TLC

CONSTANTS t1, t2, f1, f2, c1, c2

VARIABLE part   \* which one

MCInit ==
    /\ part \in {"routes", "history", "checkpoints", "client"}
    /\ Init /\ HistoryInit /\ CheckpointsInit /\ ClientInit
    /\ part # "history" => mode = "chat"

MCNext ==
    \/ part = "routes" /\ Next /\ UNCHANGED <<part, historyVars, checkpointsVars, clientVars>>
    \/ /\ part = "history" /\ HistoryNext
       /\ UNCHANGED <<part, vars, checkpointsVars, clientVars>>
    \/ /\ part = "checkpoints" /\ CheckpointsNext
       /\ UNCHANGED <<part, vars, historyVars, clientVars>>
    \/ part = "client" /\ ClientNext /\ UNCHANGED <<part, vars, historyVars, checkpointsVars>>

MCSpec == MCInit /\ [][MCNext]_<<part, vars, historyVars, checkpointsVars, clientVars>>

-----------------------------------------------------------------------------
\* Interchangeable requests and questions.  A history in which two writers have
\* met is not followed further; of two first files, rounds or requests one is
\* taken; with three tool calls there is one rewind or one fault.  There is a
\* crash or a failed write, and after a failed write no annotation or view.
Symmetry ==
    Permutations(Sends) \cup Permutations(Answers) \cup Permutations(Asks)

Bound ==
    /\ ~mixed
    /\ crashes + failures < 2
    /\ failures = 1 => \A n \in Annotators \cup Viewers: pc[n] = "idle"
    /\ touches[1] # f2
    /\ calls = 1 => caller[c2].pc = "idle"
    /\ calls = 3 => rewinds + faults < 2
    /\ turn[t1].pc = "idle" => turn[t2].pc = "idle"
=============================================================================
