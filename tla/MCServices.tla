----------------------------- MODULE MCServices -----------------------------
(***************************************************************************)
(* Two long-running services of a server, each by itself: a run of the     *)
(* init-project agent with one resume and one stream (InitProject), and    *)
(* one MCP server under the registry, with two requests, a budget of one   *)
(* restart and one death (McpRegistry).                                    *)
(***************************************************************************)
EXTENDS InitProject, McpRegistry

VARIABLE part                                                   \* which one

\* What mcp.json may say of the server, besides nothing.
MCConfigs == {[ver |-> 1, enabled |-> TRUE, autoRestart |-> TRUE],
              [ver |-> 2, enabled |-> FALSE, autoRestart |-> TRUE]}

MCInit == part \in {"init", "mcp"} /\ Init /\ McpInit

MCNext ==
    \/ part = "init" /\ Next /\ UNCHANGED <<part, mcpVars>>
    \/ part = "mcp" /\ McpNext /\ UNCHANGED <<part, vars>>

MCSpec ==
    /\ MCInit /\ [][MCNext]_<<part, vars, mcpVars>>
    /\ part = "init" => Fairness
    /\ part = "mcp" => McpFairness

-----------------------------------------------------------------------------
\* The stream is followed while no resume runs.
Bound ==
    \/ stream.pc = "idle" \/ (stream.pc = "closed" /\ crashes > 0)
    \/ \A r \in Resumes: driver[r].pc = "idle"
=============================================================================
