---------------------------- MODULE McpRegistry ----------------------------
(***************************************************************************)
(* The registry of MCP servers (src/src/core/mcp/registry.ts), for one     *)
(* server name, with the clients it makes (client.ts) and the config edits *)
(* that reach it (server/mcp-config-routes.ts, /mcp in slash-routes.ts).   *)
(*                                                                         *)
(* A client connects in steps; its process may die at any of them, and the *)
(* transport's close callback then drives a chain of delayed restarts.     *)
(* Operators reload, replace or remove the server meanwhile, and wait for  *)
(* the old process to close before they go on.                             *)
(***************************************************************************)
EXTENDS Naturals, Sequences, FiniteSets

CONSTANTS
    Callers,       \* requests: /mcp reload, PUT /api/mcp/config
    Configs,       \* what the config file may say of the server
    MaxRetries,    \* the restart budget
    MaxDeaths      \* bound: processes that die by themselves

ConfigRecords == [ver: Nat, enabled: BOOLEAN, autoRestart: BOOLEAN]

ASSUME McpAssumption ==
    /\ Configs \subseteq ConfigRecords
    /\ MaxRetries \in Nat /\ MaxDeaths \in Nat

NoConfig == [ver |-> 0, enabled |-> FALSE, autoRestart |-> FALSE]

VARIABLES
    mcpJson,     \* the server's entry in mcp.json
    entry,       \* servers.get(name): an index of managed, or 0
    managed,     \* every ManagedServer made so far
    clients,     \* every McpClient made so far
    sleeping,    \* restarts waiting for their delay: managed -> how many
    caller,      \* requests, where they stand
    deaths

mcpVars == <<mcpJson, entry, managed, clients, sleeping, caller, deaths>>

Client(m, then) == [owner |-> m, then |-> then, state |-> "connecting",
                    open |-> FALSE, closing |-> FALSE]
Managed(cfg) == [config |-> cfg, client |-> 0, retries |-> 0,
                 status |-> IF cfg.enabled THEN "disconnected" ELSE "disabled"]
Idle == [pc |-> "idle", m |-> 0, cfg |-> NoConfig]

McpInit ==
    \E cfg \in {c \in Configs: c.enabled}:
        /\ mcpJson = cfg
        /\ entry = 1
        /\ managed = <<[Managed(cfg) EXCEPT !.client = 1]>>
        /\ clients = <<Client(1, "set")>>      \* init(): connectServer
        /\ sleeping = <<0>>
        /\ caller = [c \in Callers |-> Idle]
        /\ deaths = 0

-----------------------------------------------------------------------------
(* handleCrash, by name: it charges whatever entry the map holds now.      *)

Handles == entry # 0 /\ managed[entry].status # "disabled"

CanRestart(m) == m.config.autoRestart /\ m.retries < MaxRetries

\* the entry after the callback, and the restart it leaves asleep
Charged(m) ==
    IF CanRestart(m) THEN [m EXCEPT !.status = "disconnected", !.retries = @ + 1]
    ELSE [m EXCEPT !.status = "disabled"]

HandleCrash ==
    IF Handles
    THEN /\ managed' = [managed EXCEPT ![entry] = Charged(@)]
         /\ sleeping' = [sleeping EXCEPT ![entry] =
                           IF CanRestart(managed[entry]) THEN @ + 1 ELSE @]
    ELSE UNCHANGED <<managed, sleeping>>

\* managed[m] := new client, whose connect() starts; `then` is its continuation
MakeClient(m, then, record) ==
    /\ clients' = Append(clients, Client(m, then))
    /\ managed' = [managed EXCEPT ![m] = [record EXCEPT !.client = Len(clients) + 1]]

\* bug: the entry is not compared with the one the crash was charged to
Bug_WakeUnchecked(m) ==
    /\ sleeping[m] > 0
    /\ sleeping' = [sleeping EXCEPT ![m] = @ - 1]
    /\ IF managed[m].status = "disabled"
       THEN UNCHANGED <<managed, clients>>
       ELSE MakeClient(m, "retry", managed[m])
    /\ UNCHANGED <<mcpJson, entry, caller, deaths>>

\* the delay is over: was the server reloaded or disabled meanwhile?
Wake(m) ==
    /\ sleeping[m] > 0
    /\ sleeping' = [sleeping EXCEPT ![m] = @ - 1]
    /\ IF entry # m \/ managed[m].status = "disabled"
       THEN UNCHANGED <<managed, clients>>
       ELSE MakeClient(m, "retry", managed[m])
    /\ UNCHANGED <<mcpJson, entry, caller, deaths>>

-----------------------------------------------------------------------------
(* McpClient.connect and the registry's continuation of it.                *)

Pending(c) == c \in DOMAIN clients /\ clients[c].state \in {"connecting", "lost"}

\* the handshake is done: this.client is set, the lists are asked for
Handshake(c) ==
    /\ Pending(c) /\ clients[c].state = "connecting" /\ ~clients[c].open
    /\ clients' = [clients EXCEPT ![c].open = TRUE]
    /\ UNCHANGED <<mcpJson, entry, managed, sleeping, caller, deaths>>

\* connect() returns true: also when the lists of prompts and resources
\* failed, so also when the process is already gone
Connected(c) ==
    /\ Pending(c) /\ clients[c].open
    /\ clients' = [clients EXCEPT ![c].state = "connected"]
    /\ managed' = [managed EXCEPT ![clients[c].owner].status = "connected"]
    /\ UNCHANGED <<mcpJson, entry, sleeping, caller, deaths>>

\* bug: a restart that fails without a crash callback is the last one
Bug_NoSecondTry(c) ==
    /\ Pending(c)
    /\ clients' = [clients EXCEPT ![c].state = "error", ![c].open = FALSE]
    /\ managed' = [managed EXCEPT ![clients[c].owner].status = "disconnected"]
    /\ UNCHANGED <<mcpJson, entry, sleeping, caller, deaths>>

\* connect() returns false: connectServer leaves it there, a restart that
\* failed counts as a crash of whatever entry the map holds now
ConnectFails(c) ==
    LET m == clients[c].owner
        spent == managed[m].retries >= MaxRetries
        down == [managed EXCEPT ![m].status =
                   IF clients[c].then = "retry" /\ spent THEN "disabled"
                   ELSE "disconnected"]
        again == /\ clients[c].then = "retry" /\ ~spent
                 /\ entry # 0 /\ down[entry].status # "disabled"
    IN  /\ Pending(c)
        /\ clients' = [clients EXCEPT ![c].state = "error", ![c].open = FALSE]
        /\ managed' = IF again THEN [down EXCEPT ![entry] = Charged(@)] ELSE down
        /\ sleeping' = IF again /\ CanRestart(down[entry])
                       THEN [sleeping EXCEPT ![entry] = @ + 1] ELSE sleeping
        /\ UNCHANGED <<mcpJson, entry, caller, deaths>>

\* handleTransportClose: the process exits, before or after the connect
Dies(c) ==
    /\ c \in DOMAIN clients /\ deaths < MaxDeaths
    /\ clients[c].state \in {"connecting", "connected"}
    /\ deaths' = deaths + 1
    /\ clients' = [clients EXCEPT ![c].state =
                     IF @ = "connecting" THEN "lost" ELSE "disconnected"]
    /\ IF clients[c].closing THEN UNCHANGED <<managed, sleeping>> ELSE HandleCrash
    /\ UNCHANGED <<mcpJson, entry, caller>>

-----------------------------------------------------------------------------
(* Requests.  disconnect() marks the client, then awaits the close of the  *)
(* process, which may take seconds.                                        *)

Closing(c) == [clients EXCEPT ![c].closing = TRUE]

\* the close is over; a connect that is still under way goes on
Closed(c) ==
    [clients EXCEPT ![c].state =
        IF @ \in {"connecting", "lost"} THEN @ ELSE "disconnected"]

NewClient(m, cfg) ==
    [Client(m, "set") EXCEPT !.state = IF cfg.enabled THEN "connecting" ELSE "idle"]

At(k, pc, m, cfg) == caller' = [caller EXCEPT ![k] = [pc |-> pc, m |-> m, cfg |-> cfg]]

\* reload(name), up to its await
Reload(k) ==
    /\ caller[k].pc = "idle" /\ entry # 0
    /\ clients' = Closing(managed[entry].client)
    /\ At(k, "reload", entry, NoConfig)
    /\ UNCHANGED <<mcpJson, entry, managed, sleeping, deaths>>

\* reload(name) after it: the same entry, a new client, a new budget
ReloadResumes(k) ==
    LET m == caller[k].m
        cfg == managed[m].config
    IN  /\ caller[k].pc = "reload"
        /\ clients' = Append(Closed(managed[m].client), NewClient(m, cfg))
        /\ managed' = [managed EXCEPT ![m] =
                         [Managed(cfg) EXCEPT !.client = Len(clients) + 1]]
        /\ At(k, "done", 0, NoConfig)
        /\ UNCHANGED <<mcpJson, entry, sleeping, deaths>>

\* PUT /api/mcp/config: writes the file and compares it with the live set
PutConfig(k, cfg) ==
    LET live == IF entry = 0 THEN NoConfig ELSE managed[entry].config
    IN  /\ caller[k].pc = "idle" /\ cfg # mcpJson
        /\ mcpJson' = cfg
        /\ At(k, IF live = cfg THEN "done" ELSE "diff", 0, cfg)
        /\ UNCHANGED <<entry, managed, clients, sleeping, deaths>>

\* addServer without an await left: a new entry, whatever is there now
AddEntry(cfg, others) ==
    LET m == Len(managed) + 1
    IN  /\ clients' = Append(others, NewClient(m, cfg))
        /\ managed' = Append(managed, [Managed(cfg) EXCEPT !.client = Len(clients) + 1])
        /\ sleeping' = Append(sleeping, 0)
        /\ entry' = m

\* the difference is applied once the other servers' closes are over:
\* removeServer and addServer, up to the await if there is an entry
ApplyDiff(k) ==
    LET cfg == caller[k].cfg
    IN  /\ caller[k].pc = "diff"
        /\ IF entry # 0
           THEN /\ clients' = Closing(managed[entry].client)
                /\ managed' = IF cfg = NoConfig THEN managed
                              ELSE [managed EXCEPT ![entry].config = cfg]
                /\ At(k, IF cfg = NoConfig THEN "remove" ELSE "add", entry, cfg)
                /\ UNCHANGED <<entry, sleeping>>
           ELSE /\ IF cfg = NoConfig THEN UNCHANGED <<entry, managed, clients, sleeping>>
                   ELSE AddEntry(cfg, clients)
                /\ At(k, "done", 0, NoConfig)
        /\ UNCHANGED <<mcpJson, deaths>>

AddResumes(k) ==
    /\ caller[k].pc = "add"
    /\ AddEntry(caller[k].cfg, Closed(managed[caller[k].m].client))
    /\ At(k, "done", 0, NoConfig)
    /\ UNCHANGED <<mcpJson, deaths>>

\* removeServer deletes whatever the name maps to now
RemoveResumes(k) ==
    /\ caller[k].pc = "remove"
    /\ clients' = Closed(managed[caller[k].m].client)
    /\ entry' = 0
    /\ At(k, "done", 0, NoConfig)
    /\ UNCHANGED <<mcpJson, managed, sleeping, deaths>>

-----------------------------------------------------------------------------
McpNext ==
    \/ \E m \in DOMAIN managed: Wake(m)
    \/ \E c \in DOMAIN clients: Handshake(c) \/ Connected(c) \/ ConnectFails(c) \/ Dies(c)
    \/ \E k \in Callers:
          \/ Reload(k) \/ ReloadResumes(k) \/ ApplyDiff(k) \/ AddResumes(k) \/ RemoveResumes(k)
          \/ \E cfg \in Configs \cup {NoConfig}: PutConfig(k, cfg)

McpSpec == McpInit /\ [][McpNext]_mcpVars

(***************************************************************************)
(* Fairness: a timer fires, a connect resolves (the SDK times its requests *)
(* out) and a close ends (the SDK kills a process that does not exit).     *)
(***************************************************************************)
McpFairness ==
    /\ WF_mcpVars(\E m \in DOMAIN managed: Wake(m))
    /\ WF_mcpVars(\E c \in DOMAIN clients: Connected(c) \/ ConnectFails(c))
    /\ WF_mcpVars(\E k \in Callers: ReloadResumes(k) \/ AddResumes(k) \/ RemoveResumes(k))

McpFairSpec == McpSpec /\ McpFairness

-----------------------------------------------------------------------------
(***************************************************************************)
(* A restart that slept through a removal or a replacement starts nothing: *)
(* a client is made for the live entry only, or by a reload of its own.    *)
(***************************************************************************)
RemovedStaysDown ==
    [][Len(clients') > Len(clients) =>
         LET owner == clients'[Len(clients')].owner
         IN  \/ owner = entry'
             \/ \E k \in Callers: caller[k].pc = "reload" /\ caller[k].m = owner]_mcpVars

(***************************************************************************)
(* A crashed server does not stay `disconnected`: it comes back, gives up  *)
(* its budget, or is replaced.                                             *)
(***************************************************************************)
RestartSettles ==
    \A m \in 1..(1 + Cardinality(Callers)):
        (m \in DOMAIN managed /\ entry = m /\ sleeping[m] > 0) ~>
            (entry # m \/ managed[m].status \in {"connected", "disabled"})
=============================================================================
