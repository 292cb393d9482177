------------------------------ MODULE Subagents ------------------------------
(***************************************************************************)
(* Subagents: the scheduler with its semaphore                             *)
(* (src/src/core/subagent/scheduler.ts), the runtime that runs a task in a *)
(* child process (runtime/subprocess.ts), the registry of background runs  *)
(* (background.ts) and the tool that dispatches                            *)
(* (src/src/core/chat/tools/dispatch-subagent.ts).                         *)
(*                                                                         *)
(* A runner may dispatch another task on the same scheduler and wait for   *)
(* it while it holds its own slot (research does, and so does a child      *)
(* process through its RPC).  A runner need not obey its signal: when the  *)
(* dispatch has timed out or was aborted, the slot is given back although  *)
(* the runner is still at work.                                            *)
(***************************************************************************)
EXTENDS Integers, Sequences, FiniteSets

CONSTANTS
    Tasks,          \* dispatches; each is made at most once
    Top,            \* no parent
    Parent,         \* the task whose runner dispatches it, or Top
    Background,     \* tasks dispatched with mode "background"
    Conversation,   \* the conversation of each task
    Forked,         \* tasks with runtime "subprocess"
    Untimed,        \* tasks with a timeoutMs of 0 or below, which arms no timer of a child
    Cap,            \* maxConcurrent
    MaxBackground   \* MAX_BACKGROUND_PER_CONVERSATION

ASSUME SubagentsAssumption ==
    /\ IsFiniteSet(Tasks) /\ Top \notin Tasks
    /\ Parent \in [Tasks -> Tasks \cup {Top}]
    /\ Background \subseteq Tasks /\ Forked \subseteq Tasks /\ Untimed \subseteq Tasks
    /\ \A t \in Background: Parent[t] = Top  \* a runner calls the scheduler itself
    /\ Cap \in Nat \ {0} /\ MaxBackground \in Nat

VARIABLES
    inflight,   \* count kept by the semaphore
    queue,      \* dispatches waiting in acquire
    pc,         \* where the dispatch is suspended
    result,     \* status of the SubagentResult it resolved to
    worker,     \* the runner of the task; for a forked task its child process
    signal,     \* the external signal of the dispatch has fired
    record,     \* status of the background record
    events      \* subagent-completed events emitted for it

subagentVars == <<inflight, queue, pc, result, worker, signal, record, events>>
semaphore == <<inflight, queue>>
registry == <<record, events>>

DispatchPC == {"idle", "queued", "acquired", "running", "settled"}
Results == {"ok", "error", "timeout"}  \* cap_exceeded, too, is not ok
WorkerStates == {"none", "starting", "working", "awaiting", "stopping", "killing", "ended"}
Records == {"none", "running", "done", "failed", "cancelled"}
Alive == {"starting", "working", "awaiting", "stopping", "killing"}

SubagentsInit ==
    /\ inflight = 0 /\ queue = <<>>
    /\ pc = [t \in Tasks |-> "idle"]
    /\ result = [t \in Tasks |-> "none"]
    /\ worker = [t \in Tasks |-> "none"]
    /\ signal = [t \in Tasks |-> FALSE]
    /\ record = [t \in Tasks |-> "none"]
    /\ events = [t \in Tasks |-> 0]

-----------------------------------------------------------------------------
(* The semaphore, and the end of a dispatch: finally release().            *)

Acquire(t) ==
    IF inflight < Cap
    THEN /\ inflight' = inflight + 1
         /\ pc' = [pc EXCEPT ![t] = "acquired"]
         /\ UNCHANGED queue
    ELSE /\ queue' = Append(queue, t)
         /\ pc' = [pc EXCEPT ![t] = "queued"]
         /\ UNCHANGED inflight

\* bug: the count is not given back when nobody waits
Bug_KeepCount(t, status) ==
    /\ result' = [result EXCEPT ![t] = status]
    /\ IF queue = <<>>
       THEN /\ pc' = [pc EXCEPT ![t] = "settled"]
            /\ UNCHANGED semaphore
       ELSE /\ pc' = [pc EXCEPT ![t] = "settled", ![Head(queue)] = "acquired"]
            /\ queue' = Tail(queue)
            /\ UNCHANGED inflight

\* bug: the next dispatch in the queue is not woken
Bug_NoWake(t, status) ==
    /\ result' = [result EXCEPT ![t] = status]
    /\ pc' = [pc EXCEPT ![t] = "settled"]
    /\ inflight' = inflight - 1
    /\ UNCHANGED queue

Settle(t, status) ==
    /\ result' = [result EXCEPT ![t] = status]
    /\ IF queue = <<>>
       THEN /\ pc' = [pc EXCEPT ![t] = "settled"]
            /\ inflight' = inflight - 1
            /\ UNCHANGED queue
       ELSE /\ pc' = [pc EXCEPT ![t] = "settled", ![Head(queue)] = "acquired"]
            /\ queue' = Tail(queue)
            /\ UNCHANGED inflight

\* `if (resolved) return`: only the first of several outcomes counts
SettleOnce(t, status) ==
    IF pc[t] = "running" THEN Settle(t, status) ELSE UNCHANGED <<semaphore, pc, result>>

NoTimer == Forked \cap Untimed

WorkerTo(t, state) == worker' = [worker EXCEPT ![t] = state]

-----------------------------------------------------------------------------
(* dispatch_subagent.                                                      *)

RunningIn(c) == {t \in Tasks: record[t] = "running" /\ Conversation[t] = c}

DispatchSync(t) ==
    /\ pc[t] = "idle" /\ t \notin Background /\ Parent[t] = Top
    /\ Acquire(t)
    /\ UNCHANGED <<result, worker, signal, registry>>

\* register, which throws at the limit, then a dispatch nobody awaits
DispatchBackground(t) ==
    /\ pc[t] = "idle" /\ t \in Background
    /\ Cardinality(RunningIn(Conversation[t])) < MaxBackground
    /\ record' = [record EXCEPT ![t] = "running"]
    /\ Acquire(t)
    /\ UNCHANGED <<result, worker, signal, events>>

\* a runner dispatches a task and waits; no signal is handed on
DispatchNested(t) ==
    /\ pc[t] = "idle" /\ Parent[t] # Top
    /\ worker[Parent[t]] = "working"
    /\ WorkerTo(Parent[t], "awaiting")
    /\ Acquire(t)
    /\ UNCHANGED <<result, signal, registry>>

NestedReturns(t) ==
    /\ pc[t] = "settled" /\ Parent[t] # Top
    /\ worker[Parent[t]] = "awaiting"
    /\ WorkerTo(Parent[t], "working")
    /\ UNCHANGED <<semaphore, pc, result, signal, registry>>

-----------------------------------------------------------------------------
(* dispatchInline and dispatchSubprocess.                                  *)

Start(t) ==
    /\ pc[t] = "acquired"
    /\ pc' = [pc EXCEPT ![t] = "running"]
    /\ WorkerTo(t, IF t \in Forked THEN "starting" ELSE "working")
    /\ UNCHANGED <<semaphore, result, signal, registry>>

\* no runner of that type
Unregistered(t) ==
    /\ pc[t] = "acquired" /\ t \notin Forked
    /\ Settle(t, "error")
    /\ UNCHANGED <<worker, signal, registry>>

\* an inline runner resolves or throws
RunnerReturns(t) ==
    /\ worker[t] = "working" /\ t \notin Forked
    /\ WorkerTo(t, "ended")
    /\ \E status \in {"ok", "error"}: SettleOnce(t, status)
    /\ UNCHANGED <<signal, registry>>

\* bug: the slot waits for the runner to obey the signal
Bug_TimeoutKeepsSlot(t) ==
    /\ pc[t] = "running" /\ t \notin Forked
    /\ worker[t] = "ended"
    /\ Settle(t, "timeout")
    /\ UNCHANGED <<worker, signal, registry>>

Timeout(t) ==
    /\ pc[t] = "running" /\ t \notin Forked
    /\ Settle(t, "timeout")
    /\ UNCHANGED <<worker, signal, registry>>

AbortDispatch(t) ==
    /\ pc[t] = "running" /\ signal[t] /\ t \notin Forked
    /\ Settle(t, "error")
    /\ UNCHANGED <<worker, signal, registry>>

-----------------------------------------------------------------------------
(* SubprocessRuntime: a child is stopping when it was sent the abort       *)
(* message and has its grace period, killing when it was sent SIGTERM.     *)

ChildReady(t) ==
    /\ t \in Forked /\ worker[t] = "starting"
    /\ WorkerTo(t, "working")
    /\ UNCHANGED <<semaphore, pc, result, signal, registry>>

\* the child has not said ready in time
ReadyTimeout(t) ==
    /\ t \in Forked /\ worker[t] = "starting"
    /\ SettleOnce(t, "error")
    /\ WorkerTo(t, "killing")
    /\ UNCHANGED <<signal, registry>>

\* the result does not end the process: the child exits by itself, or when
\* the timer, which only its exit clears, fires
ChildResult(t) ==
    /\ t \in Forked /\ worker[t] = "working" /\ pc[t] = "running"
    /\ \E status \in {"ok", "error"}: Settle(t, status)
    /\ UNCHANGED <<worker, signal, registry>>

\* bug: the timer is cleared when the result arrives
Bug_ClearTimer(t) ==
    /\ t \in Forked \ Untimed /\ worker[t] \in {"starting", "working", "awaiting"}
    /\ pc[t] = "running"
    /\ SettleOnce(t, "timeout")
    /\ WorkerTo(t, "stopping")
    /\ UNCHANGED <<signal, registry>>

WallTimeout(t) ==
    /\ t \in Forked \ Untimed /\ worker[t] \in {"starting", "working", "awaiting"}
    /\ SettleOnce(t, "timeout")
    /\ WorkerTo(t, "stopping")
    /\ UNCHANGED <<signal, registry>>

ChildAbort(t) ==
    /\ t \in Forked /\ worker[t] \in {"starting", "working", "awaiting"}
    /\ signal[t]
    /\ SettleOnce(t, "error")
    /\ WorkerTo(t, "stopping")
    /\ UNCHANGED <<signal, registry>>

HardKill(t) ==
    /\ worker[t] = "stopping"
    /\ WorkerTo(t, "killing")
    /\ UNCHANGED <<semaphore, pc, result, signal, registry>>

\* any exit, also a failed spawn
ChildExits(t) ==
    /\ t \in Forked /\ worker[t] \in Alive
    /\ WorkerTo(t, "ended")
    /\ SettleOnce(t, "error")
    /\ UNCHANGED <<signal, registry>>

-----------------------------------------------------------------------------
(* BackgroundSubagentRegistry.                                             *)

\* bug: completion overwrites the status, whatever it was
Bug_CompleteOverwrites(t) ==
    /\ t \in Background /\ pc[t] = "settled" /\ events[t] = 0
    /\ record' = [record EXCEPT ![t] = IF result[t] = "ok" THEN "done" ELSE "failed"]
    /\ events' = [events EXCEPT ![t] = @ + 1]
    /\ UNCHANGED <<semaphore, pc, result, worker, signal>>

\* the continuation of the dispatch: complete()
Complete(t) ==
    /\ t \in Background /\ pc[t] = "settled" /\ events[t] = 0
    /\ record' = [record EXCEPT ![t] =
          CASE @ # "running" -> @
            [] @ = "running" /\ result[t] = "ok" -> "done"
            [] OTHER -> "failed"]
    /\ events' = [events EXCEPT ![t] = @ + 1]
    /\ UNCHANGED <<semaphore, pc, result, worker, signal>>

\* bug: cancel announces the end itself; the dispatch does so again
Bug_CancelEmits(t) ==
    /\ record[t] = "running"
    /\ record' = [record EXCEPT ![t] = "cancelled"]
    /\ signal' = [signal EXCEPT ![t] = TRUE]
    /\ events' = [events EXCEPT ![t] = @ + 1]
    /\ UNCHANGED <<semaphore, pc, result, worker>>

CancelSubagent(t) ==
    /\ record[t] = "running"
    /\ record' = [record EXCEPT ![t] = "cancelled"]
    /\ signal' = [signal EXCEPT ![t] = TRUE]
    /\ UNCHANGED <<semaphore, pc, result, worker, events>>

-----------------------------------------------------------------------------
Task(t) ==
    \/ DispatchSync(t) \/ DispatchBackground(t) \/ DispatchNested(t) \/ NestedReturns(t)
    \/ Start(t) \/ Unregistered(t) \/ RunnerReturns(t) \/ Timeout(t) \/ AbortDispatch(t)
    \/ ChildReady(t) \/ ReadyTimeout(t) \/ ChildResult(t) \/ WallTimeout(t)
    \/ ChildAbort(t) \/ HardKill(t) \/ ChildExits(t)
    \/ Complete(t) \/ CancelSubagent(t)

SubagentsNext == \E t \in Tasks: Task(t)

SubagentsSpec == SubagentsInit /\ [][SubagentsNext]_subagentVars

\* Continuations and listeners run, timers that were armed fire, SIGTERM ends a
\* process.  Nothing is assumed of runners and children.
SubagentsFairness ==
    /\ \A t \in Tasks: WF_subagentVars(Start(t) \/ Unregistered(t))
    /\ \A t \in Tasks \ Forked: WF_subagentVars(Timeout(t))
    /\ \A t \in Forked:
          /\ WF_subagentVars(ReadyTimeout(t)) /\ WF_subagentVars(WallTimeout(t))
          /\ WF_subagentVars(ChildAbort(t)) /\ WF_subagentVars(HardKill(t))
          /\ WF_subagentVars(worker[t] = "killing" /\ ChildExits(t))
    /\ \A t \in Background: WF_subagentVars(Complete(t))

-----------------------------------------------------------------------------
(***************************************************************************)
(* Types.  A task outside Background has no record.                        *)
(***************************************************************************)
SubagentsTypeOK ==
    /\ inflight \in Nat
    /\ queue \in Seq(Tasks)
    /\ pc \in [Tasks -> DispatchPC]
    /\ result \in [Tasks -> Results \cup {"none"}]
    /\ worker \in [Tasks -> WorkerStates]
    /\ signal \in [Tasks -> BOOLEAN]
    /\ record \in [Tasks -> Records]
    /\ events \in [Tasks -> Nat]

Holders == {t \in Tasks: pc[t] \in {"acquired", "running"}}

(***************************************************************************)
(* The semaphore's count is the number of dispatches that hold a slot,     *)
(* never above the cap, and nobody waits while a slot is free.             *)
(***************************************************************************)
SlotsAccounted ==
    /\ inflight = Cardinality(Holders)
    /\ inflight <= Cap
    /\ queue # <<>> => inflight = Cap

(***************************************************************************)
(* The end of a background run is announced at most once, when its record  *)
(* is terminal, and it is "done" only for a result that is ok.  A result   *)
(* that comes after a cancel does not change the record ("cooperative      *)
(* abort wins").                                                           *)
(***************************************************************************)
AnnouncedOnce ==
    \A t \in Background:
        /\ events[t] <= 1
        /\ events[t] = 1 => record[t] \in {"done", "failed", "cancelled"} /\ pc[t] = "settled"
        /\ record[t] = "done" => result[t] = "ok"
        /\ signal[t] => record[t] = "cancelled"

(***************************************************************************)
(* Every dispatch resolves, although runners may hang, hold a slot while   *)
(* they wait for another one, and ignore their signals.  A child without a *)
(* timer may hang with its slot for ever: it is excepted, and the others   *)
(* resolve as long as such children cannot take every slot.                *)
(***************************************************************************)
EveryDispatchSettles ==
    Cardinality(NoTimer) < Cap =>
        \A t \in Tasks:
            pc[t] # "idle" ~> pc[t] = "settled" \/ (t \in NoTimer /\ pc[t] # "queued")

(***************************************************************************)
(* Every registered background run is announced, one whose child has no    *)
(* timer at least once it is cancelled.                                    *)
(***************************************************************************)
EveryRunIsAnnounced ==
    Cardinality(NoTimer) < Cap =>
        \A t \in Background:
            record[t] # "none" /\ (t \in NoTimer => signal[t]) ~> events[t] > 0

(***************************************************************************)
(* No child process outlives its dispatch for ever, not even one that      *)
(* keeps running after it has sent its result.  One without a timer ends   *)
(* at least when it never gets ready or its run is cancelled.              *)
(***************************************************************************)
Unbounded(t) == t \in NoTimer /\ worker[t] # "starting" /\ ~signal[t]
ChildrenExit ==
    \A t \in Forked: worker[t] \in Alive ~> worker[t] = "ended" \/ Unbounded(t)
=============================================================================
