----------------------------- MODULE GoalDaemon -----------------------------
(***************************************************************************)
(* The goal daemon of src/src/core/goal/daemon.ts: one GoalDaemon per      *)
(* server process, which owns at most one GoalTurnRunner per goal.  A      *)
(* runner loops over iterations (LLM rounds) until a terminal result, an   *)
(* interrupt, or a flip of the goal's status on disk.  HTTP handlers kick, *)
(* steer and interrupt runners while they are suspended at an await.       *)
(*                                                                         *)
(* JavaScript runs to completion between awaits, so one action here is the *)
(* code from one await to the next.  The promise of run() and the          *)
(* `finally` that deletes the runner from the daemon's map settle in the   *)
(* same drain of the microtask queue: a runner that returns is gone.       *)
(***************************************************************************)
EXTENDS Naturals, Sequences, FiniteSets

CONSTANTS
    Goals,             \* goal ids
    Messages,          \* user messages; each is sent at most once
    IterationBudget,   \* the runner's own cap (1024 in the production factory)
    MaxRestarts        \* bound: restarts of the server process

ASSUME GoalDaemonAssumption ==
    /\ IterationBudget \in Nat \ {0}
    /\ MaxRestarts \in Nat

VARIABLES
    disk,            \* goal.status, as the last write left it
    abortRequested,  \* goal.meta.abortRequested on disk
    runner,          \* the daemon's map: the runner of each goal, or NoRunner
    phase,           \* life of the server process
    bootStale,       \* start(): active goals still to be flipped to paused
    bootFresh,       \* start(): active goals still to be kicked
    sent,            \* messages that clients have sent
    restarts

vars == <<disk, abortRequested, runner, phase, bootStale, bootFresh, sent,
          restarts>>

\* "finished" stands for complete, failed and exhausted
Status == {"active", "paused", "cancelled", "finished"}
Phase == {"boot", "up", "draining", "forced", "down"}

-----------------------------------------------------------------------------
(***************************************************************************)
(* The runner object.  pc says at which await run() is suspended:          *)
(*   check      reading the goal's status (isGoalStillActive)              *)
(*   decide     the status has been read, the continuation has not run     *)
(*   entering   iterationFn called, its first read of the goal in flight   *)
(*   iterating  inside the LLM session of runOneIteration                  *)
(*   waiting    sleepUntilNotified, after a natural end of turn            *)
(*   sleeping   sleepInterruptible, the idle gap between iterations        *)
(***************************************************************************)
PC == {"none", "check", "decide", "entering", "iterating", "waiting", "sleeping"}

RunnerState ==
    [pc: PC, seen: BOOLEAN,
     interrupted: BOOLEAN, aborted: BOOLEAN, forceStopped: BOOLEAN,
     signal: BOOLEAN,                  \* the iteration's AbortSignal has fired
     iter: 0..IterationBudget,         \* saturates: only compared with the cap
     pending: Seq(Messages), steer: BOOLEAN,
     accepted: Seq(Messages),          \* history: messages given to this runner
     taken: Seq(Messages),             \* history: messages given to iterations
     crashed: BOOLEAN]                 \* history: the last run() of the goal rejected

NoRunner ==
    [pc |-> "none", seen |-> FALSE,
     interrupted |-> FALSE, aborted |-> FALSE, forceStopped |-> FALSE,
     signal |-> FALSE, iter |-> 0, pending |-> <<>>, steer |-> FALSE,
     accepted |-> <<>>, taken |-> <<>>, crashed |-> FALSE]

\* run() has rejected: the runner is deleted, and all it emitted is `error`
Crashed == [NoRunner EXCEPT !.crashed = TRUE]

Running(g) == runner[g].pc # "none"
Flagged(r) == r.interrupted \/ r.aborted \/ r.forceStopped
InIteration(r) == r.pc \in {"entering", "iterating"}
Stopped == phase \in {"draining", "forced", "down"}
Listening == phase \in {"up", "draining", "forced"}  \* the server closes last

\* `while (!this.forceStopped)`, then the await of isActive()
LoopTop(r) == IF r.forceStopped THEN NoRunner ELSE [r EXCEPT !.pc = "check"]

\* new GoalTurnRunner and the synchronous prefix of its run()
Spawn(ms) == [NoRunner EXCEPT !.pc = "check", !.pending = ms, !.accepted = ms]

\* wake(): resolves whichever sleep is pending; nothing to resolve elsewhere
Wake(r) ==
    CASE r.pc = "waiting"  -> IF Flagged(r) THEN NoRunner ELSE LoopTop(r)
      [] r.pc = "sleeping" -> LoopTop(r)
      [] OTHER             -> r

EnqueueUserMessage(r, m) ==
    Wake([r EXCEPT !.pending = Append(@, m), !.accepted = Append(@, m)])

\* enqueueSteer() joins texts into one string and does not wake
EnqueueSteer(r) == IF r.pc = "none" THEN r ELSE [r EXCEPT !.steer = TRUE]

\* interrupt(), abort() and forceStop() fire the controller of the iteration
\* bug: the flag is set but the current controller is not aborted
Bug_NoCurrentAbort(r) == r
FireAbort(r) == [r EXCEPT !.signal = @ \/ InIteration(r)]
\* bug: interrupt() without its wake()
Bug_InterruptNoWake(r) == FireAbort([r EXCEPT !.interrupted = TRUE])
InterruptRunner(r) == Wake(FireAbort([r EXCEPT !.interrupted = TRUE]))
AbortRunner(r) == Wake(FireAbort([r EXCEPT !.aborted = TRUE]))
ForceStopRunner(r) == Wake(FireAbort([r EXCEPT !.forceStopped = TRUE]))

\* pendingUserMessages.shift(), consumePendingSteer(), a new AbortController
StartIteration(r) ==
    [r EXCEPT !.pc = "entering", !.seen = FALSE, !.signal = FALSE,
              !.iter = IF @ < IterationBudget THEN @ + 1 ELSE @, !.steer = FALSE,
              !.pending = IF @ = <<>> THEN @ ELSE Tail(@),
              !.taken = IF r.pending = <<>> THEN @
                        ELSE Append(@, Head(r.pending))]

\* what run() does with the result of iterationFn
AfterIteration(r, result) ==
    LET q == [r EXCEPT !.signal = FALSE]
    IN  CASE result = "natural" /\ ~Flagged(r) -> [q EXCEPT !.pc = "waiting"]
          [] result = "more" /\ r.iter < IterationBudget ->
                [q EXCEPT !.pc = "sleeping"]
          [] OTHER -> NoRunner

-----------------------------------------------------------------------------
(* The loop of a runner.                                                   *)

SetRunner(g, r) == runner' = [runner EXCEPT ![g] = r]

\* isGoalStillActive: readGoal, then the status as it was at that moment
ReadStatus(g) ==
    /\ runner[g].pc = "check"
    /\ SetRunner(g, [runner[g] EXCEPT !.pc = "decide",
                                      !.seen = (disk[g] = "active")])
    /\ UNCHANGED <<disk, abortRequested, phase, bootStale, bootFresh, sent,
                   restarts>>

\* readGoal rethrows whatever is not ENOENT, and run() does not catch it
ReadFails(g) ==
    /\ runner[g].pc = "check"
    /\ SetRunner(g, Crashed)
    /\ UNCHANGED <<disk, abortRequested, phase, bootStale, bootFresh, sent,
                   restarts>>

\* the guards at the loop's top run after that await, so they see every flag
Decide(g) ==
    /\ runner[g].pc = "decide"
    /\ LET r == runner[g]
       IN  SetRunner(g, IF ~r.seen \/ r.interrupted \/ r.aborted
                        THEN NoRunner ELSE StartIteration(r))
    /\ UNCHANGED <<disk, abortRequested, phase, bootStale, bootFresh, sent,
                   restarts>>

\* runOneIteration reads the goal again and may return without a session:
\* "more" is a result with every flag false (a paused or cancelled goal)
Enter(g) ==
    /\ runner[g].pc = "entering"
    /\ LET r == runner[g]
       IN  SetRunner(g,
             CASE disk[g] = "finished" -> AfterIteration(r, "finished")
               [] disk[g] \in {"paused", "cancelled"} -> AfterIteration(r, "more")
               [] disk[g] = "active" /\ (r.signal \/ abortRequested[g]) ->
                     AfterIteration(r, "aborted")
               [] OTHER -> [r EXCEPT !.pc = "iterating"])
    /\ UNCHANGED <<disk, abortRequested, phase, bootStale, bootFresh, sent,
                   restarts>>

\* mark_done, give_up, an exhausted budget or an error: endGoal writes the
\* terminal status whatever the status on disk has become meanwhile
IterationFinishes(g) ==
    /\ runner[g].pc = "iterating"
    /\ disk' = [disk EXCEPT ![g] = "finished"]
    /\ SetRunner(g, AfterIteration(runner[g], "finished"))
    /\ UNCHANGED <<abortRequested, phase, bootStale, bootFresh, sent, restarts>>

\* the session was cut short by the AbortSignal
IterationAborts(g) ==
    /\ runner[g].pc = "iterating"
    /\ runner[g].signal
    /\ SetRunner(g, AfterIteration(runner[g], "aborted"))
    /\ UNCHANGED <<disk, abortRequested, phase, bootStale, bootFresh, sent,
                   restarts>>

\* a read or a write fails within the iteration.  iterationFn throws if it was its
\* first read; otherwise it answers "failed", after an endGoal that may fail too.
IterationFails(g) ==
    /\ InIteration(runner[g])
    /\ disk' \in {disk, [disk EXCEPT ![g] = "finished"]}
    /\ SetRunner(g, NoRunner)
    /\ UNCHANGED <<abortRequested, phase, bootStale, bootFresh, sent, restarts>>

\* the turn ended with text only, or with tool calls and more to do; an
\* abort that comes too late for the session does not change the result
IterationReturns(g) ==
    /\ runner[g].pc = "iterating"
    /\ \E result \in {"natural", "more"}:
          SetRunner(g, AfterIteration(runner[g], result))
    /\ UNCHANGED <<disk, abortRequested, phase, bootStale, bootFresh, sent,
                   restarts>>

\* the idle gap elapses
SleepTimer(g) ==
    /\ runner[g].pc = "sleeping"
    /\ SetRunner(g, LoopTop(runner[g]))
    /\ UNCHANGED <<disk, abortRequested, phase, bootStale, bootFresh, sent,
                   restarts>>

-----------------------------------------------------------------------------
(* The daemon's public operations, called by HTTP handlers.                *)

KickWithMessage(g, m) ==
    /\ phase = "up"
    /\ m \notin sent
    /\ sent' = sent \cup {m}
    /\ SetRunner(g, IF Running(g) THEN EnqueueUserMessage(runner[g], m)
                    ELSE Spawn(<<m>>))
    /\ UNCHANGED <<disk, abortRequested, phase, bootStale, bootFresh, restarts>>

\* kickGoal without a message (an empty body of /run/stream)
Kick(g) ==
    /\ phase = "up"
    /\ SetRunner(g, IF Running(g) THEN Wake(runner[g]) ELSE Spawn(<<>>))
    /\ UNCHANGED <<disk, abortRequested, phase, bootStale, bootFresh, sent,
                   restarts>>

\* /steer: enqueueSteer, then kickGoal({source: "steer"}), in one handler; the
\* handler answers 409 unless a stream is active on the goal's conversation
Steer(g) ==
    /\ Listening
    /\ InIteration(runner[g])
    /\ LET r == EnqueueSteer(runner[g])
       IN  SetRunner(g, IF Stopped THEN r ELSE Wake(r))
    /\ UNCHANGED <<disk, abortRequested, phase, bootStale, bootFresh, sent,
                   restarts>>

Interrupt(g) ==
    /\ Listening
    /\ Running(g)
    /\ SetRunner(g, InterruptRunner(runner[g]))
    /\ UNCHANGED <<disk, abortRequested, phase, bootStale, bootFresh, sent,
                   restarts>>

Abort(g) ==
    /\ Listening
    /\ Running(g)
    /\ SetRunner(g, AbortRunner(runner[g]))
    /\ UNCHANGED <<disk, abortRequested, phase, bootStale, bootFresh, sent,
                   restarts>>

-----------------------------------------------------------------------------
(* Endpoints that reach a runner only through disk or through the          *)
(* inflightGoals controller of the current iteration.                      *)

\* POST /interrupt: 404 unless an iteration has registered its controller
HttpInterrupt(g) ==
    /\ Listening
    /\ runner[g].pc = "iterating"
    /\ SetRunner(g, [runner[g] EXCEPT !.signal = TRUE])
    /\ UNCHANGED <<disk, abortRequested, phase, bootStale, bootFresh, sent,
                   restarts>>

\* POST /abort: requestGoalAbort, then the same controller
HttpAbort(g) ==
    /\ Listening
    /\ abortRequested' = [abortRequested EXCEPT ![g] = TRUE]
    /\ SetRunner(g, IF runner[g].pc = "iterating"
                    THEN [runner[g] EXCEPT !.signal = TRUE] ELSE runner[g])
    /\ UNCHANGED <<disk, phase, bootStale, bootFresh, sent, restarts>>

Pause(g) ==
    /\ Listening
    /\ disk[g] = "active"
    /\ disk' = [disk EXCEPT ![g] = "paused"]
    /\ UNCHANGED <<abortRequested, runner, phase, bootStale, bootFresh, sent,
                   restarts>>

Cancel(g) ==
    /\ Listening
    /\ disk[g] \in {"active", "paused"}
    /\ disk' = [disk EXCEPT ![g] = "cancelled"]
    /\ UNCHANGED <<abortRequested, runner, phase, bootStale, bootFresh, sent,
                   restarts>>

\* /resume (active or paused) and /resurrect (failed or cancelled) clear the
\* abort request and make the goal active; neither kicks the daemon
Reactivate(g) ==
    /\ Listening
    /\ disk' = [disk EXCEPT ![g] = "active"]
    /\ abortRequested' = [abortRequested EXCEPT ![g] = FALSE]
    /\ UNCHANGED <<runner, phase, bootStale, bootFresh, sent, restarts>>

-----------------------------------------------------------------------------
(* start() and stop().                                                     *)

\* goals whose last step is older than six hours are paused, not resumed
BootPause(g) ==
    /\ phase = "boot"
    /\ g \in bootStale
    /\ disk' = [disk EXCEPT ![g] = "paused"]
    /\ bootStale' = bootStale \ {g}
    /\ UNCHANGED <<abortRequested, runner, phase, bootFresh, sent, restarts>>

\* bug: the runner is built, its run() is not called
Bug_BootNotRun(g) ==
    /\ phase = "boot"
    /\ bootStale = {}
    /\ g \in bootFresh
    /\ bootFresh' = bootFresh \ {g}
    /\ UNCHANGED <<disk, abortRequested, runner, phase, bootStale, sent, restarts>>

BootKick(g) ==
    /\ phase = "boot"
    /\ bootStale = {}
    /\ g \in bootFresh
    /\ SetRunner(g, IF Running(g) THEN Wake(runner[g]) ELSE Spawn(<<>>))
    /\ bootFresh' = bootFresh \ {g}
    /\ UNCHANGED <<disk, abortRequested, phase, bootStale, sent, restarts>>

\* startServer listens only after start() has returned
Listen ==
    /\ phase = "boot"
    /\ bootStale = {} /\ bootFresh = {}
    /\ phase' = "up"
    /\ UNCHANGED <<disk, abortRequested, runner, bootStale, bootFresh, sent,
                   restarts>>

\* bug: stop() waits for the runners without interrupting them
Bug_StopWaits ==
    /\ phase = "up"
    /\ phase' = "draining"
    /\ UNCHANGED <<disk, abortRequested, runner, bootStale, bootFresh, sent,
                   restarts>>

\* stop(): no kick is served any more, and every runner is interrupted
StopBegin ==
    /\ phase = "up"
    /\ phase' = "draining"
    /\ runner' = [g \in Goals |->
                     IF Running(g) THEN InterruptRunner(runner[g]) ELSE NoRunner]
    /\ UNCHANGED <<disk, abortRequested, bootStale, bootFresh, sent, restarts>>

\* the 30 s deadline passes with runners left
StopDeadline ==
    /\ phase = "draining"
    /\ \E g \in Goals: Running(g)
    /\ phase' = "forced"
    /\ runner' = [g \in Goals |->
                     IF Running(g) THEN ForceStopRunner(runner[g]) ELSE NoRunner]
    /\ UNCHANGED <<disk, abortRequested, bootStale, bootFresh, sent, restarts>>

\* the map is empty, or the 200 ms that forced runners get have passed
StopReturns ==
    /\ \/ phase = "draining" /\ \A g \in Goals: ~Running(g)
       \/ phase = "forced"
    /\ phase' = "down"
    /\ UNCHANGED <<disk, abortRequested, runner, bootStale, bootFresh, sent,
                   restarts>>

\* A new process, after a crash or a stop: everything in memory is gone, and
\* start() lists the goals that are active on disk.
Restart ==
    /\ restarts < MaxRestarts
    /\ restarts' = restarts + 1
    /\ phase' = "boot"
    /\ runner' = [g \in Goals |-> NoRunner]
    /\ \E stale \in SUBSET {g \in Goals: disk[g] = "active"}:
          /\ bootStale' = stale
          /\ bootFresh' = {g \in Goals: disk[g] = "active"} \ stale
    /\ UNCHANGED <<disk, abortRequested, sent>>

-----------------------------------------------------------------------------
Init ==
    /\ disk \in [Goals -> {"active", "paused"}]
    /\ abortRequested = [g \in Goals |-> FALSE]
    /\ runner = [g \in Goals |-> NoRunner]
    /\ phase = "boot"
    /\ bootStale \in SUBSET {g \in Goals: disk[g] = "active"}
    /\ bootFresh = {g \in Goals: disk[g] = "active"} \ bootStale
    /\ sent = {}
    /\ restarts = 0

RunnerStep(g) ==
    \/ ReadStatus(g) \/ ReadFails(g) \/ Decide(g) \/ Enter(g) \/ SleepTimer(g)
    \/ IterationFinishes(g) \/ IterationAborts(g) \/ IterationReturns(g)
    \/ IterationFails(g)

DaemonCall(g) ==
    \/ \E m \in Messages: KickWithMessage(g, m)
    \/ Kick(g) \/ Steer(g) \/ Interrupt(g) \/ Abort(g)

Endpoint(g) ==
    \/ HttpInterrupt(g) \/ HttpAbort(g)
    \/ Pause(g) \/ Cancel(g) \/ Reactivate(g)

Process ==
    \/ \E g \in Goals: BootPause(g) \/ BootKick(g)
    \/ Listen \/ StopBegin \/ StopDeadline \/ StopReturns \/ Restart

Next ==
    \/ \E g \in Goals: RunnerStep(g) \/ DaemonCall(g) \/ Endpoint(g)
    \/ Process

Spec == Init /\ [][Next]_vars

(***************************************************************************)
(* Fairness.  The event loop eventually runs every continuation whose read *)
(* or timer has completed.  Nothing makes an LLM session end by itself, so *)
(* an iteration is required to end only once its signal has fired (every   *)
(* provider call and tool gets that signal).  Callers and crashes are free.*)
(***************************************************************************)
EndAfterSignal(g) ==
    /\ runner[g].signal
    /\ IterationFinishes(g) \/ IterationAborts(g) \/ IterationReturns(g)

Fairness ==
    /\ \A g \in Goals:
          /\ WF_vars(ReadStatus(g)) /\ WF_vars(Decide(g))
          /\ WF_vars(Enter(g)) /\ WF_vars(SleepTimer(g))
          /\ WF_vars(EndAfterSignal(g))
          /\ WF_vars(BootPause(g)) /\ WF_vars(BootKick(g))
    /\ WF_vars(Listen)

FairSpec == Spec /\ Fairness

-----------------------------------------------------------------------------
(* What the daemon promises.                                               *)

(***************************************************************************)
(* Types, with the ranges the code keeps its fields in.                    *)
(***************************************************************************)
TypeOK ==
    /\ disk \in [Goals -> Status]
    /\ abortRequested \in [Goals -> BOOLEAN]
    /\ runner \in [Goals -> RunnerState]
    /\ phase \in Phase
    /\ bootStale \subseteq Goals /\ bootFresh \subseteq Goals
    /\ sent \subseteq Messages
    /\ restarts \in 0..MaxRestarts

(***************************************************************************)
(* The messages a runner accepted are handed to its iterations once each   *)
(* and in the order they were sent: what is not yet taken is pending.      *)
(***************************************************************************)
MessagesInOrder ==
    \A g \in Goals: runner[g].accepted = runner[g].taken \o runner[g].pending

(***************************************************************************)
(* A parked runner has no flag set: an interrupt, an abort or a forced     *)
(* stop can never slip in between the last check of the flags and the      *)
(* sleep that only wake() ends.                                            *)
(***************************************************************************)
ParkedIsUnflagged ==
    \A g \in Goals: runner[g].pc = "waiting" => ~Flagged(runner[g])

(***************************************************************************)
(* An iteration that runs while a flag is set has had its signal fired,    *)
(* whatever the order in which the flag was set and the iteration began.   *)
(***************************************************************************)
FlagReachesIteration ==
    \A g \in Goals:
        InIteration(runner[g]) /\ Flagged(runner[g]) => runner[g].signal

(***************************************************************************)
(* Once stop() has begun, every runner left carries its interrupt; no kick *)
(* in the middle of a stop leaves one that nobody told to end.             *)
(***************************************************************************)
StopReachesEveryRunner ==
    Stopped => \A g \in Goals: Running(g) => runner[g].interrupted

(***************************************************************************)
(* No iteration begins on a runner that was interrupted or aborted, or in  *)
(* a daemon that is stopping, even if the flag was set while the status    *)
(* was being read.                                                         *)
(***************************************************************************)
NoIterationAfterFlag ==
    [][\A g \in Goals:
          ~InIteration(runner[g]) /\ InIteration(runner'[g])
             => ~Flagged(runner[g]) /\ ~Stopped]_vars

(***************************************************************************)
(* An interrupted runner leaves the daemon's map.                          *)
(***************************************************************************)
InterruptEndsRunner ==
    \A g \in Goals: runner[g].interrupted ~> ~Running(g)

(***************************************************************************)
(* A stop empties the map: stop() need not give up on its deadline.        *)
(***************************************************************************)
StopDrains == (phase = "draining") ~> \A g \in Goals: ~Running(g)

(***************************************************************************)
(* Boot-resume: a goal listed for resumption gets an iteration, unless it  *)
(* stops being active, the daemon is stopped or told to stop it first, or  *)
(* the record cannot be read when its status is wanted.                    *)
(***************************************************************************)
BootResumes ==
    \A g \in Goals:
        (g \in bootFresh) ~>
            \/ InIteration(runner[g]) \/ disk[g] # "active"
            \/ Stopped \/ Flagged(runner[g]) \/ runner[g].crashed

(***************************************************************************)
(* The class comment of GoalTurnRunner: run() parks when "no pending user  *)
(* message AND last assistant message was a natural turn end".             *)
(***************************************************************************)
ParksOnlyWithoutPending ==
    \A g \in Goals: runner[g].pc = "waiting" => runner[g].pending = <<>>
=============================================================================
