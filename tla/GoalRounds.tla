---------------------------- MODULE GoalRounds ----------------------------
(***************************************************************************)
(* The rounds of a goal in src/src/server/serve.ts: the daemon's           *)
(* iterations, and beside them the rounds that POST /run and autoRunGoal   *)
(* drive inline.  All of them share                                        *)
(*   - inflightGoals, the map /interrupt and /abort look controllers up in *)
(*   - the steer registry (steer-registry.ts), one slot per conversation   *)
(*   - the runner's own steer queue (GoalDaemon)                           *)
(* and the daemon's events end the responses of /run/stream.               *)
(*                                                                         *)
(* The server is up throughout: start and stop are GoalDaemon's subject.   *)
(***************************************************************************)
EXTENDS GoalDaemon

CONSTANTS
    RunCalls,    \* POST /run requests
    AutoCalls,   \* calls of autoRunGoal, by propose_goal or goal_send_message
    Streams,     \* POST /run/stream requests
    Steers,      \* texts; each is posted at most once
    None

Rounds == RunCalls \cup AutoCalls

ASSUME GoalRoundsAssumption ==
    /\ RunCalls \cap AutoCalls = {}
    /\ None \notin Steers \cup Goals
    /\ {"none", "iteration"} \cap Rounds = {}

VARIABLES
    inflight,   \* inflightGoals: which round's controller a goal's entry is
    round,      \* the inline rounds
    slot,       \* the registry's pending steer of a goal's conversation
    queued,     \* the texts of the runner's pendingSteer
    given,      \* the texts of the iteration being entered (steerText)
    posted,     \* steers that POST /steer has answered with 200
    heard,      \* how often a model was shown a steer
    stream      \* the responses of /run/stream

roundVars == <<inflight, round, slot, queued, given, posted, heard, stream>>
allVars == <<vars, roundVars>>

InlinePC == {"idle", "appended", "fired", "checked", "entering", "running", "done"}
StreamPC == {"idle", "checked", "open", "ended", "closed", "failed"}
IdleRound == [pc |-> "idle", goal |-> None, signal |-> FALSE, text |-> None]

RoundsTypeOK ==
    /\ inflight \in [Goals -> Rounds \cup {"none", "iteration"}]
    /\ round \in [Rounds -> [pc: InlinePC, goal: Goals \cup {None},
                             signal: BOOLEAN, text: Steers \cup {None}]]
    /\ slot \in [Goals -> Steers \cup {None}]
    /\ queued \in [Goals -> SUBSET Steers]
    /\ given \in [Goals -> SUBSET Steers]
    /\ posted \in [Goals -> SUBSET Steers]
    /\ heard \in [Steers -> Nat]
    /\ stream \in [Streams -> [pc: StreamPC, goal: Goals \cup {None}]]

-----------------------------------------------------------------------------
(* What the steps of a round have in common.                               *)

SetEntry(g, e) == inflight' = [inflight EXCEPT ![g] = e]

\* bug: the iteration leaves its entry in the map
Bug_KeepEntry(g) == SetEntry(g, inflight[g])

\* an iteration deletes the entry only if it is its own
ReleaseOwn(g) == SetEntry(g, IF inflight[g] = "iteration" THEN "none"
                             ELSE inflight[g])

Hear(texts) == heard' = [s \in Steers |-> heard[s] + IF s \in texts THEN 1 ELSE 0]

\* iteration-end: the listener starts to read the goal for the result frame
IterationEnd(g) ==
    stream' = [c \in Streams |->
                 IF stream[c] = [pc |-> "open", goal |-> g]
                 THEN [stream[c] EXCEPT !.pc = "ended"] ELSE stream[c]]

\* bug: a turn-end that no iteration-end preceded is ignored as well
Bug_TurnEndIgnored(g) == stream' = stream

\* turn-end: ends a stream that has not seen an iteration-end
TurnEnd(g) ==
    stream' = [c \in Streams |->
                 IF stream[c] = [pc |-> "open", goal |-> g]
                 THEN [stream[c] EXCEPT !.pc = "closed"] ELSE stream[c]]

\* the runner's queue goes with the runner
KeepQueue(g) ==
    queued' = [queued EXCEPT ![g] = IF runner'[g].pc = "none" THEN {} ELSE @]

-----------------------------------------------------------------------------
(* The daemon's loop, with what the production iterationFn adds to it.     *)

\* bug: the steers are drained from the queue and not passed on
Bug_DrainForgets(g) ==
    /\ Decide(g)
    /\ queued' = [queued EXCEPT ![g] = {}]
    /\ IF runner'[g].pc = "none" THEN TurnEnd(g) ELSE UNCHANGED stream
    /\ UNCHANGED <<inflight, round, slot, given, posted, heard>>

\* the loop's guards: turn-end, or a new iteration that drains the queue
RoundBegins(g) ==
    /\ Decide(g)
    /\ queued' = [queued EXCEPT ![g] = {}]
    /\ IF runner'[g].pc = "none"
       THEN TurnEnd(g) /\ UNCHANGED given
       ELSE given' = [given EXCEPT ![g] = queued[g]] /\ UNCHANGED stream
    /\ UNCHANGED <<inflight, round, slot, posted, heard>>

\* iterationFn registers its controller and its steer slot.  An iteration that
\* is refused, or fails at once, gives both back; the last stream to go clears
\* the slot.
RoundEnters(g) ==
    /\ runner[g].pc = "entering"
    /\ Enter(g) \/ IterationFails(g)
    /\ given' = [given EXCEPT ![g] = {}]
    /\ IF runner'[g].pc = "iterating"
       THEN /\ SetEntry(g, "iteration")
            /\ Hear(given[g])
            /\ UNCHANGED <<slot, queued, stream>>
       ELSE /\ SetEntry(g, "none")
            /\ slot' = [slot EXCEPT ![g] = None]
            /\ IterationEnd(g)
            /\ KeepQueue(g)
            /\ UNCHANGED heard
    /\ UNCHANGED <<round, posted>>

\* the first read of iterationFn fails, before it registers anything: turn-end
RoundThrows(g) ==
    /\ runner[g].pc = "entering"
    /\ IterationFails(g) /\ UNCHANGED disk
    /\ given' = [given EXCEPT ![g] = {}]
    /\ TurnEnd(g)
    /\ KeepQueue(g)
    /\ UNCHANGED <<inflight, round, slot, posted, heard>>

\* bug: the slot is read without being cleared
Bug_ProbeKeeps(g) ==
    /\ runner[g].pc = "iterating" /\ slot[g] # None
    /\ Hear({slot[g]})
    /\ UNCHANGED <<vars, inflight, round, slot, queued, given, posted, stream>>

\* the session probes the slot before each request to the model
Probe(g) ==
    /\ runner[g].pc = "iterating" /\ slot[g] # None
    /\ Hear({slot[g]})
    /\ slot' = [slot EXCEPT ![g] = None]
    /\ UNCHANGED <<vars, inflight, round, queued, given, posted, stream>>

RoundEnds(g) ==
    /\ runner[g].pc = "iterating"
    /\ \/ IterationFinishes(g) \/ IterationAborts(g) \/ IterationReturns(g)
       \/ IterationFails(g)
    /\ ReleaseOwn(g)
    /\ slot' = [slot EXCEPT ![g] = None]
    /\ IterationEnd(g)
    /\ KeepQueue(g)
    /\ UNCHANGED <<round, given, posted, heard>>

LoopStep(g) ==
    /\ ReadStatus(g) \/ SleepTimer(g)
    /\ UNCHANGED roundVars

\* the listeners of /run/stream pass the error on and do not end
LoopFails(g) ==
    /\ ReadFails(g)
    /\ KeepQueue(g)
    /\ UNCHANGED <<inflight, round, slot, given, posted, heard, stream>>

-----------------------------------------------------------------------------
(* Inline rounds: POST /run, and autoRunGoal, which alone has a guard.     *)

SetRound(r, pc) == round' = [round EXCEPT ![r].pc = pc]

\* the request, or propose_goal, starts the round for the goal
Fire(r, g) ==
    /\ round[r].pc = "idle"
    /\ r \in AutoCalls => inflight[g] = "none"
    /\ round' = [round EXCEPT ![r].pc = "fired", ![r].goal = g]
    /\ UNCHANGED <<vars, inflight, slot, queued, given, posted, heard, stream>>

\* readGoal, and the answer 400 for a goal that is not active
CheckActive(r) ==
    /\ round[r].pc = "fired"
    /\ SetRound(r, IF disk[round[r].goal] = "active" THEN "checked" ELSE "done")
    /\ UNCHANGED <<vars, inflight, slot, queued, given, posted, heard, stream>>

\* clearGoalAbortRequest has written; the controller replaces any entry
Register(r) ==
    /\ round[r].pc = "checked"
    /\ abortRequested' = [abortRequested EXCEPT ![round[r].goal] = FALSE]
    /\ SetRound(r, "entering")
    /\ SetEntry(round[r].goal, r)
    /\ UNCHANGED <<disk, runner, phase, bootStale, bootFresh, sent, restarts,
                   slot, queued, given, posted, heard, stream>>

\* `finally { inflightGoals.delete(goalId) }`, whosever entry it is
InlineOver(r) == SetRound(r, "done") /\ SetEntry(round[r].goal, "none")

\* runOneIteration: its own look at the goal, then the session
InlineEnters(r) ==
    LET g == round[r].goal
    IN  /\ round[r].pc = "entering"
        /\ IF disk[g] = "active" /\ ~round[r].signal /\ ~abortRequested[g]
           THEN /\ SetRound(r, "running")
                /\ Hear({round[r].text} \cap Steers)
                /\ UNCHANGED inflight
           ELSE InlineOver(r) /\ UNCHANGED heard
        /\ UNCHANGED <<vars, slot, queued, given, posted, stream>>

\* readGoal or clearGoalAbortRequest fails; autoRunGoal then ends the goal
InlineFails(r) ==
    /\ round[r].pc \in {"fired", "checked"}
    /\ SetRound(r, "done")
    /\ \/ UNCHANGED disk
       \/ r \in AutoCalls /\ disk' = [disk EXCEPT ![round[r].goal] = "finished"]
    /\ UNCHANGED <<abortRequested, runner, phase, bootStale, bootFresh, sent,
                   restarts, inflight, slot, queued, given, posted, heard, stream>>

\* the session ends, or the round fails before it; a claim that stands, an error
\* or a spent budget end the goal with it.  No probe is passed to inline rounds:
\* they do not read slots.
InlineEnds(r) ==
    /\ round[r].pc \in {"entering", "running"}
    /\ InlineOver(r)
    /\ \/ UNCHANGED disk
       \/ disk' = [disk EXCEPT ![round[r].goal] = "finished"]
    /\ UNCHANGED <<abortRequested, runner, phase, bootStale, bootFresh, sent,
                   restarts, slot, queued, given, posted, heard, stream>>

-----------------------------------------------------------------------------
(* Steers.                                                                 *)

Fresh(s) ==
    /\ \A g \in Goals: s \notin posted[g]
    /\ \A r \in Rounds: round[r].text # s

\* bug: only the registry's slot is written
Bug_SlotOnly(s, g) ==
    /\ Fresh(s)
    /\ runner[g].pc = "iterating"
    /\ Steer(g)
    /\ slot' = [slot EXCEPT ![g] = s]
    /\ posted' = [posted EXCEPT ![g] = @ \cup {s}]
    /\ UNCHANGED <<inflight, round, queued, given, heard, stream>>

\* POST /steer: 409 unless a stream is active, else both channels are written
PostSteer(s, g) ==
    /\ Fresh(s)
    /\ runner[g].pc = "iterating"
    /\ Steer(g)
    /\ slot' = [slot EXCEPT ![g] = s]
    /\ queued' = [queued EXCEPT ![g] = @ \cup {s}]
    /\ posted' = [posted EXCEPT ![g] = @ \cup {s}]
    /\ UNCHANGED <<inflight, round, given, heard, stream>>

\* goal_send_message: revives a failed or cancelled goal, sets the slot whether
\* or not a stream is active, and records the text with an await
SendMessage(a, s, g) ==
    /\ Fresh(s)
    /\ round[a].pc = "idle"
    /\ \/ disk' = disk
       \/ /\ disk[g] \in {"finished", "cancelled"}
          /\ disk' = [disk EXCEPT ![g] = "active"]
    /\ slot' = [slot EXCEPT ![g] = s]
    /\ round' = [round EXCEPT ![a] =
                   [pc |-> IF runner[g].pc = "iterating" THEN "done" ELSE "appended",
                    goal |-> g, signal |-> FALSE, text |-> s]]
    /\ UNCHANGED <<abortRequested, runner, phase, bootStale, bootFresh, sent,
                   restarts, inflight, queued, given, posted, heard, stream>>

\* after the await: the kick, for a stream that was idle before it
SendKick(a) ==
    /\ round[a].pc = "appended"
    /\ SetRound(a, IF inflight[round[a].goal] = "none" THEN "fired" ELSE "done")
    /\ UNCHANGED <<vars, inflight, slot, queued, given, posted, heard, stream>>

-----------------------------------------------------------------------------
(* POST /run/stream, and the endpoints that stop rounds.                   *)

StreamAsks(c, g) ==
    /\ stream[c].pc = "idle"
    /\ disk[g] = "active"
    /\ stream' = [stream EXCEPT ![c] = [pc |-> "checked", goal |-> g]]
    /\ UNCHANGED <<vars, inflight, round, slot, queued, given, posted, heard>>

\* the abort request is cleared, the listener is added, the daemon is kicked
StreamOpens(c) ==
    LET g == stream[c].goal
    IN  /\ stream[c].pc = "checked"
        /\ stream' = [stream EXCEPT ![c].pc = "open"]
        /\ abortRequested' = [abortRequested EXCEPT ![g] = FALSE]
        /\ SetRunner(g, IF Running(g) THEN Wake(runner[g]) ELSE Spawn(<<>>))
        /\ UNCHANGED <<disk, phase, bootStale, bootFresh, sent, restarts,
                       inflight, round, slot, queued, given, posted, heard>>

\* the goal has been read back: the result frame is queued, the pump drains; a
\* read that fails leaves the pump waiting for a `done` that nobody sets
StreamResult(c) ==
    /\ stream[c].pc = "ended"
    /\ \E pc \in {"closed", "failed"}: stream' = [stream EXCEPT ![c].pc = pc]
    /\ UNCHANGED <<vars, inflight, round, slot, queued, given, posted, heard>>

\* controller.abort() on the entry of the goal, whichever round put it there
AbortEntry(g) ==
    /\ runner' = [runner EXCEPT ![g].signal = @ \/ inflight[g] = "iteration"]
    /\ round' = [r \in Rounds |->
                   [round[r] EXCEPT !.signal = @ \/ inflight[g] = r]]

PostInterrupt(g) ==
    /\ inflight[g] # "none"
    /\ AbortEntry(g)
    /\ UNCHANGED <<disk, abortRequested, phase, bootStale, bootFresh, sent,
                   restarts, inflight, slot, queued, given, posted, heard, stream>>

PostAbort(g) ==
    /\ abortRequested' = [abortRequested EXCEPT ![g] = TRUE]
    /\ AbortEntry(g)
    /\ UNCHANGED <<disk, phase, bootStale, bootFresh, sent, restarts,
                   inflight, slot, queued, given, posted, heard, stream>>

StatusChange(g) ==
    /\ Pause(g) \/ Cancel(g) \/ Reactivate(g)
    /\ UNCHANGED roundVars

-----------------------------------------------------------------------------
RoundsInit ==
    /\ disk = [g \in Goals |-> "active"]
    /\ abortRequested = [g \in Goals |-> FALSE]
    /\ runner = [g \in Goals |-> NoRunner]
    /\ phase = "up" /\ bootStale = {} /\ bootFresh = {}
    /\ sent = {} /\ restarts = 0
    /\ inflight = [g \in Goals |-> "none"]
    /\ round = [r \in Rounds |-> IdleRound]
    /\ slot = [g \in Goals |-> None]
    /\ queued = [g \in Goals |-> {}]
    /\ given = [g \in Goals |-> {}]
    /\ posted = [g \in Goals |-> {}]
    /\ heard = [s \in Steers |-> 0]
    /\ stream = [c \in Streams |-> [pc |-> "idle", goal |-> None]]

GoalStep(g) ==
    \/ LoopStep(g) \/ LoopFails(g) \/ RoundBegins(g)
    \/ RoundEnters(g) \/ RoundThrows(g) \/ Probe(g) \/ RoundEnds(g)
    \/ PostInterrupt(g) \/ PostAbort(g) \/ StatusChange(g)
    \/ \E s \in Steers: PostSteer(s, g)
    \/ \E r \in Rounds: Fire(r, g)
    \/ \E a \in AutoCalls, s \in Steers: SendMessage(a, s, g)
    \/ \E c \in Streams: StreamAsks(c, g)

InlineStep(r) ==
    CheckActive(r) \/ Register(r) \/ InlineFails(r) \/ InlineEnters(r) \/ InlineEnds(r)

RoundsNext ==
    \/ \E g \in Goals: GoalStep(g)
    \/ \E r \in Rounds: InlineStep(r)
    \/ \E a \in AutoCalls: SendKick(a)
    \/ \E c \in Streams: StreamOpens(c) \/ StreamResult(c)

RoundsSpec == RoundsInit /\ [][RoundsNext]_allVars

(***************************************************************************)
(* Fairness: continuations run, and an iteration ends.  The session's loop *)
(* makes at most maxToolRounds requests (session.ts:2677), each of which   *)
(* the provider answers or fails.  Nothing is assumed of clients.          *)
(***************************************************************************)
RoundsFairness ==
    /\ \A g \in Goals:
          /\ WF_allVars(LoopStep(g)) /\ WF_allVars(RoundBegins(g))
          /\ WF_allVars(RoundEnters(g)) /\ WF_allVars(RoundEnds(g))
    /\ \A c \in Streams: WF_allVars(StreamResult(c))

FairRoundsSpec == RoundsSpec /\ RoundsFairness

-----------------------------------------------------------------------------
(***************************************************************************)
(* The entry of a goal is the controller of a round that is running, or    *)
(* about to: when /interrupt answers 200, a round has been told to stop.   *)
(* Any inline round's end deletes any round's entry, so this needs every   *)
(* order of their beginnings and ends; the converse does not hold.         *)
(***************************************************************************)
EntryIsRunning ==
    \A g \in Goals:
        \/ inflight[g] = "none"
        \/ inflight[g] = "iteration" /\ runner[g].pc = "iterating"
        \/ \E r \in Rounds: /\ inflight[g] = r /\ round[r].goal = g
                            /\ round[r].pc \in {"entering", "running"}

(***************************************************************************)
(* A steer goes out on two channels, the slot and the queue (or the text   *)
(* of the round that goal_send_message kicks): a model reads it at most    *)
(* once from each.                                                         *)
(***************************************************************************)
HeardAtMostTwice == \A s \in Steers: heard[s] <= 2

Lost(s, g) ==
    s \in posted[g] /\ heard[s] = 0 /\ s \notin queued[g] \cup given[g]

(***************************************************************************)
(* A steer that POST /steer accepted reaches a model even if the iteration *)
(* it was meant for makes no further request and a later steer overwrites  *)
(* the slot: it is lost only with its runner, or in an iteration refused   *)
(* at its start because the goal was paused, cancelled or aborted.         *)
(***************************************************************************)
SteerSurvives ==
    [][\A s \in Steers, g \in Goals:
          Lost(s, g)' /\ ~Lost(s, g) =>
             \/ runner'[g].pc = "none"
             \/ runner[g].pc = "entering" /\ runner'[g].pc # "iterating"]_allVars

(***************************************************************************)
(* Every response of /run/stream that was opened ends, whether the runner  *)
(* it listens to iterates, is refused its iteration, throws in it or ends  *)
(* at a guard.  Only a failed read of the goal's record can keep it open:  *)
(* the runner's own (run() rejects, and the listener does not take the     *)
(* `error` for an end) or the one for the result frame.                    *)
(***************************************************************************)
StreamsEnd ==
    \A c \in Streams:
        (stream[c].pc = "open") ~>
            \/ stream[c].pc \in {"closed", "failed"}
            \/ \E g \in Goals: stream[c].goal = g /\ runner[g].crashed

(***************************************************************************)
(* The comment on autoRunGoal: two kicks "would start a round against the  *)
(* same goalId concurrently and clobber each other's writes.  Skip when    *)
(* there's already one running."                                           *)
(***************************************************************************)
OneAutoRound ==
    \A a, b \in AutoCalls:
        /\ round[a].pc = "running" /\ round[b].pc = "running"
        /\ round[a].goal = round[b].goal
        => a = b
=============================================================================
