---------------------------- MODULE GoalIteration ----------------------------
(***************************************************************************)
(* runOneIteration of src/src/core/goal/runner.ts, one iteration after the *)
(* other, the HTTP handlers of src/src/server/serve.ts that change the     *)
(* same goal record, and the chat tool goal_send_message.                  *)
(*                                                                         *)
(* Every change is a read of the whole record followed, after an await, by *)
(* a write of the whole record: no lock is taken, so the handlers and the  *)
(* iteration may write back what they read before the other wrote.  `goal` *)
(* is what the iteration holds in memory; the two gates of mark_done write *)
(* back that copy.  The process may die at any step; the record survives.  *)
(***************************************************************************)
EXTENDS GoalRecord

CONSTANTS
    Requests,    \* HTTP requests and tool calls; each is made at most once
    Endpoints,   \* endpoints that are called
    Outcomes,    \* what a turn may end with
    TurnTokens,  \* tokens a turn may use
    ReviewOn,    \* the review mode is not "off"
    MaxEvents,   \* bound on tool events of a turn
    MaxTurns,    \* bound on iterations started
    MaxCrashes   \* bound on crashes

\* "send" and "revive" are goal_send_message, to a goal that runs and to one
\* that has failed or was cancelled.
Kinds == {"pause", "cancel", "abort", "interrupt", "resume", "resurrect",
          "send", "revive"}

ASSUME GoalIterationAssumption ==
    /\ Endpoints \subseteq Kinds
    /\ Outcomes \subseteq {"done", "give_up", "tools", "natural"}
    /\ TurnTokens \subseteq Nat
    /\ ReviewOn \in BOOLEAN
    /\ MaxEvents \in Nat /\ MaxTurns \in Nat /\ MaxCrashes \in Nat

VARIABLES
    disk,     \* the goal file
    at,       \* where the iteration is suspended
    loaded,   \* it has read what it is about to change and write
    goal,     \* the record it holds
    turn,     \* the turn in progress: outcome, tokens, tool events
    signal,   \* the iteration's AbortSignal has fired
    result,   \* what the last iteration returned
    kind,     \* the endpoint each request calls
    phase,    \* where its handler is suspended
    seen,     \* the record its handler read first
    held,     \* the record it read last
    turns, finished, crashes   \* iterations begun, recorded in stats, crashes

runnerVars == <<at, loaded, goal, turn, signal, result, turns, finished>>
requestVars == <<kind, phase, seen, held>>
vars == <<disk, runnerVars, requestVars, crashes>>

Turn == [outcome: Outcomes \cup {"none"}, tokens: TurnTokens \cup {0},
         events: 0..MaxEvents]
NoTurn == [outcome |-> "none", tokens |-> 0, events |-> 0]

\* The places where the iteration changes the record by a read and a write.
Updates == {"note", "heartbeat", "attach", "prompt", "event", "text", "stats",
            "abortNote", "exhaust", "complete", "fail", "throwFail", "summary"}
Places == Updates \cup {"idle", "entry", "reread", "send", "markDone", "review",
                        "budget", "reject", "nudge", "recheck"}
Phases == {"idle", "checked", "clearing", "clearWrite", "cleared", "reviving",
           "revived", "logging", "logged", "writing", "ok", "refused", "lost"}

Init ==
    /\ disk = NewGoal
    /\ at = "idle" /\ loaded = FALSE /\ goal = NewGoal /\ turn = NoTurn
    /\ signal = FALSE /\ result = "none"
    /\ kind = [r \in Requests |-> "none"]
    /\ phase = [r \in Requests |-> "idle"]
    /\ seen = [r \in Requests |-> NewGoal]
    /\ held = [r \in Requests |-> NewGoal]
    /\ turns = 0 /\ finished = 0 /\ crashes = 0

-----------------------------------------------------------------------------
(* The iteration.                                                          *)

Return(r) == at' = "idle" /\ result' = r
GoTo(place) == at' = place /\ UNCHANGED result

Begin ==
    /\ at = "idle" /\ turns < MaxTurns
    /\ GoTo("entry")
    /\ turns' = turns + 1
    /\ turn' = NoTurn /\ signal' = FALSE
    /\ UNCHANGED <<disk, loaded, goal, finished, requestVars, crashes>>

Enter ==
    /\ at = "entry"
    /\ goal' = disk
    /\ \/ disk.status # "active" /\ Return("refused")
       \/ disk.status = "active" /\ signal /\ Return("aborted")
       \/ disk.status = "active" /\ ~signal /\ disk.abort /\ GoTo("note")
       \/ disk.status = "active" /\ ~signal /\ ~disk.abort /\ GoTo("heartbeat")
    /\ UNCHANGED <<disk, loaded, turn, signal, turns, finished, requestVars, crashes>>

\* bug: the budget is not looked at before the turn
Bug_NoBudgetCheck ==
    /\ at \in {"reread", "recheck"}
    /\ goal' = disk
    /\ \/ at = "reread" /\ GoTo("attach")
       \/ at = "recheck" /\ Return(IF turn.outcome = "natural" THEN "natural" ELSE "continue")
    /\ UNCHANGED <<disk, loaded, turn, signal, turns, finished, requestVars, crashes>>

\* withinBudget, before the turn and after it
CheckBudget ==
    /\ at \in {"reread", "recheck"}
    /\ goal' = disk
    /\ \/ ~WithinBudget(disk) /\ GoTo("exhaust")
       \/ WithinBudget(disk) /\ at = "reread" /\ GoTo("attach")
       \/ /\ WithinBudget(disk) /\ at = "recheck"
          /\ Return(IF turn.outcome = "natural" THEN "natural" ELSE "continue")
    /\ UNCHANGED <<disk, loaded, turn, signal, turns, finished, requestVars, crashes>>

ToolEvent ==
    /\ at = "send" /\ turn.events < MaxEvents
    /\ turn' = [turn EXCEPT !.events = @ + 1]
    /\ GoTo("event")
    /\ UNCHANGED <<disk, loaded, goal, signal, turns, finished, requestVars, crashes>>

\* session.send ends: with the model's last word, by the signal, or by an
\* error.  A natural end has text and no tool call.
TurnEnds ==
    /\ at = "send"
    /\ \E o \in Outcomes, n \in TurnTokens, place \in {"text", "stats"}:
          /\ o = "natural" => turn.events = 0 /\ place = "text"
          /\ turn' = [turn EXCEPT !.outcome = o, !.tokens = n]
          /\ GoTo(place)
    /\ UNCHANGED <<disk, loaded, goal, signal, turns, finished, requestVars, crashes>>

TurnAborts ==
    /\ at = "send" /\ signal
    /\ GoTo("abortNote")
    /\ UNCHANGED <<disk, loaded, goal, turn, signal, turns, finished, requestVars, crashes>>

TurnThrows ==
    /\ at = "send"
    /\ GoTo("throwFail")
    /\ UNCHANGED <<disk, loaded, goal, turn, signal, turns, finished, requestVars, crashes>>

\* the record is read again before the gates of mark_done
MarkDone ==
    /\ at = "markDone"
    /\ goal' = disk
    /\ GoTo(IF ReviewOn THEN "review" ELSE "budget")
    /\ UNCHANGED <<disk, loaded, turn, signal, turns, finished, requestVars, crashes>>

\* bug: the rejections are not counted against the cap
Bug_ReviewUncapped ==
    /\ at = "review"
    /\ \/ GoTo("budget") /\ UNCHANGED <<goal, loaded>>
       \/ /\ goal' = Rejected(goal)
          /\ loaded' = TRUE
          /\ GoTo("reject")
    /\ UNCHANGED <<disk, turn, signal, turns, finished, requestVars, crashes>>

\* reviewMarkDone asks another model, then maybeBlockByReview
Review ==
    /\ at = "review"
    /\ \/ GoTo("budget") /\ UNCHANGED <<goal, loaded>>
       \/ /\ goal.rejections < RejectCap
          /\ goal' = Rejected(goal)
          /\ loaded' = TRUE
          /\ GoTo("reject")
    /\ UNCHANGED <<disk, turn, signal, turns, finished, requestVars, crashes>>

Budget ==
    /\ at = "budget"
    /\ \/ MustContinue(goal) /\ goal' = Continued(goal) /\ loaded' = TRUE /\ GoTo("nudge")
       \/ ~MustContinue(goal) /\ UNCHANGED <<goal, loaded>> /\ GoTo("complete")
    /\ UNCHANGED <<disk, turn, signal, turns, finished, requestVars, crashes>>

\* the gates write back the copy read before them
GateWrites ==
    /\ at \in {"reject", "nudge"}
    /\ disk' = goal
    /\ loaded' = FALSE
    /\ Return("continue")
    /\ UNCHANGED <<goal, turn, signal, turns, finished, requestVars, crashes>>

Load ==
    /\ at \in Updates /\ ~loaded
    /\ goal' = disk
    /\ loaded' = TRUE
    /\ UNCHANGED <<disk, at, turn, signal, result, turns, finished, requestVars, crashes>>

\* What an update makes of the record it has read; the log entries, the
\* heartbeat and the summary path are not part of the model's record.
Updated(g) ==
    CASE at = "attach" -> AttachConversation(g)
      [] at = "stats" -> AddStats(g, turn.tokens)
      [] at = "exhaust" -> EndGoal(g, "exhausted")
      [] at = "complete" -> EndGoal(g, "complete")
      [] at \in {"fail", "throwFail"} -> EndGoal(g, "failed")
      [] OTHER -> g

Follows ==
    CASE at = "note" -> Return("aborted")
      [] at = "abortNote" -> Return("aborted")
      [] at = "heartbeat" -> GoTo("reread")
      [] at = "attach" -> GoTo("prompt")
      [] at \in {"prompt", "event"} -> GoTo("send")
      [] at = "text" -> GoTo("stats")
      [] at = "stats" -> GoTo(CASE turn.outcome = "done" -> "markDone"
                                [] turn.outcome = "give_up" -> "fail"
                                [] OTHER -> "recheck")
      [] at = "exhaust" -> Return("exhausted")
      [] at \in {"complete", "fail"} -> GoTo("summary")
      [] at = "throwFail" -> Return("threw")
      [] at = "summary" -> Return(IF turn.outcome = "done" THEN "completed" ELSE "failed")

Save ==
    /\ at \in Updates /\ loaded
    /\ disk' = IF at = "attach" /\ goal.attached THEN disk ELSE Updated(goal)
    /\ loaded' = FALSE
    /\ finished' = IF at = "stats" THEN finished + 1 ELSE finished
    /\ Follows
    /\ UNCHANGED <<goal, turn, signal, turns, requestVars, crashes>>

Iterate ==
    \/ Enter \/ CheckBudget \/ ToolEvent \/ TurnEnds \/ TurnAborts \/ TurnThrows
    \/ MarkDone \/ Review \/ Budget \/ GateWrites \/ Load \/ Save

-----------------------------------------------------------------------------
(* The HTTP handlers.                                                      *)

Phase(r, from, to) == phase[r] = from /\ phase' = [phase EXCEPT ![r] = to]

\* the guard that each handler evaluates on its first read
Accepts(k, g) ==
    CASE k = "pause" -> g.status = "active"
      [] k \in {"cancel", "resume"} -> g.status \notin Terminal
      [] k = "resurrect" -> g.status \in {"failed", "cancelled"}
      [] k \in {"abort", "interrupt"} -> TRUE
      [] k = "send" -> g.attached /\ g.status \notin {"failed", "cancelled"}
      [] k = "revive" -> g.attached /\ g.status \in {"failed", "cancelled"}

Receive(r) ==
    /\ phase[r] = "idle"
    /\ \E k \in Endpoints:
          /\ kind' = [kind EXCEPT ![r] = k]
          /\ phase' = [phase EXCEPT ![r] =
                IF ~Accepts(k, disk) THEN "refused"
                ELSE CASE k = "pause" -> "writing"
                       [] k \in {"resume", "resurrect"} -> "clearing"
                       [] k = "revive" -> "reviving"
                       [] OTHER -> "checked"]
    /\ seen' = [seen EXCEPT ![r] = disk]
    /\ held' = [held EXCEPT ![r] = disk]
    /\ UNCHANGED <<disk, runnerVars, crashes>>

\* the records a finished handler held are garbage
Forget(r) ==
    /\ seen' = [seen EXCEPT ![r] = NewGoal]
    /\ held' = [held EXCEPT ![r] = NewGoal]

\* endGoal, requestGoalAbort, appendStep, and the read that follows
\* resurrect's clear
ReadAgain(r) ==
    /\ \/ Phase(r, "checked", "writing") /\ kind[r] \in {"cancel", "abort", "send"}
       \/ Phase(r, "cleared", "writing") /\ kind[r] = "resurrect"
       \/ Phase(r, "revived", "logging")
       \/ Phase(r, "logged", "writing")
    /\ held' = [held EXCEPT ![r] = disk]
    /\ UNCHANGED <<disk, kind, seen, runnerVars, crashes>>

\* clearGoalAbortRequest; resume goes on with the record it saw before
ClearRead(r) ==
    /\ Phase(r, "clearing", "clearWrite")
    /\ held' = [held EXCEPT ![r] = disk]
    /\ UNCHANGED <<disk, kind, seen, runnerVars, crashes>>

AfterClear(r) ==
    IF kind[r] = "resurrect" THEN "cleared"
    ELSE IF seen[r].status = "paused" THEN "writing" ELSE "ok"

ClearWrite(r) ==
    /\ Phase(r, "clearWrite", AfterClear(r))
    /\ disk' = IF held[r].abort THEN ClearAbort(held[r]) ELSE disk
    /\ held' = [held EXCEPT ![r] = seen[r]]
    /\ UNCHANGED <<kind, seen, runnerVars, crashes>>

ReviveWrite(r) ==
    /\ Phase(r, "reviving", "revived")
    /\ disk' = Revive(held[r])
    /\ UNCHANGED <<kind, seen, held, runnerVars, crashes>>

\* the status step is a second write, whose failure appendStep swallows
LogRevival(r) ==
    /\ Phase(r, "logging", "logged")
    /\ disk' \in {LogActive(held[r]), disk}
    /\ UNCHANGED <<kind, seen, held, runnerVars, crashes>>

Changed(r) ==
    CASE kind[r] = "pause" -> Pause(held[r])
      [] kind[r] = "cancel" -> EndGoal(held[r], "cancelled")
      [] kind[r] = "abort" -> RequestAbort(held[r])
      [] kind[r] = "resume" -> Resume(held[r])
      [] kind[r] = "resurrect" -> Resurrect(held[r])
      [] kind[r] \in {"send", "revive"} -> held[r]

Write(r) ==
    /\ Phase(r, "writing", "ok")
    /\ disk' = IF kind[r] = "abort" /\ held[r].abort THEN disk ELSE Changed(r)
    /\ signal' = (signal \/ (kind[r] = "abort" /\ at # "idle"))
    /\ Forget(r)
    /\ UNCHANGED <<at, loaded, goal, turn, result, turns, finished, kind, crashes>>

HttpInterrupt(r) ==
    /\ kind[r] = "interrupt"
    /\ Phase(r, "checked", IF at = "idle" THEN "refused" ELSE "ok")
    /\ signal' = (signal \/ at # "idle")
    /\ Forget(r)
    /\ UNCHANGED <<disk, at, loaded, goal, turn, result, turns, finished, kind, crashes>>

Handle(r) ==
    \/ Receive(r) \/ ReadAgain(r) \/ ClearRead(r) \/ ClearWrite(r)
    \/ ReviveWrite(r) \/ LogRevival(r) \/ Write(r) \/ HttpInterrupt(r)

\* The process dies and starts again.
Crash ==
    /\ crashes < MaxCrashes
    /\ crashes' = crashes + 1
    /\ at' = "idle" /\ loaded' = FALSE /\ goal' = disk /\ turn' = NoTurn
    /\ signal' = FALSE /\ result' = "none"
    /\ phase' = [r \in Requests |->
          IF phase[r] \in {"idle", "ok", "refused"} THEN phase[r] ELSE "lost"]
    /\ seen' = [r \in Requests |-> NewGoal] /\ held' = seen'
    /\ UNCHANGED <<disk, kind, turns, finished>>

Next == Begin \/ Iterate \/ Crash \/ \E r \in Requests: Handle(r)

Spec == Init /\ [][Next]_vars

\* The daemon starts the next iteration of an active goal, and its
\* continuations run; reviewers and models answer.
Fairness == WF_vars(Begin) /\ WF_vars(Iterate)

FairSpec == Spec /\ Fairness

-----------------------------------------------------------------------------
TypeOK ==
    /\ disk \in Goal /\ goal \in Goal
    /\ at \in Places /\ loaded \in BOOLEAN
    /\ turn \in Turn
    /\ signal \in BOOLEAN
    /\ result \in {"none", "refused", "aborted", "exhausted", "continue", "natural",
                   "threw", "completed", "failed"}
    /\ kind \in [Requests -> Kinds \cup {"none"}]
    /\ phase \in [Requests -> Phases]
    /\ seen \in [Requests -> Goal] /\ held \in [Requests -> Goal]
    /\ turns \in 0..MaxTurns /\ finished \in Nat
    /\ crashes \in 0..MaxCrashes

\* goal_send_message has revived the goal, or may have before a crash
Revived == \E r \in Requests: kind[r] = "revive" /\ phase[r] \notin {"idle", "reviving"}

Coherent(g, revived) ==
    /\ g.ended <=> g.status \in Terminal
    /\ g.status # g.logged => revived /\ "active" \in {g.status, g.logged}

(***************************************************************************)
(* However reads and writes interleave, and wherever the process dies,     *)
(* endedAt is set exactly for the terminal statuses, and the status agrees *)
(* with the last status step of the audit log.  goal_send_message alone    *)
(* breaks the agreement, when it revives a goal: its step "to active" is   *)
(* missing until the next write, for ever after a crash or a failed write, *)
(* or comes after the step of a status that was set in between.            *)
(***************************************************************************)
RecordCoherent == Coherent(disk, Revived)

(***************************************************************************)
(* Lost updates and crashes can only lose rounds: the record never counts  *)
(* an iteration that was not run, so a goal is not exhausted too early.    *)
(***************************************************************************)
RoundsNotOvercounted == disk.rounds <= finished /\ finished <= turns

(***************************************************************************)
(* "the model can never be trapped in an unbreakable nudge loop": the two  *)
(* gates hold mark_done back a bounded number of times.                    *)
(***************************************************************************)
GatesAreBounded == disk.rejections <= RejectCap /\ disk.continuations <= HardCap

(***************************************************************************)
(* Unless a request interferes, the model is only run for an active goal   *)
(* with budget left, even after a crash between two updates.               *)
(***************************************************************************)
TurnHasBudget ==
    /\ at = "send"
    /\ \A r \in Requests: phase[r] \in {"idle", "refused"}
    => disk.status = "active" /\ WithinBudget(disk)

(***************************************************************************)
(* A model that claims completion in every turn ends its goal: the review  *)
(* and the budget gate give in after finitely many refusals.               *)
(***************************************************************************)
ClaimsAreHonoured == <>(disk.status \in Terminal)

(***************************************************************************)
(* "would otherwise lose one writer's modifications": a goal that was      *)
(* paused is not active again unless somebody resumes it.                  *)
(***************************************************************************)
PauseSticks == \A r \in Requests: kind[r] = "pause" /\ phase[r] = "ok"
                                     => disk.status # "active"
=============================================================================
