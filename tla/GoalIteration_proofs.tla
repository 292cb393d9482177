------------------------ MODULE GoalIteration_proofs ------------------------
(***************************************************************************)
(* The goal record under iterations and requests, for every set of         *)
(* requests and every budget, cap and bound.                               *)
(*                                                                         *)
(* Every write of the record writes back an earlier copy, so what is to    *)
(* hold of the file must hold of every copy in memory, the stale ones      *)
(* included: the invariant is a property of one record, claimed for all    *)
(* four.  What a handler has checked of its first read must still hold of  *)
(* the copy it changes.                                                    *)
(***************************************************************************)
EXTENDS GoalIteration, TLAPS

\* A sound record, of which n rounds at most are counted; `revived` says that
\* goal_send_message has revived the goal.
Sound(g, n, revived) ==
    /\ g \in Goal
    /\ Coherent(g, revived)
    /\ g.rounds <= n
    /\ g.lastCheck <= g.tokens
    /\ g.rejections <= RejectCap /\ g.continuations <= HardCap

CopiesSound ==
    /\ Sound(disk, finished, Revived) /\ Sound(goal, finished, Revived)
    /\ \A r \in Requests: Sound(seen[r], finished, Revived) /\ Sound(held[r], finished, Revived)

\* Where the iteration in progress has not been recorded in the stats.
Unrecorded == {"entry", "heartbeat", "reread", "attach", "prompt", "send",
               "event", "text", "stats"}

Counted ==
    /\ finished <= turns
    /\ at \in Unrecorded => finished < turns

HandlerInv(r) ==
    /\ phase[r] \in {"clearing", "clearWrite"} => kind[r] \in {"resume", "resurrect"}
    /\ phase[r] = "cleared" => kind[r] = "resurrect"
    /\ phase[r] \in {"reviving", "revived", "logging", "logged"} => kind[r] = "revive"
    /\ phase[r] = "writing" =>
          /\ kind[r] \in Kinds \ {"interrupt"}
          /\ kind[r] = "pause" => held[r].status = "active"
          /\ kind[r] = "resume" => held[r].status = "paused"

IInv == TypeOK /\ CopiesSound /\ Counted /\ \A r \in Requests: HandlerInv(r)

-----------------------------------------------------------------------------
(* The operations on a record.                                             *)

LEMMA Bounds ==
    /\ \A n \in TurnTokens: n \in Nat
    /\ MaxEvents \in Nat /\ MaxTurns \in Nat /\ MaxCrashes \in Nat
BY GoalIterationAssumption

LEMMA NoTurnType == NoTurn \in Turn
<1>1. 0 \in 0..MaxEvents
    BY Bounds
<1> QED BY <1>1 DEF NoTurn, Turn

LEMMA TokensAreNat == \A t \in Turn: t.tokens \in Nat
<1> SUFFICES ASSUME NEW t \in Turn PROVE t.tokens \in Nat
    OBVIOUS
<1>1. t.tokens \in TurnTokens \/ t.tokens = 0
    BY DEF Turn
<1> QED BY <1>1, Bounds

LEMMA NewGoalSound == \A b: Sound(NewGoal, 0, b)
BY GoalRecordAssumption DEF Sound, NewGoal, Goal, Coherent, Status, Terminal

LEMMA SoundMonotone ==
    ASSUME NEW g, NEW n \in Nat, NEW b, Sound(g, n, b)
    PROVE  Sound(g, n + 1, b)
BY DEF Sound, Goal

LEMMA EndGoalSound ==
    ASSUME NEW g, NEW n \in Nat, NEW b, Sound(g, n, b), NEW s \in Terminal
    PROVE  Sound(EndGoal(g, s), n, b)
BY DEF Sound, EndGoal, Goal, Coherent, Status, Terminal

LEMMA StatusSound ==
    ASSUME NEW g, NEW n \in Nat, NEW b, Sound(g, n, b)
    PROVE  /\ g.status = "active" => Sound(Pause(g), n, b)
           /\ g.status = "paused" => Sound(Resume(g), n, b)
           /\ Sound(Resurrect(g), n, b)
BY DEF Sound, Pause, Resume, Resurrect, Goal, Coherent, Status, Terminal

LEMMA ReviveSound ==
    ASSUME NEW g, NEW n \in Nat, NEW b, Sound(g, n, b)
    PROVE  Sound(Revive(g), n, TRUE) /\ Sound(LogActive(g), n, TRUE)
BY DEF Sound, Revive, LogActive, Goal, Coherent, Status, Terminal

LEMMA RevivedMonotone ==
    ASSUME NEW g, NEW n, NEW b, NEW c, b => c, Sound(g, n, b)
    PROVE  Sound(g, n, c)
BY DEF Sound, Coherent

LEMMA FlagSound ==
    ASSUME NEW g, NEW n \in Nat, NEW b, Sound(g, n, b)
    PROVE  /\ Sound(RequestAbort(g), n, b) /\ Sound(ClearAbort(g), n, b)
           /\ Sound(AttachConversation(g), n, b)
BY DEF Sound, RequestAbort, ClearAbort, AttachConversation, Goal, Coherent

LEMMA AddStatsSound ==
    ASSUME NEW g, NEW n \in Nat, NEW b, Sound(g, n, b), NEW tokens \in Nat
    PROVE  Sound(AddStats(g, tokens), n + 1, b)
<1> DEFINE h == AddStats(g, tokens)
<1>1. g.rounds \in Nat /\ g.tokens \in Nat /\ g.lastCheck \in Nat
      /\ g.rounds <= n /\ g.lastCheck <= g.tokens
    BY DEF Sound, Goal
<1>2. /\ g.rounds + 1 \in Nat /\ g.tokens + tokens \in Nat
      /\ g.rounds + 1 <= n + 1 /\ g.lastCheck <= g.tokens + tokens
    BY <1>1
<1>3. /\ h.rounds = g.rounds + 1 /\ h.tokens = g.tokens + tokens
      /\ h.lastCheck = g.lastCheck /\ h.rejections = g.rejections
      /\ h.continuations = g.continuations /\ h.status = g.status
      /\ h.logged = g.logged /\ h.ended = g.ended
    BY DEF Sound, AddStats, Goal
<1>4. h \in Goal
    BY <1>2 DEF Sound, AddStats, Goal
<1>5. Coherent(h, b)
    BY <1>3 DEF Sound, Coherent
<1> QED
    BY <1>2, <1>3, <1>4, <1>5 DEF Sound

LEMMA GatesSound ==
    ASSUME NEW g, NEW n \in Nat, NEW b, Sound(g, n, b)
    PROVE  /\ g.rejections < RejectCap => Sound(Rejected(g), n, b)
           /\ MustContinue(g) => Sound(Continued(g), n, b)
<1>1. g.rejections < RejectCap => Sound(Rejected(g), n, b)
    BY GoalRecordAssumption DEF Sound, Rejected, Goal, Coherent
<1>2. MustContinue(g) => Sound(Continued(g), n, b)
  <2> SUFFICES ASSUME MustContinue(g) PROVE Sound(Continued(g), n, b)
      OBVIOUS
  <2> DEFINE h == Continued(g)
  <2>1. /\ g.tokens \in Nat /\ g.lastCheck \in Nat /\ g.lastCheck <= g.tokens
        /\ g.continuations \in Nat /\ g.continuations < HardCap
      BY DEF Sound, Goal, MustContinue
  <2>2. /\ g.tokens - g.lastCheck \in Nat /\ g.continuations + 1 \in Nat
        /\ g.continuations + 1 <= HardCap
      BY <2>1, GoalRecordAssumption
  <2>3. /\ h.lastCheck = g.tokens /\ h.continuations = g.continuations + 1
        /\ h.tokens = g.tokens /\ h.rounds = g.rounds
        /\ h.rejections = g.rejections /\ h.status = g.status
        /\ h.logged = g.logged /\ h.ended = g.ended
      BY DEF Sound, Continued, Goal
  <2>4. h \in Goal
      BY <2>1, <2>2 DEF Sound, Continued, Goal
  <2>5. Coherent(h, b)
      BY <2>3 DEF Sound, Coherent
  <2> QED
      BY <2>1, <2>2, <2>3, <2>4, <2>5 DEF Sound
<1> QED BY <1>1, <1>2

\* what an update of the iteration writes, with the round it counts
LEMMA UpdatedSound ==
    ASSUME TypeOK, CopiesSound
    PROVE  Sound(Updated(goal), IF at = "stats" THEN finished + 1 ELSE finished, Revived)
<1>1. finished \in Nat /\ turn.tokens \in Nat /\ Sound(goal, finished, Revived)
    BY TokensAreNat DEF TypeOK, CopiesSound
<1>2. CASE at = "stats"
    BY <1>1, <1>2, AddStatsSound DEF Updated
<1>3. CASE at = "attach"
    BY <1>1, <1>3, FlagSound DEF Updated
<1>4. CASE at \in {"exhaust", "complete", "fail", "throwFail"}
    BY <1>1, <1>4, EndGoalSound DEF Updated, Terminal
<1>5. CASE at \notin {"stats", "attach", "exhaust", "complete", "fail", "throwFail"}
    BY <1>1, <1>5 DEF Updated
<1> QED BY <1>2, <1>3, <1>4, <1>5

\* what a handler writes
LEMMA ChangedSound ==
    ASSUME TypeOK, CopiesSound, NEW r \in Requests, HandlerInv(r),
           phase[r] = "writing"
    PROVE  Sound(Changed(r), finished, Revived)
<1>1. finished \in Nat /\ Sound(held[r], finished, Revived)
    BY DEF TypeOK, CopiesSound
<1>2. "cancelled" \in Terminal
    BY DEF Terminal
<1>3. /\ kind[r] \in Kinds \ {"interrupt"}
      /\ kind[r] = "pause" => held[r].status = "active"
      /\ kind[r] = "resume" => held[r].status = "paused"
    BY DEF HandlerInv
<1> QED
    BY <1>1, <1>2, <1>3, EndGoalSound, StatusSound, FlagSound DEF Changed, Kinds

-----------------------------------------------------------------------------
LEMMA InitInv == Init => IInv
<1> SUFFICES ASSUME Init PROVE IInv
    OBVIOUS
<1>1. NewGoal \in Goal
    BY NewGoalSound DEF Sound
<1>2. TypeOK
  <2>1. 0 \in 0..MaxTurns /\ 0 \in 0..MaxCrashes /\ 0 \in Nat
      BY Bounds
  <2> QED
      BY <1>1, <2>1, NoTurnType DEF Init, TypeOK, Places, Phases
<1>3. CopiesSound
    BY NewGoalSound DEF Init, CopiesSound
<1>4. Counted
    BY DEF Init, Counted, Unrecorded
<1>5. \A r \in Requests: HandlerInv(r)
    BY DEF Init, HandlerInv
<1> QED BY <1>2, <1>3, <1>4, <1>5 DEF IInv

(***************************************************************************)
(* The iteration: the handlers' state does not change.                     *)
(***************************************************************************)
LEMMA HandlersUntouched ==
    ASSUME \A r \in Requests: HandlerInv(r), UNCHANGED requestVars
    PROVE  \A r \in Requests: HandlerInv(r)'
BY DEF HandlerInv, requestVars

LEMMA RevivedUntouched ==
    ASSUME UNCHANGED requestVars
    PROVE  Revived' = Revived
BY DEF Revived, requestVars

\* a step that reads the record, or leaves it and the iteration's copy alone
LEMMA ReadStep ==
    ASSUME CopiesSound, UNCHANGED <<disk, finished, requestVars>>, goal' \in {goal, disk}
    PROVE  CopiesSound'
BY RevivedUntouched DEF CopiesSound, requestVars

LEMMA EntryStep ==
    ASSUME IInv, Begin \/ Enter \/ CheckBudget
    PROVE  IInv'
<1> USE DEF IInv
<1>1. TypeOK'
  <2>1. CASE Begin
    <3>1. turns + 1 \in 0..MaxTurns
        BY <2>1, Bounds DEF TypeOK, Begin
    <3> QED
        BY <2>1, <3>1, NoTurnType DEF TypeOK, Begin, GoTo, Places, requestVars
  <2>2. CASE Enter
      BY <2>2 DEF TypeOK, Enter, Return, GoTo, Places, Updates, requestVars
  <2>3. CASE CheckBudget
      BY <2>3 DEF TypeOK, CheckBudget, Return, GoTo, Places, Updates, requestVars
  <2> QED BY <2>1, <2>2, <2>3
<1>2. CopiesSound'
    BY ReadStep DEF Begin, Enter, CheckBudget
<1>3. Counted'
  <2>1. turns \in Nat /\ finished \in Nat
      BY Bounds DEF TypeOK
  <2> QED
      BY <2>1 DEF Counted, Unrecorded, Begin, Enter, CheckBudget, Return, GoTo
<1>4. \A r \in Requests: HandlerInv(r)'
    BY HandlersUntouched DEF Begin, Enter, CheckBudget
<1> QED BY <1>1, <1>2, <1>3, <1>4

LEMMA TurnStep ==
    ASSUME IInv, ToolEvent \/ TurnEnds \/ TurnAborts \/ TurnThrows
    PROVE  IInv'
<1> USE DEF IInv
<1>1. TypeOK'
  <2>1. CASE ToolEvent
    <3>1. turn' \in Turn
        BY <2>1, Bounds DEF TypeOK, ToolEvent, Turn
    <3> QED
        BY <2>1, <3>1 DEF TypeOK, ToolEvent, GoTo, Places, Updates, requestVars
  <2>2. CASE TurnEnds
    <3>1. PICK o \in Outcomes, n \in TurnTokens, place \in {"text", "stats"}:
             turn' = [turn EXCEPT !.outcome = o, !.tokens = n] /\ GoTo(place)
        BY <2>2 DEF TurnEnds
    <3> QED
        BY <2>2, <3>1 DEF TypeOK, Turn, TurnEnds, GoTo, Places, Updates, requestVars
  <2>3. CASE TurnAborts \/ TurnThrows
      BY <2>3 DEF TypeOK, TurnAborts, TurnThrows, GoTo, Places, Updates, requestVars
  <2> QED BY <2>1, <2>2, <2>3
<1>2. CopiesSound'
    BY ReadStep DEF ToolEvent, TurnEnds, TurnAborts, TurnThrows
<1>3. Counted'
    BY DEF Counted, Unrecorded, ToolEvent, TurnEnds, TurnAborts, TurnThrows, GoTo
<1>4. \A r \in Requests: HandlerInv(r)'
    BY HandlersUntouched DEF ToolEvent, TurnEnds, TurnAborts, TurnThrows
<1> QED BY <1>1, <1>2, <1>3, <1>4

LEMMA GateStep ==
    ASSUME IInv, MarkDone \/ Review \/ Budget \/ GateWrites
    PROVE  IInv'
<1> USE DEF IInv
<1>1. finished \in Nat /\ Sound(goal, finished, Revived) /\ Sound(disk, finished, Revived)
    BY DEF TypeOK, CopiesSound
<1>r. Revived' = Revived
    BY RevivedUntouched DEF MarkDone, Review, Budget, GateWrites
<1>2. CopiesSound'
  <2>1. CASE MarkDone
      BY <2>1, ReadStep DEF MarkDone
  <2>2. CASE Review
    <3>1. goal' = goal \/ (goal.rejections < RejectCap /\ goal' = Rejected(goal))
        BY <2>2 DEF Review
    <3>2. Sound(goal', finished, Revived)
        BY <1>1, <3>1, GatesSound
    <3> QED
        BY <1>r, <2>2, <3>2 DEF Review, CopiesSound, requestVars
  <2>3. CASE Budget
    <3>1. goal' = goal \/ (MustContinue(goal) /\ goal' = Continued(goal))
        BY <2>3 DEF Budget
    <3>2. Sound(goal', finished, Revived)
        BY <1>1, <3>1, GatesSound
    <3> QED
        BY <1>r, <2>3, <3>2 DEF Budget, CopiesSound, requestVars
  <2>4. CASE GateWrites
      BY <1>r, <2>4, <1>1 DEF GateWrites, CopiesSound, requestVars
  <2> QED BY <2>1, <2>2, <2>3, <2>4
<1>3. goal' \in Goal /\ disk' \in Goal
    BY <1>2 DEF CopiesSound, Sound
<1>4. TypeOK'
  <2>1. CASE MarkDone
      BY <2>1, <1>3 DEF TypeOK, MarkDone, GoTo, Places, requestVars
  <2>2. CASE Review
      BY <2>2, <1>3 DEF TypeOK, Review, GoTo, Places, requestVars
  <2>3. CASE Budget
      BY <2>3, <1>3 DEF TypeOK, Budget, GoTo, Places, Updates, requestVars
  <2>4. CASE GateWrites
      BY <2>4, <1>3 DEF TypeOK, GateWrites, Return, Places, requestVars
  <2> QED BY <2>1, <2>2, <2>3, <2>4
<1>5. Counted'
    BY DEF Counted, Unrecorded, MarkDone, Review, Budget, GateWrites, GoTo, Return
<1>6. \A r \in Requests: HandlerInv(r)'
    BY HandlersUntouched DEF MarkDone, Review, Budget, GateWrites
<1> QED BY <1>2, <1>4, <1>5, <1>6

(***************************************************************************)
(* Load and Save: a round is recorded by the save at "stats", once in an   *)
(* iteration.                                                              *)
(***************************************************************************)
LEMMA LoadStep == ASSUME IInv, Load PROVE IInv'
<1> USE DEF IInv
<1>1. CopiesSound'
    BY ReadStep DEF Load
<1>2. TypeOK'
    BY DEF TypeOK, Load, requestVars
<1>3. Counted'
    BY DEF Counted, Load
<1>4. \A r \in Requests: HandlerInv(r)'
    BY HandlersUntouched DEF Load
<1> QED BY <1>1, <1>2, <1>3, <1>4

LEMMA FollowsPlace ==
    ASSUME TypeOK, at \in Updates, Follows
    PROVE  /\ at' \in Places
           /\ at' \in Unrecorded => at \in Unrecorded \ {"stats"}
           /\ result' \in {"none", "refused", "aborted", "exhausted", "continue",
                           "natural", "threw", "completed", "failed"}
BY DEF TypeOK, Updates, Follows, Return, GoTo, Places, Unrecorded

LEMMA SaveStep == ASSUME IInv, Save PROVE IInv'
<1> USE DEF IInv
<1>1. finished \in Nat /\ turns \in Nat
    BY Bounds DEF TypeOK
<1>2. finished' = (IF at = "stats" THEN finished + 1 ELSE finished)
    BY DEF Save
<1>3. finished' \in Nat /\ finished' \in {finished, finished + 1}
    BY <1>1, <1>2
<1>r. Revived' = Revived
    BY RevivedUntouched DEF Save
<1>4. \A g: Sound(g, finished, Revived) => Sound(g, finished', Revived)
    BY <1>1, <1>3, SoundMonotone
<1>5. Sound(disk', finished', Revived)
  <2>1. Sound(disk, finished', Revived) /\ Sound(Updated(goal), finished', Revived)
      BY <1>2, <1>4, UpdatedSound DEF CopiesSound
  <2> QED BY <2>1 DEF Save
<1>6. CopiesSound'
    BY <1>r, <1>4, <1>5 DEF CopiesSound, Save, requestVars
<1>7. at \in Updates /\ Follows
    BY DEF Save
<1>8. TypeOK'
  <2>1. disk' \in Goal
      BY <1>5 DEF Sound
  <2> QED
      BY <1>3, <1>7, <2>1, FollowsPlace DEF TypeOK, Save, requestVars
<1>9. Counted'
  <2>1. turns' = turns
      BY DEF Save
  <2>2. CASE at = "stats"
      BY <1>1, <1>2, <1>7, <2>1, <2>2, FollowsPlace DEF Counted, Unrecorded
  <2>3. CASE at # "stats"
      BY <1>1, <1>2, <1>7, <2>1, <2>3, FollowsPlace DEF Counted
  <2> QED BY <2>2, <2>3
<1>10. \A r \in Requests: HandlerInv(r)'
    BY HandlersUntouched DEF Save
<1> QED BY <1>6, <1>8, <1>9, <1>10

-----------------------------------------------------------------------------
(* The handlers: another request's handler state does not change, and the  *)
(* iteration is where it was.                                              *)

LEMMA CountedUntouched ==
    ASSUME Counted, UNCHANGED <<at, finished, turns>>
    PROVE  Counted'
BY DEF Counted

LEMMA OtherHandlers ==
    ASSUME IInv, NEW r \in Requests, HandlerInv(r)',
           \A q \in Requests \ {r}: /\ phase'[q] = phase[q] /\ kind'[q] = kind[q]
                                    /\ held'[q] = held[q]
    PROVE  \A q \in Requests: HandlerInv(q)'
BY DEF IInv, HandlerInv

LEMMA RevivedStays ==
    ASSUME TypeOK, NEW r \in Requests, UNCHANGED kind,
           NEW p \in Phases \ {"idle", "reviving"}, phase' = [phase EXCEPT ![r] = p]
    PROVE  Revived => Revived'
<1>1. \A q \in Requests: phase'[q] = phase[q] \/ phase'[q] = p
    BY DEF TypeOK
<1> QED BY <1>1 DEF Revived

LEMMA ReceiveStep ==
    ASSUME IInv, NEW r \in Requests, Receive(r)
    PROVE  IInv'
<1> USE DEF IInv
<1>1. PICK k \in Endpoints:
        /\ kind' = [kind EXCEPT ![r] = k]
        /\ phase' = [phase EXCEPT ![r] =
              IF ~Accepts(k, disk) THEN "refused"
              ELSE CASE k = "pause" -> "writing"
                     [] k \in {"resume", "resurrect"} -> "clearing"
                     [] k = "revive" -> "reviving"
                     [] OTHER -> "checked"]
    BY DEF Receive
<1>0. phase[r] = "idle"
    BY DEF Receive
<1>2. /\ seen' = [seen EXCEPT ![r] = disk] /\ held' = [held EXCEPT ![r] = disk]
      /\ UNCHANGED <<disk, runnerVars, crashes>>
    BY DEF Receive
<1>3. k \in Kinds
    BY GoalIterationAssumption
<1>4. CopiesSound'
  <2>1. \A q \in Requests \ {r}: phase'[q] = phase[q] /\ kind'[q] = kind[q]
      BY <1>1 DEF TypeOK
  <2>2. Revived => Revived'
      BY <1>0, <2>1 DEF Revived
  <2>3. \A g: Sound(g, finished, Revived) => Sound(g, finished, Revived')
      BY <2>2, RevivedMonotone
  <2> QED BY <1>2, <2>3 DEF CopiesSound, TypeOK, runnerVars
<1>5. TypeOK'
  <2>1. kind' \in [Requests -> Kinds \cup {"none"}]
      BY <1>1, <1>3 DEF TypeOK
  <2>2. phase' \in [Requests -> Phases]
      BY <1>1 DEF TypeOK, Phases
  <2>3. seen' \in [Requests -> Goal] /\ held' \in [Requests -> Goal]
      BY <1>2 DEF TypeOK
  <2> QED
      BY <1>2, <2>1, <2>2, <2>3 DEF TypeOK, runnerVars
<1>6. Counted'
    BY <1>2, CountedUntouched DEF runnerVars
<1>7. HandlerInv(r)'
  <2>1. kind'[r] = k /\ held'[r] = disk
      BY <1>1, <1>2 DEF TypeOK
  <2>2. phase'[r] = (IF ~Accepts(k, disk) THEN "refused"
                     ELSE CASE k = "pause" -> "writing"
                            [] k \in {"resume", "resurrect"} -> "clearing"
                            [] k = "revive" -> "reviving"
                            [] OTHER -> "checked")
      BY <1>1 DEF TypeOK
  <2>3. CASE ~Accepts(k, disk)
      BY <2>1, <2>2, <2>3 DEF HandlerInv
  <2>4. CASE Accepts(k, disk) /\ k = "pause"
    <3>1. disk.status = "active"
        BY <2>4 DEF Accepts
    <3> QED
        BY <1>3, <2>1, <2>2, <2>4, <3>1 DEF HandlerInv, Kinds
  <2>5. CASE Accepts(k, disk) /\ k # "pause"
      BY <2>1, <2>2, <2>5 DEF HandlerInv
  <2> QED BY <2>3, <2>4, <2>5
<1>8. \A q \in Requests: HandlerInv(q)'
    BY <1>1, <1>2, <1>7, OtherHandlers DEF TypeOK
<1> QED BY <1>4, <1>5, <1>6, <1>8

\* a handler reads the record again
LEMMA ReadHandlerStep ==
    ASSUME IInv, NEW r \in Requests, ReadAgain(r) \/ ClearRead(r)
    PROVE  IInv'
<1> USE DEF IInv
<1>1. /\ held' = [held EXCEPT ![r] = disk]
      /\ UNCHANGED <<disk, kind, seen, runnerVars, crashes>>
    BY DEF ReadAgain, ClearRead
<1>2. \/ /\ phase' = [phase EXCEPT ![r] = "writing"]
         /\ kind[r] \in {"cancel", "abort", "resurrect", "send", "revive"}
      \/ /\ phase[r] = "revived"
         /\ phase' = [phase EXCEPT ![r] = "logging"]
      \/ /\ phase[r] = "clearing"
         /\ phase' = [phase EXCEPT ![r] = "clearWrite"]
    BY DEF ReadAgain, ClearRead, Phase, HandlerInv
<1>3. CopiesSound'
  <2>1. Revived => Revived'
    <3>1. PICK p \in Phases \ {"idle", "reviving"}: phase' = [phase EXCEPT ![r] = p]
        BY <1>2 DEF Phases
    <3> QED BY <1>1, <3>1, RevivedStays
  <2>2. \A g: Sound(g, finished, Revived) => Sound(g, finished, Revived')
      BY <2>1, RevivedMonotone
  <2> QED BY <1>1, <2>2 DEF CopiesSound, TypeOK, runnerVars
<1>4. TypeOK'
    BY <1>1, <1>2 DEF TypeOK, Phases, runnerVars
<1>5. Counted'
    BY <1>1, CountedUntouched DEF runnerVars
<1>6. HandlerInv(r)'
    BY <1>1, <1>2 DEF HandlerInv, TypeOK, Kinds
<1>7. \A q \in Requests: HandlerInv(q)'
    BY <1>1, <1>2, <1>6, OtherHandlers DEF TypeOK
<1> QED BY <1>3, <1>4, <1>5, <1>7

LEMMA ClearWriteStep ==
    ASSUME IInv, NEW r \in Requests, ClearWrite(r)
    PROVE  IInv'
<1> USE DEF IInv
<1>1. /\ phase[r] = "clearWrite" /\ phase' = [phase EXCEPT ![r] = AfterClear(r)]
      /\ disk' = IF held[r].abort THEN ClearAbort(held[r]) ELSE disk
      /\ held' = [held EXCEPT ![r] = seen[r]]
      /\ UNCHANGED <<kind, seen, runnerVars, crashes>>
    BY DEF ClearWrite, Phase
<1>2. kind[r] \in {"resume", "resurrect"}
    BY <1>1 DEF HandlerInv
<1>3. \/ AfterClear(r) = "cleared" /\ kind[r] = "resurrect"
      \/ AfterClear(r) = "writing" /\ kind[r] = "resume" /\ seen[r].status = "paused"
      \/ AfterClear(r) = "ok"
    BY <1>2 DEF AfterClear
<1>4. Sound(disk', finished, Revived)
    BY <1>1, FlagSound DEF CopiesSound, TypeOK
<1>5. CopiesSound'
  <2>1. AfterClear(r) \in Phases \ {"idle", "reviving"}
      BY <1>3 DEF Phases
  <2>2. Revived => Revived'
      BY <1>1, <2>1, RevivedStays
  <2>3. \A g: Sound(g, finished, Revived) => Sound(g, finished, Revived')
      BY <2>2, RevivedMonotone
  <2> QED BY <1>1, <1>4, <2>3 DEF CopiesSound, TypeOK, runnerVars
<1>6. TypeOK'
  <2>1. disk' \in Goal
      BY <1>4 DEF Sound
  <2> QED
      BY <1>1, <1>3, <2>1 DEF TypeOK, Phases, runnerVars
<1>7. Counted'
    BY <1>1, CountedUntouched DEF runnerVars
<1>8. HandlerInv(r)'
    BY <1>1, <1>3 DEF HandlerInv, TypeOK, Kinds
<1>9. \A q \in Requests: HandlerInv(q)'
    BY <1>1, <1>8, OtherHandlers DEF TypeOK
<1> QED BY <1>5, <1>6, <1>7, <1>9

\* goal_send_message writes the revived goal, or the step that says so
LEMMA ReviveStep ==
    ASSUME IInv, NEW r \in Requests, ReviveWrite(r) \/ LogRevival(r)
    PROVE  IInv'
<1> USE DEF IInv
<1>1. PICK p \in {"revived", "logged"}:
        /\ phase[r] \in {"reviving", "logging"} /\ phase' = [phase EXCEPT ![r] = p]
        /\ disk' \in {Revive(held[r]), LogActive(held[r]), disk}
        /\ UNCHANGED <<kind, seen, held, runnerVars, crashes>>
    BY DEF ReviveWrite, LogRevival, Phase
<1>2. kind[r] = "revive"
    BY <1>1 DEF HandlerInv
<1>3. phase'[r] = p
    BY <1>1 DEF TypeOK
<1>4. Revived'
    BY <1>1, <1>2, <1>3 DEF Revived
<1>5. \A g: Sound(g, finished, Revived) => Sound(g, finished, Revived')
    BY <1>4, RevivedMonotone
<1>6. Sound(disk', finished, Revived')
  <2>1. finished \in Nat /\ Sound(held[r], finished, Revived)
      BY DEF TypeOK, CopiesSound
  <2>2. /\ Sound(Revive(held[r]), finished, Revived')
        /\ Sound(LogActive(held[r]), finished, Revived')
    <3>1. /\ Sound(Revive(held[r]), finished, TRUE)
          /\ Sound(LogActive(held[r]), finished, TRUE)
        BY <2>1, ReviveSound
    <3> QED BY <1>4, <3>1, RevivedMonotone
  <2> QED BY <1>1, <1>5, <2>2 DEF CopiesSound
<1>7. CopiesSound'
    BY <1>1, <1>5, <1>6 DEF CopiesSound, runnerVars
<1>8. TypeOK'
  <2>1. disk' \in Goal
      BY <1>6 DEF Sound
  <2> QED
      BY <1>1, <2>1 DEF TypeOK, Phases, runnerVars
<1>9. Counted'
    BY <1>1, CountedUntouched DEF runnerVars
<1>10. HandlerInv(r)'
    BY <1>1, <1>2, <1>3 DEF HandlerInv
<1>11. \A q \in Requests: HandlerInv(q)'
    BY <1>1, <1>10, OtherHandlers DEF TypeOK
<1> QED BY <1>7, <1>8, <1>9, <1>11

\* a handler writes and answers, or reaches the iteration's signal
LEMMA LastHandlerStep ==
    ASSUME IInv, NEW r \in Requests, Write(r) \/ HttpInterrupt(r)
    PROVE  IInv'
<1> USE DEF IInv
<1>1. /\ phase' = [phase EXCEPT ![r] = "ok"] \/ phase' = [phase EXCEPT ![r] = "refused"]
      /\ Forget(r)
      /\ UNCHANGED <<at, loaded, goal, turn, result, turns, finished, kind, crashes>>
    BY DEF Write, HttpInterrupt, Phase
<1>2. signal' \in BOOLEAN
    BY DEF Write, HttpInterrupt, TypeOK
<1>3. Sound(disk', finished, Revived)
  <2>1. CASE Write(r)
    <3>1. Sound(Changed(r), finished, Revived)
        BY <2>1, ChangedSound DEF Write, Phase
    <3> QED BY <2>1, <3>1 DEF Write, CopiesSound
  <2>2. CASE HttpInterrupt(r)
      BY <2>2 DEF HttpInterrupt, CopiesSound
  <2> QED BY <2>1, <2>2
<1>4. (\A b: Sound(NewGoal, finished, b)) /\ NewGoal \in Goal
  <2>1. finished \in Nat
      BY DEF TypeOK
  <2> QED BY <2>1, NewGoalSound, GoalRecordAssumption DEF Sound, NewGoal
<1>5. CopiesSound'
  <2>1. \A g: Sound(g, finished, Revived) => Sound(g, finished, Revived')
    <3>1. "ok" \in Phases \ {"idle", "reviving"} /\ "refused" \in Phases \ {"idle", "reviving"}
        BY DEF Phases
    <3> QED BY <1>1, <3>1, RevivedStays, RevivedMonotone
  <2> QED BY <1>1, <1>3, <1>4, <2>1 DEF CopiesSound, TypeOK, Forget
<1>6. TypeOK'
  <2>1. disk' \in Goal
      BY <1>3 DEF Sound
  <2> QED
      BY <1>1, <1>2, <1>4, <2>1 DEF TypeOK, Phases, Forget
<1>7. Counted'
    BY <1>1, CountedUntouched
<1>8. HandlerInv(r)'
    BY <1>1 DEF HandlerInv, TypeOK
<1>9. \A q \in Requests: HandlerInv(q)'
    BY <1>1, <1>8, OtherHandlers DEF TypeOK, Forget
<1> QED BY <1>5, <1>6, <1>7, <1>9

LEMMA CrashStep == ASSUME IInv, Crash PROVE IInv'
<1> USE DEF IInv
<1>1. (\A b: Sound(NewGoal, finished, b)) /\ NewGoal \in Goal
  <2>1. finished \in Nat
      BY DEF TypeOK
  <2> QED BY <2>1, NewGoalSound, GoalRecordAssumption DEF Sound, NewGoal
<1>2. CopiesSound'
  <2>1. Revived => Revived'
      BY DEF Revived, Crash
  <2>2. Sound(disk, finished, Revived')
      BY <2>1, RevivedMonotone DEF CopiesSound
  <2> QED BY <1>1, <2>2 DEF CopiesSound, Crash
<1>3. crashes + 1 \in 0..MaxCrashes
    BY Bounds DEF TypeOK, Crash
<1>4. TypeOK'
    BY <1>1, <1>3, NoTurnType DEF TypeOK, Crash, Places, Phases
<1>5. Counted'
    BY DEF Counted, Unrecorded, Crash
<1>6. \A r \in Requests: HandlerInv(r)'
    BY DEF HandlerInv, Crash
<1> QED BY <1>2, <1>4, <1>5, <1>6

LEMMA StepInv == IInv /\ [Next]_vars => IInv'
<1> SUFFICES ASSUME IInv, [Next]_vars PROVE IInv'
    OBVIOUS
<1>1. CASE Begin
    BY <1>1, EntryStep
<1>2. CASE Iterate
    BY <1>2, EntryStep, TurnStep, GateStep, LoadStep, SaveStep DEF Iterate
<1>3. CASE Crash
    BY <1>3, CrashStep
<1>4. ASSUME NEW r \in Requests, Handle(r) PROVE IInv'
    BY <1>4, ReceiveStep, ReadHandlerStep, ClearWriteStep, ReviveStep,
       LastHandlerStep DEF Handle
<1>5. CASE UNCHANGED vars
    BY <1>5 DEF vars, runnerVars, requestVars, IInv, TypeOK, CopiesSound, Counted,
                HandlerInv, Revived
<1> QED BY <1>1, <1>2, <1>3, <1>4, <1>5 DEF Next

(***************************************************************************)
(* The variables have their types; in particular the delta of the budget   *)
(* gate is never negative.                                                 *)
(***************************************************************************)
THEOREM TypeCorrect == Spec => []TypeOK
<1>1. IInv => TypeOK
    BY DEF IInv
<1> QED BY <1>1, InitInv, StepInv, PTL DEF Spec

(***************************************************************************)
(* Whatever reads and writes interleave, endedAt is set exactly for the    *)
(* terminal statuses, and status and audit log agree but for a revival by  *)
(* goal_send_message.                                                      *)
(***************************************************************************)
THEOREM RecordStaysCoherent == Spec => []RecordCoherent
<1>1. IInv => RecordCoherent
    BY DEF IInv, CopiesSound, Sound, RecordCoherent
<1> QED BY <1>1, InitInv, StepInv, PTL DEF Spec

(***************************************************************************)
(* The record never counts a round that was not run.                       *)
(***************************************************************************)
THEOREM RoundsAreRun == Spec => []RoundsNotOvercounted
<1>1. IInv => RoundsNotOvercounted
    BY DEF IInv, CopiesSound, Sound, Counted, RoundsNotOvercounted
<1> QED BY <1>1, InitInv, StepInv, PTL DEF Spec

(***************************************************************************)
(* The counters of the two gates of mark_done never pass their caps, even  *)
(* when requests write stale records back.                                 *)
(***************************************************************************)
THEOREM GatesStayBounded == Spec => []GatesAreBounded
<1>1. IInv => GatesAreBounded
    BY DEF IInv, CopiesSound, Sound, GatesAreBounded
<1> QED BY <1>1, InitInv, StepInv, PTL DEF Spec

-----------------------------------------------------------------------------
(***************************************************************************)
(* The budget.  As long as no request has written, the iteration's copy of *)
(* the record is the record wherever it is about to be written back, and   *)
(* from the check before the turn until its end nothing is spent and the   *)
(* status stays.                                                           *)
(***************************************************************************)
Quiet == \A r \in Requests: phase[r] \in {"idle", "refused", "checked"}

Admitted == {"attach", "prompt", "send", "event"}

TurnInv ==
    /\ at \notin Updates \cup {"reject", "nudge"} => ~loaded
    /\ Quiet /\ loaded /\ at \in Admitted \cup {"heartbeat"} => goal = disk
    /\ Quiet /\ at \in Admitted \cup {"heartbeat", "reread"} => disk.status = "active"
    /\ Quiet /\ at \in Admitted => WithinBudget(disk)

\* attaching the conversation spends nothing
LEMMA AttachKeeps ==
    ASSUME NEW g \in Goal
    PROVE  /\ AttachConversation(g).status = g.status
           /\ WithinBudget(AttachConversation(g)) <=> WithinBudget(g)
<1>1. /\ AttachConversation(g).status = g.status
      /\ AttachConversation(g).tokens = g.tokens
      /\ AttachConversation(g).rounds = g.rounds
    BY DEF AttachConversation, Goal
<1> QED BY <1>1 DEF WithinBudget

\* a write of a handler ends the quiet; other steps of handlers write nothing
LEMMA HandlersDisturb ==
    ASSUME TypeOK, TurnInv, NEW r \in Requests, Handle(r)
    PROVE  TurnInv'
<1>1. at' = at /\ loaded' = loaded /\ goal' = goal
    BY DEF Handle, Receive, ReadAgain, ClearRead, ClearWrite, ReviveWrite, LogRevival,
           Write, HttpInterrupt, runnerVars
<1>2. phase \in [Requests -> Phases]
    BY DEF TypeOK
<1>3. CASE Receive(r) \/ ReadAgain(r) \/ ClearRead(r) \/ HttpInterrupt(r)
  <2>1. disk' = disk
      BY <1>3 DEF Receive, ReadAgain, ClearRead, HttpInterrupt
  <2>2. Quiet' => Quiet
    <3>1. \A q \in Requests: q # r => phase'[q] = phase[q]
        BY <1>2, <1>3 DEF Receive, ReadAgain, ClearRead, HttpInterrupt, Phase
    <3>2. CASE Receive(r) \/ HttpInterrupt(r)
      <4>1. phase[r] \in {"idle", "checked"}
          BY <3>2 DEF Receive, HttpInterrupt, Phase
      <4> QED BY <3>1, <4>1 DEF Quiet
    <3>3. CASE ReadAgain(r) \/ ClearRead(r)
      <4>1. phase'[r] \in {"writing", "clearWrite", "logging"}
          BY <1>2, <3>3 DEF ReadAgain, ClearRead, Phase
      <4> QED BY <4>1 DEF Quiet
    <3> QED BY <1>3, <3>2, <3>3
  <2> QED BY <1>1, <2>1, <2>2 DEF TurnInv, WithinBudget
<1>4. CASE ClearWrite(r) \/ ReviveWrite(r) \/ LogRevival(r) \/ Write(r)
  <2>1. phase'[r] \in {"cleared", "writing", "revived", "logged", "ok"}
      BY <1>2, <1>4 DEF ClearWrite, ReviveWrite, LogRevival, Write, Phase, AfterClear
  <2>2. ~Quiet'
      BY <2>1 DEF Quiet
  <2> QED BY <1>1, <2>2 DEF TurnInv
<1> QED BY <1>3, <1>4 DEF Handle

LEMMA TurnEndsAt ==
    ASSUME TurnEnds
    PROVE  /\ at = "send" /\ at' \in {"text", "stats"}
           /\ UNCHANGED <<disk, loaded, goal, requestVars>>
<1>1. PICK o \in Outcomes, n \in TurnTokens, place \in {"text", "stats"}: at' = place
    BY Zenon DEF TurnEnds, GoTo
<1>2. at = "send" /\ UNCHANGED <<disk, loaded, goal, requestVars>>
    BY Zenon DEF TurnEnds
<1> QED BY <1>1, <1>2

LEMMA TurnKeeps ==
    ASSUME TypeOK, TurnInv, Begin \/ Iterate
    PROVE  TurnInv'
<1>r. phase' = phase
    BY TurnEndsAt DEF Begin, Iterate, Enter, CheckBudget, ToolEvent, TurnAborts, TurnThrows,
           MarkDone, Review, Budget, GateWrites, Load, Save, requestVars
<1>q. Quiet' <=> Quiet
    BY <1>r DEF Quiet
<1>1. CASE Begin \/ Enter
    BY <1>q, <1>1 DEF TurnInv, Begin, Enter, GoTo, Return, Updates, Admitted
<1>2. CASE CheckBudget
    BY <1>q, <1>2 DEF TurnInv, CheckBudget, GoTo, Return, Updates, Admitted, WithinBudget
<1>3. CASE ToolEvent \/ TurnEnds \/ TurnAborts \/ TurnThrows
  <2>1. at = "send" /\ disk' = disk /\ loaded' = loaded
      BY <1>3, TurnEndsAt DEF ToolEvent, TurnAborts, TurnThrows
  <2>2. at' \in {"event", "text", "stats", "abortNote", "throwFail"}
      BY <1>3, TurnEndsAt DEF ToolEvent, TurnAborts, TurnThrows, GoTo
  <2>3. ~loaded
      BY <2>1 DEF TurnInv, Updates
  <2> QED BY <1>q, <2>1, <2>2, <2>3 DEF TurnInv, Updates, Admitted, WithinBudget
<1>4. CASE MarkDone \/ Review \/ Budget
  <2>1. /\ at \in {"markDone", "review", "budget"}
        /\ at' \in {"review", "budget", "reject", "nudge", "complete"}
        /\ at' \in {"review", "budget"} => loaded' = loaded
      BY <1>4 DEF MarkDone, Review, Budget, GoTo
  <2> QED BY <2>1 DEF TurnInv, Updates, Admitted
<1>5. CASE GateWrites
    BY <1>5 DEF TurnInv, GateWrites, Return, Updates, Admitted
<1>6. CASE Load
    BY <1>q, <1>6 DEF TurnInv, Load, Updates, Admitted, WithinBudget
<1>7. CASE Save
  <2>1. at \in Updates /\ loaded /\ ~loaded' /\ Follows
        /\ disk' = (IF at = "attach" /\ goal.attached THEN disk ELSE Updated(goal))
      BY <1>7 DEF Save
  <2>2. /\ at' = "send" => at \in {"prompt", "event"}
        /\ at' = "prompt" => at = "attach"
        /\ at' = "reread" => at = "heartbeat"
        /\ at' \notin {"attach", "event", "heartbeat"}
      BY <2>1 DEF Follows, GoTo, Return, Updates
  <2>3. CASE Quiet /\ at = "attach"
    <3>1. goal = disk /\ disk.status = "active" /\ WithinBudget(disk) /\ disk \in Goal
        BY <2>1, <2>3 DEF TurnInv, TypeOK, Admitted
    <3>2. disk' = disk \/ disk' = AttachConversation(disk)
        BY <2>1, <2>3, <3>1 DEF Updated
    <3>3. disk'.status = "active" /\ WithinBudget(disk)'
        BY <3>1, <3>2, AttachKeeps DEF WithinBudget
    <3> QED BY <2>1, <2>2, <3>3 DEF TurnInv
  <2>4. CASE Quiet /\ at \in {"prompt", "event", "heartbeat"}
    <3>1. goal = disk /\ disk' = disk
        BY <2>1, <2>4 DEF TurnInv, Updated, Admitted
    <3> QED BY <2>1, <2>2, <2>4, <3>1 DEF TurnInv, Admitted, WithinBudget
  <2>5. CASE ~Quiet \/ at \notin {"attach", "prompt", "event", "heartbeat"}
      BY <1>q, <2>1, <2>2, <2>5 DEF TurnInv, Admitted
  <2> QED BY <2>3, <2>4, <2>5
<1> QED BY <1>1, <1>2, <1>3, <1>4, <1>5, <1>6, <1>7 DEF Iterate

(***************************************************************************)
(* As long as no request has interfered, the model is asked only for an    *)
(* active goal with budget left, for every budget of tokens and rounds and *)
(* wherever the process dies between two updates.                          *)
(***************************************************************************)
THEOREM TurnsHaveBudget == Spec => []TurnHasBudget
<1>1. Init => TurnInv
    BY DEF Init, TurnInv, Updates, Admitted
<1>2. IInv /\ TurnInv /\ [Next]_vars => TurnInv'
  <2> SUFFICES ASSUME IInv, TurnInv, [Next]_vars PROVE TurnInv'
      OBVIOUS
  <2>1. TypeOK
      BY DEF IInv
  <2>2. CASE Crash
      BY <2>2 DEF Crash, TurnInv, Updates, Admitted
  <2>3. CASE UNCHANGED vars
      BY <2>3 DEF vars, runnerVars, requestVars, TurnInv, Quiet, WithinBudget
  <2> QED BY <2>1, <2>2, <2>3, TurnKeeps, HandlersDisturb DEF Next
<1>3. TurnInv => TurnHasBudget
    BY DEF TurnInv, Quiet, Admitted, TurnHasBudget
<1> QED BY <1>1, <1>2, <1>3, InitInv, StepInv, PTL DEF Spec
=============================================================================
