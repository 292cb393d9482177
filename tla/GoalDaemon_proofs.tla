-------------------------- MODULE GoalDaemon_proofs --------------------------
(***************************************************************************)
(* The safety properties of GoalDaemon, for every set of goals and         *)
(* messages and every iteration budget.                                    *)
(*                                                                         *)
(* The daemon's state is one independent record per goal, changed by pure  *)
(* operators on records.  The inductive invariant is therefore a property  *)
(* RunnerInv of a single record, and each operator gets a lemma saying it  *)
(* preserves RunnerInv and never forgets an interrupt.                     *)
(*                                                                         *)
(* The second half is about GoalRounds: the daemon's invariant holds of it *)
(* as well, since its steps are the daemon's or change one runner in the   *)
(* same way, and the in-flight entries and the steers are added to it.     *)
(***************************************************************************)
EXTENDS GoalRounds, SequenceTheorems, TLAPS

\* What holds of a runner at every await.  forceStopped is only ever set by
\* stop(), after the interrupt: the loop may then rely on `interrupted`, since
\* it does not look at forceStopped again after reading the status.
RunnerInv(r) ==
    /\ r \in RunnerState
    /\ r.accepted = r.taken \o r.pending
    /\ r.pc = "waiting" => ~Flagged(r)
    /\ InIteration(r) /\ Flagged(r) => r.signal
    /\ r.forceStopped => r.interrupted

\* a runner that stays keeps its interrupt
KeepsInterrupt(r, s) ==
    r.pc # "none" /\ s.pc # "none" /\ r.interrupted => s.interrupted

\* s is a runner that an operation applied to r may leave behind
Evolves(r, s) ==
    /\ RunnerInv(s)
    /\ KeepsInterrupt(r, s)
    /\ InIteration(s) => InIteration(r)
    /\ r.pc = "none" => s.pc = "none"

StateInv ==
    /\ disk \in [Goals -> Status]
    /\ abortRequested \in [Goals -> BOOLEAN]
    /\ runner \in [Goals -> RunnerState]
    /\ phase \in Phase
    /\ bootStale \subseteq Goals /\ bootFresh \subseteq Goals
    /\ sent \subseteq Messages
    /\ restarts \in 0..MaxRestarts
    /\ \A g \in Goals: RunnerInv(runner[g])
    /\ StopReachesEveryRunner

-----------------------------------------------------------------------------
(* The operators on a runner.                                              *)

LEMMA EmptyConcat == \A s \in Seq(Messages): <<>> \o s = s
  BY ConcatEmptySeq

LEMMA Associative ==
  \A s, t, u \in Seq(Messages): (s \o t) \o u = s \o (t \o u)
  BY ConcatAssociative

LEMMA IterRange ==
  /\ 0 \in 0..IterationBudget
  /\ \A i \in 0..IterationBudget:
        (IF i < IterationBudget THEN i + 1 ELSE i) \in 0..IterationBudget
  BY GoalDaemonAssumption

LEMMA NoRunnerOK ==
  RunnerInv(NoRunner) /\ NoRunner.pc = "none" /\ ~InIteration(NoRunner)
<1>1. <<>> \o <<>> = <<>> /\ <<>> \in Seq(Messages)
  BY EmptyConcat
<1> QED
  BY <1>1, GoalDaemonAssumption
  DEF RunnerInv, NoRunner, RunnerState, PC, Flagged, InIteration

LEMMA CrashedOK ==
  RunnerInv(Crashed) /\ Crashed.pc = "none" /\ ~InIteration(Crashed)
<1>1. <<>> \o <<>> = <<>> /\ <<>> \in Seq(Messages)
  BY EmptyConcat
<1>2. /\ Crashed \in RunnerState /\ Crashed.pc = "none" /\ ~Crashed.forceStopped
      /\ Crashed.accepted = <<>> /\ Crashed.taken = <<>> /\ Crashed.pending = <<>>
  BY <1>1, NoRunnerOK DEF Crashed, NoRunner, RunnerInv, RunnerState
<1> QED
  BY <1>1, <1>2 DEF RunnerInv, InIteration

LEMMA SpawnOK ==
  ASSUME NEW ms \in Seq(Messages)
  PROVE  RunnerInv(Spawn(ms)) /\ Spawn(ms).pc = "check"
<1>1. <<>> \o ms = ms /\ <<>> \in Seq(Messages)
  BY EmptyConcat
<1>2. /\ Spawn(ms) \in RunnerState /\ Spawn(ms).pc = "check"
      /\ ~Spawn(ms).forceStopped
  BY <1>1, IterRange DEF Spawn, NoRunner, RunnerState, PC
<1>3. /\ Spawn(ms).accepted = ms /\ Spawn(ms).taken = <<>>
      /\ Spawn(ms).pending = ms
  BY DEF Spawn, NoRunner
<1> QED
  BY <1>1, <1>2, <1>3 DEF RunnerInv, InIteration

LEMMA LoopTopOK ==
  ASSUME NEW r, RunnerInv(r), r.pc # "none"
  PROVE  Evolves(r, LoopTop(r)) /\ ~InIteration(LoopTop(r))
<1>1. CASE r.forceStopped
  BY <1>1, NoRunnerOK DEF LoopTop, KeepsInterrupt, Evolves
<1>2. CASE ~r.forceStopped
  BY <1>2 DEF LoopTop, KeepsInterrupt, Evolves, RunnerInv, RunnerState, PC,
              Flagged, InIteration
<1> QED BY <1>1, <1>2

LEMMA WakeOK ==
  ASSUME NEW r, RunnerInv(r)
  PROVE  Evolves(r, Wake(r))
  BY NoRunnerOK, LoopTopOK DEF Wake, KeepsInterrupt, InIteration, Evolves

LEMMA EnqueueUserMessageOK ==
  ASSUME NEW r, RunnerInv(r), NEW m \in Messages
  PROVE  Evolves(r, EnqueueUserMessage(r, m))
<1> DEFINE q == [r EXCEPT !.pending = Append(@, m), !.accepted = Append(@, m)]
<1>1. /\ r.taken \in Seq(Messages) /\ r.pending \in Seq(Messages)
      /\ r.accepted \in Seq(Messages) /\ r.accepted = r.taken \o r.pending
  BY DEF RunnerInv, RunnerState
<1>2. /\ Append(r.accepted, m) = r.taken \o Append(r.pending, m)
      /\ Append(r.accepted, m) \in Seq(Messages)
      /\ Append(r.pending, m) \in Seq(Messages)
  <2>1. /\ Append(r.accepted, m) = (r.taken \o r.pending) \o <<m>>
        /\ Append(r.pending, m) = r.pending \o <<m>>
    BY <1>1, AppendIsConcat
  <2>2. (r.taken \o r.pending) \o <<m>> = r.taken \o (r.pending \o <<m>>)
    BY <1>1, <<m>> \in Seq(Messages), Associative
  <2> QED BY <1>1, <2>1, <2>2, AppendProperties
<1>3. RunnerInv(q) /\ q.pc = r.pc /\ q.interrupted = r.interrupted
  BY <1>1, <1>2 DEF RunnerInv, RunnerState, Flagged, InIteration
<1>4. Evolves(q, Wake(q))
  BY <1>3, WakeOK
<1> QED
  BY <1>3, <1>4 DEF EnqueueUserMessage, Evolves, KeepsInterrupt, InIteration

LEMMA EnqueueSteerOK ==
  ASSUME NEW r, RunnerInv(r)
  PROVE  Evolves(r, EnqueueSteer(r))
  BY DEF EnqueueSteer, Evolves, KeepsInterrupt, RunnerInv, RunnerState, PC,
         Flagged, InIteration

\* The three flags: afterwards the runner is flagged, so a parked one must be
\* woken within the same operation.
LEMMA RaiseFlagOK ==
  ASSUME NEW r, RunnerInv(r), r.pc # "none"
  PROVE  /\ Evolves(r, InterruptRunner(r)) /\ Evolves(r, AbortRunner(r))
         /\ r.interrupted => Evolves(r, ForceStopRunner(r))
<1> DEFINE Raised(q) ==
      /\ q \in RunnerState /\ q.pc = r.pc /\ Flagged(q)
      /\ q.accepted = q.taken \o q.pending
      /\ InIteration(q) => q.signal
      /\ q.forceStopped => q.interrupted
      /\ r.interrupted => q.interrupted
<1>1. ASSUME NEW q, Raised(q)
      PROVE  Evolves(r, Wake(q))
  <2>1. CASE q.pc = "waiting"
    BY <1>1, <2>1, NoRunnerOK DEF Wake, Evolves, KeepsInterrupt
  <2>2. CASE q.pc # "waiting"
    <3>1. RunnerInv(q)
      BY <1>1, <2>2 DEF RunnerInv
    <3> QED BY <1>1, <3>1, WakeOK DEF Evolves, KeepsInterrupt, InIteration
  <2> QED BY <2>1, <2>2
<1>2. Raised(FireAbort([r EXCEPT !.interrupted = TRUE]))
  BY DEF FireAbort, RunnerInv, RunnerState, Flagged, InIteration
<1>3. Raised(FireAbort([r EXCEPT !.aborted = TRUE]))
  BY DEF FireAbort, RunnerInv, RunnerState, Flagged, InIteration
<1>4. r.interrupted => Raised(FireAbort([r EXCEPT !.forceStopped = TRUE]))
  BY DEF FireAbort, RunnerInv, RunnerState, Flagged, InIteration
<1> QED
  BY <1>1, <1>2, <1>3, <1>4 DEF InterruptRunner, AbortRunner, ForceStopRunner

LEMMA InterruptSets ==
  ASSUME NEW r, RunnerInv(r), r.pc # "none"
  PROVE  LET s == InterruptRunner(r) IN s.pc # "none" => s.interrupted
<1> DEFINE q == FireAbort([r EXCEPT !.interrupted = TRUE])
<1>1. q.interrupted /\ q \in RunnerState
  BY DEF FireAbort, RunnerInv, RunnerState, InIteration
<1>2. Wake(q).pc # "none" => Wake(q).interrupted
  BY <1>1, NoRunnerOK DEF Wake, LoopTop, RunnerState
<1> QED BY <1>2 DEF InterruptRunner

\* the seam between taken and pending moves by one message, or not at all
LEMMA StartIterationOK ==
  ASSUME NEW r, RunnerInv(r), r.pc = "decide", ~Flagged(r)
  PROVE  RunnerInv(StartIteration(r)) /\ ~StartIteration(r).forceStopped
<1>1. /\ r.taken \in Seq(Messages) /\ r.pending \in Seq(Messages)
      /\ r.accepted = r.taken \o r.pending
  BY DEF RunnerInv, RunnerState
<1> DEFINE s == StartIteration(r)
<1>2. /\ s.accepted = r.accepted /\ s.pc = "entering" /\ ~Flagged(s)
      /\ s.pending = IF r.pending = <<>> THEN r.pending ELSE Tail(r.pending)
      /\ s.taken = IF r.pending = <<>> THEN r.taken
                   ELSE Append(r.taken, Head(r.pending))
  BY DEF StartIteration, RunnerInv, RunnerState, Flagged
<1>3. CASE r.pending = <<>>
  <2>1. s \in RunnerState
    BY ZenonT(60), <1>1, <1>3, r.iter \in 0..IterationBudget, IterRange
    DEF StartIteration, RunnerInv, RunnerState, PC
  <2> QED BY <1>1, <1>2, <1>3, <2>1 DEF RunnerInv, Flagged
<1>4. CASE r.pending # <<>>
  <2>1. /\ Head(r.pending) \in Messages /\ Tail(r.pending) \in Seq(Messages)
        /\ r.pending = <<Head(r.pending)>> \o Tail(r.pending)
    BY <1>1, <1>4, HeadTailProperties
  <2>2. /\ Append(r.taken, Head(r.pending)) \in Seq(Messages)
        /\ Append(r.taken, Head(r.pending)) = r.taken \o <<Head(r.pending)>>
    BY <1>1, <2>1, AppendIsConcat, AppendProperties
  <2>3. (r.taken \o <<Head(r.pending)>>) \o Tail(r.pending)
          = r.taken \o (<<Head(r.pending)>> \o Tail(r.pending))
    BY <1>1, <2>1, <<Head(r.pending)>> \in Seq(Messages), Associative
  <2>4. s \in RunnerState
    BY ZenonT(60), <1>1, <1>4, <2>1, <2>2, IterRange
    DEF StartIteration, RunnerInv, RunnerState, PC
  <2> QED BY <1>1, <1>2, <1>4, <2>1, <2>2, <2>3, <2>4 DEF RunnerInv, Flagged
<1> QED BY <1>2, <1>3, <1>4 DEF Flagged

LEMMA AfterIterationOK ==
  ASSUME NEW r, RunnerInv(r), r.pc # "none", NEW result
  PROVE  Evolves(r, AfterIteration(r, result))
         /\ ~InIteration(AfterIteration(r, result))
<1>1. CASE result = "natural" /\ ~Flagged(r)
  BY <1>1 DEF AfterIteration, Evolves, KeepsInterrupt, RunnerInv, RunnerState,
              PC, Flagged, InIteration
<1>2. CASE /\ ~(result = "natural" /\ ~Flagged(r))
           /\ result = "more" /\ r.iter < IterationBudget
  BY <1>2 DEF AfterIteration, Evolves, KeepsInterrupt, RunnerInv, RunnerState,
              PC, Flagged, InIteration
<1>3. CASE /\ ~(result = "natural" /\ ~Flagged(r))
           /\ ~(result = "more" /\ r.iter < IterationBudget)
  BY <1>3, NoRunnerOK DEF AfterIteration, Evolves, KeepsInterrupt
<1> QED BY <1>1, <1>2, <1>3

-----------------------------------------------------------------------------
(* The daemon.                                                             *)

\* Most steps replace one runner by one that evolves from it, or by NoRunner.
LEMMA OneRunnerStep ==
  ASSUME StateInv, NEW g \in Goals, NEW s, runner' = [runner EXCEPT ![g] = s],
         RunnerInv(s), KeepsInterrupt(runner[g], s),
         runner[g].pc = "none" /\ Stopped => s.pc = "none",
         Stopped' => Stopped
  PROVE  /\ runner' \in [Goals -> RunnerState]
         /\ \A h \in Goals: RunnerInv(runner[h])'
         /\ StopReachesEveryRunner'
<1>1. \A h \in Goals: runner'[h] = IF h = g THEN s ELSE runner[h]
  BY DEF StateInv
<1> QED
  BY <1>1 DEF StateInv, RunnerInv, KeepsInterrupt, StopReachesEveryRunner, Running

LEMMA InitStateInv == Init => StateInv
<1> SUFFICES ASSUME Init PROVE StateInv
  OBVIOUS
<1>1. /\ disk \in [Goals -> Status] /\ abortRequested \in [Goals -> BOOLEAN]
      /\ phase \in Phase /\ sent \subseteq Messages
      /\ bootStale \subseteq Goals /\ bootFresh \subseteq Goals
  BY DEF Init, Status, Phase
<1>2. restarts \in 0..MaxRestarts
  BY GoalDaemonAssumption DEF Init
<1>3. /\ runner \in [Goals -> RunnerState]
      /\ \A g \in Goals: RunnerInv(runner[g])
  BY NoRunnerOK DEF Init, RunnerInv
<1>4. StopReachesEveryRunner
  BY DEF Init, StopReachesEveryRunner, Stopped
<1> QED BY <1>1, <1>2, <1>3, <1>4 DEF StateInv

LEMMA NextStateInv == StateInv /\ [Next]_vars => StateInv'
<1> SUFFICES ASSUME StateInv, [Next]_vars PROVE StateInv'
  OBVIOUS
<1> USE DEF StateInv
<1>a. \A g \in Goals: /\ RunnerInv(runner[g])
                      /\ runner[g].pc # "none" /\ Stopped => runner[g].interrupted
  BY DEF StopReachesEveryRunner, Running
<1>1. ASSUME NEW g \in Goals, ReadStatus(g) PROVE StateInv'
  <2> DEFINE s == [runner[g] EXCEPT !.pc = "decide", !.seen = (disk[g] = "active")]
  <2>1. RunnerInv(s) /\ KeepsInterrupt(runner[g], s)
    BY ZenonT(60), <1>1, <1>a DEF ReadStatus, RunnerInv, KeepsInterrupt, RunnerState, PC,
                      Flagged, InIteration
  <2> QED BY <1>1, <2>1, OneRunnerStep DEF ReadStatus, SetRunner, Stopped
<1>2. ASSUME NEW g \in Goals, Decide(g) PROVE StateInv'
  <2> DEFINE r == runner[g]
             s == IF ~r.seen \/ r.interrupted \/ r.aborted
                  THEN NoRunner ELSE StartIteration(r)
  <2>1. RunnerInv(s) /\ KeepsInterrupt(r, s)
    <3>1. CASE ~r.seen \/ r.interrupted \/ r.aborted
      BY <3>1, NoRunnerOK DEF KeepsInterrupt
    <3>2. CASE ~(~r.seen \/ r.interrupted \/ r.aborted)
      <4>1. r.pc = "decide" /\ ~Flagged(r)
        BY <1>2, <1>a, <3>2 DEF Decide, RunnerInv, Flagged
      <4> QED BY <4>1, <1>a, <3>2, StartIterationOK DEF KeepsInterrupt, Flagged
    <3> QED BY <3>1, <3>2
  <2>2. r.pc = "decide"
    BY <1>2 DEF Decide
  <2> QED BY <1>2, <2>1, <2>2, OneRunnerStep DEF Decide, SetRunner, Stopped
<1>3. ASSUME NEW g \in Goals, Enter(g) PROVE StateInv'
  <2> DEFINE r == runner[g]
  <2>1. PICK s: /\ runner' = [runner EXCEPT ![g] = s]
                /\ \/ \E result: s = AfterIteration(r, result)
                   \/ s = [r EXCEPT !.pc = "iterating"]
    BY <1>3 DEF Enter, SetRunner
  <2>2. RunnerInv(s) /\ KeepsInterrupt(r, s)
    <3>1. CASE \E result: s = AfterIteration(r, result)
      BY <3>1, <1>3, <1>a, AfterIterationOK DEF Enter, Evolves
    <3>2. CASE s = [r EXCEPT !.pc = "iterating"]
      BY ZenonT(60), <3>2, <1>3, <1>a DEF Enter, RunnerInv, RunnerState, PC, Flagged,
                              InIteration, KeepsInterrupt
    <3> QED BY <2>1, <3>1, <3>2
  <2> QED BY <1>3, <2>1, <2>2, OneRunnerStep DEF Enter, Stopped
<1>4. ASSUME NEW g \in Goals, SleepTimer(g) PROVE StateInv'
  <2>1. Evolves(runner[g], LoopTop(runner[g]))
    BY <1>4, <1>a, LoopTopOK DEF SleepTimer
  <2> QED BY <1>4, <2>1, OneRunnerStep DEF SleepTimer, SetRunner, Stopped, Evolves
<1>16. ASSUME NEW g \in Goals, ReadFails(g) PROVE StateInv'
  <2>1. RunnerInv(Crashed) /\ KeepsInterrupt(runner[g], Crashed)
    BY CrashedOK DEF KeepsInterrupt
  <2> QED BY <1>16, <2>1, CrashedOK, OneRunnerStep DEF ReadFails, SetRunner, Stopped
<1>17. ASSUME NEW g \in Goals, IterationFails(g) PROVE StateInv'
  <2>1. RunnerInv(NoRunner) /\ KeepsInterrupt(runner[g], NoRunner)
    BY NoRunnerOK DEF KeepsInterrupt
  <2>2. disk' \in [Goals -> Status]
    BY <1>17 DEF IterationFails, Status
  <2> QED
    BY <1>17, <2>1, <2>2, NoRunnerOK, OneRunnerStep DEF IterationFails, SetRunner, Stopped
<1>5. ASSUME NEW g \in Goals,
             IterationFinishes(g) \/ IterationAborts(g) \/ IterationReturns(g)
      PROVE  StateInv'
  <2>1. PICK result: runner' = [runner EXCEPT
                                   ![g] = AfterIteration(runner[g], result)]
    BY <1>5 DEF IterationFinishes, IterationAborts, IterationReturns, SetRunner
  <2>2. Evolves(runner[g], AfterIteration(runner[g], result))
    BY <1>5, <1>a, AfterIterationOK
    DEF IterationFinishes, IterationAborts, IterationReturns
  <2>3. /\ disk' \in [Goals -> Status]
        /\ UNCHANGED <<abortRequested, phase, bootStale, bootFresh, sent, restarts>>
    BY <1>5 DEF IterationFinishes, IterationAborts, IterationReturns, Status
  <2> QED BY <2>1, <2>2, <2>3, OneRunnerStep DEF Stopped, Evolves
<1>6. ASSUME NEW g \in Goals, NEW m \in Messages, KickWithMessage(g, m)
      PROVE  StateInv'
  <2>1. <<m>> \in Seq(Messages)
    OBVIOUS
  <2>2. PICK s: /\ runner' = [runner EXCEPT ![g] = s]
                /\ s = IF Running(g) THEN EnqueueUserMessage(runner[g], m)
                       ELSE Spawn(<<m>>)
    BY <1>6 DEF KickWithMessage, SetRunner
  <2>3. RunnerInv(s) /\ KeepsInterrupt(runner[g], s)
    <3>1. CASE Running(g)
      BY <2>2, <3>1, <1>a, EnqueueUserMessageOK DEF Evolves
    <3>2. CASE ~Running(g)
      BY <2>1, <2>2, <3>2, <1>a, NoRunnerOK, SpawnOK
      DEF Running, KeepsInterrupt, RunnerInv, RunnerState
    <3> QED BY <3>1, <3>2
  <2> QED BY <1>6, <2>2, <2>3, OneRunnerStep DEF KickWithMessage, Stopped
<1>7. ASSUME NEW g \in Goals, Kick(g) \/ BootKick(g) PROVE StateInv'
  <2>1. PICK s: /\ runner' = [runner EXCEPT ![g] = s]
                /\ s = IF Running(g) THEN Wake(runner[g]) ELSE Spawn(<<>>)
    BY <1>7 DEF Kick, BootKick, SetRunner
  <2>2. RunnerInv(s) /\ KeepsInterrupt(runner[g], s)
    BY <2>1, <1>a, <<>> \in Seq(Messages), WakeOK, SpawnOK
    DEF Running, KeepsInterrupt, Evolves
  <2>3. ~Stopped /\ ~Stopped'
    BY <1>7 DEF Kick, BootKick, Stopped
  <2>4. /\ bootFresh' \subseteq Goals
        /\ UNCHANGED <<disk, abortRequested, phase, bootStale, sent, restarts>>
    BY <1>7 DEF Kick, BootKick
  <2> QED BY <2>1, <2>2, <2>3, <2>4, OneRunnerStep
<1>8. ASSUME NEW g \in Goals, Steer(g) PROVE StateInv'
  <2> DEFINE q == EnqueueSteer(runner[g])
             s == IF Stopped THEN q ELSE Wake(q)
  <2>1. Evolves(runner[g], q)
    BY <1>a, EnqueueSteerOK
  <2>2. Evolves(q, Wake(q))
    BY <2>1, WakeOK DEF Evolves
  <2>3. RunnerInv(s) /\ KeepsInterrupt(runner[g], s)
    BY <2>1, <2>2 DEF Evolves, KeepsInterrupt, EnqueueSteer
  <2>4. runner[g].pc # "none"
    BY <1>8 DEF Steer, InIteration
  <2> QED BY <1>8, <2>3, <2>4, OneRunnerStep DEF Steer, SetRunner, Stopped
<1>9. ASSUME NEW g \in Goals, Interrupt(g) \/ Abort(g) PROVE StateInv'
  <2>1. PICK s: /\ runner' = [runner EXCEPT ![g] = s]
                /\ s \in {InterruptRunner(runner[g]), AbortRunner(runner[g])}
    BY <1>9 DEF Interrupt, Abort, SetRunner
  <2>2. Evolves(runner[g], s)
    BY <1>9, <1>a, <2>1, RaiseFlagOK DEF Interrupt, Abort, Running
  <2>3. UNCHANGED <<disk, abortRequested, phase, bootStale, bootFresh, sent,
                    restarts>>
    BY <1>9 DEF Interrupt, Abort
  <2> QED BY <2>1, <2>2, <2>3, OneRunnerStep DEF Evolves, Stopped
<1>10. ASSUME NEW g \in Goals, HttpInterrupt(g) \/ HttpAbort(g) PROVE StateInv'
  <2>1. PICK s: /\ runner' = [runner EXCEPT ![g] = s]
                /\ s \in {runner[g], [runner[g] EXCEPT !.signal = TRUE]}
    BY <1>10 DEF HttpInterrupt, HttpAbort, SetRunner
  <2>2. Evolves(runner[g], s)
    BY <1>a, <2>1 DEF Evolves, RunnerInv, KeepsInterrupt, RunnerState,
                      Flagged, InIteration
  <2>3. /\ abortRequested' \in [Goals -> BOOLEAN]
        /\ UNCHANGED <<disk, phase, bootStale, bootFresh, sent, restarts>>
    BY <1>10 DEF HttpInterrupt, HttpAbort
  <2> QED BY <2>1, <2>2, <2>3, OneRunnerStep DEF Evolves, Stopped
<1>11. ASSUME NEW g \in Goals, Pause(g) \/ Cancel(g) \/ Reactivate(g) \/ BootPause(g)
       PROVE  StateInv'
  <2>1. /\ disk' \in [Goals -> Status] /\ abortRequested' \in [Goals -> BOOLEAN]
        /\ bootStale' \subseteq Goals
        /\ UNCHANGED <<runner, phase, bootFresh, sent, restarts>>
    BY <1>11 DEF Pause, Cancel, Reactivate, BootPause, Status
  <2> QED BY <2>1, <1>a DEF StopReachesEveryRunner, Stopped, Running
<1>12. ASSUME Listen \/ StopReturns PROVE StateInv'
  <2>1. /\ phase' \in Phase /\ (Stopped' => Stopped)
        /\ UNCHANGED <<disk, abortRequested, runner, bootStale, bootFresh, sent,
                       restarts>>
    BY <1>12 DEF Listen, StopReturns, Phase, Stopped
  <2> QED BY <2>1, <1>a DEF StopReachesEveryRunner, Running
<1>13. ASSUME StopBegin \/ StopDeadline PROVE StateInv'
  <2>1. \A g \in Goals:
          /\ RunnerInv(runner'[g])
          /\ runner'[g].pc # "none" => runner'[g].interrupted
    <3> SUFFICES ASSUME NEW g \in Goals
                 PROVE  /\ RunnerInv(runner'[g])
                        /\ runner'[g].pc # "none" => runner'[g].interrupted
      OBVIOUS
    <3>1. CASE ~Running(g)
      BY <1>13, <3>1, NoRunnerOK DEF StopBegin, StopDeadline
    <3>2. CASE Running(g) /\ StopBegin
      <4>1. runner'[g] = InterruptRunner(runner[g])
        BY <3>2 DEF StopBegin
      <4> QED BY <3>2, <4>1, <1>a, RaiseFlagOK, InterruptSets DEF Evolves, Running
    <3>3. CASE Running(g) /\ StopDeadline
      <4>1. runner'[g] = ForceStopRunner(runner[g]) /\ runner[g].interrupted
        BY <3>3, <1>a DEF StopDeadline, Running, Stopped
      <4> QED BY <3>3, <4>1, <1>a, RaiseFlagOK DEF Evolves, KeepsInterrupt, Running
    <3> QED BY <1>13, <3>1, <3>2, <3>3
  <2>2. runner' \in [Goals -> RunnerState]
    <3>1. DOMAIN runner' = Goals /\ runner' = [g \in Goals |-> runner'[g]]
      BY <1>13 DEF StopBegin, StopDeadline
    <3> QED BY <3>1, <2>1 DEF RunnerInv
  <2>3. /\ phase' \in Phase
        /\ UNCHANGED <<disk, abortRequested, bootStale, bootFresh, sent, restarts>>
    BY <1>13 DEF StopBegin, StopDeadline, Phase
  <2> QED BY <2>1, <2>2, <2>3 DEF StopReachesEveryRunner, Running
<1>14. ASSUME Restart PROVE StateInv'
  <2>1. /\ runner' \in [Goals -> RunnerState]
        /\ \A g \in Goals: RunnerInv(runner'[g])
    BY <1>14, NoRunnerOK DEF Restart, RunnerInv
  <2>2. /\ phase' \in Phase /\ ~Stopped'
        /\ bootStale' \subseteq Goals /\ bootFresh' \subseteq Goals
        /\ UNCHANGED <<disk, abortRequested, sent>>
    BY <1>14 DEF Restart, Phase, Stopped
  <2>3. restarts' \in 0..MaxRestarts
    BY <1>14, GoalDaemonAssumption DEF Restart
  <2> QED BY <2>1, <2>2, <2>3 DEF StopReachesEveryRunner
<1>15. CASE UNCHANGED vars
  BY <1>15, <1>a DEF vars, StopReachesEveryRunner, Stopped, Running
<1> QED
  BY <1>1, <1>2, <1>3, <1>4, <1>5, <1>6, <1>7, <1>8, <1>9, <1>10, <1>11, <1>12,
     <1>13, <1>14, <1>15, <1>16, <1>17
  DEF Next, RunnerStep, DaemonCall, Endpoint, Process

THEOREM Invariance == Spec => []StateInv
  BY InitStateInv, NextStateInv, PTL DEF Spec

-----------------------------------------------------------------------------
(* The theorems.                                                           *)

(***************************************************************************)
(* Types, for every goal, message and budget.                              *)
(***************************************************************************)
THEOREM TypeCorrect == Spec => []TypeOK
<1>1. StateInv => TypeOK
  BY DEF StateInv, TypeOK
<1> QED BY <1>1, Invariance, PTL

(***************************************************************************)
(* GoalTurnRunner hands each message it accepted to its iterations once    *)
(* and in order.                                                           *)
(***************************************************************************)
THEOREM Fifo == Spec => []MessagesInOrder
<1>1. StateInv => MessagesInOrder
  BY DEF StateInv, RunnerInv, MessagesInOrder
<1> QED BY <1>1, Invariance, PTL

(***************************************************************************)
(* sleepUntilNotified never goes to sleep on a flag that has been set: an  *)
(* interrupt is not lost between the last check and the sleep.             *)
(***************************************************************************)
THEOREM NoLostInterrupt == Spec => [](ParkedIsUnflagged /\ FlagReachesIteration)
<1>1. StateInv => ParkedIsUnflagged /\ FlagReachesIteration
  BY DEF StateInv, RunnerInv, ParkedIsUnflagged, FlagReachesIteration
<1> QED BY <1>1, Invariance, PTL

(***************************************************************************)
(* stop() tells every runner to end, those registered at any time before.  *)
(***************************************************************************)
THEOREM StopReachesAll == Spec => []StopReachesEveryRunner
<1>1. StateInv => StopReachesEveryRunner
  BY DEF StateInv
<1> QED BY <1>1, Invariance, PTL

\* Decide is the only step that begins an iteration.
LEMMA OnlyDecideStarts ==
  ASSUME StateInv, Next, NEW g \in Goals,
         ~InIteration(runner[g]), InIteration(runner'[g])
  PROVE  Decide(g)
<1> USE DEF StateInv
<1>a. \A h \in Goals: RunnerInv(runner[h])
  OBVIOUS
<1>b. ~InIteration(NoRunner) /\ \A ms \in Seq(Messages): ~InIteration(Spawn(ms))
  BY NoRunnerOK, SpawnOK DEF InIteration
\* a step that replaces the runner of h by a runner that evolves from it
<1>c. ASSUME NEW h \in Goals, NEW s, runner' = [runner EXCEPT ![h] = s],
             InIteration(s) => InIteration(runner[h])
      PROVE  FALSE
  BY <1>c
<1>1. ASSUME NEW h \in Goals, RunnerStep(h) PROVE Decide(g)
  <2>1. CASE ReadStatus(h)
    BY <2>1, <1>c DEF ReadStatus, SetRunner, InIteration
  <2>2. CASE Decide(h)
    <3>1. h = g
      BY <2>2 DEF Decide, SetRunner
    <3> QED BY <2>2, <3>1
  <2>3. CASE Enter(h)
    <3>1. InIteration(runner[h]) /\ \E s: runner' = [runner EXCEPT ![h] = s]
      BY <2>3 DEF Enter, SetRunner, InIteration
    <3> QED BY <3>1, <1>c
  <2>4. CASE SleepTimer(h)
    BY <2>4, <1>a, <1>c, LoopTopOK DEF SleepTimer, SetRunner
  <2>5. CASE IterationFinishes(h) \/ IterationAborts(h) \/ IterationReturns(h)
    <3>1. InIteration(runner[h]) /\ \E s: runner' = [runner EXCEPT ![h] = s]
      BY <2>5 DEF IterationFinishes, IterationAborts, IterationReturns,
                  SetRunner, InIteration
    <3> QED BY <3>1, <1>c
  <2>6. CASE ReadFails(h)
    BY <2>6, <1>c, CrashedOK DEF ReadFails, SetRunner
  <2>7. CASE IterationFails(h)
    BY <2>7, <1>c, NoRunnerOK DEF IterationFails, SetRunner
  <2> QED BY <1>1, <2>1, <2>2, <2>3, <2>4, <2>5, <2>6, <2>7 DEF RunnerStep
<1>2. ASSUME NEW h \in Goals, DaemonCall(h) \/ BootKick(h) PROVE FALSE
  <2>1. ASSUME NEW m \in Messages, KickWithMessage(h, m) PROVE FALSE
    <3>1. Evolves(runner[h], EnqueueUserMessage(runner[h], m))
      BY <1>a, EnqueueUserMessageOK
    <3> QED BY <2>1, <3>1, <1>b, <1>c, <<m>> \in Seq(Messages)
            DEF KickWithMessage, SetRunner, Evolves
  <2>2. CASE Kick(h) \/ BootKick(h)
    BY <2>2, <1>a, <1>b, <1>c, <<>> \in Seq(Messages), WakeOK
    DEF Kick, BootKick, SetRunner, Evolves
  <2>3. CASE Steer(h)
    <3>1. InIteration(runner[h]) /\ \E s: runner' = [runner EXCEPT ![h] = s]
      BY <2>3 DEF Steer, SetRunner
    <3> QED BY <3>1, <1>c
  <2>4. CASE Interrupt(h) \/ Abort(h)
    BY <2>4, <1>a, <1>c, RaiseFlagOK DEF Interrupt, Abort, Running, SetRunner, Evolves
  <2> QED BY <1>2, <2>1, <2>2, <2>3, <2>4 DEF DaemonCall
<1>3. ASSUME NEW h \in Goals, Endpoint(h) \/ BootPause(h) PROVE FALSE
  <2>1. CASE HttpInterrupt(h) \/ HttpAbort(h)
    <3>1. PICK s: /\ runner' = [runner EXCEPT ![h] = s]
                  /\ s \in {runner[h], [runner[h] EXCEPT !.signal = TRUE]}
      BY <2>1 DEF HttpInterrupt, HttpAbort, SetRunner
    <3>2. InIteration(s) => InIteration(runner[h])
      BY <3>1, <1>a DEF InIteration, RunnerInv, RunnerState
    <3> QED BY <3>1, <3>2, <1>c
  <2>2. CASE Pause(h) \/ Cancel(h) \/ Reactivate(h) \/ BootPause(h)
    BY <2>2 DEF Pause, Cancel, Reactivate, BootPause
  <2> QED BY <1>3, <2>1, <2>2 DEF Endpoint
<1>4. CASE StopBegin \/ StopDeadline
  <2>1. /\ Running(g)
        /\ runner'[g] \in {InterruptRunner(runner[g]), ForceStopRunner(runner[g])}
        /\ StopDeadline => runner'[g] = ForceStopRunner(runner[g])
        /\ StopBegin => runner'[g] = InterruptRunner(runner[g])
    <3>1. Running(g)
      BY <1>4, <1>b DEF StopBegin, StopDeadline
    <3> QED BY <1>4, <3>1 DEF StopBegin, StopDeadline
  <2>2. CASE StopBegin
    BY <2>1, <2>2, <1>a, RaiseFlagOK DEF Evolves, Running
  <2>3. CASE StopDeadline
    <3>1. runner[g].interrupted
      BY <2>1, <2>3 DEF StopDeadline, StopReachesEveryRunner, Stopped
    <3> QED BY <2>1, <2>3, <3>1, <1>a, RaiseFlagOK DEF Evolves, Running
  <2> QED BY <1>4, <2>2, <2>3
<1>5. CASE Listen \/ StopReturns
  BY <1>5 DEF Listen, StopReturns
<1>6. CASE Restart
  BY <1>6, <1>b DEF Restart
<1> QED
  BY <1>1, <1>2, <1>3, <1>4, <1>5, <1>6 DEF Next, Process

(***************************************************************************)
(* No iteration begins under a flag or in a stopping daemon: the guards at *)
(* the top of run()'s loop come after its await, and see the flag.         *)
(***************************************************************************)
THEOREM NoLateIteration == Spec => NoIterationAfterFlag
<1> DEFINE A == \A g \in Goals:
                  ~InIteration(runner[g]) /\ InIteration(runner'[g])
                     => ~Flagged(runner[g]) /\ ~Stopped
<1>1. StateInv /\ [Next]_vars => [A]_vars
  <2> SUFFICES ASSUME StateInv, Next, NEW g \in Goals,
                      ~InIteration(runner[g]), InIteration(runner'[g])
               PROVE  ~Flagged(runner[g]) /\ ~Stopped
    BY DEF vars
  <2>1. Decide(g)
    BY OnlyDecideStarts
  <2>2. ~runner[g].interrupted /\ ~runner[g].aborted /\ runner[g].pc = "decide"
    BY <2>1, NoRunnerOK DEF Decide, SetRunner, StateInv
  <2>3. ~runner[g].forceStopped
    BY <2>2 DEF StateInv, RunnerInv
  <2> QED
    BY <2>2, <2>3 DEF Flagged, StateInv, StopReachesEveryRunner, Running
<1> QED BY <1>1, Invariance, PTL DEF Spec, NoIterationAfterFlag

-----------------------------------------------------------------------------
(* GoalRounds.                                                             *)

\* A steer that has been drained belongs to an iteration that is entering: the
\* next drain finds nothing to overwrite.
GivenIsEntering == \A g \in Goals: given[g] # {} => runner[g].pc = "entering"

RoundsHaveGoals ==
    /\ \A r \in Rounds: round[r].pc # "idle" => round[r].goal \in Goals
    /\ \A c \in Streams: stream[c].pc # "idle" => stream[c].goal \in Goals

RoundsInv ==
    /\ StateInv /\ phase = "up"
    /\ RoundsTypeOK
    /\ RoundsHaveGoals
    /\ GivenIsEntering
    /\ EntryIsRunning

\* the loop, the session and the handlers that change one runner
LoopOf(g) ==
    \/ LoopStep(g) \/ LoopFails(g) \/ RoundBegins(g)
    \/ RoundEnters(g) \/ RoundThrows(g) \/ RoundEnds(g) \/ Probe(g)

LEMMA InitRoundsInv == RoundsInit => RoundsInv
<1> SUFFICES ASSUME RoundsInit PROVE RoundsInv
  OBVIOUS
<1> USE DEF RoundsInit
<1>1. StateInv /\ phase = "up"
  <2>1. /\ disk \in [Goals -> Status] /\ abortRequested \in [Goals -> BOOLEAN]
        /\ phase = "up" /\ phase \in Phase /\ ~Stopped /\ sent \subseteq Messages
        /\ bootStale \subseteq Goals /\ bootFresh \subseteq Goals
    BY DEF Status, Phase, Stopped
  <2>2. restarts \in 0..MaxRestarts
    BY GoalDaemonAssumption
  <2>3. /\ runner \in [Goals -> RunnerState]
        /\ \A g \in Goals: RunnerInv(runner[g])
    BY NoRunnerOK DEF RunnerInv
  <2> QED BY <2>1, <2>2, <2>3 DEF StateInv, StopReachesEveryRunner
<1>2. RoundsTypeOK
  <2>1. IdleRound \in [pc: InlinePC, goal: Goals \cup {None}, signal: BOOLEAN,
                       text: Steers \cup {None}]
    BY DEF IdleRound, InlinePC
  <2>2. [pc |-> "idle", goal |-> None] \in [pc: StreamPC, goal: Goals \cup {None}]
    BY DEF StreamPC
  <2> QED BY <2>1, <2>2 DEF RoundsTypeOK
<1>3. RoundsHaveGoals /\ GivenIsEntering /\ EntryIsRunning
  BY DEF RoundsHaveGoals, GivenIsEntering, EntryIsRunning, IdleRound
<1> QED BY <1>1, <1>2, <1>3 DEF RoundsInv

\* Every step of a runner's loop is one of the daemon's.
LEMMA LoopIsDaemon ==
  ASSUME RoundsInv, NEW g \in Goals, LoopOf(g) \/ StatusChange(g)
         \/ \E s \in Steers: PostSteer(s, g)
  PROVE  [Next]_vars
  BY DEF LoopOf, RoundBegins, RoundEnters, RoundThrows, RoundEnds, LoopStep, LoopFails,
         Probe, PostSteer,
         StatusChange, Next, RunnerStep, DaemonCall, Endpoint, vars

LEMMA RoundsStateInv == RoundsInv /\ [RoundsNext]_allVars => StateInv' /\ phase' = "up"
<1> SUFFICES ASSUME RoundsInv, [RoundsNext]_allVars PROVE StateInv' /\ phase' = "up"
  OBVIOUS
<1>a. StateInv /\ phase = "up" /\ ~Stopped
  BY DEF RoundsInv, Stopped
\* a step of the daemon that leaves the server up
<1>b. ASSUME [Next]_vars, phase' = phase PROVE StateInv' /\ phase' = "up"
  BY <1>a, <1>b, NextStateInv
\* a step that touches neither a runner nor a type
<1>c. ASSUME disk' \in [Goals -> Status], abortRequested' \in [Goals -> BOOLEAN],
             UNCHANGED <<runner, phase, bootStale, bootFresh, sent, restarts>>
      PROVE  StateInv' /\ phase' = "up"
  BY <1>a, <1>c DEF StateInv, StopReachesEveryRunner, Stopped, Running
<1>1. ASSUME NEW g \in Goals, GoalStep(g) PROVE StateInv' /\ phase' = "up"
  <2>1. CASE LoopOf(g) \/ StatusChange(g) \/ \E s \in Steers: PostSteer(s, g)
    <3>1. phase' = phase
      BY <2>1
      DEF LoopOf, RoundBegins, Decide, RoundEnters, Enter, RoundThrows, RoundEnds,
          IterationFinishes, IterationAborts, IterationReturns, IterationFails,
          LoopStep, LoopFails, ReadStatus, ReadFails, SleepTimer, Probe, StatusChange, Pause, Cancel, Reactivate, PostSteer, Steer,
          vars
    <3> QED BY <2>1, <3>1, <1>b, LoopIsDaemon
  <2>2. CASE PostInterrupt(g) \/ PostAbort(g)
    <3> DEFINE s == [runner[g] EXCEPT !.signal = @ \/ inflight[g] = "iteration"]
    <3>1. /\ runner' = [runner EXCEPT ![g] = s]
          /\ abortRequested' \in [Goals -> BOOLEAN]
          /\ UNCHANGED <<disk, phase, bootStale, bootFresh, sent, restarts>>
      BY <2>2, <1>a DEF PostInterrupt, PostAbort, AbortEntry, StateInv
    <3>2. RunnerInv(s) /\ KeepsInterrupt(runner[g], s)
      BY <1>a DEF StateInv, RunnerInv, RunnerState, KeepsInterrupt, Flagged, InIteration
    <3> QED BY <3>1, <3>2, <1>a, OneRunnerStep DEF StateInv, Stopped
  <2>3. CASE \/ \E r \in Rounds: Fire(r, g)
             \/ \E c \in Streams: StreamAsks(c, g)
    BY <2>3, <1>b DEF Fire, StreamAsks, vars
  <2>4. ASSUME NEW a \in AutoCalls, NEW s \in Steers, SendMessage(a, s, g)
        PROVE  StateInv' /\ phase' = "up"
    BY <2>4, <1>a, <1>c DEF SendMessage, StateInv, Status
  <2> QED BY <1>1, <2>1, <2>2, <2>3, <2>4 DEF GoalStep, LoopOf
<1>2. ASSUME NEW r \in Rounds, InlineStep(r) PROVE StateInv' /\ phase' = "up"
  <2>1. CASE CheckActive(r) \/ InlineEnters(r)
    BY <2>1, <1>b DEF CheckActive, InlineEnters, vars
  <2>2. CASE Register(r) \/ InlineFails(r) \/ InlineEnds(r)
    BY <2>2, <1>a, <1>c DEF Register, InlineFails, InlineEnds, StateInv, Status
  <2> QED BY <1>2, <2>1, <2>2 DEF InlineStep
<1>3. ASSUME NEW a \in AutoCalls, SendKick(a) PROVE StateInv' /\ phase' = "up"
  BY <1>3, <1>b DEF SendKick, vars
<1>4. ASSUME NEW c \in Streams, StreamResult(c) PROVE StateInv' /\ phase' = "up"
  BY <1>4, <1>b DEF StreamResult, vars
<1>5. ASSUME NEW c \in Streams, StreamOpens(c) PROVE StateInv' /\ phase' = "up"
  <2> DEFINE g == stream[c].goal
             s == IF Running(g) THEN Wake(runner[g]) ELSE Spawn(<<>>)
  <2>1. g \in Goals
    BY <1>5 DEF StreamOpens, RoundsInv, RoundsHaveGoals
  <2>2. /\ runner' = [runner EXCEPT ![g] = s]
        /\ abortRequested' \in [Goals -> BOOLEAN]
        /\ UNCHANGED <<disk, phase, bootStale, bootFresh, sent, restarts>>
    BY <1>5, <1>a DEF StreamOpens, SetRunner, StateInv
  <2>3. RunnerInv(s) /\ KeepsInterrupt(runner[g], s)
    BY <2>1, <1>a, <<>> \in Seq(Messages), WakeOK, SpawnOK
    DEF StateInv, Running, KeepsInterrupt, Evolves
  <2> QED BY <2>1, <2>2, <2>3, <1>a, OneRunnerStep DEF StateInv, Stopped
<1>6. CASE UNCHANGED allVars
  BY <1>6, <1>b DEF allVars, vars
<1> QED BY <1>1, <1>2, <1>3, <1>4, <1>5, <1>6 DEF RoundsNext

RoundRecord == [pc: InlinePC, goal: Goals \cup {None}, signal: BOOLEAN,
                text: Steers \cup {None}]
StreamRecord == [pc: StreamPC, goal: Goals \cup {None}]

LEMMA RecordMoves ==
  ASSUME NEW q \in RoundRecord, NEW p \in InlinePC
  PROVE  /\ [q EXCEPT !.pc = p] \in RoundRecord
         /\ [q EXCEPT !.pc = p].goal = q.goal
  BY DEF RoundRecord

LEMMA RoundTypes ==
  ASSUME RoundsInv
  PROVE  \A r \in Rounds: /\ round[r] \in RoundRecord
                          /\ round[r].pc # "idle" => round[r].goal \in Goals
  BY DEF RoundsInv, RoundsTypeOK, RoundsHaveGoals, RoundRecord

LEMMA HearType ==
  ASSUME RoundsInv, NEW texts, Hear(texts)
  PROVE  heard' \in [Steers -> Nat]
<1>1. \A s \in Steers: heard[s] \in Nat
  BY DEF RoundsInv, RoundsTypeOK
<1> QED BY <1>1 DEF Hear

LEMMA HearGrows ==
  ASSUME RoundsInv, NEW texts, Hear(texts), NEW s \in Steers
  PROVE  heard'[s] >= heard[s] /\ (s \in texts => heard'[s] > 0)
<1>1. heard[s] \in Nat
  BY DEF RoundsInv, RoundsTypeOK
<1> QED BY <1>1 DEF Hear

LEMMA StreamTypes ==
  ASSUME RoundsInv
  PROVE  \A c \in Streams:
            /\ stream[c] \in StreamRecord
            /\ stream[c].pc # "idle" => stream[c].goal \in Goals
            /\ \A p \in StreamPC: [stream[c] EXCEPT !.pc = p] \in StreamRecord
  BY DEF RoundsInv, RoundsTypeOK, RoundsHaveGoals, StreamRecord

LEMMA EndsTypes ==
  ASSUME RoundsInv, NEW g \in Goals, IterationEnd(g) \/ TurnEnd(g)
  PROVE  /\ stream' \in [Streams -> StreamRecord]
         /\ \A c \in Streams: stream'[c].pc # "idle" => stream'[c].goal \in Goals
<1>1. PICK p \in {"ended", "closed"}:
        stream' = [c \in Streams |->
                     IF stream[c] = [pc |-> "open", goal |-> g]
                     THEN [stream[c] EXCEPT !.pc = p] ELSE stream[c]]
  BY DEF IterationEnd, TurnEnd
<1>2. p \in StreamPC
  BY DEF StreamPC
<1>3. \A c \in Streams: [stream[c] EXCEPT !.pc = p].goal = stream[c].goal
  BY StreamTypes DEF StreamRecord
<1> QED BY <1>1, <1>2, <1>3, StreamTypes

LEMMA RoundsTypesStep ==
  RoundsInv /\ [RoundsNext]_allVars => RoundsTypeOK' /\ RoundsHaveGoals'
<1> DEFINE Kept == RoundsTypeOK' /\ RoundsHaveGoals'
<1> SUFFICES ASSUME RoundsInv, [RoundsNext]_allVars PROVE Kept
  OBVIOUS
<1> DEFINE Queues ==
             /\ inflight \in [Goals -> Rounds \cup {"none", "iteration"}]
             /\ slot \in [Goals -> Steers \cup {None}]
             /\ queued \in [Goals -> SUBSET Steers]
             /\ given \in [Goals -> SUBSET Steers]
             /\ posted \in [Goals -> SUBSET Steers]
             /\ heard \in [Steers -> Nat]
           RoundsOK == /\ round \in [Rounds -> RoundRecord]
                       /\ \A r \in Rounds: round[r].pc # "idle" => round[r].goal \in Goals
           StreamsOK == /\ stream \in [Streams -> StreamRecord]
                        /\ \A c \in Streams:
                              stream[c].pc # "idle" => stream[c].goal \in Goals
<1>a. /\ Kept <=> Queues' /\ RoundsOK' /\ StreamsOK'
      /\ Queues /\ RoundsOK /\ StreamsOK
  BY DEF RoundsInv, RoundsTypeOK, RoundsHaveGoals, RoundRecord, StreamRecord
<1>b. round' = round => RoundsOK'
  BY <1>a
<1>c. stream' = stream => StreamsOK'
  BY <1>a
\* a step of one inline round, or of one stream
<1>d. ASSUME NEW r \in Rounds, NEW q \in RoundRecord,
             round' = [round EXCEPT ![r] = q], q.goal \in Goals
      PROVE  RoundsOK'
  BY <1>a, <1>d
<1>e. ASSUME NEW r \in Rounds, round[r].pc # "idle", NEW p \in InlinePC, SetRound(r, p)
      PROVE  RoundsOK'
  <2>1. [round[r] EXCEPT !.pc = p] \in RoundRecord /\ round[r].goal \in Goals
    BY <1>e, RoundTypes, RecordMoves
  <2>2. [round[r] EXCEPT !.pc = p].goal = round[r].goal
    BY RoundTypes, RecordMoves
  <2> QED BY <1>e, <2>1, <2>2, <1>d DEF SetRound
<1>f. ASSUME NEW c \in Streams, NEW q \in StreamRecord,
             stream' = [stream EXCEPT ![c] = q], q.goal \in Goals
      PROVE  StreamsOK'
  BY <1>a, <1>f
<1> HIDE DEF RoundsOK, StreamsOK, Kept
<1>1. ASSUME NEW g \in Goals, GoalStep(g) PROVE Kept
  <2>1. CASE RoundBegins(g)
    <3>1. Queues' /\ RoundsOK'
      BY <2>1, <1>a, <1>b DEF RoundBegins
    <3>2. StreamsOK'
      BY <2>1, <1>c, EndsTypes DEF RoundBegins, StreamsOK
    <3> QED BY <1>a, <3>1, <3>2
  <2>2. CASE RoundEnters(g)
    <3>1. Queues' /\ RoundsOK'
      BY <2>2, <1>a, <1>b, HearType DEF RoundEnters, SetEntry, KeepQueue
    <3>2. StreamsOK'
      BY <2>2, <1>c, EndsTypes DEF RoundEnters, StreamsOK
    <3> QED BY <1>a, <3>1, <3>2
  <2>3. CASE Probe(g)
    BY <2>3, <1>a, <1>b, <1>c, HearType DEF Probe
  <2>4. CASE RoundEnds(g)
    <3>1. Queues' /\ RoundsOK'
      BY <2>4, <1>a, <1>b DEF RoundEnds, ReleaseOwn, SetEntry, KeepQueue
    <3>2. StreamsOK'
      BY <2>4, EndsTypes DEF RoundEnds, StreamsOK
    <3> QED BY <1>a, <3>1, <3>2
  <2>5. CASE LoopStep(g) \/ StatusChange(g)
    BY <2>5, <1>a, <1>b, <1>c DEF LoopStep, StatusChange, roundVars
  <2>11. CASE LoopFails(g)
    BY <2>11, <1>a, <1>b, <1>c DEF LoopFails, KeepQueue
  <2>12. CASE RoundThrows(g)
    <3>1. Queues' /\ RoundsOK'
      BY <2>12, <1>a, <1>b DEF RoundThrows, KeepQueue
    <3>2. StreamsOK'
      BY <2>12, EndsTypes DEF RoundThrows, StreamsOK
    <3> QED BY <1>a, <3>1, <3>2
  <2>6. CASE PostInterrupt(g) \/ PostAbort(g)
    <3>1. Queues' /\ StreamsOK'
      BY <2>6, <1>a, <1>c DEF PostInterrupt, PostAbort
    <3>2. RoundsOK'
      <4>1. round' = [r \in Rounds |->
                        [round[r] EXCEPT !.signal = @ \/ inflight[g] = r]]
        BY <2>6 DEF PostInterrupt, PostAbort, AbortEntry
      <4>2. ASSUME NEW r \in Rounds
            PROVE  /\ round'[r] \in RoundRecord
                   /\ round'[r].pc = round[r].pc /\ round'[r].goal = round[r].goal
        BY <4>1, RoundTypes DEF RoundRecord
      <4> QED BY <4>1, <4>2, RoundTypes DEF RoundsOK
    <3> QED BY <1>a, <3>1, <3>2
  <2>7. ASSUME NEW s \in Steers, PostSteer(s, g) PROVE Kept
    BY <2>7, <1>a, <1>b, <1>c DEF PostSteer
  <2>8. ASSUME NEW r \in Rounds, Fire(r, g) PROVE Kept
    <3> DEFINE q == [round[r] EXCEPT !.pc = "fired", !.goal = g]
    <3>1. round' = [round EXCEPT ![r] = q]
      BY <2>8 DEF Fire
    <3>2. q \in RoundRecord /\ q.goal = g
      <4>1. "fired" \in InlinePC /\ round[r] \in RoundRecord
        BY RoundTypes DEF InlinePC
      <4> QED BY <4>1 DEF RoundRecord
    <3>3. RoundsOK'
      BY <3>1, <3>2, <1>d
    <3> QED BY <2>8, <3>3, <1>a, <1>c DEF Fire
  <2>9. ASSUME NEW x \in AutoCalls, NEW s \in Steers, SendMessage(x, s, g) PROVE Kept
    <3>1. PICK p \in {"done", "appended"}:
            round' = [round EXCEPT ![x] = [pc |-> p, goal |-> g, signal |-> FALSE,
                                           text |-> s]]
      BY <2>9 DEF SendMessage
    <3>2. /\ [pc |-> p, goal |-> g, signal |-> FALSE, text |-> s] \in RoundRecord
          /\ x \in Rounds
      BY DEF RoundRecord, InlinePC, Rounds
    <3>3. RoundsOK'
      BY <3>1, <3>2, <1>d
    <3> QED BY <2>9, <3>3, <1>a, <1>c DEF SendMessage
  <2>10. ASSUME NEW c \in Streams, StreamAsks(c, g) PROVE Kept
    <3>1. [pc |-> "checked", goal |-> g] \in StreamRecord
      BY DEF StreamRecord, StreamPC
    <3> QED BY <2>10, <3>1, <1>a, <1>b, <1>f DEF StreamAsks
  <2> QED
    BY <1>1, <2>1, <2>2, <2>3, <2>4, <2>5, <2>6, <2>7, <2>8, <2>9, <2>10, <2>11, <2>12
    DEF GoalStep
<1>2. ASSUME NEW r \in Rounds, InlineStep(r) PROVE Kept
  <2>1. \E p \in InlinePC: SetRound(r, p)
    BY <1>2 DEF InlineStep, CheckActive, Register, InlineFails, InlineEnters, InlineEnds,
                InlineOver, InlinePC
  <2>2. round[r].pc # "idle" /\ round[r].goal \in Goals
    BY <1>2, RoundTypes DEF InlineStep, CheckActive, Register, InlineFails, InlineEnters,
                            InlineEnds
  <2>3. Queues'
    <3>1. CASE CheckActive(r) \/ InlineFails(r)
      BY <3>1, <1>a DEF CheckActive, InlineFails
    <3>2. CASE Register(r) \/ InlineEnds(r)
      BY <3>2, <2>2, <1>a DEF Register, InlineEnds, InlineOver, SetEntry
    <3>3. CASE InlineEnters(r)
      BY <3>3, <2>2, <1>a, HearType DEF InlineEnters, InlineOver, SetEntry
    <3> QED BY <1>2, <3>1, <3>2, <3>3 DEF InlineStep
  <2>4. stream' = stream
    BY <1>2 DEF InlineStep, CheckActive, Register, InlineFails, InlineEnters, InlineEnds
  <2> QED BY <1>a, <1>c, <1>e, <2>1, <2>2, <2>3, <2>4
<1>3. ASSUME NEW x \in AutoCalls, SendKick(x) PROVE Kept
  <2>1. x \in Rounds /\ round[x].pc # "idle" /\ \E p \in InlinePC: SetRound(x, p)
    BY <1>3 DEF SendKick, InlinePC, Rounds
  <2> QED BY <1>3, <2>1, <1>a, <1>c, <1>e DEF SendKick
<1>4. ASSUME NEW c \in Streams, StreamOpens(c) \/ StreamResult(c) PROVE Kept
  <2>1. PICK p \in StreamPC: stream' = [stream EXCEPT ![c] = [stream[c] EXCEPT !.pc = p]]
    BY <1>4 DEF StreamOpens, StreamResult, StreamPC
  <2>2. /\ [stream[c] EXCEPT !.pc = p] \in StreamRecord
        /\ [stream[c] EXCEPT !.pc = p].goal \in Goals
    BY <1>4, StreamTypes DEF StreamOpens, StreamResult, StreamRecord
  <2> QED BY <1>4, <2>1, <2>2, <1>a, <1>b, <1>f DEF StreamOpens, StreamResult
<1>5. CASE UNCHANGED allVars
  BY <1>5, <1>a, <1>b, <1>c DEF allVars, roundVars
<1> QED BY <1>1, <1>2, <1>3, <1>4, <1>5 DEF RoundsNext

\* The pcs of the runners, which is all that the entries and the drained
\* steers depend on.
LEMMA GivenStep == RoundsInv /\ [RoundsNext]_allVars => GivenIsEntering'
<1> SUFFICES ASSUME RoundsInv, [RoundsNext]_allVars PROVE GivenIsEntering'
  OBVIOUS
<1>a. /\ runner \in [Goals -> RunnerState] /\ given \in [Goals -> SUBSET Steers]
      /\ \A g \in Goals: given[g] # {} => runner[g].pc = "entering"
  BY DEF RoundsInv, RoundsTypeOK, StateInv, GivenIsEntering
<1> USE DEF GivenIsEntering
\* a step of one runner that was not entering, or is afterwards
<1>b. ASSUME NEW g \in Goals, NEW s, runner' = [runner EXCEPT ![g] = s],
             given' = given, runner[g].pc = "entering" => s.pc = "entering"
      PROVE  GivenIsEntering'
  BY <1>a, <1>b
<1>c. ASSUME runner' = runner, given' = given PROVE GivenIsEntering'
  BY <1>a, <1>c
<1>1. ASSUME NEW g \in Goals, GoalStep(g) PROVE GivenIsEntering'
  <2>1. CASE RoundBegins(g)
    <3>1. PICK s: /\ runner' = [runner EXCEPT ![g] = s]
                  /\ s.pc = "none" \/ s.pc = "entering"
                  /\ runner[g].pc = "decide"
      BY ZenonT(60), <2>1, <1>a, NoRunnerOK DEF RoundBegins, Decide, SetRunner, StartIteration,
                                    RunnerState
    <3> QED BY <2>1, <3>1, <1>a, <1>b DEF RoundBegins
  <2>2. CASE RoundEnters(g)
    <3>1. /\ given' = [given EXCEPT ![g] = {}]
          /\ \E s: runner' = [runner EXCEPT ![g] = s]
      BY <2>2 DEF RoundEnters, Enter, IterationFails, SetRunner
    <3> QED BY <3>1, <1>a
  <2>9. CASE RoundThrows(g)
    <3>1. /\ given' = [given EXCEPT ![g] = {}]
          /\ \E s: runner' = [runner EXCEPT ![g] = s]
      BY <2>9 DEF RoundThrows, IterationFails, SetRunner
    <3> QED BY <3>1, <1>a
  <2>3. CASE Probe(g) \/ StatusChange(g)
    BY <2>3, <1>c DEF Probe, StatusChange, Pause, Cancel, Reactivate, roundVars, vars
  <2>4. CASE RoundEnds(g)
    BY <2>4, <1>b DEF RoundEnds, IterationFinishes, IterationAborts, IterationReturns,
                      IterationFails, SetRunner
  <2>5. CASE LoopStep(g) \/ LoopFails(g)
    BY <2>5, <1>b DEF LoopStep, LoopFails, ReadStatus, ReadFails, SleepTimer, SetRunner,
                      roundVars
  <2>6. CASE PostInterrupt(g) \/ PostAbort(g)
    <3> DEFINE s == [runner[g] EXCEPT !.signal = @ \/ inflight[g] = "iteration"]
    <3>1. runner' = [runner EXCEPT ![g] = s] /\ s.pc = runner[g].pc /\ given' = given
      BY <2>6, <1>a DEF PostInterrupt, PostAbort, AbortEntry, RunnerState
    <3> QED BY <3>1, <1>b
  <2>7. ASSUME NEW t \in Steers, PostSteer(t, g) PROVE GivenIsEntering'
    <3>1. runner[g].pc = "iterating" /\ given' = given
      BY <2>7 DEF PostSteer
    <3>2. \E s: runner' = [runner EXCEPT ![g] = s]
      BY <2>7 DEF PostSteer, Steer, SetRunner
    <3> QED BY <3>1, <3>2, <1>b
  <2>8. CASE \/ \E r \in Rounds: Fire(r, g)
             \/ \E x \in AutoCalls, s \in Steers: SendMessage(x, s, g)
             \/ \E c \in Streams: StreamAsks(c, g)
    BY <2>8, <1>c DEF Fire, SendMessage, StreamAsks, vars
  <2> QED
    BY <1>1, <2>1, <2>2, <2>3, <2>4, <2>5, <2>6, <2>7, <2>8, <2>9 DEF GoalStep
<1>2. ASSUME NEW r \in Rounds, InlineStep(r) PROVE GivenIsEntering'
  BY <1>2, <1>c DEF InlineStep, CheckActive, Register, InlineFails, InlineEnters,
                    InlineEnds, vars
<1>3. ASSUME NEW x \in AutoCalls, SendKick(x) PROVE GivenIsEntering'
  BY <1>3, <1>c DEF SendKick, vars
<1>4. ASSUME NEW c \in Streams, StreamResult(c) PROVE GivenIsEntering'
  BY <1>4, <1>c DEF StreamResult, vars
<1>5. ASSUME NEW c \in Streams, StreamOpens(c) PROVE GivenIsEntering'
  <2>1. stream[c].goal \in Goals /\ given' = given
    BY <1>5 DEF StreamOpens, RoundsInv, RoundsHaveGoals
  <2>2. runner[stream[c].goal].pc = "entering" => runner' = runner
    BY <1>5, <1>a DEF StreamOpens, SetRunner, Running, Wake
  <2>3. \E s: runner' = [runner EXCEPT ![stream[c].goal] = s]
    BY <1>5 DEF StreamOpens, SetRunner
  <2> QED BY <2>1, <2>2, <2>3, <1>b, <1>c
<1>6. CASE UNCHANGED allVars
  BY <1>6, <1>c DEF allVars, vars, roundVars
<1> QED BY <1>1, <1>2, <1>3, <1>4, <1>5, <1>6 DEF RoundsNext

\* Who may replace or remove an entry: its own round, at its end; an inline
\* round, whose goal it is; and a round that takes its place.
LEMMA EntryStep == RoundsInv /\ [RoundsNext]_allVars => EntryIsRunning'
<1> SUFFICES ASSUME RoundsInv, [RoundsNext]_allVars PROVE EntryIsRunning'
  OBVIOUS
<1> DEFINE Busy(r) == round[r].pc \in {"entering", "running"}
           EntryOf(h) ==
             \/ inflight[h] = "none"
             \/ inflight[h] = "iteration" /\ runner[h].pc = "iterating"
             \/ \E r \in Rounds: inflight[h] = r /\ round[r].goal = h /\ Busy(r)
<1>a. /\ runner \in [Goals -> RunnerState] /\ round \in [Rounds -> RoundRecord]
      /\ inflight \in [Goals -> Rounds \cup {"none", "iteration"}]
      /\ \A h \in Goals: EntryOf(h)
      /\ "none" \notin Rounds /\ "iteration" \notin Rounds
  BY GoalRoundsAssumption, RoundTypes
  DEF RoundsInv, RoundsTypeOK, StateInv, EntryIsRunning, RoundRecord
<1>b. (\A h \in Goals: EntryOf(h)') => EntryIsRunning'
  BY DEF EntryIsRunning
\* a step of one runner which keeps an iteration, or has no entry afterwards
<1>c. ASSUME NEW g \in Goals, NEW s, runner' = [runner EXCEPT ![g] = s],
             round' = round, NEW e, inflight' = [inflight EXCEPT ![g] = e],
             \/ e = "none"
             \/ e = "iteration" /\ s.pc = "iterating"
             \/ e = inflight[g] /\ (e = "iteration" => s.pc = "iterating")
      PROVE  EntryIsRunning'
  BY <1>a, <1>b, <1>c
<1>d. ASSUME UNCHANGED <<runner, round, inflight>> PROVE EntryIsRunning'
  BY <1>a, <1>b, <1>d
\* a round that is neither entering nor running has no entry
<1>e. ASSUME NEW r \in Rounds, ~Busy(r), NEW q, round' = [round EXCEPT ![r] = q],
             UNCHANGED <<runner, inflight>>
      PROVE  EntryIsRunning'
  BY <1>a, <1>b, <1>e
\* an inline round that is over leaves no entry of its goal
<1>f. ASSUME NEW r \in Rounds, round[r].goal \in Goals, InlineOver(r), runner' = runner
      PROVE  EntryIsRunning'
  <2> SUFFICES ASSUME NEW h \in Goals PROVE EntryOf(h)'
    BY <1>b
  <2>1. CASE h = round[r].goal
    BY <2>1, <1>a, <1>f DEF InlineOver, SetEntry
  <2>2. CASE h # round[r].goal
    <3>1. inflight'[h] = inflight[h] /\ inflight[h] # r
      BY <2>2, <1>a, <1>f DEF InlineOver, SetEntry
    <3>2. \A q \in Rounds: q # r => round'[q] = round[q]
      BY <1>a, <1>f DEF InlineOver, SetRound
    <3> QED BY <3>1, <3>2, <1>a, <1>f
  <2> QED BY <2>1, <2>2
<1> HIDE DEF EntryOf
<1>1. ASSUME NEW g \in Goals, GoalStep(g) PROVE EntryIsRunning'
  <2>1. CASE RoundBegins(g) \/ LoopStep(g) \/ LoopFails(g) \/ RoundThrows(g)
    <3>1. PICK s: runner' = [runner EXCEPT ![g] = s]
      BY <2>1 DEF RoundBegins, Decide, LoopStep, LoopFails, RoundThrows, ReadStatus,
                  ReadFails, IterationFails, SleepTimer, SetRunner
    <3>2. runner[g].pc # "iterating"
      BY <2>1 DEF RoundBegins, Decide, LoopStep, LoopFails, RoundThrows, ReadStatus,
                  ReadFails, SleepTimer
    <3>3. inflight[g] # "iteration"
      BY <3>2, <1>a DEF EntryOf
    <3>4. round' = round /\ inflight' = [inflight EXCEPT ![g] = inflight[g]]
      BY <2>1, <1>a DEF RoundBegins, LoopStep, LoopFails, RoundThrows, roundVars
    <3> QED BY <3>1, <3>3, <3>4, <1>c
  <2>2. CASE RoundEnters(g)
    <3>1. PICK s: runner' = [runner EXCEPT ![g] = s]
      BY <2>2 DEF RoundEnters, Enter, IterationFails, SetRunner
    <3>2. round' = round /\ runner'[g] = s
      BY <2>2, <3>1, <1>a DEF RoundEnters
    <3> QED BY <2>2, <3>1, <3>2, <1>c DEF RoundEnters, SetEntry
  <2>3. CASE Probe(g) \/ StatusChange(g)
    BY <2>3, <1>d DEF Probe, StatusChange, Pause, Cancel, Reactivate, roundVars, vars
  <2>4. CASE RoundEnds(g)
    <3>1. PICK s: runner' = [runner EXCEPT ![g] = s]
      BY <2>4 DEF RoundEnds, IterationFinishes, IterationAborts, IterationReturns,
                  IterationFails, SetRunner
    <3>2. round' = round
      BY <2>4 DEF RoundEnds
    <3>3. PICK e: /\ inflight' = [inflight EXCEPT ![g] = e]
                  /\ e = "none" \/ (e = inflight[g] /\ e # "iteration")
      BY <2>4 DEF RoundEnds, ReleaseOwn, SetEntry
    <3> QED BY <3>1, <3>2, <3>3, <1>c
  <2>5. CASE PostInterrupt(g) \/ PostAbort(g)
    <3>1. /\ inflight' = inflight
          /\ \A h \in Goals: runner'[h].pc = runner[h].pc
          /\ \A r \in Rounds: /\ round'[r].pc = round[r].pc
                              /\ round'[r].goal = round[r].goal
      <4>1. /\ runner' = [runner EXCEPT
                             ![g] = [runner[g] EXCEPT
                                       !.signal = @ \/ inflight[g] = "iteration"]]
            /\ round' = [r \in Rounds |->
                           [round[r] EXCEPT !.signal = @ \/ inflight[g] = r]]
            /\ inflight' = inflight
        BY <2>5 DEF PostInterrupt, PostAbort, AbortEntry
      <4>2. \A h \in Goals: runner'[h].pc = runner[h].pc
        BY <4>1, <1>a DEF RunnerState
      <4>3. \A r \in Rounds: /\ round'[r].pc = round[r].pc
                             /\ round'[r].goal = round[r].goal
        BY <4>1, <1>a DEF RoundRecord
      <4> QED BY <4>1, <4>2, <4>3
    <3> QED BY <3>1, <1>a, <1>b DEF EntryOf
  <2>6. ASSUME NEW t \in Steers, PostSteer(t, g) PROVE EntryIsRunning'
    <3>1. runner[g].pc = "iterating" /\ round' = round /\ inflight' = inflight
      BY <2>6 DEF PostSteer
    <3>2. Wake(EnqueueSteer(runner[g])) = EnqueueSteer(runner[g])
          /\ EnqueueSteer(runner[g]).pc = "iterating"
      BY <3>1, <1>a DEF Wake, EnqueueSteer, RunnerState
    <3>3. PICK s: runner' = [runner EXCEPT ![g] = s] /\ s.pc = "iterating"
      BY <2>6, <3>2 DEF PostSteer, Steer, SetRunner
    <3>4. inflight' = [inflight EXCEPT ![g] = inflight[g]]
      BY <3>1, <1>a
    <3> QED BY <3>1, <3>3, <3>4, <1>c
  <2>7. ASSUME NEW r \in Rounds, Fire(r, g) PROVE EntryIsRunning'
    BY <2>7, <1>e DEF Fire, vars
  <2>8. ASSUME NEW x \in AutoCalls, NEW s \in Steers, SendMessage(x, s, g)
        PROVE  EntryIsRunning'
    <3>1. x \in Rounds /\ ~Busy(x) /\ UNCHANGED <<runner, inflight>>
      BY <2>8 DEF SendMessage, Rounds
    <3>2. \E q: round' = [round EXCEPT ![x] = q]
      BY <2>8 DEF SendMessage
    <3> QED BY <3>1, <3>2, <1>e
  <2>9. ASSUME NEW c \in Streams, StreamAsks(c, g) PROVE EntryIsRunning'
    BY <2>9, <1>d DEF StreamAsks, vars
  <2> QED
    BY <1>1, <2>1, <2>2, <2>3, <2>4, <2>5, <2>6, <2>7, <2>8, <2>9 DEF GoalStep
<1>2. ASSUME NEW r \in Rounds, InlineStep(r) PROVE EntryIsRunning'
  <2>a. round[r].goal \in Goals
    BY <1>2, RoundTypes DEF InlineStep, CheckActive, Register, InlineFails, InlineEnters,
                            InlineEnds
  <2>1. CASE CheckActive(r)
    <3>1. \E q: round' = [round EXCEPT ![r] = q]
      BY <2>1 DEF CheckActive, SetRound
    <3> QED BY <2>1, <3>1, <1>e DEF CheckActive, vars
  <2>2. CASE Register(r)
    <3> DEFINE g == round[r].goal
    <3>1. /\ inflight' = [inflight EXCEPT ![g] = r] /\ runner' = runner
          /\ round' = [round EXCEPT ![r].pc = "entering"] /\ ~Busy(r)
      BY <2>2 DEF Register, SetEntry, SetRound
    <3>2. /\ round'[r].pc = "entering" /\ round'[r].goal = g
          /\ \A q \in Rounds: q # r => round'[q] = round[q]
      BY <3>1, <1>a DEF RoundRecord
    <3>3. \A h \in Goals: h # g => inflight'[h] = inflight[h] /\ inflight[h] # r
      BY <3>1, <1>a DEF EntryOf
    <3>4. inflight'[g] = r
      BY <3>1, <1>a, <2>a
    <3> QED BY <3>1, <3>2, <3>3, <3>4, <1>a, <1>b DEF EntryOf
  <2>3. CASE InlineEnters(r)
    <3>1. CASE InlineOver(r)
      BY <2>3, <3>1, <2>a, <1>f DEF InlineEnters, vars
    <3>2. CASE SetRound(r, "running") /\ inflight' = inflight
      <4>1. /\ round'[r].pc = "running" /\ round'[r].goal = round[r].goal
            /\ \A q \in Rounds: q # r => round'[q] = round[q]
        BY <3>2, <1>a DEF SetRound, RoundRecord
      <4>2. runner' = runner
        BY <2>3 DEF InlineEnters, vars
      <4> QED BY <3>2, <4>1, <4>2, <1>a, <1>b DEF EntryOf
    <3> QED BY <2>3, <3>1, <3>2 DEF InlineEnters
  <2>4. CASE InlineEnds(r)
    BY <2>4, <2>a, <1>f DEF InlineEnds
  <2>5. CASE InlineFails(r)
    <3>1. ~Busy(r) /\ \E q: round' = [round EXCEPT ![r] = q]
      BY <2>5 DEF InlineFails, SetRound
    <3> QED BY <2>5, <3>1, <1>e DEF InlineFails
  <2> QED BY <1>2, <2>1, <2>2, <2>3, <2>4, <2>5 DEF InlineStep
<1>3. ASSUME NEW x \in AutoCalls, SendKick(x) PROVE EntryIsRunning'
  <2>1. x \in Rounds /\ ~Busy(x) /\ \E q: round' = [round EXCEPT ![x] = q]
    BY <1>3 DEF SendKick, SetRound, Rounds
  <2> QED BY <1>3, <2>1, <1>e DEF SendKick, vars
<1>4. ASSUME NEW c \in Streams, StreamResult(c) PROVE EntryIsRunning'
  BY <1>4, <1>d DEF StreamResult, vars
<1>5. ASSUME NEW c \in Streams, StreamOpens(c) PROVE EntryIsRunning'
  <2> DEFINE g == stream[c].goal
  <2>1. /\ g \in Goals /\ round' = round
        /\ inflight' = [inflight EXCEPT ![g] = inflight[g]]
    BY <1>5, <1>a, StreamTypes DEF StreamOpens
  <2>2. PICK s: /\ runner' = [runner EXCEPT ![g] = s]
                /\ runner[g].pc = "iterating" => s.pc = "iterating"
    BY <1>5 DEF StreamOpens, SetRunner, Running, Wake
  <2>3. inflight[g] = "iteration" => runner[g].pc = "iterating"
    BY <2>1, <1>a DEF EntryOf
  <2> QED BY <2>1, <2>2, <2>3, <1>c
<1>6. CASE UNCHANGED allVars
  BY <1>6, <1>d DEF allVars, vars, roundVars
<1> QED BY <1>1, <1>2, <1>3, <1>4, <1>5, <1>6 DEF RoundsNext

THEOREM RoundsInvariance == RoundsSpec => []RoundsInv
<1>1. RoundsInv /\ [RoundsNext]_allVars => RoundsInv'
  BY RoundsStateInv, RoundsTypesStep, GivenStep, EntryStep DEF RoundsInv
<1> QED BY InitRoundsInv, <1>1, PTL DEF RoundsSpec

(***************************************************************************)
(* The entry that /interrupt and /abort look up is the controller of a     *)
(* round that is running or about to, for every number of rounds.          *)
(***************************************************************************)
THEOREM EntriesAreRunning == RoundsSpec => []EntryIsRunning
<1>1. RoundsInv => EntryIsRunning
  BY DEF RoundsInv
<1> QED BY <1>1, RoundsInvariance, PTL

(***************************************************************************)
(* A steer that /steer accepted is lost only with its runner, or in an     *)
(* iteration that is refused at its start: between its two channels and    *)
(* the drain at the loop's top it is never dropped.                        *)
(***************************************************************************)
THEOREM SteersSurvive == RoundsSpec => SteerSurvives
<1> DEFINE A == \A s \in Steers, g \in Goals:
                  Lost(s, g)' /\ ~Lost(s, g) =>
                     \/ runner'[g].pc = "none"
                     \/ runner[g].pc = "entering" /\ runner'[g].pc # "iterating"
<1>1. RoundsInv /\ [RoundsNext]_allVars => [A]_allVars
  <2> SUFFICES ASSUME RoundsInv, RoundsNext, NEW s \in Steers, NEW g \in Goals,
                      Lost(s, g)', ~Lost(s, g), runner'[g].pc # "none",
                      ~(runner[g].pc = "entering" /\ runner'[g].pc # "iterating")
               PROVE  FALSE
    OBVIOUS
  <2>a. /\ queued \in [Goals -> SUBSET Steers] /\ given \in [Goals -> SUBSET Steers]
        /\ posted \in [Goals -> SUBSET Steers] /\ heard \in [Steers -> Nat]
        /\ runner[g].pc # "entering" => given[g] = {}
    BY DEF RoundsInv, RoundsTypeOK, GivenIsEntering
  <2>b. /\ s \in posted'[g] /\ heard'[s] = 0 /\ s \notin queued'[g] /\ s \notin given'[g]
        /\ s \notin posted[g] \/ heard[s] # 0 \/ s \in queued[g] \/ s \in given[g]
    BY DEF Lost
  <2>c. ASSUME posted'[g] = posted[g],
               heard'[s] >= heard[s],
               s \in queued[g] \cup given[g] =>
                  s \in queued'[g] \cup given'[g] \/ heard'[s] > 0
        PROVE  FALSE
    BY <2>a, <2>b, <2>c
  <2>d. ~UNCHANGED <<posted, queued, given, heard>>
    BY <2>a, <2>c
  <2>1. ASSUME NEW h \in Goals, GoalStep(h) PROVE FALSE
    <3>1. CASE RoundBegins(h)
      <4>1. queued[g] \cup given[g] = queued'[g] \cup given'[g]
        BY <3>1, <2>a DEF RoundBegins, Decide
      <4> QED BY <3>1, <4>1, <2>a, <2>c DEF RoundBegins
    <3>2. CASE RoundEnters(h)
      <4>1. CASE h # g
        <5>1. queued'[g] = queued[g] /\ given'[g] = given[g]
          BY <3>2, <4>1, <2>a DEF RoundEnters, KeepQueue
        <5>2. heard'[s] >= heard[s]
          <6>1. CASE Hear(given[h])
            BY <6>1, HearGrows
          <6>2. CASE heard' = heard
            BY <6>2, <2>a
          <6> QED BY <3>2, <6>1, <6>2 DEF RoundEnters
        <5> QED BY <3>2, <5>1, <5>2, <2>c DEF RoundEnters
      <4>2. CASE h = g
        <5>1. runner[g].pc = "entering" /\ runner'[g].pc = "iterating"
          BY <3>2, <4>2 DEF RoundEnters
        <5>2. Hear(given[g]) /\ queued' = queued /\ posted' = posted
          BY <3>2, <4>2, <5>1 DEF RoundEnters
        <5> QED BY <5>2, <2>c, HearGrows
      <4> QED BY <4>1, <4>2
    <3>3. CASE Probe(h)
      <4>1. Hear({slot[h]}) /\ UNCHANGED <<posted, queued, given>>
        BY <3>3 DEF Probe
      <4> QED BY <4>1, <2>c, HearGrows
    <3>4. CASE RoundEnds(h)
      <4>1. queued'[g] = queued[g]
        BY <3>4, <2>a DEF RoundEnds, KeepQueue
      <4> QED BY <3>4, <4>1, <2>a, <2>c DEF RoundEnds
    <3>8. CASE RoundThrows(h)
      <4>1. h # g
        BY <3>8, NoRunnerOK DEF RoundThrows, IterationFails, SetRunner, RoundsInv, StateInv
      <4>2. queued'[g] = queued[g] /\ given'[g] = given[g]
        BY <3>8, <4>1, <2>a DEF RoundThrows, KeepQueue
      <4> QED BY <3>8, <4>2, <2>a, <2>c DEF RoundThrows
    <3>9. CASE LoopFails(h)
      <4>1. queued'[g] = queued[g]
        BY <3>9, <2>a DEF LoopFails, KeepQueue
      <4> QED BY <3>9, <4>1, <2>a, <2>c DEF LoopFails
    <3>5. ASSUME NEW t \in Steers, PostSteer(t, h) PROVE FALSE
      <4>1. /\ posted' = [posted EXCEPT ![h] = @ \cup {t}]
            /\ queued' = [queued EXCEPT ![h] = @ \cup {t}]
            /\ given' = given /\ heard' = heard
        BY <3>5 DEF PostSteer
      <4> QED BY <4>1, <2>a, <2>b
    <3>6. CASE LoopStep(h) \/ StatusChange(h) \/ PostInterrupt(h) \/ PostAbort(h)
      BY <3>6, <2>d DEF LoopStep, StatusChange, PostInterrupt, PostAbort, roundVars
    <3>7. CASE \/ \E r \in Rounds: Fire(r, h)
               \/ \E x \in AutoCalls, t \in Steers: SendMessage(x, t, h)
               \/ \E c \in Streams: StreamAsks(c, h)
      BY <3>7, <2>d DEF Fire, SendMessage, StreamAsks
    <3> QED
      BY <2>1, <3>1, <3>2, <3>3, <3>4, <3>5, <3>6, <3>7, <3>8, <3>9 DEF GoalStep
  <2>2. ASSUME NEW r \in Rounds, InlineStep(r) PROVE FALSE
    <3>1. CASE InlineEnters(r)
      <4>1. heard'[s] >= heard[s]
        <5>1. CASE Hear({round[r].text} \cap Steers)
          BY <5>1, HearGrows
        <5>2. CASE heard' = heard
          BY <5>2, <2>a
        <5> QED BY <3>1, <5>1, <5>2 DEF InlineEnters
      <4>2. UNCHANGED <<posted, queued, given>>
        BY <3>1 DEF InlineEnters
      <4> QED BY <4>1, <4>2, <2>c
    <3>2. CASE CheckActive(r) \/ Register(r) \/ InlineFails(r) \/ InlineEnds(r)
      BY <3>2, <2>d DEF CheckActive, Register, InlineFails, InlineEnds
    <3> QED BY <2>2, <3>1, <3>2 DEF InlineStep
  <2>3. ASSUME NEW x \in AutoCalls, SendKick(x) PROVE FALSE
    BY <2>3, <2>d DEF SendKick
  <2>4. ASSUME NEW c \in Streams, StreamOpens(c) \/ StreamResult(c) PROVE FALSE
    BY <2>4, <2>d DEF StreamOpens, StreamResult
  <2> QED BY <2>1, <2>2, <2>3, <2>4 DEF RoundsNext
<1> QED BY <1>1, RoundsInvariance, PTL DEF RoundsSpec, SteerSurvives
=============================================================================
