---------------------------- MODULE InitProject ----------------------------
(***************************************************************************)
(* One run of the init-project agent: its ledger on disk                   *)
(* (src/src/core/agents/init-project/runs-ledger.ts), the Spine-First      *)
(* pipeline and its resumption (agent.ts), the routes that start, cancel,  *)
(* resume and follow it (src/src/server/init-project-routes.ts) and the    *)
(* reaper that a server runs at its start.                                 *)
(*                                                                         *)
(* Nothing keeps a run from being driven twice: a resume is accepted while *)
(* the run, or another resume of it, is still going.  Phases write their   *)
(* results with failures swallowed, so `lost` records what was not written *)
(* although its phase ended, and `skipped` what a driver was told, or      *)
(* decided, to do without.  The workspace and the wiki are both enabled.   *)
(***************************************************************************)
EXTENDS Naturals, Sequences, FiniteSets

CONSTANTS
    Phases,        \* SPINE_PHASE_ORDER has this many
    First,         \* the driver that POST /api/agent/init-project starts
    Resumes,       \* drivers that POST .../resume starts
    Flushes,       \* flushes of a stream that may overlap
    MaxFailures,   \* bound: phases that throw, or fail to write a result
    MaxCrashes     \* bound: deaths of the server

Spine == 2         \* the index of build_spine
Efforts == 3       \* of build_efforts
Relations == 0     \* the relations among efforts, the other result of build_efforts

ASSUME InitProjectAssumption ==
    /\ Phases \in Nat /\ Phases > Spine
    /\ MaxFailures \in Nat /\ MaxCrashes \in Nat /\ First \notin Resumes

Drivers == {First} \cup Resumes
None == "none"

VARIABLES
    status,        \* run.json
    log,           \* phases.jsonl: "phase" lines, "end" for completed and error
    checkpoint,    \* checkpoint.json: the phase it names, 0 when absent
    artifacts,     \* the results on disk: a phase's own has its index
    lost,          \* history: results a swallowed failure or a crash took
    skipped,       \* history: results a resumption went without
    driver,        \* runInitAgentSpine and resumeInitAgent calls
    controller,    \* runControllers.get(runId)
    reaper,        \* reapStaleRuns: idle, or about to flip this run
    stream,        \* one GET .../stream
    failures, crashes

results == <<artifacts, lost, skipped>>
disk == <<status, log, checkpoint, results>>
vars == <<disk, driver, controller, reaper, stream, failures, crashes>>

NoDriver == [pc |-> "idle", phase |-> 0, resumed |-> FALSE, aborted |-> FALSE]
NoStream == [pc |-> "idle", offset |-> 0, seen |-> 0, guard |-> FALSE,
             terminal |-> FALSE, writing |-> [f \in Flushes |-> <<>>]]

Init ==
    /\ status = "running"                       \* createRun
    /\ log = <<>> /\ checkpoint = 0
    /\ artifacts = {} /\ lost = {} /\ skipped = {}
    /\ driver = [d \in Drivers |->
         IF d = First THEN [NoDriver EXCEPT !.pc = "begin", !.phase = 1] ELSE NoDriver]
    /\ controller = First
    /\ reaper = "idle" /\ stream = NoStream
    /\ failures = 0 /\ crashes = 0

-----------------------------------------------------------------------------
(* A driver.                                                               *)

\* The results of a phase, and those of the first n phases.
Yields(p) == {p} \cup (IF p = Efforts THEN {Relations} ELSE {})
Past(n) == (1..n) \cup (IF n >= Efforts THEN {Relations} ELSE {})

\* The results whose files the phase writes over in place, so that a failure
\* may cut what was there: spine_wiki, review_refine and verify write the same
\* pages.  Efforts are replaced by a rename, relations appended.
Pages == (Efforts + 1)..(Efforts + 3)
Overwrites(p) == IF p < Efforts THEN {p} ELSE IF p \in Pages THEN Pages ELSE {}

Goes(d, pc) == driver' = [driver EXCEPT ![d].pc = pc]
Line(kind) == log' = Append(log, kind)

\* bug: the checkpoint is written when the phase begins
Bug_CheckpointFirst(d) ==
    /\ driver[d].pc = "begin"
    /\ Line("phase") /\ checkpoint' = driver[d].phase
    /\ Goes(d, "work")
    /\ UNCHANGED <<status, results, controller, reaper, stream, failures, crashes>>

\* throwIfAborted and the "start" line; a partial resume does not test the signal
PhaseBegins(d) ==
    /\ driver[d].pc = "begin"
    /\ IF driver[d].aborted /\ ~driver[d].resumed
       THEN Goes(d, "failed") /\ UNCHANGED log
       ELSE Goes(d, "work") /\ Line("phase")
    /\ UNCHANGED <<status, checkpoint, results, controller, reaper, stream,
                   failures, crashes>>

\* the phase's results reach the disk, those whose writing fails excepted: the
\* failure is swallowed.  A resumed build_efforts drops the relations.
PhaseWorks(d) ==
    /\ driver[d].pc = "work"
    /\ LET all == Yields(driver[d].phase)
           made == IF driver[d].resumed THEN all \ {Relations} ELSE all
       IN  \E failed \in SUBSET made,
              cut \in SUBSET (artifacts \cap Overwrites(driver[d].phase)):
             /\ \/ failed = {} /\ cut = {} /\ UNCHANGED failures
                \/ failed # {} /\ failures < MaxFailures /\ failures' = failures + 1
             /\ artifacts' = (artifacts \ cut) \cup (made \ failed)
             /\ lost' = (lost \cup failed \cup cut) \ artifacts'
             /\ skipped' = (skipped \cup (all \ made)) \ artifacts'
    /\ Goes(d, "save")
    /\ UNCHANGED <<status, log, checkpoint, controller, reaper, stream, crashes>>

\* a phase throws; build_spine also does so when it sees the signal
PhaseThrows(d) ==
    /\ driver[d].pc = "work"
    /\ \/ failures < MaxFailures /\ failures' = failures + 1
       \/ driver[d].phase = Spine /\ driver[d].aborted /\ UNCHANGED failures
    /\ Goes(d, "failed")
    /\ UNCHANGED <<disk, controller, reaper, stream, crashes>>

\* writeCheckpoint
PhaseSaves(d) ==
    /\ driver[d].pc = "save"
    /\ checkpoint' = driver[d].phase
    /\ Goes(d, "end")
    /\ UNCHANGED <<status, log, results, controller, reaper, stream, failures, crashes>>

\* the "end" line, then the next phase
PhaseEnds(d) ==
    /\ driver[d].pc = "end"
    /\ Line("phase")
    /\ driver' = [driver EXCEPT ![d].pc = IF driver[d].phase = Phases THEN "complete"
                                          ELSE "begin",
                                ![d].phase = @ + 1]
    /\ UNCHANGED <<status, checkpoint, results, controller, reaper, stream,
                   failures, crashes>>

\* the "completed" or the "error" line
LastLine(d) ==
    /\ driver[d].pc \in {"complete", "failed"}
    /\ Line("end")
    /\ Goes(d, IF driver[d].pc = "complete" THEN "finish" ELSE "finishError")
    /\ UNCHANGED <<status, checkpoint, results, controller, reaper, stream,
                   failures, crashes>>

\* finishRun; then `finally` deletes the controller, whoever's it is
Finish(d) ==
    /\ driver[d].pc \in {"finish", "finishError"}
    /\ status' = IF driver[d].pc = "finish" THEN "completed" ELSE "error"
    /\ driver' = [driver EXCEPT ![d] = [NoDriver EXCEPT !.pc = "done"]]
    /\ controller' = None
    /\ UNCHANGED <<log, checkpoint, results, reaper, stream, failures, crashes>>

\* Resumed after the phase `named`: where does the driver begin?
Partial(named) == Spine \in artifacts /\ named >= Spine
From(named) == IF Partial(named) THEN named + 1 ELSE 1

\* POST .../resume: skips the phases up to the checkpoint's, or up to the one
\* that the request names instead (0: no phase of that name), and restarts the
\* whole pipeline when there is no spine to go on from
Resume(d) ==
    /\ d \in Resumes /\ driver[d].pc = "idle"
    /\ checkpoint # 0
    /\ \E named \in 0..Phases:
         /\ driver' = [driver EXCEPT ![d] =
              [pc |-> IF From(named) > Phases THEN "complete" ELSE "begin",
               phase |-> From(named), resumed |-> Partial(named), aborted |-> FALSE]]
         /\ skipped' = skipped \cup
              (Past(From(named) - 1) \ (Past(checkpoint) \cup artifacts))
    /\ controller' = d
    /\ UNCHANGED <<status, log, checkpoint, artifacts, lost, reaper, stream,
                   failures, crashes>>

\* POST .../cancel, answered 202 when there is a controller
Cancel ==
    /\ controller # None /\ ~driver[controller].aborted
    /\ driver' = [driver EXCEPT ![controller].aborted = TRUE]
    /\ UNCHANGED <<disk, controller, reaper, stream, failures, crashes>>

-----------------------------------------------------------------------------
(* The server's death, and the reaper of the next one.                     *)

\* results that were on disk and are being written over may be cut
Crash ==
    /\ LET atWork == {d \in Drivers: driver[d].pc = "work"}
           open == UNION {Overwrites(driver[d].phase): d \in atWork}
       IN  \E cut \in SUBSET (artifacts \cap open):
             artifacts' = artifacts \ cut /\ lost' = lost \cup cut
    /\ crashes < MaxCrashes /\ crashes' = crashes + 1
    /\ driver' = [d \in Drivers |->
         IF driver[d].pc = "idle" THEN NoDriver ELSE [NoDriver EXCEPT !.pc = "done"]]
    /\ controller' = None
    /\ stream' = [NoStream EXCEPT !.pc = "closed"]
    /\ reaper' = "scan"
    /\ UNCHANGED <<status, log, checkpoint, skipped, failures>>

\* the snapshot of running runs
ReaperScans ==
    /\ reaper = "scan"
    /\ reaper' = IF status = "running" THEN "flip" ELSE "idle"
    /\ UNCHANGED <<disk, driver, controller, stream, failures, crashes>>

\* finishRun("error", "stale: ...") of what was in it
ReaperFlips ==
    /\ reaper = "flip"
    /\ status' = "error" /\ reaper' = "idle"
    /\ UNCHANGED <<log, checkpoint, results, driver, controller, stream,
                   failures, crashes>>

-----------------------------------------------------------------------------
(* The stream.  Flushes overlap: each reads what is new, then writes line  *)
(* by line, awaiting every write.                                          *)

Free(f) == stream.writing[f] = <<>>

\* readFile and the new offset
Reads(f, st) ==
    [st EXCEPT !.writing[f] = SubSeq(log, st.offset + 1, Len(log)), !.offset = Len(log)]

\* the first flush, which the handler awaits
Opens ==
    /\ stream.pc = "idle"
    /\ \E f \in Flushes: stream' = [Reads(f, stream) EXCEPT !.pc = "first"]
    /\ UNCHANGED <<disk, driver, controller, reaper, failures, crashes>>

\* bug: no second look at the file once the watcher is armed
Bug_NoGuard ==
    /\ stream.pc = "first" /\ \A f \in Flushes: Free(f)
    /\ stream' = [stream EXCEPT !.pc = IF stream.terminal THEN "closed" ELSE "armed",
                                !.seen = Len(log), !.guard = FALSE]
    /\ UNCHANGED <<disk, driver, controller, reaper, failures, crashes>>

\* watchFile (whose first stat is taken here), and the guard flush to come
Arms ==
    /\ stream.pc = "first" /\ \A f \in Flushes: Free(f)
    /\ stream' = [stream EXCEPT !.pc = IF stream.terminal THEN "closed" ELSE "armed",
                                !.seen = Len(log), !.guard = ~stream.terminal]
    /\ UNCHANGED <<disk, driver, controller, reaper, failures, crashes>>

\* the guard flush, or the one of a change that the watcher noticed
Flush(f) ==
    /\ stream.pc = "armed" /\ Free(f)
    /\ stream.guard \/ stream.seen < Len(log)
    /\ stream' = IF stream.guard THEN [Reads(f, stream) EXCEPT !.guard = FALSE]
                 ELSE [Reads(f, stream) EXCEPT !.seen = Len(log)]
    /\ UNCHANGED <<disk, driver, controller, reaper, failures, crashes>>

\* writeSSE of a line; after the flush's last one, `finish` if any was terminal
Writes(f) ==
    /\ stream.pc \in {"first", "armed"} /\ ~Free(f)
    /\ LET terminal == stream.terminal \/ Head(stream.writing[f]) = "end"
           last == Len(stream.writing[f]) = 1
       IN  stream' = IF terminal /\ last /\ stream.pc = "armed"
                     THEN [NoStream EXCEPT !.pc = "closed"]
                     ELSE [stream EXCEPT !.terminal = terminal,
                                         !.writing[f] = Tail(@)]
    /\ UNCHANGED <<disk, driver, controller, reaper, failures, crashes>>

Next ==
    \/ \E d \in Drivers: \/ PhaseBegins(d) \/ PhaseWorks(d) \/ PhaseThrows(d)
                         \/ PhaseSaves(d) \/ PhaseEnds(d) \/ LastLine(d) \/ Finish(d)
                         \/ Resume(d)
    \/ Cancel \/ Crash \/ ReaperScans \/ ReaperFlips
    \/ Opens \/ Arms \/ \E f \in Flushes: Flush(f) \/ Writes(f)

Spec == Init /\ [][Next]_vars

(***************************************************************************)
(* Fairness: a phase ends or throws (its model calls are retried a bounded *)
(* number of times), files and responses are written, the watcher polls.   *)
(***************************************************************************)
Fairness ==
    /\ \A d \in Drivers:
         WF_vars(PhaseBegins(d) \/ PhaseWorks(d) \/ PhaseSaves(d) \/ PhaseEnds(d)
                 \/ LastLine(d) \/ Finish(d))
    /\ WF_vars(ReaperScans \/ ReaperFlips)
    /\ WF_vars(Arms \/ \E f \in Flushes: Flush(f) \/ Writes(f))

FairSpec == Spec /\ Fairness

-----------------------------------------------------------------------------
TypeOK ==
    /\ status \in {"running", "completed", "error"}
    /\ log \in Seq({"phase", "end"}) /\ checkpoint \in 0..Phases
    /\ artifacts \subseteq 0..Phases /\ lost \subseteq 0..Phases
    /\ skipped \subseteq 0..Phases /\ controller \in Drivers \cup {None}
    /\ stream.offset <= Len(log) /\ reaper \in {"idle", "scan", "flip"}

\* On disk, or accounted for otherwise.
Accounted == artifacts \cup lost \cup skipped

(***************************************************************************)
(* A driver that goes on, a resumed one too, has behind it only results    *)
(* that are on disk, so a completed run has them all: whatever the crash,  *)
(* the failure or the second driver in between.  The exceptions are the    *)
(* code's: a result whose writing failed unnoticed or was cut while it was *)
(* written over (`lost`), one beyond the checkpoint that the request told  *)
(* a resumption to skip, and the relations that a resumed build_efforts    *)
(* drops (`skipped`).  The checkpoint itself is never ahead of the disk.   *)
(***************************************************************************)
ResumeIsSound ==
    /\ \A d \in Drivers:
         driver[d].pc \notin {"idle", "done", "failed", "finishError"} =>
             Past(driver[d].phase - 1) \subseteq Accounted
    /\ Past(checkpoint) \subseteq Accounted
    /\ status = "completed" => Past(Phases) \subseteq Accounted

(***************************************************************************)
(* A stream that is open when the run's last line is written, or opened    *)
(* later, ends: the line is not missed between the first look at the file  *)
(* and the watcher.                                                        *)
(***************************************************************************)
TailEnds ==
    (stream.pc \in {"first", "armed"} /\ "end" \in {log[i]: i \in DOMAIN log})
        ~> stream.pc = "closed"
=============================================================================
