------------------------------- MODULE Plans -------------------------------
(***************************************************************************)
(* A plan: its append-only record (src/src/core/plan/store.ts), the        *)
(* planning run (runner.ts) and the streams that follow it (the plan       *)
(* routes of serve.ts).                                                    *)
(*                                                                         *)
(* The record is a file of lines, each a full snapshot; the last line that *)
(* parses counts.  An operation reads the file and appends, with no lock.  *)
(* A crash may leave the last line torn, without its newline, and the next *)
(* append then continues that line.                                        *)
(***************************************************************************)
EXTENDS Naturals, Sequences, FiniteSets

CONSTANTS
    Clients,       \* accepts and rejects, over HTTP or by the command line
    Streams,       \* GET /api/plans/:planId/stream requests
    MaxTokens,     \* bound: progress frames of the run
    MaxDeaths      \* bound: deaths of the server

Ops == Clients \cup {"run"}     \* the run's own operation is setBody

VARIABLES
    lines,     \* the file: snapshots, and Torn for lines that do not parse
    cut,       \* the last line has no newline
    op,        \* operations between their read and their append
    run,       \* the PlanRun in memory
    stream,    \* the responses
    deaths

plansVars == <<lines, cut, op, run, stream, deaths>>

Draft == [status |-> "draft", body |-> FALSE]
Torn == [status |-> "torn", body |-> FALSE]
NoRun == [pc |-> "none", frames |-> 0, finished |-> FALSE]
NoOp == [pc |-> "idle", copy |-> Draft]

\* readLatest: lines that do not parse are skipped; null is Torn here
Parsed == {i \in DOMAIN lines: lines[i] # Torn}
Latest == IF Parsed = {} THEN Torn
          ELSE lines[CHOOSE i \in Parsed: \A j \in Parsed: j <= i]

PlansInit ==
    /\ lines = <<Draft>> /\ cut = FALSE   \* create() has returned
    /\ op = [o \in Ops |-> NoOp]
    /\ run = NoRun
    /\ stream = [s \in Streams |-> [pc |-> "idle", cursor |-> 0]]
    /\ deaths = 0

-----------------------------------------------------------------------------
(* The store.                                                              *)

SetOp(o, pc, copy) == op' = [op EXCEPT ![o] = [pc |-> pc, copy |-> copy]]

\* appendFile; after a cut line the two run together, and neither parses
WriteRecord(record, newline) ==
    /\ lines' = IF cut THEN [lines EXCEPT ![Len(lines)] = Torn]
                ELSE Append(lines, record)
    /\ cut' = ~newline

\* what operation `o` is about to append
Records(o) ==
    IF o = "run" THEN {[op[o].copy EXCEPT !.body = TRUE]}
    ELSE {[op[o].copy EXCEPT !.status = d]: d \in {"accepted", "rejected"}}

\* requireExisting and the test of the status: what is decided stays so
ClientReads(o) ==
    /\ o \in Clients /\ op[o].pc = "idle"
    /\ SetOp(o, IF Latest.status = "draft" THEN "read" ELSE "done", Latest)
    /\ UNCHANGED <<lines, cut, run, stream, deaths>>

\* acceptDraft, accept, reject
ClientWrites(o) ==
    /\ o \in Clients /\ op[o].pc = "read"
    /\ \E record \in Records(o): WriteRecord(record, TRUE)
    /\ SetOp(o, "done", op[o].copy)
    /\ UNCHANGED <<run, stream, deaths>>

-----------------------------------------------------------------------------
(* The run.  push() wakes whoever waits, before anything else happens.     *)

\* bug: a frame is pushed without waking the waiters
Bug_NoWake == stream

Woken == [s \in Streams |-> IF stream[s].pc = "waiting"
                            THEN [stream[s] EXCEPT !.pc = "ready"] ELSE stream[s]]

\* POST /api/plans and autoRunPlan: the run enters planRuns, once
StartRun ==
    /\ run.pc = "none" /\ deaths = 0
    /\ run' = [NoRun EXCEPT !.pc = "asking"]
    /\ UNCHANGED <<lines, cut, op, stream, deaths>>

\* a token or a step of the session
RunFrame ==
    /\ run.pc = "asking" /\ run.frames < MaxTokens
    /\ run' = [run EXCEPT !.frames = @ + 1]
    /\ stream' = Woken
    /\ UNCHANGED <<lines, cut, op, deaths>>

\* the turns are over: setBody reads the record
RunReads ==
    /\ run.pc = "asking"
    /\ run' = [run EXCEPT !.pc = "saving"]
    /\ SetOp("run", "read", Latest)
    /\ UNCHANGED <<lines, cut, stream, deaths>>

\* setBody appends what it read, with the body; then the done frame
RunDone ==
    /\ run.pc = "saving"
    /\ \E record \in Records("run"): WriteRecord(record, TRUE)
    /\ SetOp("run", "done", Draft)
    /\ run' = [run EXCEPT !.pc = "ended", !.frames = @ + 1]
    /\ stream' = Woken
    /\ UNCHANGED deaths

\* the provider or the disk fails: the error frame
RunFails ==
    /\ run.pc \in {"asking", "saving"}
    /\ SetOp("run", "done", Draft)
    /\ run' = [run EXCEPT !.pc = "ended", !.frames = @ + 1]
    /\ stream' = Woken
    /\ UNCHANGED <<lines, cut, deaths>>

\* `finally`, a few microtasks later
RunFinished ==
    /\ run.pc = "ended" /\ ~run.finished
    /\ run' = [run EXCEPT !.finished = TRUE]
    /\ stream' = Woken
    /\ UNCHANGED <<lines, cut, op, deaths>>

-----------------------------------------------------------------------------
(* A stream's loop: at most one write per step.                            *)

Connect(s) ==
    /\ stream[s].pc = "idle" /\ run.pc # "none"
    /\ stream' = [stream EXCEPT ![s].pc = "ready"]
    /\ UNCHANGED <<lines, cut, op, run, deaths>>

\* bug: the stream looks at `finished` before it has drained the buffer
Bug_FinishedFirst(s) ==
    /\ stream[s].pc = "ready"
    /\ \/ run.finished /\ stream' = [stream EXCEPT ![s].pc = "closed"]
       \/ /\ stream[s].cursor < run.frames /\ ~run.finished
          /\ stream' = [stream EXCEPT ![s].cursor = @ + 1]
       \/ /\ stream[s].cursor >= run.frames /\ ~run.finished
          /\ stream' = [stream EXCEPT ![s].pc = "waiting"]
    /\ UNCHANGED <<lines, cut, op, run, deaths>>

Drain(s) ==
    /\ stream[s].pc = "ready"
    /\ \/ /\ stream[s].cursor < run.frames
          /\ stream' = [stream EXCEPT ![s].cursor = @ + 1]
       \/ /\ stream[s].cursor >= run.frames /\ run.finished
          /\ stream' = [stream EXCEPT ![s].pc = "closed"]
       \/ /\ stream[s].cursor >= run.frames /\ ~run.finished
          /\ stream' = [stream EXCEPT ![s].pc = "waiting"]
    /\ UNCHANGED <<lines, cut, op, run, deaths>>

-----------------------------------------------------------------------------
\* The server dies, perhaps in the middle of an append: a part of the line is
\* there, or all of it but the newline.  What was in memory is gone.
PlanServerDies ==
    /\ deaths < MaxDeaths /\ deaths' = deaths + 1
    /\ \/ UNCHANGED <<lines, cut>>
       \/ \E o \in Ops:
             /\ op[o].pc = "read"
             /\ \E part \in {Torn} \cup Records(o): WriteRecord(part, FALSE)
    /\ op' = [o \in Ops |-> IF op[o].pc = "read" THEN [op[o] EXCEPT !.pc = "done"]
                            ELSE op[o]]
    /\ run' = NoRun
    /\ stream' = [s \in Streams |-> [stream[s] EXCEPT !.pc = "closed"]]

PlansNext ==
    \/ \E o \in Clients:
          \/ ClientReads(o)
          \/ ClientWrites(o)
    \/ StartRun \/ RunFrame \/ RunReads \/ RunDone \/ RunFails \/ RunFinished
    \/ \E s \in Streams: Connect(s) \/ Drain(s)
    \/ PlanServerDies

PlansSpec == PlansInit /\ [][PlansNext]_plansVars

(***************************************************************************)
(* Fairness: the planning session answers or fails (its turns and its tool *)
(* rounds are capped, runner.ts:160 and 205), files and responses are written.     *)
(***************************************************************************)
PlansFairness ==
    /\ WF_plansVars(RunReads \/ RunDone \/ RunFails) /\ WF_plansVars(RunFinished)
    /\ \A s \in Streams: WF_plansVars(Drain(s))

PlansFairSpec == PlansSpec /\ PlansFairness

-----------------------------------------------------------------------------
Snapshot == [status: {"draft", "accepted", "rejected"}, body: BOOLEAN]

PlansTypeOK ==
    /\ lines \in Seq(Snapshot \cup {Torn}) /\ cut \in BOOLEAN
    /\ op \in [Ops -> [pc: {"idle", "read", "done"}, copy: Snapshot]]
    /\ run \in [pc: {"none", "asking", "saving", "ended"}, frames: Nat, finished: BOOLEAN]
    /\ stream \in [Streams -> [pc: {"idle", "ready", "waiting", "closed"}, cursor: Nat]]
    /\ deaths \in Nat

(***************************************************************************)
(* A plan that was created can be read ever after: what a crash tears, and *)
(* what the next append spoils with it, is never the only record.          *)
(***************************************************************************)
PlanIsReadable == Latest # Torn

(***************************************************************************)
(* Until the server dies: a stream that waits has sent every frame there   *)
(* is and the run has not ended behind its back, so the next push wakes    *)
(* it; a stream that closed has sent every frame of a run that is over.    *)
(***************************************************************************)
NoFrameIsMissed ==
    deaths = 0 =>
        \A s \in Streams:
            /\ stream[s].pc = "waiting" => stream[s].cursor = run.frames /\ ~run.finished
            /\ stream[s].pc = "closed" => stream[s].cursor = run.frames /\ run.finished

(***************************************************************************)
(* A stream that found the run, early or late, gets every frame of it and  *)
(* ends: no frame is pushed between its look at the buffer and its wait.   *)
(***************************************************************************)
PlanStreamsComplete ==
    \A s \in Streams:
        (stream[s].pc = "ready") ~>
            \/ stream[s].pc = "closed" /\ stream[s].cursor = run.frames
            \/ deaths > 0
=============================================================================
