--------------------------- MODULE Services_proofs ---------------------------
(***************************************************************************)
(* What runs beside conversations: the init-project agent, InitProject;    *)
(* the registry of MCP servers, McpRegistry (in the second part);          *)
(* subagents, Subagents (in the third).                                    *)
(*                                                                         *)
(* Type correctness and ResumeIsSound of InitProject hold for any number   *)
(* of phases, drivers, flushes, failures and crashes.                      *)
(*                                                                         *)
(* ResumeIsSound is not inductive: a resume trusts the checkpoint, a       *)
(* driver trusts the phase it has just worked on, and the checkpoint is    *)
(* shared by all the drivers of the run.  The invariant says of each what  *)
(* it vouches for; what is on disk, lost or skipped stays one of these.    *)
(***************************************************************************)
EXTENDS InitProject, McpRegistry, Subagents, FiniteSetTheorems, TLAPS

Stages == {"idle", "begin", "work", "save", "end", "complete", "failed",
           "finish", "finishError", "done"}

DriverRecords == [pc: Stages, phase: 0..(Phases + 1), resumed: BOOLEAN, aborted: BOOLEAN]

DriverType == driver \in [Drivers -> DriverRecords]

StreamRecords == [pc: {"idle", "first", "armed", "closed"}, offset: Nat, seen: Nat,
                  guard: BOOLEAN, terminal: BOOLEAN,
                  writing: [Flushes -> Seq({"phase", "end"})]]

StreamType ==
    /\ stream \in StreamRecords
    /\ stream.offset <= Len(log)

\* What a driver vouches for by where it stands.
Vouches(d) ==
    LET n == driver[d].phase
    IN  /\ driver[d].pc \in {"begin", "work", "save", "end"} =>
              n \in 1..Phases /\ Past(n - 1) \subseteq Accounted
        /\ driver[d].pc \in {"save", "end"} => Past(n) \subseteq Accounted
        /\ driver[d].pc \in {"complete", "finish"} =>
              n = Phases + 1 /\ Past(Phases) \subseteq Accounted

\* The checkpoint and the status are never ahead of the results.
DiskIsSound ==
    /\ Past(checkpoint) \subseteq Accounted
    /\ status = "completed" => Past(Phases) \subseteq Accounted

Inv == TypeOK /\ DriverType /\ StreamType /\ DiskIsSound /\ \A d \in Drivers: Vouches(d)

-----------------------------------------------------------------------------
LEMMA AppendLine ==
    ASSUME NEW s \in Seq({"phase", "end"}), NEW x \in {"phase", "end"}
    PROVE  Append(s, x) \in Seq({"phase", "end"}) /\ Len(Append(s, x)) = Len(s) + 1
OBVIOUS

LEMMA SubSeqType ==
    ASSUME NEW s \in Seq({"phase", "end"}), NEW m \in Nat
    PROVE  SubSeq(s, m + 1, Len(s)) \in Seq({"phase", "end"})
OBVIOUS

LEMMA StreamMoves ==
    ASSUME NEW st \in StreamRecords, NEW stage \in {"idle", "first", "armed", "closed"}
    PROVE  /\ [st EXCEPT !.pc = stage] \in StreamRecords
           /\ [st EXCEPT !.pc = stage].offset = st.offset
BY DEF StreamRecords

LEMMA NoStreamType == NoStream \in StreamRecords /\ NoStream.offset = 0
<1>1. [f \in Flushes |-> <<>>] \in [Flushes -> Seq({"phase", "end"})]
    OBVIOUS
<1> QED
    BY <1>1 DEF NoStream, StreamRecords

LEMMA ClosedType ==
    /\ [NoStream EXCEPT !.pc = "closed"] \in StreamRecords
    /\ [NoStream EXCEPT !.pc = "closed"].offset = 0
<1> DEFINE n == NoStream
<1>1. n \in StreamRecords /\ n.offset = 0
    BY NoStreamType
<1> HIDE DEF n
<1>2. [n EXCEPT !.pc = "closed"] \in StreamRecords /\ [n EXCEPT !.pc = "closed"].offset = 0
    BY <1>1, StreamMoves
<1> QED
    BY <1>2 DEF n

LEMMA StreamLooks ==
    ASSUME NEW st \in StreamRecords, NEW k \in Nat
    PROVE  /\ [st EXCEPT !.guard = FALSE] \in StreamRecords
           /\ [st EXCEPT !.guard = FALSE].offset = st.offset
           /\ [st EXCEPT !.seen = k] \in StreamRecords
           /\ [st EXCEPT !.seen = k].offset = st.offset
BY DEF StreamRecords

\* A driver that has not begun, one that has ended, and one that starts.
LEMMA DriverStarts ==
    /\ NoDriver \in DriverRecords
    /\ [NoDriver EXCEPT !.pc = "done"] \in DriverRecords
    /\ [NoDriver EXCEPT !.pc = "done"].pc = "done" /\ NoDriver.pc = "idle"
    /\ [NoDriver EXCEPT !.pc = "begin", !.phase = 1] \in DriverRecords
    /\ [NoDriver EXCEPT !.pc = "begin", !.phase = 1].pc = "begin"
    /\ [NoDriver EXCEPT !.pc = "begin", !.phase = 1].phase = 1
<1>1. 0 \in 0..(Phases + 1) /\ 1 \in 0..(Phases + 1)
    BY InitProjectAssumption DEF Spine
<1> DEFINE n == NoDriver
<1>2. n \in DriverRecords /\ n.pc = "idle"
    BY <1>1 DEF NoDriver, DriverRecords, Stages
<1> HIDE DEF n
<1>3. [n EXCEPT !.pc = "done"] \in DriverRecords /\ [n EXCEPT !.pc = "done"].pc = "done"
    BY <1>2 DEF DriverRecords, Stages
<1>4. /\ [n EXCEPT !.pc = "begin", !.phase = 1] \in DriverRecords
      /\ [n EXCEPT !.pc = "begin", !.phase = 1].pc = "begin"
      /\ [n EXCEPT !.pc = "begin", !.phase = 1].phase = 1
    BY <1>1, <1>2 DEF DriverRecords, Stages
<1> QED
    BY <1>2, <1>3, <1>4 DEF n

\* A flush that reads keeps the stream typed and is at the end of the file.
LEMMA ReadsType ==
    ASSUME NEW f \in Flushes, TypeOK, StreamType
    PROVE  /\ Reads(f, stream) \in StreamRecords
           /\ Reads(f, stream).offset = Len(log)
<1>1. log \in Seq({"phase", "end"}) /\ Len(log) \in Nat
    BY DEF TypeOK
<1>2. SubSeq(log, stream.offset + 1, Len(log)) \in Seq({"phase", "end"})
    BY <1>1, SubSeqType DEF StreamType, StreamRecords
<1> QED
    BY <1>1, <1>2 DEF StreamType, StreamRecords, Reads

LEMMA InitInv == Init => Inv
<1> SUFFICES ASSUME Init PROVE Inv
    OBVIOUS
<1> USE InitProjectAssumption
<1>1. TypeOK
    BY NoStreamType DEF Init, TypeOK, Drivers
<1>2. DriverType
    BY DriverStarts DEF Init, DriverType, Drivers
<1>3. StreamType
    BY NoStreamType DEF Init, StreamType
<1>4. DiskIsSound
    BY DEF Init, DiskIsSound, Past, Efforts
<1>5. ASSUME NEW d \in Drivers PROVE Vouches(d)
  <2>1. CASE d = First
    <3>1. driver[d].pc = "begin" /\ driver[d].phase = 1
        BY <2>1, DriverStarts DEF Init
    <3> QED
        BY <3>1 DEF Vouches, Spine, Past, Efforts
  <2>2. CASE d # First
    <3>1. driver[d].pc = "idle"
        BY <2>2, DriverStarts DEF Init
    <3> QED
        BY <3>1 DEF Vouches
  <2> QED
      BY <2>1, <2>2
<1> QED
    BY <1>1, <1>2, <1>3, <1>4, <1>5 DEF Inv

-----------------------------------------------------------------------------
(* The stream.                                                             *)

LEMMA StreamStep ==
    ASSUME TypeOK, StreamType, [Next]_vars
    PROVE  StreamType'
<1>1. log \in Seq({"phase", "end"}) /\ Len(log) \in Nat /\ stream.offset \in Nat
    BY DEF TypeOK, StreamType, StreamRecords
<1>2. ASSUME UNCHANGED stream,
             log' = log \/ \E x \in {"phase", "end"}: log' = Append(log, x)
      PROVE  StreamType'
    BY <1>1, <1>2, AppendLine DEF StreamType
<1>3. ASSUME NEW d \in Drivers,
             \/ PhaseBegins(d) \/ PhaseWorks(d) \/ PhaseThrows(d) \/ PhaseSaves(d)
             \/ PhaseEnds(d) \/ LastLine(d) \/ Finish(d) \/ Resume(d)
      PROVE  StreamType'
  <2>1. UNCHANGED stream
      BY <1>3 DEF PhaseBegins, PhaseWorks, PhaseThrows, PhaseSaves, PhaseEnds,
                  LastLine, Finish, Resume
  <2>2. log' = log \/ \E x \in {"phase", "end"}: log' = Append(log, x)
      BY <1>3 DEF PhaseBegins, PhaseWorks, PhaseThrows, PhaseSaves, PhaseEnds,
                  LastLine, Finish, Resume, Line, disk
  <2> QED
      BY <1>2, <2>1, <2>2
<1>4. CASE Cancel \/ ReaperScans \/ ReaperFlips \/ UNCHANGED vars
    BY <1>4, <1>2 DEF Cancel, ReaperScans, ReaperFlips, vars, disk
<1>5. CASE Crash
  <2>1. stream' = [NoStream EXCEPT !.pc = "closed"] /\ log' = log
      BY <1>5 DEF Crash, disk
  <2> QED
      BY <1>1, <2>1, ClosedType DEF StreamType
<1>6. CASE Opens
  <2>1. PICK f \in Flushes: stream' = [Reads(f, stream) EXCEPT !.pc = "first"]
      BY <1>6 DEF Opens
  <2>2. log' = log
      BY <1>6 DEF Opens, disk
  <2> DEFINE r == Reads(f, stream)
  <2>3. r \in StreamRecords /\ r.offset = Len(log)
      BY ReadsType
  <2>4. stream' = [r EXCEPT !.pc = "first"]
      BY <2>1
  <2> HIDE DEF r
  <2>5. stream' \in StreamRecords /\ stream'.offset = r.offset
      BY <2>3, <2>4, StreamMoves
  <2> QED
      BY <1>1, <2>2, <2>3, <2>5 DEF StreamType
<1>7. CASE Arms
    BY <1>7, <1>1 DEF Arms, StreamType, StreamRecords, disk
<1>8. ASSUME NEW f \in Flushes, Flush(f) PROVE StreamType'
  <2> DEFINE r == Reads(f, stream)
  <2>1. r \in StreamRecords /\ r.offset = Len(log) /\ log' = log
      BY <1>8, ReadsType DEF Flush, disk
  <2>2. stream' = [r EXCEPT !.guard = FALSE] \/ stream' = [r EXCEPT !.seen = Len(log)]
      BY <1>8 DEF Flush
  <2> HIDE DEF r
  <2>3. stream' \in StreamRecords /\ stream'.offset = r.offset
      BY <1>1, <2>1, <2>2, StreamLooks
  <2> QED
      BY <1>1, <2>1, <2>3 DEF StreamType
<1>9. ASSUME NEW f \in Flushes, Writes(f) PROVE StreamType'
  <2>1. stream.writing[f] \in Seq({"phase", "end"}) /\ stream.writing[f] # <<>>
      BY <1>9 DEF Writes, Free, StreamType, StreamRecords
  <2>2. Tail(stream.writing[f]) \in Seq({"phase", "end"})
      BY <2>1
  <2>3. log' = log
      BY <1>9 DEF Writes, disk
  <2>4. \/ stream' = [NoStream EXCEPT !.pc = "closed"]
        \/ \E t \in BOOLEAN:
              stream' = [stream EXCEPT !.terminal = t,
                                       !.writing[f] = Tail(stream.writing[f])]
    <3> DEFINE t == stream.terminal \/ Head(stream.writing[f]) = "end"
    <3>1. t \in BOOLEAN
        BY DEF StreamType, StreamRecords
    <3> QED
        BY <1>9, <3>1 DEF Writes
  <2>5. CASE stream' = [NoStream EXCEPT !.pc = "closed"]
      BY <1>1, <2>3, <2>5, ClosedType DEF StreamType
  <2>6. ASSUME NEW t \in BOOLEAN,
               stream' = [stream EXCEPT !.terminal = t,
                                        !.writing[f] = Tail(stream.writing[f])]
        PROVE  StreamType'
      BY <1>1, <2>2, <2>3, <2>6 DEF StreamType, StreamRecords
  <2> QED
      BY <2>4, <2>5, <2>6
<1> QED
    BY <1>3, <1>4, <1>5, <1>6, <1>7, <1>8, <1>9 DEF Next

-----------------------------------------------------------------------------
(* The drivers.                                                            *)

LEMMA StepType ==
    ASSUME TypeOK, DriverType, StreamType, DiskIsSound, \A d \in Drivers: Vouches(d),
           [Next]_vars
    PROVE  TypeOK' /\ DriverType'
<1> USE InitProjectAssumption DEF Spine
<1>1. log' \in Seq({"phase", "end"}) /\ stream'.offset <= Len(log')
  <2>1. stream'.offset <= Len(log')
      BY StreamStep DEF StreamType
  <2>2. log' = log \/ \E x \in {"phase", "end"}: log' = Append(log, x)
      BY DEF Next, PhaseBegins, PhaseWorks, PhaseThrows, PhaseSaves, PhaseEnds, LastLine,
             Finish, Resume, Line, Cancel, Crash, ReaperScans, ReaperFlips, Opens, Arms,
             Flush, Writes, disk, vars
  <2> QED
      BY <2>1, <2>2, AppendLine DEF TypeOK
<1>2. ASSUME NEW d \in Drivers,
             \/ PhaseBegins(d) \/ PhaseWorks(d) \/ PhaseThrows(d) \/ PhaseSaves(d)
             \/ PhaseEnds(d) \/ LastLine(d) \/ Finish(d) \/ Resume(d)
      PROVE  TypeOK' /\ DriverType'
  <2>1. driver[d].phase \in 0..(Phases + 1)
      BY DEF DriverType, DriverRecords
  <2>2. driver[d].pc \in {"begin", "work", "save", "end"} => driver[d].phase \in 1..Phases
      BY DEF Vouches
  <2>3. DriverType'
    <3>1. CASE PhaseBegins(d) \/ PhaseWorks(d) \/ PhaseThrows(d) \/ PhaseSaves(d) \/ LastLine(d)
      <4>1. PICK stage \in Stages: driver' = [driver EXCEPT ![d].pc = stage]
          BY <3>1 DEF PhaseBegins, PhaseWorks, PhaseThrows, PhaseSaves, LastLine, Goes, Stages
      <4> QED
          BY <4>1 DEF DriverType, DriverRecords
    <3>2. CASE PhaseEnds(d)
        BY <3>2, <2>2 DEF PhaseEnds, DriverType, DriverRecords, Stages
    <3>3. CASE Finish(d)
        BY <3>3, DriverStarts DEF Finish, DriverType
    <3>4. CASE Resume(d)
      <4>1. PICK named \in 0..Phases:
              driver' = [driver EXCEPT ![d] =
                [pc |-> IF From(named) > Phases THEN "complete" ELSE "begin",
                 phase |-> From(named), resumed |-> Partial(named), aborted |-> FALSE]]
          BY <3>4 DEF Resume
      <4>2. From(named) \in 0..(Phases + 1) /\ Partial(named) \in BOOLEAN
          BY DEF From, Partial
      <4> QED
          BY <4>1, <4>2 DEF DriverType, DriverRecords, Stages
    <3> QED
        BY <1>2, <3>1, <3>2, <3>3, <3>4
  <2>4. status' \in {"running", "completed", "error"} /\ checkpoint' \in 0..Phases
    <3>1. CASE PhaseSaves(d)
        BY <3>1, <2>2 DEF PhaseSaves, TypeOK
    <3>2. CASE Finish(d)
        BY <3>2 DEF Finish, TypeOK
    <3> QED
        BY <1>2, <3>1, <3>2 DEF PhaseBegins, PhaseWorks, PhaseThrows, PhaseEnds, LastLine,
                                Resume, TypeOK, disk
  <2>5. /\ artifacts' \subseteq 0..Phases /\ lost' \subseteq 0..Phases
        /\ skipped' \subseteq 0..Phases
    <3>1. CASE PhaseWorks(d)
      <4>1. PICK made, failed, cut:
              /\ made \subseteq Yields(driver[d].phase) /\ failed \subseteq made
              /\ cut \subseteq artifacts
              /\ artifacts' = (artifacts \ cut) \cup (made \ failed)
              /\ lost' = (lost \cup failed \cup cut) \ artifacts'
              /\ skipped' = (skipped \cup (Yields(driver[d].phase) \ made)) \ artifacts'
          BY <3>1 DEF PhaseWorks
      <4>2. Yields(driver[d].phase) \subseteq 0..Phases
          BY <2>2, <3>1 DEF PhaseWorks, Yields, Relations
      <4> QED
          BY <4>1, <4>2 DEF TypeOK
    <3>2. CASE Resume(d)
      <4>1. PICK named \in 0..Phases:
              skipped' \subseteq skipped \cup Past(From(named) - 1)
          BY <3>2 DEF Resume
      <4>2. \A k \in 0..Phases: Past(k) \subseteq 0..Phases
          BY DEF Past, Relations
      <4>3. From(named) - 1 \in 0..Phases
          BY DEF From
      <4> QED
          BY <3>2, <4>1, <4>2, <4>3 DEF Resume, TypeOK
    <3> QED
        BY <1>2, <3>1, <3>2 DEF PhaseBegins, PhaseThrows, PhaseSaves, PhaseEnds,
                                LastLine, Finish, TypeOK, disk, results
  <2>6. controller' \in Drivers \cup {None} /\ reaper' = reaper
      BY <1>2 DEF PhaseBegins, PhaseWorks, PhaseThrows, PhaseSaves, PhaseEnds,
                  LastLine, Finish, Resume, TypeOK, disk
  <2> QED
      BY <1>1, <2>3, <2>4, <2>5, <2>6 DEF TypeOK
<1>3. CASE Cancel
    BY <1>1, <1>3 DEF Cancel, TypeOK, DriverType, DriverRecords, disk, results
<1>4. CASE Crash
  <2>1. DriverType'
      BY <1>4, DriverStarts DEF Crash, DriverType
  <2>2. artifacts' \subseteq artifacts /\ lost' \subseteq lost \cup artifacts
      BY <1>4 DEF Crash
  <2> QED
      BY <1>1, <1>4, <2>1, <2>2 DEF Crash, TypeOK
<1>5. CASE ReaperScans \/ ReaperFlips
    BY <1>1, <1>5 DEF ReaperScans, ReaperFlips, TypeOK, DriverType, DriverRecords, disk, results
<1>6. CASE \/ Opens \/ Arms \/ UNCHANGED vars
           \/ \E f \in Flushes: Flush(f) \/ Writes(f)
    BY <1>1, <1>6 DEF Opens, Arms, Flush, Writes, TypeOK, DriverType, DriverRecords, disk, results, vars
<1> QED
    BY <1>2, <1>3, <1>4, <1>5, <1>6 DEF Next

-----------------------------------------------------------------------------
(* What is vouched for.                                                    *)

\* The first phases and their results.
LEMMA PastStep ==
    ASSUME NEW n \in 1..Phases
    PROVE  Past(n) = Past(n - 1) \cup Yields(n)
BY DEF Past, Yields, Efforts, Relations

\* A result that is on disk, lost or skipped remains one of these.
LEMMA StaysAccounted ==
    ASSUME [Next]_vars
    PROVE  Accounted \subseteq Accounted'
<1>1. ASSUME NEW d \in Drivers, PhaseWorks(d) PROVE Accounted \subseteq Accounted'
  <2>1. PICK made, failed, cut:
          /\ artifacts' = (artifacts \ cut) \cup (made \ failed)
          /\ lost' = (lost \cup failed \cup cut) \ artifacts'
          /\ skipped \ artifacts' \subseteq skipped'
      BY <1>1, Zenon DEF PhaseWorks
  <2> QED
      BY <2>1 DEF Accounted
<1>2. ASSUME NEW d \in Drivers, Resume(d) PROVE Accounted \subseteq Accounted'
    BY <1>2 DEF Resume, Accounted
<1>3. CASE Crash
    BY <1>3 DEF Crash, Accounted
<1> QED
    BY <1>1, <1>2, <1>3
    DEF Next, PhaseBegins, PhaseThrows, PhaseSaves, PhaseEnds, LastLine, Finish, Cancel,
        ReaperScans, ReaperFlips, Opens, Arms, Flush, Writes, Accounted, disk, results, vars

\* Nobody vouches for less than before.
LEMMA OthersVouch ==
    ASSUME NEW d \in Drivers, Vouches(d), Accounted \subseteq Accounted',
           driver'[d].pc = driver[d].pc, driver'[d].phase = driver[d].phase
    PROVE  Vouches(d)'
BY DEF Vouches

LEMMA StepVouches ==
    ASSUME TypeOK, DriverType, DiskIsSound, \A d \in Drivers: Vouches(d), [Next]_vars
    PROVE  DiskIsSound' /\ \A d \in Drivers: Vouches(d)'
<1> USE InitProjectAssumption DEF Spine
<1>1. Accounted \subseteq Accounted'
    BY StaysAccounted
<1>2. ASSUME UNCHANGED <<checkpoint, status>> PROVE DiskIsSound'
    BY <1>1, <1>2 DEF DiskIsSound
<1>3. ASSUME NEW d \in Drivers,
             \/ PhaseBegins(d) \/ PhaseWorks(d) \/ PhaseThrows(d) \/ PhaseSaves(d)
             \/ PhaseEnds(d) \/ LastLine(d) \/ Finish(d) \/ Resume(d)
      PROVE  DiskIsSound' /\ \A e \in Drivers: Vouches(e)'
  <2>1. driver[d].phase \in Nat /\ Vouches(d)
      BY DEF DriverType, DriverRecords
  <2>2. ASSUME NEW e \in Drivers, e # d PROVE Vouches(e)'
    <3>1. driver'[e] = driver[e]
        BY <1>3, <2>2 DEF PhaseBegins, PhaseWorks, PhaseThrows, PhaseSaves, PhaseEnds,
                          LastLine, Finish, Resume, Goes, DriverType
    <3> QED
        BY <1>1, <3>1, OthersVouch
  <2>3. CASE PhaseBegins(d) \/ PhaseThrows(d) \/ LastLine(d)
    <3>1. Vouches(d)'
        BY <1>1, <2>1, <2>3 DEF PhaseBegins, PhaseThrows, LastLine, Goes, Vouches, DriverType, DriverRecords
    <3>2. UNCHANGED <<checkpoint, status>>
        BY <2>3 DEF PhaseBegins, PhaseThrows, LastLine, disk
    <3> QED
        BY <1>2, <2>2, <3>1, <3>2
  <2>4. CASE PhaseWorks(d)
    <3> DEFINE n == driver[d].phase
    <3>1. n \in 1..Phases /\ Past(n - 1) \subseteq Accounted
        BY <2>1, <2>4 DEF PhaseWorks, Vouches
    <3>2. Yields(n) \subseteq Accounted'
      <4>1. PICK made, failed, cut:
              /\ made \subseteq Yields(n) /\ failed \subseteq made
              /\ artifacts' = (artifacts \ cut) \cup (made \ failed)
              /\ lost' = (lost \cup failed \cup cut) \ artifacts'
              /\ skipped' = (skipped \cup (Yields(n) \ made)) \ artifacts'
          BY <2>4 DEF PhaseWorks
      <4> QED
          BY <4>1 DEF Accounted
    <3>3. Past(n) \subseteq Accounted'
        BY <1>1, <3>1, <3>2, PastStep
    <3>4. driver'[d].pc = "save" /\ driver'[d].phase = n
        BY <2>4 DEF PhaseWorks, Goes, DriverType, DriverRecords
    <3> HIDE DEF n
    <3>5. Vouches(d)'
        BY <1>1, <3>1, <3>3, <3>4 DEF Vouches
    <3>6. UNCHANGED <<checkpoint, status>>
        BY <2>4 DEF PhaseWorks
    <3> QED
        BY <1>2, <2>2, <3>5, <3>6
  <2>5. CASE PhaseSaves(d)
    <3>1. Past(driver[d].phase) \subseteq Accounted
        BY <2>1, <2>5 DEF PhaseSaves, Vouches
    <3>2. checkpoint' = driver[d].phase /\ status' = status
        BY <2>5 DEF PhaseSaves
    <3>3. DiskIsSound'
        BY <1>1, <3>1, <3>2 DEF DiskIsSound
    <3>4. Vouches(d)'
        BY <1>1, <2>1, <2>5 DEF PhaseSaves, Goes, Vouches, DriverType, DriverRecords
    <3> QED
        BY <2>2, <3>3, <3>4
  <2>6. CASE PhaseEnds(d)
    <3>1. Past(driver[d].phase) \subseteq Accounted /\ driver[d].phase \in 1..Phases
        BY <2>1, <2>6 DEF PhaseEnds, Vouches
    <3>2. driver'[d].phase = driver[d].phase + 1
          /\ driver'[d].pc = IF driver[d].phase = Phases THEN "complete" ELSE "begin"
        BY <2>6 DEF PhaseEnds, DriverType, DriverRecords
    <3>3. Vouches(d)'
        BY <1>1, <3>1, <3>2 DEF Vouches
    <3>4. UNCHANGED <<checkpoint, status>>
        BY <2>6 DEF PhaseEnds
    <3> QED
        BY <1>2, <2>2, <3>3, <3>4
  <2>7. CASE Finish(d)
    <3>1. DiskIsSound'
        BY <1>1, <2>1, <2>7 DEF Finish, DiskIsSound, Vouches
    <3>2. driver'[d].pc = "done"
        BY <2>7 DEF Finish, DriverType, DriverRecords, NoDriver
    <3>3. Vouches(d)'
        BY <3>2 DEF Vouches
    <3> QED
        BY <2>2, <3>1, <3>3
  <2>8. CASE Resume(d)
    <3>1. PICK named \in 0..Phases:
            /\ driver' = [driver EXCEPT ![d] =
                 [pc |-> IF From(named) > Phases THEN "complete" ELSE "begin",
                  phase |-> From(named), resumed |-> Partial(named), aborted |-> FALSE]]
            /\ skipped' = skipped \cup
                 (Past(From(named) - 1) \ (Past(checkpoint) \cup artifacts))
        BY <2>8 DEF Resume
    <3>2. PICK from \in 1..(Phases + 1): from = From(named)
        BY DEF From
    <3>3. /\ driver'[d].pc = (IF from > Phases THEN "complete" ELSE "begin")
          /\ driver'[d].phase = from
        BY <3>1, <3>2 DEF DriverType, DriverRecords
    <3>4. Past(from - 1) \subseteq Accounted'
      <4>1. /\ skipped' = skipped \cup (Past(from - 1) \ (Past(checkpoint) \cup artifacts))
            /\ artifacts' = artifacts
          BY <2>8, <3>1, <3>2 DEF Resume
      <4> QED
          BY <1>1, <4>1 DEF Accounted, DiskIsSound
    <3>5. CASE from = Phases + 1
      <4>1. driver'[d].pc = "complete" /\ from - 1 = Phases
          BY <3>3, <3>5
      <4> QED
          BY <3>3, <3>4, <3>5, <4>1, <2>2, <1>2, <2>8 DEF Vouches, Resume
    <3>6. CASE from # Phases + 1
      <4>1. driver'[d].pc = "begin" /\ from \in 1..Phases
          BY <3>2, <3>3, <3>6
      <4> QED
          BY <3>3, <3>4, <4>1, <2>2, <1>2, <2>8 DEF Vouches, Resume
    <3> QED
        BY <3>5, <3>6
  <2> QED
      BY <1>3, <2>3, <2>4, <2>5, <2>6, <2>7, <2>8
<1>4. CASE Cancel
  <2>1. UNCHANGED <<checkpoint, status>>
      BY <1>4 DEF Cancel, disk
  <2>2. ASSUME NEW d \in Drivers PROVE Vouches(d)'
    <3>1. driver'[d].pc = driver[d].pc /\ driver'[d].phase = driver[d].phase
        BY <1>4 DEF Cancel, DriverType, DriverRecords, TypeOK
    <3> QED
        BY <1>1, <3>1, OthersVouch
  <2> QED
      BY <1>2, <2>1, <2>2
<1>5. CASE Crash
  <2>1. UNCHANGED <<checkpoint, status>>
      BY <1>5 DEF Crash, disk
  <2>2. ASSUME NEW d \in Drivers PROVE Vouches(d)'
    <3>1. driver'[d].pc \in {"idle", "done"}
        BY <1>5 DEF Crash, NoDriver
    <3> QED
        BY <3>1 DEF Vouches
  <2> QED
      BY <1>2, <2>1, <2>2
<1>6. CASE ReaperFlips
  <2>1. DiskIsSound'
      BY <1>1, <1>6 DEF ReaperFlips, DiskIsSound
  <2> QED
      BY <1>1, <1>6, <2>1, OthersVouch DEF ReaperFlips
<1>7. CASE \/ ReaperScans \/ Opens \/ Arms \/ UNCHANGED vars
           \/ \E f \in Flushes: Flush(f) \/ Writes(f)
  <2>1. UNCHANGED <<checkpoint, status, driver>>
      BY <1>7 DEF ReaperScans, Opens, Arms, Flush, Writes, disk, vars
  <2> QED
      BY <1>1, <1>2, <2>1, OthersVouch
<1> QED
    BY <1>3, <1>4, <1>5, <1>6, <1>7 DEF Next

-----------------------------------------------------------------------------
LEMMA StepInv == Inv /\ [Next]_vars => Inv'
BY StreamStep, StepType, StepVouches DEF Inv

\* The inductive invariant holds in every reachable state.
THEOREM Invariance == Spec => []Inv
BY InitInv, StepInv, PTL DEF Spec

(***************************************************************************)
(* The variables have their types, for any number of phases, drivers and   *)
(* flushes.                                                                *)
(***************************************************************************)
THEOREM TypeCorrect == Spec => []TypeOK
<1>1. Inv => TypeOK
    BY DEF Inv
<1> QED
    BY <1>1, Invariance, PTL

LEMMA InvSound == Inv => ResumeIsSound
<1> SUFFICES ASSUME Inv PROVE ResumeIsSound
    OBVIOUS
<1> USE InitProjectAssumption
<1>1. ASSUME NEW d \in Drivers,
             driver[d].pc \notin {"idle", "done", "failed", "finishError"}
      PROVE  Past(driver[d].phase - 1) \subseteq Accounted
  <2>1. driver[d].pc \in Stages /\ driver[d].phase \in 0..(Phases + 1) /\ Vouches(d)
      BY DEF Inv, DriverType, DriverRecords
  <2>2. CASE driver[d].pc \in {"complete", "finish"}
    <3>1. driver[d].phase - 1 = Phases /\ Past(Phases) \subseteq Accounted
        BY <2>1, <2>2 DEF Vouches
    <3> QED
        BY <3>1
  <2>3. CASE driver[d].pc \in {"begin", "work", "save", "end"}
      BY <2>1, <2>3 DEF Vouches
  <2> QED
      BY <1>1, <2>1, <2>2, <2>3 DEF Stages
<1> QED
    BY <1>1 DEF ResumeIsSound, Inv, DiskIsSound

(***************************************************************************)
(* A driver never goes past a result that is not on disk, a completed run  *)
(* has them all, and the checkpoint is never ahead of them: however many   *)
(* drivers resume the run at once, whatever fails and whenever the server  *)
(* dies (agent.ts).  Only what a swallowed failure or a crash took, and    *)
(* what a resumption was told or decided to go without, is excepted.       *)
(***************************************************************************)
THEOREM ResumesAreSound == Spec => []ResumeIsSound
BY Invariance, InvSound, PTL

-----------------------------------------------------------------------------
(***************************************************************************)
(* The registry of MCP servers: McpRegistry.  The invariant says that the  *)
(* entries and the clients refer to each other, whatever is still asleep   *)
(* or closing; a step then makes at most one client.                       *)
(***************************************************************************)
Entries(n) == [config: ConfigRecords, client: 1..n, retries: 0..MaxRetries,
               status: {"disconnected", "disabled", "connected"}]

ConnStates == {"connecting", "lost", "connected", "disconnected", "error", "idle"}

Conns(n) == [owner: 1..n, then: {"set", "retry"}, state: ConnStates,
             open: BOOLEAN, closing: BOOLEAN]

Requests == [pc: {"idle", "reload", "diff", "add", "remove", "done"},
             m: Nat, cfg: ConfigRecords]

McpTypeOK ==
    /\ mcpJson \in ConfigRecords /\ deaths \in 0..MaxDeaths
    /\ entry \in 0..Len(managed)
    /\ managed \in Seq(Entries(Len(clients)))
    /\ clients \in Seq(Conns(Len(managed)))
    /\ sleeping \in Seq(Nat) /\ Len(sleeping) = Len(managed)
    /\ caller \in [Callers -> Requests]

\* A request that waits for a close knows which entry it closed.
WaitsKnow ==
    \A k \in Callers:
        caller[k].pc \in {"reload", "add", "remove"} => caller[k].m \in 1..Len(managed)

McpInv == McpTypeOK /\ WaitsKnow

LEMMA SeqUpdate ==
    ASSUME NEW S, NEW s \in Seq(S), NEW i \in 1..Len(s), NEW x \in S
    PROVE  /\ [s EXCEPT ![i] = x] \in Seq(S)
           /\ Len([s EXCEPT ![i] = x]) = Len(s)
OBVIOUS

LEMMA SeqGrows ==
    ASSUME NEW S, NEW s \in Seq(S), NEW x \in S
    PROVE  /\ Append(s, x) \in Seq(S)
           /\ Len(Append(s, x)) = Len(s) + 1
           /\ Append(s, x)[Len(s) + 1] = x
OBVIOUS

LEMMA SeqWidens ==
    ASSUME NEW S, NEW T, S \subseteq T, NEW s \in Seq(S)
    PROVE  s \in Seq(T)
OBVIOUS

\* An entry still refers to a client when there is one more, and conversely.
LEMMA MoreClients ==
    ASSUME NEW n \in Nat
    PROVE  /\ \A s \in Seq(Entries(n)): s \in Seq(Entries(n + 1))
           /\ \A s \in Seq(Conns(n)): s \in Seq(Conns(n + 1))
<1>1. 1..n \subseteq 1..(n + 1)
    OBVIOUS
<1>2. Entries(n) \subseteq Entries(n + 1)
    BY <1>1 DEF Entries
<1>3. Conns(n) \subseteq Conns(n + 1)
    BY <1>1 DEF Conns
<1> QED
    BY <1>2, <1>3, SeqWidens

LEMMA NoConfigType == NoConfig \in ConfigRecords
BY DEF NoConfig, ConfigRecords

\* A new entry, with its client.
LEMMA NewEntry ==
    ASSUME NEW cfg \in ConfigRecords, NEW n \in Nat, NEW i \in 1..n
    PROVE  [Managed(cfg) EXCEPT !.client = i] \in Entries(n)
<1>1. 0 \in 0..MaxRetries
    BY McpAssumption
<1> QED
    BY <1>1 DEF Managed, Entries

LEMMA NewConn ==
    ASSUME NEW n \in Nat, NEW m \in 1..n, NEW then \in {"set", "retry"},
           NEW cfg \in ConfigRecords
    PROVE  /\ Client(m, then) \in Conns(n) /\ Client(m, then).owner = m
           /\ NewClient(m, cfg) \in Conns(n) /\ NewClient(m, cfg).owner = m
<1>1. Client(m, then) \in Conns(n) /\ Client(m, then).owner = m
    BY DEF Client, Conns, ConnStates
<1>2. NewClient(m, cfg) \in Conns(n) /\ NewClient(m, cfg).owner = m
    BY DEF NewClient, Client, Conns, ConnStates
<1> QED
    BY <1>1, <1>2

\* What a crash or a failure does to the entry.
LEMMA ChargedType ==
    ASSUME NEW n \in Nat, NEW x \in Entries(n)
    PROVE  Charged(x) \in Entries(n)
<1>1. CanRestart(x) => x.retries + 1 \in 0..MaxRetries
    BY McpAssumption DEF CanRestart, Entries
<1> QED
    BY <1>1 DEF Charged, Entries

LEMMA StatusType ==
    ASSUME NEW n \in Nat, NEW x \in Entries(n),
           NEW st \in {"disconnected", "disabled", "connected"}
    PROVE  [x EXCEPT !.status = st] \in Entries(n)
BY DEF Entries

\* disconnect() keeps the clients as they are but for its own.
LEMMA ClosingType ==
    ASSUME NEW c \in 1..Len(clients), clients \in Seq(Conns(Len(managed)))
    PROVE  /\ Closing(c) \in Seq(Conns(Len(managed))) /\ Len(Closing(c)) = Len(clients)
           /\ Closed(c) \in Seq(Conns(Len(managed))) /\ Len(Closed(c)) = Len(clients)
<1>1. clients[c] \in Conns(Len(managed))
    OBVIOUS
<1>2. [clients[c] EXCEPT !.closing = TRUE] \in Conns(Len(managed))
    BY <1>1 DEF Conns
<1>3. Closing(c) = [clients EXCEPT ![c] = [clients[c] EXCEPT !.closing = TRUE]]
    BY DEF Closing
<1> DEFINE st == IF clients[c].state \in {"connecting", "lost"} THEN clients[c].state
                 ELSE "disconnected"
           x == [clients[c] EXCEPT !.state = st]
<1>4. st \in ConnStates
    BY <1>1 DEF Conns, ConnStates
<1>5. x \in Conns(Len(managed))
    BY <1>1, <1>4 DEF Conns
<1>6. Closed(c) = [clients EXCEPT ![c] = x]
    BY DEF Closed
<1> HIDE DEF x
<1> QED
    BY <1>2, <1>3, <1>5, <1>6, SeqUpdate

LEMMA McpInitInv == McpInit => McpInv
<1> SUFFICES ASSUME McpInit PROVE McpInv
    OBVIOUS
<1>1. PICK cfg \in {c \in Configs: c.enabled}:
        /\ mcpJson = cfg
        /\ managed = <<[Managed(cfg) EXCEPT !.client = 1]>>
    BY DEF McpInit
<1>2. entry = 1 /\ clients = <<Client(1, "set")>> /\ sleeping = <<0>> /\ deaths = 0
      /\ caller = [c \in Callers |-> Idle]
    BY DEF McpInit
<1>3. cfg \in ConfigRecords
    BY McpAssumption
<1> DEFINE x == [Managed(cfg) EXCEPT !.client = 1]
           y == Client(1, "set")
<1>4. x \in Entries(1) /\ y \in Conns(1)
    BY <1>3, NewEntry, NewConn
<1>5. managed = <<x>> /\ clients = <<y>>
    BY <1>1, <1>2
<1> HIDE DEF x, y
<1>6. managed \in Seq(Entries(1)) /\ Len(managed) = 1
    BY <1>4, <1>5
<1>7. clients \in Seq(Conns(1)) /\ Len(clients) = 1
    BY <1>4, <1>5
<1>8. sleeping \in Seq(Nat) /\ Len(sleeping) = 1
    BY <1>2
<1>9. Idle \in Requests /\ Idle.pc = "idle"
    BY NoConfigType DEF Idle, Requests
<1>10. caller \in [Callers -> Requests] /\ WaitsKnow
    BY <1>2, <1>9 DEF WaitsKnow
<1>11. deaths \in 0..MaxDeaths
    BY <1>2, McpAssumption
<1> QED
    BY <1>1, <1>2, <1>3, <1>6, <1>7, <1>8, <1>10, <1>11 DEF McpInv, McpTypeOK

\* A step that adds neither an entry nor a client.
LEMMA McpSame ==
    ASSUME McpInv,
           managed' \in Seq(Entries(Len(clients))), Len(managed') = Len(managed),
           clients' \in Seq(Conns(Len(managed))), Len(clients') = Len(clients),
           sleeping' \in Seq(Nat), Len(sleeping') = Len(sleeping),
           entry' \in {0, entry}, mcpJson' = mcpJson, deaths' \in 0..MaxDeaths,
           caller' \in [Callers -> Requests], WaitsKnow'
    PROVE  McpInv'
BY DEF McpInv, McpTypeOK

\* A step of the clients and of the restarts.
LEMMA McpServes ==
    ASSUME McpInv,
           managed' \in Seq(Entries(Len(clients))), Len(managed') = Len(managed),
           clients' \in Seq(Conns(Len(managed))), Len(clients') = Len(clients),
           sleeping' \in Seq(Nat), Len(sleeping') = Len(sleeping),
           deaths' \in 0..MaxDeaths, UNCHANGED <<mcpJson, entry, caller>>
    PROVE  McpInv'
<1>1. caller' \in [Callers -> Requests]
    BY DEF McpInv, McpTypeOK
<1>2. WaitsKnow'
    BY DEF McpInv, WaitsKnow
<1> QED
    BY <1>1, <1>2, McpSame

LEMMA ClientMoves ==
    ASSUME McpInv, NEW c \in DOMAIN clients, NEW st \in ConnStates, NEW o \in BOOLEAN
    PROVE  LET next == [clients EXCEPT ![c] = [clients[c] EXCEPT !.state = st, !.open = o]]
           IN  next \in Seq(Conns(Len(managed))) /\ Len(next) = Len(clients)
<1>1. clients[c] \in Conns(Len(managed)) /\ c \in 1..Len(clients)
    BY DEF McpInv, McpTypeOK
<1> DEFINE x == [clients[c] EXCEPT !.state = st, !.open = o]
<1>2. x \in Conns(Len(managed))
    BY <1>1 DEF Conns
<1> HIDE DEF x
<1>3. clients \in Seq(Conns(Len(managed)))
    BY DEF McpInv, McpTypeOK
<1> QED
    BY <1>1, <1>2, <1>3, SeqUpdate DEF x

LEMMA CrashType ==
    ASSUME McpInv, HandleCrash
    PROVE  /\ managed' \in Seq(Entries(Len(clients))) /\ Len(managed') = Len(managed)
           /\ sleeping' \in Seq(Nat) /\ Len(sleeping') = Len(sleeping)
<1>1. CASE Handles
  <2>1. entry \in 1..Len(managed) /\ entry \in 1..Len(sleeping)
      BY <1>1 DEF Handles, McpInv, McpTypeOK
  <2>2. managed[entry] \in Entries(Len(clients)) /\ Len(clients) \in Nat
      BY <2>1 DEF McpInv, McpTypeOK
  <2>3. Charged(managed[entry]) \in Entries(Len(clients))
      BY <2>2, ChargedType
  <2>4. managed' = [managed EXCEPT ![entry] = Charged(managed[entry])]
      BY <1>1 DEF HandleCrash
  <2>5. managed \in Seq(Entries(Len(clients))) /\ sleeping \in Seq(Nat)
      BY DEF McpInv, McpTypeOK
  <2>6. PICK k \in Nat: sleeping' = [sleeping EXCEPT ![entry] = k]
    <3>1. sleeping[entry] \in Nat /\ sleeping[entry] + 1 \in Nat
        BY <2>1, <2>5
    <3> DEFINE k == IF CanRestart(managed[entry]) THEN sleeping[entry] + 1 ELSE sleeping[entry]
    <3>2. k \in Nat /\ sleeping' = [sleeping EXCEPT ![entry] = k]
        BY <1>1, <3>1 DEF HandleCrash
    <3> QED
        BY <3>2
  <2> QED
      BY <2>1, <2>3, <2>4, <2>5, <2>6, SeqUpdate
<1>2. CASE ~Handles
    BY <1>2 DEF HandleCrash, McpInv, McpTypeOK
<1> QED
    BY <1>1, <1>2

\* A restart or a reload makes one client more, for an entry that exists.
LEMMA McpMakes ==
    ASSUME McpInv, NEW m \in 1..Len(managed), NEW x \in Entries(Len(clients) + 1),
           NEW y \in Conns(Len(managed)), NEW cl \in Seq(Conns(Len(managed))),
           Len(cl) = Len(clients),
           managed' = [managed EXCEPT ![m] = x], clients' = Append(cl, y),
           sleeping' \in Seq(Nat), Len(sleeping') = Len(sleeping),
           UNCHANGED <<mcpJson, entry, deaths>>,
           caller' \in [Callers -> Requests],
           \A k \in Callers: caller'[k] = caller[k] \/ caller'[k].pc = "done"
    PROVE  McpInv' /\ Len(clients') = Len(clients) + 1
                   /\ clients'[Len(clients')] = y
<1>1. Len(clients) \in Nat /\ managed \in Seq(Entries(Len(clients)))
    BY DEF McpInv, McpTypeOK
<1>2. managed \in Seq(Entries(Len(clients) + 1))
    BY <1>1, MoreClients
<1>3. managed' \in Seq(Entries(Len(clients) + 1)) /\ Len(managed') = Len(managed)
    BY <1>2, SeqUpdate
<1>4. clients' \in Seq(Conns(Len(managed))) /\ Len(clients') = Len(clients) + 1
      /\ clients'[Len(clients) + 1] = y
    BY SeqGrows
<1>5. WaitsKnow'
    BY <1>3 DEF McpInv, WaitsKnow
<1>6. McpTypeOK'
    BY <1>3, <1>4 DEF McpInv, McpTypeOK
<1> QED
    BY <1>4, <1>5, <1>6 DEF McpInv

LEMMA McpAdds ==
    ASSUME McpInv, NEW cfg \in ConfigRecords, NEW cl \in Seq(Conns(Len(managed))),
           Len(cl) = Len(clients), AddEntry(cfg, cl),
           UNCHANGED <<mcpJson, deaths>>,
           caller' \in [Callers -> Requests],
           \A k \in Callers: caller'[k] = caller[k] \/ caller'[k].pc = "done"
    PROVE  McpInv' /\ Len(clients') = Len(clients) + 1
                   /\ clients'[Len(clients')].owner = entry'
<1> DEFINE n == Len(clients) + 1
           m == Len(managed) + 1
           x == [Managed(cfg) EXCEPT !.client = n]
           y == NewClient(m, cfg)
<1>1. n \in Nat /\ n \in 1..n /\ m \in Nat /\ m \in 1..m /\ Len(managed) \in Nat
      /\ Len(clients) \in Nat
    BY DEF McpInv, McpTypeOK
<1>2. x \in Entries(n)
    BY <1>1, NewEntry
<1>3. y \in Conns(m) /\ y.owner = m
    BY <1>1, NewConn
<1>4. managed \in Seq(Entries(n)) /\ cl \in Seq(Conns(m))
    BY <1>1, MoreClients DEF McpInv, McpTypeOK
<1>5. clients' = Append(cl, y) /\ managed' = Append(managed, x)
      /\ sleeping' = Append(sleeping, 0) /\ entry' = m
    BY DEF AddEntry
<1> HIDE DEF x, y
<1>6. managed' \in Seq(Entries(n)) /\ Len(managed') = m
    BY <1>2, <1>4, <1>5, SeqGrows
<1>7. clients' \in Seq(Conns(m)) /\ Len(clients') = n /\ clients'[n] = y
    BY <1>3, <1>4, <1>5, SeqGrows
<1>8. sleeping' \in Seq(Nat) /\ Len(sleeping') = m
    BY <1>5, SeqGrows DEF McpInv, McpTypeOK
<1>9. WaitsKnow'
  <2>1. 1..Len(managed) \subseteq 1..Len(managed')
      BY <1>1, <1>6
  <2> QED
      BY <2>1 DEF McpInv, WaitsKnow
<1>10. McpTypeOK'
    BY <1>1, <1>5, <1>6, <1>7, <1>8 DEF McpInv, McpTypeOK
<1> QED
    BY <1>3, <1>5, <1>7, <1>9, <1>10 DEF McpInv

-----------------------------------------------------------------------------
\* The step that RemovedStaysDown allows.
Owned ==
    Len(clients') > Len(clients) =>
        LET owner == clients'[Len(clients')].owner
        IN  \/ owner = entry'
            \/ \E k \in Callers: caller[k].pc = "reload" /\ caller[k].m = owner

LEMMA WakeStep ==
    ASSUME McpInv, NEW m \in DOMAIN managed, Wake(m)
    PROVE  McpInv' /\ Owned
<1>1. m \in 1..Len(managed) /\ m \in 1..Len(sleeping) /\ sleeping \in Seq(Nat)
      /\ Len(managed) \in Nat /\ Len(clients) \in Nat
    BY DEF McpInv, McpTypeOK
<1>2. sleeping[m] - 1 \in Nat
    BY <1>1 DEF Wake
<1>3. sleeping' = [sleeping EXCEPT ![m] = sleeping[m] - 1]
      /\ UNCHANGED <<mcpJson, entry, caller, deaths>>
    BY DEF Wake
<1>4. sleeping' \in Seq(Nat) /\ Len(sleeping') = Len(sleeping)
    BY <1>1, <1>2, <1>3, SeqUpdate
<1>5. CASE entry # m \/ managed[m].status = "disabled"
  <2>1. UNCHANGED <<managed, clients>>
      BY <1>5 DEF Wake
  <2>2. McpInv'
      BY <1>3, <1>4, <2>1, McpServes DEF McpInv, McpTypeOK
  <2> QED
      BY <1>1, <2>1, <2>2 DEF Owned
<1>6. CASE ~(entry # m \/ managed[m].status = "disabled")
  <2> DEFINE x == [managed[m] EXCEPT !.client = Len(clients) + 1]
             y == Client(m, "retry")
  <2>1. entry = m /\ clients' = Append(clients, y) /\ managed' = [managed EXCEPT ![m] = x]
      BY <1>6 DEF Wake, MakeClient
  <2>2. managed[m] \in Entries(Len(clients))
      BY <1>1 DEF McpInv, McpTypeOK
  <2>3. Len(clients) + 1 \in 1..(Len(clients) + 1)
      BY <1>1
  <2>4. x \in Entries(Len(clients) + 1)
      BY <1>1, <2>2, <2>3 DEF Entries
  <2>5. y \in Conns(Len(managed)) /\ y.owner = m
      BY <1>1, NewConn, NoConfigType
  <2>6. clients \in Seq(Conns(Len(managed))) /\ caller' \in [Callers -> Requests]
        /\ \A k \in Callers: caller'[k] = caller[k]
      BY <1>3 DEF McpInv, McpTypeOK
  <2> HIDE DEF x, y
  <2>7. McpInv' /\ Len(clients') = Len(clients) + 1 /\ clients'[Len(clients')] = y
      BY <1>1, <1>3, <1>4, <2>1, <2>4, <2>5, <2>6, McpMakes
  <2> QED
      BY <1>3, <2>1, <2>5, <2>7 DEF Owned
<1> QED
    BY <1>5, <1>6

LEMMA ConnectStep ==
    ASSUME McpInv, NEW c \in DOMAIN clients, Handshake(c) \/ Connected(c) \/ ConnectFails(c)
    PROVE  McpInv' /\ Len(clients') = Len(clients)
<1> DEFINE n == Len(clients)
           m == clients[c].owner
<1>1. clients[c] \in Conns(Len(managed)) /\ m \in 1..Len(managed) /\ n \in Nat
      /\ clients[c].state \in ConnStates /\ clients[c].open \in BOOLEAN
  <2>1. clients[c] \in Conns(Len(managed)) /\ n \in Nat
      BY DEF McpInv, McpTypeOK
  <2> QED
      BY <2>1 DEF Conns
<1>2. managed \in Seq(Entries(n)) /\ sleeping \in Seq(Nat) /\ deaths \in 0..MaxDeaths
      /\ Len(sleeping) = Len(managed)
    BY DEF McpInv, McpTypeOK
<1>3. managed[m] \in Entries(n)
    BY <1>1, <1>2
<1>4. clients' \in Seq(Conns(Len(managed))) /\ Len(clients') = Len(clients)
  <2>1. PICK st \in ConnStates, o \in BOOLEAN:
          clients' = [clients EXCEPT ![c] = [clients[c] EXCEPT !.state = st, !.open = o]]
    <3>1. CASE Handshake(c)
      <4>1. clients' = [clients EXCEPT ![c] =
                          [clients[c] EXCEPT !.state = clients[c].state, !.open = TRUE]]
          BY <1>1, <3>1 DEF Handshake, Conns
      <4> QED
          BY <1>1, <4>1
    <3>2. CASE Connected(c)
      <4>1. clients' = [clients EXCEPT ![c] =
                [clients[c] EXCEPT !.state = "connected", !.open = clients[c].open]]
          BY <1>1, <3>2 DEF Connected, Conns
      <4> QED
          BY <1>1, <4>1 DEF ConnStates
    <3>3. CASE ConnectFails(c)
      <4>1. clients' = [clients EXCEPT ![c] =
                          [clients[c] EXCEPT !.state = "error", !.open = FALSE]]
          BY <3>3 DEF ConnectFails
      <4> QED
          BY <4>1 DEF ConnStates
    <3> QED
        BY <3>1, <3>2, <3>3
  <2> QED
      BY <2>1, ClientMoves
<1>5. CASE Handshake(c)
    BY <1>2, <1>4, <1>5, McpServes DEF Handshake
<1>6. CASE Connected(c)
  <2>1. managed' = [managed EXCEPT ![m] = [managed[m] EXCEPT !.status = "connected"]]
      BY <1>6 DEF Connected
  <2>2. [managed[m] EXCEPT !.status = "connected"] \in Entries(n)
      BY <1>1, <1>3, StatusType
  <2>3. managed' \in Seq(Entries(n)) /\ Len(managed') = Len(managed)
      BY <1>1, <1>2, <2>1, <2>2, SeqUpdate
  <2> QED
      BY <1>2, <1>4, <1>6, <2>3, McpServes DEF Connected
<1>7. CASE ConnectFails(c)
  <2> DEFINE st == IF clients[c].then = "retry" /\ managed[m].retries >= MaxRetries
                   THEN "disabled" ELSE "disconnected"
             down == [managed EXCEPT ![m] = [managed[m] EXCEPT !.status = st]]
             again == /\ clients[c].then = "retry" /\ ~(managed[m].retries >= MaxRetries)
                      /\ entry # 0 /\ down[entry].status # "disabled"
  <2>1. /\ managed' = IF again THEN [down EXCEPT ![entry] = Charged(down[entry])] ELSE down
        /\ sleeping' = IF again /\ CanRestart(down[entry])
                       THEN [sleeping EXCEPT ![entry] = sleeping[entry] + 1] ELSE sleeping
        /\ UNCHANGED <<mcpJson, entry, caller, deaths>>
      BY <1>7 DEF ConnectFails
  <2>2. [managed[m] EXCEPT !.status = st] \in Entries(n)
      BY <1>1, <1>3, StatusType
  <2>3. down \in Seq(Entries(n)) /\ Len(down) = Len(managed)
      BY <1>1, <1>2, <2>2, SeqUpdate
  <2>4. again => entry \in 1..Len(managed) /\ entry \in 1..Len(sleeping)
      BY <1>2 DEF McpInv, McpTypeOK
  <2> HIDE DEF down, again
  <2>5. again => Charged(down[entry]) \in Entries(n)
    <3>1. again => down[entry] \in Entries(n)
        BY <2>3, <2>4
    <3> QED
        BY <1>1, <3>1, ChargedType
  <2>6. managed' \in Seq(Entries(n)) /\ Len(managed') = Len(managed)
      BY <2>1, <2>3, <2>4, <2>5, SeqUpdate
  <2>7. again => sleeping[entry] + 1 \in Nat
      BY <1>2, <2>4
  <2>8. sleeping' \in Seq(Nat) /\ Len(sleeping') = Len(sleeping)
      BY <1>2, <2>1, <2>4, <2>7, SeqUpdate
  <2> QED
      BY <1>2, <1>4, <2>1, <2>6, <2>8, McpServes
<1> QED
    BY <1>4, <1>5, <1>6, <1>7

LEMMA DiesStep ==
    ASSUME McpInv, NEW c \in DOMAIN clients, Dies(c)
    PROVE  McpInv' /\ Len(clients') = Len(clients)
<1>1. clients[c] \in Conns(Len(managed)) /\ clients[c].open \in BOOLEAN
  <2>1. clients[c] \in Conns(Len(managed))
      BY DEF McpInv, McpTypeOK
  <2> QED
      BY <2>1 DEF Conns
<1>2. PICK st \in ConnStates: clients' = [clients EXCEPT ![c].state = st]
    BY DEF Dies, ConnStates
<1>3. clients' = [clients EXCEPT ![c] =
                    [clients[c] EXCEPT !.state = st, !.open = clients[c].open]]
    BY <1>1, <1>2 DEF Conns
<1>4. clients' \in Seq(Conns(Len(managed))) /\ Len(clients') = Len(clients)
    BY <1>1, <1>3, ClientMoves
<1>5. managed' \in Seq(Entries(Len(clients))) /\ Len(managed') = Len(managed)
      /\ sleeping' \in Seq(Nat) /\ Len(sleeping') = Len(sleeping)
  <2>1. HandleCrash \/ UNCHANGED <<managed, sleeping>>
      BY DEF Dies
  <2> QED
      BY <2>1, CrashType DEF McpInv, McpTypeOK
<1>6. deaths' \in 0..MaxDeaths
    BY McpAssumption DEF Dies, McpInv, McpTypeOK
<1>7. UNCHANGED <<mcpJson, entry, caller>>
    BY DEF Dies
<1> QED
    BY <1>4, <1>5, <1>6, <1>7, McpServes

-----------------------------------------------------------------------------
\* A step of request k.
LEMMA RequestMoves ==
    ASSUME McpInv, NEW k \in Callers,
           NEW stage \in {"idle", "reload", "diff", "add", "remove", "done"},
           NEW m \in Nat, NEW cfg \in ConfigRecords, At(k, stage, m, cfg),
           stage \in {"reload", "add", "remove"} => m \in 1..Len(managed),
           Len(managed') = Len(managed)
    PROVE  caller' \in [Callers -> Requests] /\ WaitsKnow'
<1> DEFINE r == [pc |-> stage, m |-> m, cfg |-> cfg]
<1>1. r \in Requests /\ caller' = [caller EXCEPT ![k] = r] /\ r.pc = stage /\ r.m = m
    BY DEF Requests, At
<1> HIDE DEF r
<1>2. caller' \in [Callers -> Requests]
    BY <1>1 DEF McpInv, McpTypeOK
<1>3. caller \in [Callers -> Requests]
    BY DEF McpInv, McpTypeOK
<1>4. ASSUME NEW j \in Callers, caller'[j].pc \in {"reload", "add", "remove"}
      PROVE  caller'[j].m \in 1..Len(managed')
    BY <1>1, <1>3, <1>4 DEF McpInv, WaitsKnow
<1> QED
    BY <1>2, <1>4 DEF WaitsKnow

\* A request that is over.
LEMMA RequestEnds ==
    ASSUME McpInv, NEW k \in Callers, At(k, "done", 0, NoConfig)
    PROVE  /\ caller' \in [Callers -> Requests]
           /\ \A j \in Callers: caller'[j] = caller[j] \/ caller'[j].pc = "done"
<1> DEFINE r == [pc |-> "done", m |-> 0, cfg |-> NoConfig]
<1>1. r \in Requests /\ caller' = [caller EXCEPT ![k] = r] /\ r.pc = "done"
    BY NoConfigType DEF Requests, At
<1> HIDE DEF r
<1>2. caller \in [Callers -> Requests]
    BY DEF McpInv, McpTypeOK
<1> QED
    BY <1>1, <1>2

\* The client of an entry can be closed.
LEMMA EntryClient ==
    ASSUME McpInv, NEW m \in 1..Len(managed)
    PROVE  LET c == managed[m].client
           IN  /\ Closing(c) \in Seq(Conns(Len(managed))) /\ Len(Closing(c)) = Len(clients)
               /\ Closed(c) \in Seq(Conns(Len(managed))) /\ Len(Closed(c)) = Len(clients)
<1>1. managed[m] \in Entries(Len(clients))
    BY DEF McpInv, McpTypeOK
<1>2. managed[m].client \in 1..Len(clients)
    BY <1>1 DEF Entries
<1>3. clients \in Seq(Conns(Len(managed)))
    BY DEF McpInv, McpTypeOK
<1> QED
    BY <1>2, <1>3, ClosingType

LEMMA ReloadStep ==
    ASSUME McpInv, NEW k \in Callers, Reload(k) \/ ReloadResumes(k)
    PROVE  McpInv' /\ Owned
<1>1. Len(clients) \in Nat /\ Len(managed) \in Nat
    BY DEF McpInv, McpTypeOK
<1>2. CASE Reload(k)
  <2>1. entry \in 1..Len(managed) /\ entry \in Nat
      BY <1>2 DEF Reload, McpInv, McpTypeOK
  <2>2. clients' = Closing(managed[entry].client) /\ At(k, "reload", entry, NoConfig)
        /\ UNCHANGED <<mcpJson, entry, managed, sleeping, deaths>>
      BY <1>2 DEF Reload
  <2>3. clients' \in Seq(Conns(Len(managed))) /\ Len(clients') = Len(clients)
      BY <2>1, <2>2, EntryClient
  <2>4. caller' \in [Callers -> Requests] /\ WaitsKnow'
      BY <2>1, <2>2, NoConfigType, RequestMoves
  <2>5. McpInv'
      BY <2>2, <2>3, <2>4, McpSame DEF McpInv, McpTypeOK
  <2> QED
      BY <1>1, <2>3, <2>5 DEF Owned
<1>3. CASE ReloadResumes(k)
  <2> DEFINE m == caller[k].m
             cfg == managed[m].config
             x == [Managed(cfg) EXCEPT !.client = Len(clients) + 1]
             y == NewClient(m, cfg)
             cl == Closed(managed[m].client)
  <2>1. m \in 1..Len(managed) /\ caller[k].pc = "reload"
      BY <1>3 DEF ReloadResumes, McpInv, WaitsKnow
  <2>2. managed[m] \in Entries(Len(clients))
      BY <2>1 DEF McpInv, McpTypeOK
  <2>3. cfg \in ConfigRecords
      BY <2>2 DEF Entries
  <2>4. x \in Entries(Len(clients) + 1)
    <3> DEFINE n == Len(clients) + 1
    <3>1. n \in Nat /\ n \in 1..n
        BY <1>1
    <3> HIDE DEF n, cfg
    <3>2. [Managed(cfg) EXCEPT !.client = n] \in Entries(n)
        BY <2>3, <3>1, NewEntry
    <3> QED
        BY <3>2 DEF n
  <2>5. y \in Conns(Len(managed)) /\ y.owner = m
      BY <1>1, <2>1, <2>3, NewConn
  <2>6. cl \in Seq(Conns(Len(managed))) /\ Len(cl) = Len(clients)
      BY <2>1, EntryClient
  <2>7. clients' = Append(cl, y) /\ managed' = [managed EXCEPT ![m] = x]
        /\ At(k, "done", 0, NoConfig) /\ UNCHANGED <<mcpJson, entry, sleeping, deaths>>
      BY <1>3 DEF ReloadResumes
  <2>8. caller' \in [Callers -> Requests]
        /\ \A j \in Callers: caller'[j] = caller[j] \/ caller'[j].pc = "done"
      BY <2>7, RequestEnds
  <2>9. sleeping' \in Seq(Nat) /\ Len(sleeping') = Len(sleeping)
      BY <2>7 DEF McpInv, McpTypeOK
  <2> HIDE DEF m, x, y, cl
  <2>10. McpInv' /\ clients'[Len(clients')] = y
      BY <2>1, <2>4, <2>5, <2>6, <2>7, <2>8, <2>9, McpMakes
  <2>11. caller[k].m = m
      BY DEF m
  <2> QED
      BY <2>1, <2>5, <2>10, <2>11 DEF Owned
<1> QED
    BY <1>2, <1>3

LEMMA ConfigStep ==
    ASSUME McpInv, NEW k \in Callers,
           \/ ApplyDiff(k) \/ AddResumes(k) \/ RemoveResumes(k)
           \/ \E cfg \in Configs \cup {NoConfig}: PutConfig(k, cfg)
    PROVE  McpInv' /\ Owned
<1>1. Len(clients) \in Nat /\ Len(managed) \in Nat /\ entry \in Nat
      /\ caller[k].cfg \in ConfigRecords /\ entry \in 0..Len(managed)
  <2>1. caller[k] \in Requests
      BY DEF McpInv, McpTypeOK
  <2> QED
      BY <2>1 DEF Requests, McpInv, McpTypeOK
<1>2. ASSUME NEW cfg \in Configs \cup {NoConfig}, PutConfig(k, cfg) PROVE McpInv' /\ Owned
  <2>1. cfg \in ConfigRecords
      BY McpAssumption, NoConfigType
  <2>2. PICK stage \in {"done", "diff"}: At(k, stage, 0, cfg)
      BY <1>2 DEF PutConfig
  <2>3. mcpJson' = cfg /\ UNCHANGED <<entry, managed, clients, sleeping, deaths>>
      BY <1>2 DEF PutConfig
  <2>4. caller' \in [Callers -> Requests] /\ WaitsKnow'
      BY <2>1, <2>2, <2>3, RequestMoves
  <2>5. McpInv'
      BY <2>1, <2>3, <2>4 DEF McpInv, McpTypeOK
  <2> QED
      BY <1>1, <2>3, <2>5 DEF Owned
<1>3. CASE ApplyDiff(k) /\ entry # 0
  <2> DEFINE cfg == caller[k].cfg
             stage == IF cfg = NoConfig THEN "remove" ELSE "add"
  <2>1. /\ clients' = Closing(managed[entry].client)
        /\ managed' = IF cfg = NoConfig THEN managed ELSE [managed EXCEPT ![entry].config = cfg]
        /\ At(k, stage, entry, cfg)
        /\ UNCHANGED <<mcpJson, entry, sleeping, deaths>>
      BY <1>3 DEF ApplyDiff
  <2>2. entry \in 1..Len(managed)
      BY <1>1, <1>3
  <2>3. clients' \in Seq(Conns(Len(managed))) /\ Len(clients') = Len(clients)
      BY <2>1, <2>2, EntryClient
  <2>4. managed' \in Seq(Entries(Len(clients))) /\ Len(managed') = Len(managed)
    <3>1. managed \in Seq(Entries(Len(clients)))
        BY DEF McpInv, McpTypeOK
    <3>2. managed[entry] \in Entries(Len(clients))
        BY <2>2, <3>1
    <3>3. [managed[entry] EXCEPT !.config = cfg] \in Entries(Len(clients))
        BY <1>1, <3>2 DEF Entries
    <3>4. \/ managed' = managed
          \/ managed' = [managed EXCEPT ![entry] = [managed[entry] EXCEPT !.config = cfg]]
        BY <2>1
    <3> QED
        BY <2>2, <3>1, <3>3, <3>4, SeqUpdate
  <2>5. stage \in {"idle", "reload", "diff", "add", "remove", "done"}
      OBVIOUS
  <2> HIDE DEF stage
  <2>6. caller' \in [Callers -> Requests] /\ WaitsKnow'
      BY <1>1, <2>1, <2>2, <2>4, <2>5, RequestMoves
  <2>7. McpInv'
      BY <2>1, <2>3, <2>4, <2>6, McpSame DEF McpInv, McpTypeOK
  <2> QED
      BY <1>1, <2>3, <2>7 DEF Owned
<1>4. CASE ApplyDiff(k) /\ entry = 0
  <2>1. /\ \/ UNCHANGED <<entry, managed, clients, sleeping>>
           \/ AddEntry(caller[k].cfg, clients)
        /\ At(k, "done", 0, NoConfig) /\ UNCHANGED <<mcpJson, deaths>>
      BY <1>4 DEF ApplyDiff
  <2>2. caller' \in [Callers -> Requests]
        /\ \A j \in Callers: caller'[j] = caller[j] \/ caller'[j].pc = "done"
      BY <2>1, RequestEnds
  <2>3. CASE UNCHANGED <<entry, managed, clients, sleeping>>
    <3>1. WaitsKnow'
        BY <2>2, <2>3 DEF McpInv, WaitsKnow
    <3>2. McpInv'
        BY <2>1, <2>2, <2>3, <3>1 DEF McpInv, McpTypeOK
    <3> QED
        BY <1>1, <2>3, <3>2 DEF Owned
  <2>4. CASE AddEntry(caller[k].cfg, clients)
    <3>1. clients \in Seq(Conns(Len(managed)))
        BY DEF McpInv, McpTypeOK
    <3> QED
        BY <1>1, <2>1, <2>2, <2>4, <3>1, McpAdds DEF Owned
  <2> QED
      BY <2>1, <2>3, <2>4
<1>5. CASE AddResumes(k)
  <2>1. caller[k].m \in 1..Len(managed)
      BY <1>5 DEF AddResumes, McpInv, WaitsKnow
  <2> DEFINE cl == Closed(managed[caller[k].m].client)
  <2>2. cl \in Seq(Conns(Len(managed))) /\ Len(cl) = Len(clients)
      BY <2>1, EntryClient
  <2>3. AddEntry(caller[k].cfg, cl) /\ At(k, "done", 0, NoConfig) /\ UNCHANGED <<mcpJson, deaths>>
      BY <1>5 DEF AddResumes
  <2>4. caller' \in [Callers -> Requests]
        /\ \A j \in Callers: caller'[j] = caller[j] \/ caller'[j].pc = "done"
      BY <2>3, RequestEnds
  <2> HIDE DEF cl
  <2> QED
      BY <1>1, <2>2, <2>3, <2>4, McpAdds DEF Owned
<1>6. CASE RemoveResumes(k)
  <2>1. caller[k].m \in 1..Len(managed)
      BY <1>6 DEF RemoveResumes, McpInv, WaitsKnow
  <2>2. clients' = Closed(managed[caller[k].m].client) /\ entry' = 0
        /\ At(k, "done", 0, NoConfig) /\ UNCHANGED <<mcpJson, managed, sleeping, deaths>>
      BY <1>6 DEF RemoveResumes
  <2>3. clients' \in Seq(Conns(Len(managed))) /\ Len(clients') = Len(clients)
      BY <2>1, <2>2, EntryClient
  <2>4. caller' \in [Callers -> Requests]
        /\ \A j \in Callers: caller'[j] = caller[j] \/ caller'[j].pc = "done"
      BY <2>2, RequestEnds
  <2>5. WaitsKnow'
      BY <2>2, <2>4 DEF McpInv, WaitsKnow
  <2>6. McpInv'
      BY <2>2, <2>3, <2>4, <2>5, McpSame DEF McpInv, McpTypeOK
  <2> QED
      BY <1>1, <2>3, <2>6 DEF Owned
<1> QED
    BY <1>2, <1>3, <1>4, <1>5, <1>6

LEMMA McpStep == McpInv /\ [McpNext]_mcpVars => McpInv' /\ (McpNext => Owned)
<1> SUFFICES ASSUME McpInv, [McpNext]_mcpVars PROVE McpInv' /\ (McpNext => Owned)
    OBVIOUS
<1>1. Len(clients) \in Nat
    BY DEF McpInv, McpTypeOK
<1>2. ASSUME NEW m \in DOMAIN managed, Wake(m) PROVE McpInv' /\ Owned
    BY <1>2, WakeStep
<1>3. ASSUME NEW c \in DOMAIN clients,
             Handshake(c) \/ Connected(c) \/ ConnectFails(c) \/ Dies(c)
      PROVE  McpInv' /\ Owned
  <2>1. McpInv' /\ Len(clients') = Len(clients)
      BY <1>3, ConnectStep, DiesStep
  <2> QED
      BY <1>1, <2>1 DEF Owned
<1>4. ASSUME NEW k \in Callers,
             \/ Reload(k) \/ ReloadResumes(k) \/ ApplyDiff(k) \/ AddResumes(k) \/ RemoveResumes(k)
             \/ \E cfg \in Configs \cup {NoConfig}: PutConfig(k, cfg)
      PROVE  McpInv' /\ Owned
    BY <1>4, ReloadStep, ConfigStep
<1>5. McpNext => McpInv' /\ Owned
    BY <1>2, <1>3, <1>4 DEF McpNext
<1>6. CASE UNCHANGED mcpVars
  <2>1. McpInv'
      BY <1>6 DEF mcpVars, McpInv, McpTypeOK, WaitsKnow
  <2> QED
      BY <1>5, <2>1
<1> QED
    BY <1>5, <1>6

-----------------------------------------------------------------------------
(***************************************************************************)
(* The registry is well typed: an entry has a client that exists, a client *)
(* an entry that existed, and a request that waits for a close knows its   *)
(* entry.                                                                  *)
(***************************************************************************)
THEOREM McpInvariance == McpSpec => []McpInv
<1>1. McpInit => McpInv
    BY McpInitInv
<1>2. McpInv /\ [McpNext]_mcpVars => McpInv'
    BY McpStep
<1> QED
    BY <1>1, <1>2, PTL DEF McpSpec

(***************************************************************************)
(* For any number of requests, restarts and deaths, a restart that slept   *)
(* through a removal or a replacement starts nothing.                      *)
(***************************************************************************)
THEOREM RemovedStayDown == McpSpec => RemovedStaysDown
<1>1. McpInv /\ [McpNext]_mcpVars => [Owned]_mcpVars
    BY McpStep
<1>2. McpSpec => [][Owned]_mcpVars
    BY <1>1, McpInvariance, PTL DEF McpSpec
<1> QED
    BY <1>2 DEF RemovedStaysDown, Owned

-----------------------------------------------------------------------------
(***************************************************************************)
(* Subagents: SlotsAccounted and AnnouncedOnce, for every set of tasks,    *)
(* every cap and every nesting of dispatches.                              *)
(*                                                                         *)
(* The semaphore: a dispatch waits in the queue exactly once, and exactly  *)
(* while its pc says so, so that release() hands its slot to a dispatch    *)
(* that has none; the holders then change by one with the count, or not at *)
(* all.  The registry: a record exists once its dispatch was made, is      *)
(* running until the one event was emitted or it was cancelled, and only   *)
(* cancel fires a signal.                                                  *)
(***************************************************************************)

QueueIsWaiting ==
    /\ \A i, j \in DOMAIN queue: queue[i] = queue[j] => i = j
    /\ \A t \in Tasks: pc[t] = "queued" <=> \E i \in DOMAIN queue: queue[i] = t

RegistrySound ==
    /\ \A t \in Tasks \ Background: record[t] = "none"
    /\ \A t \in Tasks: signal[t] => record[t] = "cancelled"
    /\ \A t \in Background:
          /\ record[t] = "none" <=> pc[t] = "idle"
          /\ record[t] = "running" => events[t] = 0
          /\ record[t] = "done" => pc[t] = "settled" /\ result[t] = "ok"
          /\ record[t] = "failed" => pc[t] = "settled"
          /\ events[t] <= 1
          /\ events[t] = 1 => pc[t] = "settled"

SlotsSound == QueueIsWaiting /\ SlotsAccounted
SubagentsInv == SubagentsTypeOK /\ SlotsSound /\ RegistrySound

-----------------------------------------------------------------------------
(* The semaphore.                                                          *)

LEMMA HoldersFinite ==
  IsFiniteSet(Holders) /\ Cardinality(Holders) \in Nat
  BY SubagentsAssumption, FS_Subset, FS_CardinalityType DEF Holders

\* acquire(): a dispatch that was idle holds a slot, or is last in the queue
LEMMA AcquireKeeps ==
  ASSUME SubagentsTypeOK, SlotsSound, NEW t \in Tasks, pc[t] = "idle", Acquire(t)
  PROVE  /\ inflight' \in Nat /\ queue' \in Seq(Tasks) /\ pc' \in [Tasks -> DispatchPC]
         /\ pc'[t] \in {"queued", "acquired"}
         /\ \A u \in Tasks: u # t => pc'[u] = pc[u]
         /\ SlotsSound'
<1>a. /\ inflight \in Nat /\ queue \in Seq(Tasks) /\ pc \in [Tasks -> DispatchPC]
      /\ Cap \in Nat /\ inflight = Cardinality(Holders) /\ inflight <= Cap
      /\ queue # <<>> => inflight = Cap
      /\ QueueIsWaiting
  BY SubagentsAssumption DEF SubagentsTypeOK, SlotsSound, SlotsAccounted
<1>1. CASE inflight < Cap
  <2>1. /\ inflight' = inflight + 1 /\ queue' = queue
        /\ pc' = [pc EXCEPT ![t] = "acquired"]
    BY <1>1 DEF Acquire
  <2>2. /\ pc'[t] = "acquired" /\ \A u \in Tasks: u # t => pc'[u] = pc[u]
        /\ pc' \in [Tasks -> DispatchPC]
    BY <1>a, <2>1 DEF DispatchPC
  <2>3. Holders' = Holders \cup {t} /\ t \notin Holders
    BY <2>2 DEF Holders
  <2>4. Cardinality(Holders') = Cardinality(Holders) + 1
    BY <2>3, HoldersFinite, FS_AddElement
  <2>5. SlotsAccounted'
    BY <1>1, <1>a, <2>1, <2>4 DEF SlotsAccounted
  <2>6. QueueIsWaiting'
    BY <1>a, <2>1, <2>2 DEF QueueIsWaiting
  <2> QED BY <1>a, <2>1, <2>2, <2>5, <2>6 DEF SlotsSound
<1>2. CASE ~(inflight < Cap)
  <2>1. /\ inflight' = inflight /\ queue' = Append(queue, t)
        /\ pc' = [pc EXCEPT ![t] = "queued"]
    BY <1>2 DEF Acquire
  <2>2. /\ pc'[t] = "queued" /\ \A u \in Tasks: u # t => pc'[u] = pc[u]
        /\ pc' \in [Tasks -> DispatchPC]
    BY <1>a, <2>1 DEF DispatchPC
  <2>3. Holders' = Holders
    BY <2>2 DEF Holders
  <2>4. SlotsAccounted'
    BY <1>2, <1>a, <2>1, <2>3 DEF SlotsAccounted
  <2>5. /\ queue' \in Seq(Tasks) /\ DOMAIN queue = 1 .. Len(queue) /\ Len(queue) \in Nat
        /\ DOMAIN queue' = 1 .. (Len(queue) + 1)
        /\ queue'[Len(queue) + 1] = t
        /\ \A i \in DOMAIN queue: queue'[i] = queue[i]
    BY <1>a, <2>1
  <2>6. \A i \in DOMAIN queue: queue[i] # t
    BY <1>a DEF QueueIsWaiting
  <2>7. QueueIsWaiting'
    <3>1. \A i \in DOMAIN queue': i \in DOMAIN queue \/ i = Len(queue) + 1
      BY <2>5
    <3>2. \A i, j \in DOMAIN queue': queue'[i] = queue'[j] => i = j
      BY <1>a, <2>5, <2>6, <3>1 DEF QueueIsWaiting
    <3>3. ASSUME NEW u \in Tasks
          PROVE  pc'[u] = "queued" <=> \E i \in DOMAIN queue': queue'[i] = u
      <4>1. DOMAIN queue \subseteq DOMAIN queue' /\ Len(queue) + 1 \in DOMAIN queue'
        BY <2>5
      <4>2. CASE u = t
        BY <2>2, <2>5, <4>1, <4>2
      <4>3. CASE u # t
        BY <1>a, <2>2, <2>5, <3>1, <4>1, <4>3 DEF QueueIsWaiting
      <4> QED BY <4>2, <4>3
    <3> QED BY <3>2, <3>3 DEF QueueIsWaiting
  <2> QED BY <1>a, <2>1, <2>2, <2>4, <2>5, <2>7 DEF SlotsSound
<1> QED BY <1>1, <1>2

\* release(): the slot goes to the head of the queue, or back to the count
LEMMA SettleKeeps ==
  ASSUME SubagentsTypeOK, SlotsSound, NEW t \in Tasks, pc[t] \in {"acquired", "running"},
         NEW ending \in Results, Settle(t, ending)
  PROVE  /\ inflight' \in Nat /\ queue' \in Seq(Tasks) /\ pc' \in [Tasks -> DispatchPC]
         /\ result' \in [Tasks -> Results \cup {"none"}]
         /\ pc'[t] = "settled"
         /\ \A u \in Tasks: u # t => /\ result'[u] = result[u]
                                     /\ \/ pc'[u] = pc[u]
                                        \/ pc[u] = "queued" /\ pc'[u] = "acquired"
         /\ SlotsSound'
<1>a. /\ inflight \in Nat /\ queue \in Seq(Tasks) /\ pc \in [Tasks -> DispatchPC]
      /\ Cap \in Nat \ {0} /\ inflight = Cardinality(Holders) /\ inflight <= Cap
      /\ queue # <<>> => inflight = Cap
      /\ QueueIsWaiting
  BY SubagentsAssumption DEF SubagentsTypeOK, SlotsSound, SlotsAccounted
<1>b. /\ result' \in [Tasks -> Results \cup {"none"}]
      /\ \A u \in Tasks: u # t => result'[u] = result[u]
  BY DEF Settle, SubagentsTypeOK
<1>c. t \in Holders
  BY DEF Holders
<1>1. CASE queue = <<>>
  <2>1. /\ inflight' = inflight - 1 /\ queue' = queue
        /\ pc' = [pc EXCEPT ![t] = "settled"]
    BY <1>1 DEF Settle
  <2>2. /\ pc'[t] = "settled" /\ \A u \in Tasks: u # t => pc'[u] = pc[u]
        /\ pc' \in [Tasks -> DispatchPC]
    BY <1>a, <2>1 DEF DispatchPC
  <2>3. Holders' = Holders \ {t}
    BY <2>2 DEF Holders
  <2>4. Cardinality(Holders') = Cardinality(Holders) - 1 /\ Cardinality(Holders') \in Nat
    BY <1>c, <2>3, HoldersFinite, FS_RemoveElement, FS_CardinalityType
  <2>5. SlotsAccounted' /\ inflight' \in Nat
    BY <1>1, <1>a, <2>1, <2>4 DEF SlotsAccounted
  <2>6. QueueIsWaiting'
    BY <1>a, <2>1, <2>2 DEF QueueIsWaiting
  <2> QED BY <1>a, <1>b, <2>1, <2>2, <2>5, <2>6 DEF SlotsSound
<1>2. CASE queue # <<>>
  <2> DEFINE h == Head(queue)
  <2>1. /\ inflight' = inflight /\ queue' = Tail(queue)
        /\ pc' = [pc EXCEPT ![t] = "settled", ![h] = "acquired"]
    BY <1>2 DEF Settle
  <2>2. /\ h = queue[1] /\ 1 \in DOMAIN queue /\ h \in Tasks
        /\ DOMAIN queue = 1 .. Len(queue) /\ Len(queue) \in Nat
        /\ queue' \in Seq(Tasks) /\ DOMAIN queue' = 1 .. (Len(queue) - 1)
        /\ \A i \in DOMAIN queue': queue'[i] = queue[i + 1]
    BY <1>2, <1>a, <2>1
  <2>3. pc[h] = "queued" /\ h # t
    BY <1>a, <2>2 DEF QueueIsWaiting
  <2> HIDE DEF h
  <2>4. /\ pc'[t] = "settled" /\ pc'[h] = "acquired"
        /\ \A u \in Tasks: u # t /\ u # h => pc'[u] = pc[u]
        /\ pc' \in [Tasks -> DispatchPC]
    BY <1>a, <2>1, <2>2, <2>3 DEF DispatchPC
  <2>5. Holders' = (Holders \ {t}) \cup {h} /\ h \notin Holders \ {t}
    BY <2>2, <2>3, <2>4 DEF Holders
  <2>6. Cardinality(Holders') = Cardinality(Holders)
    <3>1. /\ Cardinality(Holders \ {t}) = Cardinality(Holders) - 1
          /\ IsFiniteSet(Holders \ {t})
      BY <1>c, HoldersFinite, FS_RemoveElement
    <3>2. Cardinality(Holders') = Cardinality(Holders \ {t}) + 1
      BY <2>5, <3>1, FS_AddElement
    <3> QED BY <3>1, <3>2, HoldersFinite
  <2>7. SlotsAccounted'
    BY <1>2, <1>a, <2>1, <2>6 DEF SlotsAccounted
  <2>8. QueueIsWaiting'
    <3>1. \A i \in DOMAIN queue': i + 1 \in DOMAIN queue /\ i + 1 # 1
      BY <2>2
    <3>2. \A i, j \in DOMAIN queue': queue'[i] = queue'[j] => i = j
      BY <1>a, <2>2, <3>1 DEF QueueIsWaiting
    <3>3. \A i \in DOMAIN queue': queue'[i] # h
      BY <1>a, <2>2, <3>1 DEF QueueIsWaiting
    <3>4. \A j \in DOMAIN queue: j # 1 => j - 1 \in DOMAIN queue' /\ queue'[j - 1] = queue[j]
      BY <2>2
    <3>5. ASSUME NEW u \in Tasks
          PROVE  pc'[u] = "queued" <=> \E i \in DOMAIN queue': queue'[i] = u
      <4>1. CASE u = h
        BY <2>4, <3>3, <4>1
      <4>2. CASE u # h
        <5>1. pc'[u] = "queued" <=> pc[u] = "queued"
          BY <2>4, <4>2
        <5>2. (\E j \in DOMAIN queue: queue[j] = u) <=> \E i \in DOMAIN queue': queue'[i] = u
          BY <2>2, <3>1, <3>4, <4>2
        <5> QED BY <5>1, <5>2, <1>a DEF QueueIsWaiting
      <4> QED BY <4>1, <4>2
    <3> QED BY <3>2, <3>5 DEF QueueIsWaiting
  <2> QED BY <1>a, <1>b, <2>1, <2>2, <2>3, <2>4, <2>7, <2>8 DEF SlotsSound
<1> QED BY <1>1, <1>2

LEMMA SettleOnceKeeps ==
  ASSUME SubagentsTypeOK, SlotsSound, NEW t \in Tasks, NEW ending \in Results,
         SettleOnce(t, ending)
  PROVE  \/ pc[t] = "running" /\ Settle(t, ending)
         \/ UNCHANGED <<semaphore, pc, result>>
  BY DEF SettleOnce

-----------------------------------------------------------------------------
(* The registry.                                                           *)

\* It does not notice a step that leaves its dispatches made or unmade, and
\* settled with the result they have.
LEMMA RegistryKept ==
  ASSUME SubagentsInv, UNCHANGED <<registry, signal>>,
         \A u \in Background: /\ pc'[u] = "idle" <=> pc[u] = "idle"
                              /\ pc[u] = "settled" => /\ pc'[u] = "settled"
                                                      /\ result'[u] = result[u]
  PROVE  RegistrySound'
<1>1. record' = record /\ events' = events /\ signal' = signal
  BY DEF registry
<1>2. \A u \in Tasks \ Background: record'[u] = "none"
  BY <1>1 DEF SubagentsInv, RegistrySound
<1>3. \A u \in Tasks: signal'[u] => record'[u] = "cancelled"
  BY <1>1 DEF SubagentsInv, RegistrySound
<1>4. ASSUME NEW u \in Background
      PROVE  /\ record'[u] = "none" <=> pc'[u] = "idle"
             /\ record'[u] = "running" => events'[u] = 0
             /\ record'[u] = "done" => pc'[u] = "settled" /\ result'[u] = "ok"
             /\ record'[u] = "failed" => pc'[u] = "settled"
             /\ events'[u] <= 1
             /\ events'[u] = 1 => pc'[u] = "settled"
  <2>1. /\ pc'[u] = "idle" <=> pc[u] = "idle"
        /\ pc[u] = "settled" => pc'[u] = "settled" /\ result'[u] = result[u]
    OBVIOUS
  <2>2. /\ record[u] = "none" <=> pc[u] = "idle"
        /\ record[u] = "running" => events[u] = 0
        /\ record[u] = "done" => pc[u] = "settled" /\ result[u] = "ok"
        /\ record[u] = "failed" => pc[u] = "settled"
        /\ events[u] <= 1
        /\ events[u] = 1 => pc[u] = "settled"
    BY DEF SubagentsInv, RegistrySound
  <2> QED BY <1>1, <2>1, <2>2
<1> QED BY <1>2, <1>3, <1>4 DEF RegistrySound

\* A dispatch that nobody has a record of.
LEMMA DispatchKept ==
  ASSUME SubagentsInv, NEW t \in Tasks \ Background, pc[t] = "idle", Acquire(t),
         UNCHANGED <<result, signal, registry>>, worker' \in [Tasks -> WorkerStates]
  PROVE  SubagentsInv'
<1>1. /\ inflight' \in Nat /\ queue' \in Seq(Tasks) /\ pc' \in [Tasks -> DispatchPC]
      /\ \A u \in Tasks: u # t => pc'[u] = pc[u]
      /\ SlotsSound'
  BY AcquireKeeps DEF SubagentsInv
<1>2. SubagentsTypeOK'
  BY <1>1 DEF SubagentsInv, SubagentsTypeOK, registry
<1>3. RegistrySound'
  BY <1>1, RegistryKept, SubagentsAssumption
<1> QED BY <1>1, <1>2, <1>3 DEF SubagentsInv

\* The end of a dispatch that holds a slot, or nothing.
LEMMA SettleKept ==
  ASSUME SubagentsInv, NEW t \in Tasks, NEW ending \in Results,
         \/ pc[t] \in {"acquired", "running"} /\ Settle(t, ending)
         \/ SettleOnce(t, ending),
         UNCHANGED <<signal, registry>>, worker' \in [Tasks -> WorkerStates]
  PROVE  SubagentsInv'
<1>1. CASE UNCHANGED <<semaphore, pc, result>>
  <2>1. SubagentsTypeOK' /\ SlotsSound'
    BY <1>1 DEF SubagentsInv, SubagentsTypeOK, SlotsSound, QueueIsWaiting, SlotsAccounted,
                Holders, semaphore, registry
  <2> QED BY <1>1, <2>1, RegistryKept DEF SubagentsInv
<1>2. CASE pc[t] \in {"acquired", "running"} /\ Settle(t, ending)
  <2>1. /\ inflight' \in Nat /\ queue' \in Seq(Tasks) /\ pc' \in [Tasks -> DispatchPC]
        /\ result' \in [Tasks -> Results \cup {"none"}]
        /\ pc'[t] = "settled"
        /\ \A u \in Tasks: u # t => /\ result'[u] = result[u]
                                    /\ \/ pc'[u] = pc[u]
                                       \/ pc[u] = "queued" /\ pc'[u] = "acquired"
        /\ SlotsSound'
    BY <1>2, SettleKeeps DEF SubagentsInv
  <2>2. SubagentsTypeOK'
    BY <2>1 DEF SubagentsInv, SubagentsTypeOK, registry
  <2>3. RegistrySound'
    BY <1>2, <2>1, RegistryKept, SubagentsAssumption
  <2> QED BY <2>1, <2>2, <2>3 DEF SubagentsInv
<1> QED BY <1>1, <1>2, SettleOnceKeeps DEF SubagentsInv

\* A step of the runner or the child alone.
LEMMA WorkerKept ==
  ASSUME SubagentsInv, UNCHANGED <<semaphore, pc, result, signal, registry>>,
         worker' \in [Tasks -> WorkerStates]
  PROVE  SubagentsInv'
<1>1. SubagentsTypeOK' /\ SlotsSound'
  BY DEF SubagentsInv, SubagentsTypeOK, SlotsSound, QueueIsWaiting, SlotsAccounted, Holders,
         semaphore, registry
<1> QED BY <1>1, RegistryKept DEF SubagentsInv

-----------------------------------------------------------------------------
LEMMA SubagentsBegin == SubagentsInit => SubagentsInv
<1> SUFFICES ASSUME SubagentsInit PROVE SubagentsInv
  OBVIOUS
<1>1. SubagentsTypeOK
  BY DEF SubagentsInit, SubagentsTypeOK, DispatchPC, WorkerStates, Records
<1>2. Holders = {} /\ Cap \in Nat
  BY SubagentsAssumption DEF SubagentsInit, Holders
<1>3. SlotsSound
  BY <1>2, FS_EmptySet DEF SubagentsInit, SlotsSound, QueueIsWaiting, SlotsAccounted
<1>4. RegistrySound
  BY SubagentsAssumption DEF SubagentsInit, RegistrySound
<1> QED BY <1>1, <1>3, <1>4 DEF SubagentsInv

LEMMA SubagentsStep == SubagentsInv /\ [SubagentsNext]_subagentVars => SubagentsInv'
<1> SUFFICES ASSUME SubagentsInv, [SubagentsNext]_subagentVars PROVE SubagentsInv'
  OBVIOUS
<1>a. worker \in [Tasks -> WorkerStates] /\ Background \subseteq Tasks
  BY SubagentsAssumption DEF SubagentsInv, SubagentsTypeOK
<1>b. \A t \in Tasks, state \in WorkerStates:
        WorkerTo(t, state) => worker' \in [Tasks -> WorkerStates]
  BY <1>a DEF WorkerTo
<1>c. {"starting", "working", "awaiting", "stopping", "killing", "ended"} \subseteq WorkerStates
      /\ {"ok", "error", "timeout"} = Results
  BY DEF WorkerStates, Results
<1>1. CASE UNCHANGED subagentVars
  BY <1>1, <1>a, WorkerKept DEF subagentVars, semaphore, registry
<1>2. ASSUME NEW t \in Tasks, Task(t) PROVE SubagentsInv'
  <2>1. CASE DispatchSync(t)
    BY <2>1, <1>a, DispatchKept DEF DispatchSync
  <2>2. CASE DispatchNested(t)
    <3>1. t \in Tasks \ Background /\ Parent[t] \in Tasks
      BY <2>2, SubagentsAssumption DEF DispatchNested
    <3> QED BY <2>2, <3>1, <1>b, <1>c, DispatchKept DEF DispatchNested
  <2>3. CASE DispatchBackground(t)
    <3>1. /\ inflight' \in Nat /\ queue' \in Seq(Tasks) /\ pc' \in [Tasks -> DispatchPC]
          /\ pc'[t] \in {"queued", "acquired"}
          /\ \A u \in Tasks: u # t => pc'[u] = pc[u]
          /\ SlotsSound'
      BY <2>3, AcquireKeeps DEF DispatchBackground, SubagentsInv
    <3>2. /\ record' = [record EXCEPT ![t] = "running"] /\ t \in Background /\ pc[t] = "idle"
          /\ UNCHANGED <<result, worker, signal, events>>
      BY <2>3 DEF DispatchBackground
    <3>3. SubagentsTypeOK'
      BY <3>1, <3>2 DEF SubagentsInv, SubagentsTypeOK, Records
    <3>4. events[t] = 0 /\ ~signal[t]
      <4>1. record[t] = "none" /\ events[t] # 1 /\ ~signal[t]
        BY <3>2 DEF SubagentsInv, RegistrySound
      <4>2. events[t] \in Nat /\ events[t] <= 1
        BY <3>2 DEF SubagentsInv, SubagentsTypeOK, RegistrySound
      <4> QED BY <4>1, <4>2
    <3>5. /\ record'[t] = "running" /\ \A u \in Tasks: u # t => record'[u] = record[u]
      BY <3>2 DEF SubagentsInv, SubagentsTypeOK
    <3>6. RegistrySound'
      BY <1>a, <3>1, <3>2, <3>4, <3>5 DEF SubagentsInv, RegistrySound
    <3> QED BY <3>1, <3>3, <3>6 DEF SubagentsInv
  <2>4. CASE NestedReturns(t) \/ ChildReady(t) \/ HardKill(t)
    <3>1. Parent[t] # Top => Parent[t] \in Tasks
      BY SubagentsAssumption
    <3> QED BY <2>4, <3>1, <1>b, <1>c, WorkerKept DEF NestedReturns, ChildReady, HardKill
  <2>5. CASE Start(t)
    <3>1. /\ pc[t] = "acquired" /\ pc' = [pc EXCEPT ![t] = "running"]
          /\ UNCHANGED <<inflight, queue, result, signal, record, events>>
          /\ worker' \in [Tasks -> WorkerStates]
      BY <2>5, <1>b, <1>c DEF Start, semaphore, registry
    <3>2. /\ pc'[t] = "running" /\ \A u \in Tasks: u # t => pc'[u] = pc[u]
          /\ pc' \in [Tasks -> DispatchPC]
      BY <3>1 DEF SubagentsInv, SubagentsTypeOK, DispatchPC
    <3>3. SubagentsTypeOK'
      BY <3>1, <3>2 DEF SubagentsInv, SubagentsTypeOK
    <3>4. Holders' = Holders
      BY <3>1, <3>2 DEF Holders
    <3>5. SlotsSound'
      BY <3>1, <3>2, <3>4 DEF SubagentsInv, SlotsSound, SlotsAccounted, QueueIsWaiting
    <3>6. RegistrySound'
      BY <1>a, <3>1, <3>2, RegistryKept DEF registry
    <3> QED BY <3>3, <3>5, <3>6 DEF SubagentsInv
  <2>6. CASE Unregistered(t) \/ Timeout(t) \/ AbortDispatch(t) \/ ChildResult(t)
    BY <2>6, <1>a, <1>c, SettleKept DEF Unregistered, Timeout, AbortDispatch, ChildResult
  <2>7. CASE \/ RunnerReturns(t) \/ ReadyTimeout(t) \/ WallTimeout(t)
             \/ ChildAbort(t) \/ ChildExits(t)
    BY <2>7, <1>b, <1>c, SettleKept
    DEF RunnerReturns, ReadyTimeout, WallTimeout, ChildAbort, ChildExits
  <2>8. CASE Complete(t) \/ CancelSubagent(t)
    <3>1. UNCHANGED <<inflight, queue, pc, result, worker>> /\ Holders' = Holders
      BY <2>8 DEF Complete, CancelSubagent, semaphore, Holders
    <3>2. SlotsSound'
      BY <3>1 DEF SubagentsInv, SlotsSound, SlotsAccounted, QueueIsWaiting
    <3>3. CASE Complete(t)
      <4>1. PICK s: /\ record' = [record EXCEPT ![t] = s]
                    /\ \/ s = record[t] /\ record[t] # "running"
                       \/ s = "done" /\ result[t] = "ok" /\ record[t] = "running"
                       \/ s = "failed" /\ record[t] = "running"
        BY <3>3 DEF Complete
      <4>2. /\ t \in Background /\ pc[t] = "settled" /\ events[t] = 0
            /\ events' = [events EXCEPT ![t] = @ + 1] /\ signal' = signal
        BY <3>3 DEF Complete
      <4>3. /\ record'[t] = s /\ \A u \in Tasks: u # t => record'[u] = record[u]
            /\ events'[t] = 1 /\ \A u \in Tasks: u # t => events'[u] = events[u]
            /\ events' \in [Tasks -> Nat] /\ record' \in [Tasks -> Records]
        BY <4>1, <4>2 DEF SubagentsInv, SubagentsTypeOK, Records
      <4>4. SubagentsTypeOK'
        BY <3>1, <4>2, <4>3 DEF SubagentsInv, SubagentsTypeOK
      <4>5. RegistrySound'
        BY <1>a, <3>1, <4>1, <4>2, <4>3 DEF SubagentsInv, RegistrySound
      <4> QED BY <3>2, <4>4, <4>5 DEF SubagentsInv
    <3>4. CASE CancelSubagent(t)
      <4>1. /\ record[t] = "running" /\ record' = [record EXCEPT ![t] = "cancelled"]
            /\ signal' = [signal EXCEPT ![t] = TRUE] /\ events' = events
        BY <3>4 DEF CancelSubagent
      <4>2. /\ record'[t] = "cancelled" /\ \A u \in Tasks: u # t => record'[u] = record[u]
            /\ \A u \in Tasks: u # t => signal'[u] = signal[u]
            /\ SubagentsTypeOK'
        BY <3>1, <4>1 DEF SubagentsInv, SubagentsTypeOK, Records
      <4>3. t \in Background
        BY <4>1 DEF SubagentsInv, RegistrySound
      <4>4. RegistrySound'
        BY <1>a, <3>1, <4>1, <4>2, <4>3 DEF SubagentsInv, RegistrySound
      <4> QED BY <3>2, <4>2, <4>4 DEF SubagentsInv
    <3> QED BY <2>8, <3>3, <3>4
  <2> QED
    BY <1>2, <2>1, <2>2, <2>3, <2>4, <2>5, <2>6, <2>7, <2>8 DEF Task
<1> QED BY <1>1, <1>2 DEF SubagentsNext

THEOREM SubagentsInvariance == SubagentsSpec => []SubagentsInv
BY SubagentsBegin, SubagentsStep, PTL DEF SubagentsSpec

-----------------------------------------------------------------------------
(***************************************************************************)
(* Types, for every set of tasks and every cap.                            *)
(***************************************************************************)
THEOREM SubagentsTypeCorrect == SubagentsSpec => []SubagentsTypeOK
<1>1. SubagentsInv => SubagentsTypeOK
  BY DEF SubagentsInv
<1> QED BY <1>1, SubagentsInvariance, PTL

(***************************************************************************)
(* release() in finally, the hand-over to the queue's head and the several *)
(* racing outcomes of a dispatch keep the count equal to the holders.      *)
(***************************************************************************)
THEOREM SlotsAreAccounted == SubagentsSpec => []SlotsAccounted
<1>1. SubagentsInv => SlotsAccounted
  BY DEF SubagentsInv, SlotsSound
<1> QED BY <1>1, SubagentsInvariance, PTL

(***************************************************************************)
(* complete() and cancelSubagent(), in either order, announce the end of a *)
(* background run at most once, and never a cancelled one as done.         *)
(***************************************************************************)
THEOREM EndsAreAnnouncedOnce == SubagentsSpec => []AnnouncedOnce
<1>1. SubagentsInv => AnnouncedOnce
  <2> SUFFICES ASSUME SubagentsInv, NEW t \in Background
               PROVE  /\ events[t] <= 1
                      /\ events[t] = 1 => /\ record[t] \in {"done", "failed", "cancelled"}
                                          /\ pc[t] = "settled"
                      /\ record[t] = "done" => result[t] = "ok"
                      /\ signal[t] => record[t] = "cancelled"
    BY DEF AnnouncedOnce
  <2>1. t \in Tasks /\ record[t] \in Records
    BY SubagentsAssumption DEF SubagentsInv, SubagentsTypeOK
  <2> QED BY <2>1 DEF SubagentsInv, RegistrySound, Records
<1> QED BY <1>1, SubagentsInvariance, PTL
=============================================================================
