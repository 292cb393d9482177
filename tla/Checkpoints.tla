---------------------------- MODULE Checkpoints ----------------------------
(***************************************************************************)
(* Automatic checkpoints of src/src/core/checkpoints: every call of a      *)
(* mutating tool is wrapped (middleware.ts) to record the file before and  *)
(* after it; /rewind (rewind.ts) writes the `before` contents back.        *)
(*                                                                         *)
(* A checkpoint is two writes: its own file, then the conversation's       *)
(* index under the file lock.  A process may die between any two steps.    *)
(* /rewind takes no lock and may run beside a round of the conversation.   *)
(***************************************************************************)
EXTENDS Naturals, SequencesExt, FiniteSets

CONSTANTS
    Files, Callers,    \* a caller is a round: its tool calls come one by one
    MaxCalls,          \* bound: tool calls
    MaxRewinds,        \* bound: /rewind commands
    MaxFaults          \* bound: deaths of the process, reads and writes that
                       \* fail and changes of files by others (bash, an editor)

Free == "free"              \* a lock that nobody holds

ASSUME CheckpointsAssumption == Free \notin Callers /\ MaxCalls \in Nat

ToolCalls == 1..MaxCalls    \* call n writes content n, unless it is large
NoFile == 0
NoPath == "none"
Large == MaxCalls + 1       \* more than MAX_SNAPSHOT_BYTES: a hash is kept
Other == MaxCalls + 2
Binary == MaxCalls + 3      \* not UTF-8
Mangled == MaxCalls + 4     \* Binary once decoded: its bad bytes are replaced
Contents == 0..Mangled

VARIABLES
    file,      \* the workspace
    was,       \* history: what each call's file held when the call began
    touches,   \* history: the file of each call
    misread,   \* history: the calls whose file could not be read beforehand
    caller,    \* the wrapped execute() of each round
    calls,     \* tool calls begun
    clock,     \* Date.now(), in ticks that several calls may share
    stored,    \* the checkpoint files on disk
    index,     \* index.json, newest first
    lock,      \* withFileLock(indexFile): who holds it
    rewind,    \* the /rewind under way
    rewinds, faults

checkpointsVars ==
    <<file, was, touches, misread, caller, calls, clock, stored, index, lock, rewind,
      rewinds, faults>>

Idle == [pc |-> "idle", id |-> 0, path |-> NoPath, before |-> NoFile, ts |-> 0,
         read |-> <<>>]
NoRewind == [todo |-> <<>>, entries |-> <<>>, calm |-> TRUE]

CheckpointsInit ==
    /\ file = [f \in Files |-> NoFile]
    /\ was = [n \in ToolCalls |-> NoFile] /\ touches = [n \in ToolCalls |-> NoPath]
    /\ misread = {}
    /\ caller = [c \in Callers |-> Idle]
    /\ calls = 0 /\ clock = 1
    /\ stored = {} /\ index = <<>> /\ lock = Free
    /\ rewind = NoRewind
    /\ rewinds = 0 /\ faults = 0

SetCaller(c, r) == caller' = [caller EXCEPT ![c] = r]
Advance(c, pc) == SetCaller(c, [caller[c] EXCEPT !.pc = pc])

-----------------------------------------------------------------------------
(* wrapMutateTool.                                                         *)

\* snapshotFile: `buf.toString("utf-8")`
Decoded(content) == IF content = Binary THEN Mangled ELSE content

\* the snapshot before the tool; a file that cannot be read counts as absent.
\* Calls of overlapping rounds touch different files: two calls on one file at
\* once have no "before" to speak of.
SnapBefore(c, f) ==
    /\ caller[c].pc = "idle" /\ calls < MaxCalls
    /\ \A d \in Callers: caller[d].pc = "idle" \/ caller[d].path # f
    /\ calls' = calls + 1
    /\ \E before \in {Decoded(file[f]), NoFile}:
          /\ SetCaller(c, [Idle EXCEPT !.pc = "snapped", !.id = calls', !.path = f,
                                       !.before = before])
          /\ \/ before = Decoded(file[f]) /\ UNCHANGED <<misread, faults>>
             \/ /\ before = NoFile /\ misread' = misread \cup {calls'}
                /\ faults < MaxFaults /\ faults' = faults + 1
    /\ was' = [was EXCEPT ![calls'] = file[f]]
    /\ touches' = [touches EXCEPT ![calls'] = f]
    /\ UNCHANGED <<file, clock, stored, index, lock, rewind, rewinds>>

\* bug: the checkpoint keeps the file as it is after the tool
Bug_BeforeTooLate(c) ==
    /\ caller[c].pc = "snapped"
    /\ \E content \in {caller[c].id, Large}:
          /\ file' = [file EXCEPT ![caller[c].path] = content]
          /\ clock' \in {clock, clock + 1}
          /\ SetCaller(c, [caller[c] EXCEPT !.pc = "ran", !.ts = clock',
                                            !.before = content])
    /\ rewind' = [rewind EXCEPT !.calm = FALSE]
    /\ UNCHANGED <<was, touches, misread, calls, stored, index, lock, rewinds,
                   faults>>

\* the tool writes the file, small or large, and the checkpoint is stamped (two
\* calls may share a tick); or it fails, and nothing is recorded
RunTool(c) ==
    /\ caller[c].pc = "snapped"
    /\ \/ /\ \E content \in {caller[c].id, Large}:
                file' = [file EXCEPT ![caller[c].path] = content]
          /\ clock' \in {clock, clock + 1}
          /\ SetCaller(c, [caller[c] EXCEPT !.pc = "ran", !.ts = clock'])
          /\ rewind' = [rewind EXCEPT !.calm = FALSE]
       \/ SetCaller(c, Idle) /\ UNCHANGED <<file, clock, rewind>>
    /\ UNCHANGED <<was, touches, misread, calls, stored, index, lock, rewinds,
                   faults>>

\* writeCheckpoint: the checkpoint's own file comes first
StoreFile(c) ==
    /\ caller[c].pc = "ran"
    /\ stored' = stored \cup {[id |-> caller[c].id, path |-> caller[c].path,
                               before |-> caller[c].before]}
    /\ Advance(c, "stored")
    /\ UNCHANGED <<file, was, touches, misread, calls, clock, index, lock, rewind, rewinds,
                   faults>>

ReadIndex(c) ==
    /\ caller[c].pc = "stored" /\ lock = Free
    /\ lock' = c
    /\ SetCaller(c, [caller[c] EXCEPT !.pc = "read", !.read = index])
    /\ UNCHANGED <<file, was, touches, misread, calls, clock, stored, index, rewind, rewinds,
                   faults>>

\* push, then a stable sort by descending timestamp: of the rows, which are
\* sorted, the new one comes behind those that have its timestamp or a later one
Fits(rows, row, k) ==
    /\ \A i \in 1..k: rows[i].ts >= row.ts
    /\ \A i \in (k + 1)..Len(rows): rows[i].ts < row.ts

WriteIndex(c) ==
    /\ caller[c].pc = "read"
    /\ LET row == [id |-> caller[c].id, ts |-> caller[c].ts]
       IN  \E k \in 0..Len(caller[c].read):
              Fits(caller[c].read, row, k) /\ index' = InsertAt(caller[c].read, k + 1, row)
    /\ lock' = Free
    /\ SetCaller(c, Idle)
    /\ UNCHANGED <<file, was, touches, misread, calls, clock, stored, rewind, rewinds,
                   faults>>

\* "never fail a completed write because the cache write hiccuped"
RecordFails(c) ==
    /\ faults < MaxFaults /\ faults' = faults + 1
    /\ caller[c].pc \in {"ran", "stored", "read"}
    /\ lock' = IF lock = c THEN Free ELSE lock
    /\ SetCaller(c, Idle)
    /\ UNCHANGED <<file, was, touches, misread, calls, clock, stored, index, rewind,
                   rewinds>>

-----------------------------------------------------------------------------
(* /rewind <N> and /rewind <id>: both roll back a prefix of the index.     *)

\* bug: the prefix is applied oldest first
Bug_OldestFirst(rows, n) == [i \in 1..n |-> rows[n + 1 - i]]

Prefix(rows, n) == SubSeq(rows, 1, n)

StartRewind(n) ==
    /\ rewind.todo = <<>> /\ rewinds < MaxRewinds
    /\ rewind' = [todo |-> Prefix(index, n), entries |-> SubSeq(index, 1, n),
                  calm |-> \A c \in Callers: caller[c].pc # "snapped"]
    /\ rewinds' = rewinds + 1
    /\ UNCHANGED <<file, was, touches, misread, caller, calls, clock, stored, index, lock,
                   faults>>

\* readCheckpoint and applyCheckpointBefore: an unreadable checkpoint and a
\* large `before` are passed over
Restore ==
    /\ rewind.todo # <<>>
    /\ LET here == {s \in stored: s.id = Head(rewind.todo).id /\ s.before # Large}
       IN  file' = [f \in Files |->
                      IF \E s \in here: s.path = f
                      THEN (CHOOSE s \in here: s.path = f).before ELSE file[f]]
    /\ rewind' = [rewind EXCEPT !.todo = Tail(@)]
    /\ UNCHANGED <<was, touches, misread, caller, calls, clock, stored, index, lock, rewinds,
                   faults>>

\* a write that throws ends the rewind; a checkpoint that cannot be read and an
\* unlink that fails are passed over
RestoreFails ==
    /\ rewind.todo # <<>> /\ faults < MaxFaults /\ faults' = faults + 1
    /\ rewind' \in {NoRewind, [rewind EXCEPT !.todo = Tail(@), !.calm = FALSE]}
    /\ UNCHANGED <<file, was, touches, misread, caller, calls, clock, stored, index, lock,
                   rewinds>>

-----------------------------------------------------------------------------
(* The environment.                                                        *)

\* a file changes without a checkpoint (bash, another conversation, an editor)
OtherChange(f) ==
    /\ faults < MaxFaults
    /\ \A c \in Callers: caller[c].pc = "idle" \/ caller[c].path # f
    /\ \E content \in {NoFile, Other, Binary}: file' = [file EXCEPT ![f] = content]
    /\ rewind' = [rewind EXCEPT !.calm = FALSE]
    /\ faults' = faults + 1
    /\ UNCHANGED <<was, touches, misread, caller, calls, clock, stored, index, lock,
                   rewinds>>

ServerDies ==
    /\ faults < MaxFaults
    /\ faults' = faults + 1
    /\ caller' = [c \in Callers |-> Idle]
    /\ lock' = Free
    /\ rewind' = NoRewind
    /\ UNCHANGED <<file, was, touches, misread, calls, clock, stored, index, rewinds>>

CheckpointsNext ==
    \/ \E c \in Callers:
          \/ \E f \in Files: SnapBefore(c, f)
          \/ RunTool(c) \/ StoreFile(c) \/ ReadIndex(c)
          \/ WriteIndex(c) \/ RecordFails(c)
    \/ \E n \in 1..Len(index): StartRewind(n)
    \/ Restore \/ RestoreFails
    \/ \E f \in Files: OtherChange(f)
    \/ ServerDies

CheckpointsSpec == CheckpointsInit /\ [][CheckpointsNext]_checkpointsVars

-----------------------------------------------------------------------------
(***************************************************************************)
(* Types.  A row of the index names a call; a checkpoint keeps what its    *)
(* file held.                                                              *)
(***************************************************************************)
Row == [id: ToolCalls, ts: Nat]

CheckpointsTypeOK ==
    /\ file \in [Files -> Contents] /\ was \in [ToolCalls -> Contents]
    /\ touches \in [ToolCalls -> Files \cup {NoPath}] /\ misread \subseteq ToolCalls
    /\ caller \in [Callers -> [pc: {"idle", "snapped", "ran", "stored", "read"},
                                id: ToolCalls \cup {0}, path: Files \cup {NoPath},
                                before: Contents, ts: Nat, read: Seq(Row)]]
    /\ calls \in 0..MaxCalls /\ clock \in Nat
    /\ stored \subseteq [id: ToolCalls, path: Files, before: Contents]
    /\ index \in Seq(Row) /\ lock \in Callers \cup {Free}
    /\ rewind \in [todo: Seq(Row), entries: Seq(Row), calm: BOOLEAN]
    /\ {rewinds, faults} \subseteq Nat

-----------------------------------------------------------------------------
Rolled == {rewind.entries[i].id: i \in DOMAIN rewind.entries}
\* the first of the calls rolled back that touched the file
Earliest(f) == CHOOSE n \in Rolled: /\ touches[n] = f
                                    /\ \A m \in Rolled: touches[m] = f => n <= m
\* rows that share a timestamp are listed in the wrong order
Untied == \A i, j \in DOMAIN index: index[i].ts = index[j].ts => i = j

\* what the middleware made of what a call's file held
Preserved(n) == IF n \in misread THEN NoFile ELSE Decoded(was[n])

(***************************************************************************)
(* A rewind to before a checkpoint, whose own writes succeed, gives every  *)
(* file that was touched since the content it had when the first of those  *)
(* calls began, as far as that was kept: after earlier rewinds, failed and *)
(* lost checkpoints and changes by others too, unless a file was changed   *)
(* meanwhile, was too large, or timestamps collide.  What is kept is text: *)
(* a file that is not UTF-8 comes back with its bad bytes replaced, and    *)
(* one that could not be read when the call began is deleted.              *)
(***************************************************************************)
RewindRestores ==
    [][Len(rewind.todo) = 1 /\ rewind' = [rewind EXCEPT !.todo = <<>>] /\ Untied
         /\ rewind.calm
       => \A f \in {touches[n]: n \in Rolled}:
             \/ Preserved(Earliest(f)) = Large
             \/ file'[f] = Preserved(Earliest(f))]_checkpointsVars
=============================================================================
