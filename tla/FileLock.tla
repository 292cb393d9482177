------------------------------ MODULE FileLock ------------------------------
(***************************************************************************)
(* withFileLock of src/src/core/chat/store.ts: a per-file chain of         *)
(* promises that serialises read-modify-write cycles on files shared by    *)
(* concurrent requests (profile, checkpoints, annotations, todo lists...). *)
(*                                                                         *)
(* Each call chains itself behind the calls made before it on its key.     *)
(* The chain of a call is settled when it and every call before it has     *)
(* been released, so the model keeps the position of a call in the chain.  *)
(* The function passed in reads the file, computes and writes it back; it  *)
(* may throw at either await.                                              *)
(***************************************************************************)
EXTENDS Integers, Sequences

CONSTANTS
    Calls,     \* calls of withFileLock; each is made at most once
    Keys,      \* files
    Key        \* the file of each call

ASSUME FileLockAssumption == Key \in [Calls -> Keys]

VARIABLES
    pc,        \* where the call is suspended
    position,  \* place of a call in the chain of its key
    tail,      \* length of the chain: fileLocks.get(key) is its last link
    snap,      \* what the call's function has read
    disk,      \* content of each file: the updates it incorporates
    result     \* how the promise of the call settled

vars == <<pc, position, tail, snap, disk, result>>

PC == {"idle", "queued", "inside", "loaded", "done"}

Init ==
    /\ pc = [c \in Calls |-> "idle"]
    /\ position = [c \in Calls |-> 0]
    /\ tail = [k \in Keys |-> 0]
    /\ snap = [c \in Calls |-> <<>>]
    /\ disk = [k \in Keys |-> <<>>]
    /\ result = [c \in Calls |-> "pending"]

Before(d, c) == Key[d] = Key[c] /\ pc[d] # "idle" /\ position[d] < position[c]

\* the synchronous prefix: prev is the tail, and this call becomes the tail
Chain(c) ==
    /\ pc[c] = "idle"
    /\ pc' = [pc EXCEPT ![c] = "queued"]
    /\ position' = [position EXCEPT ![c] = tail[Key[c]] + 1]
    /\ tail' = [tail EXCEPT ![Key[c]] = @ + 1]
    /\ UNCHANGED <<snap, disk, result>>

\* bug: a link is released only when its function succeeds
Bug_AwaitSuccess(c) ==
    /\ pc[c] = "queued"
    /\ \A d \in Calls: Before(d, c) => result[d] = "ok"
    /\ pc' = [pc EXCEPT ![c] = "inside"]
    /\ UNCHANGED <<position, tail, snap, disk, result>>

\* await prev: every earlier link has been released; fn() starts its read
Enter(c) ==
    /\ pc[c] = "queued"
    /\ \A d \in Calls: Before(d, c) => pc[d] = "done"
    /\ pc' = [pc EXCEPT ![c] = "inside"]
    /\ UNCHANGED <<position, tail, snap, disk, result>>

Load(c) ==
    /\ pc[c] = "inside"
    /\ snap' = [snap EXCEPT ![c] = disk[Key[c]]]
    /\ pc' = [pc EXCEPT ![c] = "loaded"]
    /\ UNCHANGED <<position, tail, disk, result>>

\* the whole file is rewritten from the snapshot; then finally: release()
Store(c) ==
    /\ pc[c] = "loaded"
    /\ disk' = [disk EXCEPT ![Key[c]] = Append(snap[c], c)]
    /\ result' = [result EXCEPT ![c] = "ok"]
    /\ pc' = [pc EXCEPT ![c] = "done"]
    /\ UNCHANGED <<position, tail, snap>>

\* bug: the error is reported after the file was replaced
Bug_ThrowAfterWrite(c) ==
    /\ pc[c] \in {"inside", "loaded"}
    /\ disk' = IF pc[c] = "loaded"
               THEN [disk EXCEPT ![Key[c]] = Append(snap[c], c)] ELSE disk
    /\ result' = [result EXCEPT ![c] = "threw"]
    /\ pc' = [pc EXCEPT ![c] = "done"]
    /\ UNCHANGED <<position, tail, snap>>

\* fn() throws: the caller sees the error, the finally clause releases
Throw(c) ==
    /\ pc[c] \in {"inside", "loaded"}
    /\ result' = [result EXCEPT ![c] = "threw"]
    /\ pc' = [pc EXCEPT ![c] = "done"]
    /\ UNCHANGED <<position, tail, snap, disk>>

Next == \E c \in Calls: Chain(c) \/ Enter(c) \/ Load(c) \/ Store(c) \/ Throw(c)

Spec == Init /\ [][Next]_vars

\* Continuations run, and file operations complete or fail.
Fairness ==
    \A c \in Calls:
        WF_vars(Enter(c)) /\ WF_vars(Load(c)) /\ WF_vars(Store(c) \/ Throw(c))

FairSpec == Spec /\ Fairness

-----------------------------------------------------------------------------
TypeOK ==
    /\ pc \in [Calls -> PC]
    /\ position \in [Calls -> Nat]
    /\ tail \in [Keys -> Nat]
    /\ snap \in [Calls -> Seq(Calls)]
    /\ disk \in [Keys -> Seq(Calls)]
    /\ result \in [Calls -> {"pending", "ok", "threw"}]

Inside(c) == pc[c] \in {"inside", "loaded"}

(***************************************************************************)
(* Two functions are never inside the lock of the same file.               *)
(***************************************************************************)
MutualExclusion ==
    \A c, d \in Calls: Inside(c) /\ Inside(d) /\ Key[c] = Key[d] => c = d

(***************************************************************************)
(* What a function has read is still what the file holds when it writes:   *)
(* no update is lost.                                                      *)
(***************************************************************************)
SnapshotIsFresh ==
    \A c \in Calls: pc[c] = "loaded" => snap[c] = disk[Key[c]]

(***************************************************************************)
(* The safety part of the next one: a call that waits always has a call of *)
(* its chain before it, or is itself one, that waits for no other.         *)
(***************************************************************************)
ChainIsNeverStuck ==
    \A c \in Calls: pc[c] = "queued" =>
        \E d \in Calls:
            /\ Key[d] = Key[c] /\ position[d] <= position[c]
            /\ \/ Inside(d)
               \/ /\ pc[d] = "queued"
                  /\ \A e \in Calls: Before(e, d) => pc[e] = "done"

(***************************************************************************)
(* "the dir would deadlock permanently": a call that throws does not keep  *)
(* the ones queued behind it from running.                                 *)
(***************************************************************************)
QueuedCallsRun == \A c \in Calls: pc[c] = "queued" ~> result[c] # "pending"

(***************************************************************************)
(* The callers' view: atomic updates.                                      *)
(***************************************************************************)
Atomic == INSTANCE AtomicStore WITH value <- disk
RefinesAtomicStore == Atomic!Spec
=============================================================================
