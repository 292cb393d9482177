--------------------------- MODULE Storage_proofs ---------------------------
(***************************************************************************)
(* The parts that keep the program's files.                                *)
(*                                                                         *)
(* FileLock: mutual exclusion of withFileLock, freshness of what a         *)
(* function reads under the lock, and the refinement of AtomicStore.       *)
(*                                                                         *)
(* AtomicWrite: type correctness, NeverTorn and FailedIsInvisible for any  *)
(* number of writes and crashes.  The invariant looks at every content the *)
(* target may still fall back to, not only at the one it has: a loss of    *)
(* power brings an older one back.                                         *)
(*                                                                         *)
(* Checkpoints: type correctness and RewindRestores, for any files, tool   *)
(* calls, rewinds and faults.  The invariant follows a call from what it   *)
(* read to the row it adds, and a rewind from the rows it listed to the    *)
(* files it has written; rows keep the order in which they were taken.     *)
(*                                                                         *)
(* Plans: a plan stays readable through torn appends, and its streams miss *)
(* no frame, for any number of clients, streams, frames and deaths.        *)
(***************************************************************************)
EXTENDS FileLock, AtomicWrite, Checkpoints, Plans, WellFoundedInduction, TLAPS

-----------------------------------------------------------------------------
(* Numbers.                                                                *)

LEMMA LeastNatural ==
    ASSUME NEW S \in SUBSET Nat, S # {}
    PROVE  \E i \in S: \A j \in S: i <= j
<1>1. PICK i \in S: \A j \in S: ~(<<j, i>> \in OpToRel(<, Nat))
    BY WFMin, NatLessThanWellFounded
<1>2. \A j \in S: ~(j < i)
    BY <1>1 DEF OpToRel
<1> QED
    BY <1>2

LEMMA GreatestNatural ==
    ASSUME NEW n \in Nat, NEW S \in SUBSET (1..n), S # {}
    PROVE  \E i \in S: \A j \in S: i >= j
<1> DEFINE T == {n - i: i \in S}
<1>0. \A i \in S: i \in Int /\ n - i \in Nat
    OBVIOUS
<1>1. T \in SUBSET Nat /\ T # {}
    BY <1>0
<1>2. PICK x \in T: \A y \in T: x <= y
    BY <1>1, LeastNatural
<1>3. PICK i \in S: x = n - i
    BY <1>2
<1>4. ASSUME NEW j \in S PROVE i >= j
  <2>1. n - i <= n - j
      BY <1>2, <1>3
  <2> HIDE DEF T
  <2>2. i \in 1..n /\ j \in 1..n
      OBVIOUS
  <2> QED
      BY <2>1, <2>2
<1> QED
    BY <1>4

-----------------------------------------------------------------------------
(* FileLock.                                                               *)

Called(c) == pc[c] # "idle"

\* The links of one chain are at distinct positions, none beyond the tail.
Linked ==
    /\ \A c \in Calls: Called(c) => position[c] <= tail[Key[c]]
    /\ \A c, d \in Calls:
          Called(c) /\ Called(d) /\ Key[c] = Key[d] /\ c # d
             => position[c] # position[d]

\* A call past its await has every earlier link of its chain behind it.
EarlierDone ==
    \A c, d \in Calls: Inside(c) /\ Before(d, c) => pc[d] = "done"

\* The promise of a call settles when its link is released.
Unsettled == \A c \in Calls: result[c] = "pending" <=> pc[c] # "done"

Inv == TypeOK /\ Linked /\ EarlierDone /\ Unsettled /\ SnapshotIsFresh

-----------------------------------------------------------------------------
LEMMA AppendType ==
    ASSUME NEW s \in Seq(Calls), NEW c \in Calls
    PROVE  Append(s, c) \in Seq(Calls)
OBVIOUS

(***************************************************************************)
(* The links that precede a call inside the lock are released, and of two  *)
(* links of a chain one precedes the other.                                *)
(***************************************************************************)
LEMMA ExclusionFromLinks ==
    ASSUME TypeOK, Linked, EarlierDone
    PROVE  MutualExclusion
<1> SUFFICES ASSUME NEW c \in Calls, NEW d \in Calls, Inside(c), Inside(d),
                    Key[c] = Key[d], c # d
             PROVE  FALSE
    BY DEF MutualExclusion
<1>1. Called(c) /\ Called(d) /\ pc[c] # "done" /\ pc[d] # "done"
    BY DEF Inside, Called
<1>2. position[c] \in Nat /\ position[d] \in Nat /\ position[c] # position[d]
    BY <1>1 DEF TypeOK, Linked
<1>3. Before(c, d) \/ Before(d, c)
    BY <1>1, <1>2 DEF Before, Called
<1> QED BY <1>1, <1>3 DEF EarlierDone

LEMMA InitInv == Init => Inv
BY FileLockAssumption DEF Init, Inv, TypeOK, PC, Linked, EarlierDone, Unsettled,
                          SnapshotIsFresh, Called, Inside, Before

(***************************************************************************)
(* The invariant is inductive.                                             *)
(***************************************************************************)
LEMMA StepInv == Inv /\ [Next]_vars => Inv'
<1> SUFFICES ASSUME Inv, [Next]_vars PROVE Inv'
    OBVIOUS
<1> USE FileLockAssumption
<1>0. MutualExclusion
    BY ExclusionFromLinks DEF Inv
<1>1. CASE UNCHANGED vars
    BY <1>1 DEF Inv, vars, TypeOK, Linked, EarlierDone, Unsettled,
                SnapshotIsFresh, Called, Inside, Before
<1>2. ASSUME NEW c \in Calls, Chain(c) PROVE Inv'
  <2>1. TypeOK'
      BY <1>2 DEF Inv, TypeOK, PC, Chain
  <2>2. Linked'
      BY SMTT(30), <1>2 DEF Inv, TypeOK, Linked, Called, Chain
  <2>3. EarlierDone'
    <3> SUFFICES ASSUME NEW a \in Calls, NEW b \in Calls, Inside(a)', Before(b, a)'
                 PROVE  pc'[b] = "done"
        BY DEF EarlierDone
    <3>1. a # c /\ Inside(a) /\ position'[a] = position[a] /\ Key[a] = Key[b]
        BY <1>2 DEF Inv, TypeOK, Inside, Before, Chain
    <3>2. position[a] <= tail[Key[a]] /\ position[a] \in Nat /\ tail[Key[a]] \in Nat
        BY <3>1 DEF Inv, TypeOK, Linked, Called, Inside
    <3>3. b # c
        BY <1>2, <3>1, <3>2 DEF Inv, TypeOK, Before, Chain
    <3> QED BY <1>2, <3>1, <3>3 DEF Inv, TypeOK, EarlierDone, Before, Chain
  <2>4. Unsettled' /\ SnapshotIsFresh'
      BY <1>2 DEF Inv, TypeOK, Unsettled, SnapshotIsFresh, Chain
  <2> QED BY <2>1, <2>2, <2>3, <2>4 DEF Inv
<1>3. ASSUME NEW c \in Calls, Enter(c) PROVE Inv'
  <2>1. TypeOK'
      BY <1>3 DEF Inv, TypeOK, PC, Enter
  <2>2. Linked'
      BY <1>3 DEF Inv, TypeOK, Linked, Called, Enter
  <2>3. EarlierDone'
      BY <1>3 DEF Inv, TypeOK, EarlierDone, Inside, Before, Enter
  <2>4. Unsettled' /\ SnapshotIsFresh'
      BY <1>3 DEF Inv, TypeOK, Unsettled, SnapshotIsFresh, Enter
  <2> QED BY <2>1, <2>2, <2>3, <2>4 DEF Inv
<1>4. ASSUME NEW c \in Calls, Load(c) PROVE Inv'
  <2>1. TypeOK'
      BY <1>4 DEF Inv, TypeOK, PC, Load
  <2>2. Linked'
      BY <1>4 DEF Inv, TypeOK, Linked, Called, Load
  <2>3. EarlierDone'
      BY <1>4 DEF Inv, TypeOK, EarlierDone, Inside, Before, Load
  <2>4. Unsettled' /\ SnapshotIsFresh'
      BY <1>4 DEF Inv, TypeOK, Unsettled, SnapshotIsFresh, Load
  <2> QED BY <2>1, <2>2, <2>3, <2>4 DEF Inv
<1>5. ASSUME NEW c \in Calls, Store(c) PROVE Inv'
  <2>1. TypeOK'
    <3>1. Append(snap[c], c) \in Seq(Calls)
        BY AppendType DEF Inv, TypeOK
    <3> QED BY <1>5, <3>1 DEF Inv, TypeOK, PC, Store
  <2>2. Linked'
      BY <1>5 DEF Inv, TypeOK, Linked, Called, Store
  <2>3. EarlierDone'
      BY <1>5 DEF Inv, TypeOK, EarlierDone, Inside, Before, Store
  <2>4. Unsettled'
      BY <1>5 DEF Inv, TypeOK, Unsettled, Store
  <2>5. SnapshotIsFresh'
      BY <1>5, <1>0 DEF Inv, TypeOK, SnapshotIsFresh, MutualExclusion, Inside, Store
  <2> QED BY <2>1, <2>2, <2>3, <2>4, <2>5 DEF Inv
<1>6. ASSUME NEW c \in Calls, Throw(c) PROVE Inv'
  <2>1. TypeOK'
      BY <1>6 DEF Inv, TypeOK, PC, Throw
  <2>2. Linked'
      BY <1>6 DEF Inv, TypeOK, Linked, Called, Throw
  <2>3. EarlierDone'
      BY <1>6 DEF Inv, TypeOK, EarlierDone, Inside, Before, Throw
  <2>4. Unsettled' /\ SnapshotIsFresh'
      BY <1>6 DEF Inv, TypeOK, Unsettled, SnapshotIsFresh, Throw
  <2> QED BY <2>1, <2>2, <2>3, <2>4 DEF Inv
<1> QED BY <1>1, <1>2, <1>3, <1>4, <1>5, <1>6 DEF Next

THEOREM Invariance == Spec => []Inv
BY InitInv, StepInv, PTL DEF Spec

-----------------------------------------------------------------------------
(***************************************************************************)
(* Types, for every set of calls and files.                                *)
(***************************************************************************)
THEOREM TypeCorrect == Spec => []TypeOK
<1>1. Inv => TypeOK
    BY DEF Inv
<1> QED BY <1>1, Invariance, PTL

(***************************************************************************)
(* No two functions are inside the lock of one file: lines 169 to 176 of   *)
(* src/src/core/chat/store.ts.                                             *)
(***************************************************************************)
THEOREM Exclusion == Spec => []MutualExclusion
<1>1. Inv => MutualExclusion
    BY ExclusionFromLinks DEF Inv
<1> QED BY <1>1, Invariance, PTL

(***************************************************************************)
(* withFileLock cannot hang by itself: of the calls of a chain that are    *)
(* not done the first waits for none, so a call that waits has a call      *)
(* ahead of it that only its own function, or nothing, holds up; also when *)
(* functions throw.                                                        *)
(***************************************************************************)
THEOREM ChainsMove == Spec => []ChainIsNeverStuck
<1>1. ASSUME Inv PROVE ChainIsNeverStuck
  <2> SUFFICES ASSUME NEW c \in Calls, pc[c] = "queued"
               PROVE  \E d \in Calls:
                         /\ Key[d] = Key[c] /\ position[d] <= position[c]
                         /\ \/ Inside(d)
                            \/ /\ pc[d] = "queued"
                               /\ \A e \in Calls: Before(e, d) => pc[e] = "done"
      BY DEF ChainIsNeverStuck
  <2> DEFINE Open == {d \in Calls: Key[d] = Key[c] /\ pc[d] \notin {"idle", "done"}}
             places == {position[d]: d \in Open}
  <2>1. /\ position \in [Calls -> Nat] /\ pc \in [Calls -> PC]
        /\ c \in Open
      BY <1>1 DEF Inv, TypeOK
  <2>2. places \in SUBSET Nat /\ position[c] \in places
      BY <2>1
  <2>3. PICK least \in places: \A n \in places: least <= n
      BY <2>2, LeastNatural
  <2>4. PICK d \in Open: least = position[d]
      BY <2>3
  <2>5. \A e \in Open: position[d] <= position[e]
      BY <2>3, <2>4
  <2>6. ASSUME NEW e \in Calls, Before(e, d) PROVE pc[e] = "done"
    <3>1. Key[e] = Key[c] /\ pc[e] # "idle" /\ ~(position[d] <= position[e])
        BY <2>1, <2>4, <2>6 DEF Before
    <3> QED BY <2>5, <3>1
  <2>7. pc[d] = "queued" \/ Inside(d)
      BY <2>1, <2>4 DEF PC, Inside
  <2> QED BY <2>1, <2>4, <2>5, <2>6, <2>7
<1> QED BY <1>1, Invariance, PTL

(***************************************************************************)
(* A function writes back what it computed from the current content.       *)
(***************************************************************************)
THEOREM FreshSnapshots == Spec => []SnapshotIsFresh
<1>1. Inv => SnapshotIsFresh
    BY DEF Inv
<1> QED BY <1>1, Invariance, PTL

(***************************************************************************)
(* The lock makes each call an atomic update: Store is the abstract        *)
(* update, Throw the abstract failure, and the other steps stutter.        *)
(***************************************************************************)
THEOREM Implements == Spec => RefinesAtomicStore
<1>1. Init => Atomic!Init
    BY DEF Init, Atomic!Init
<1>2. Inv /\ [Next]_vars => [Atomic!Next]_<<disk, result>>
  <2> SUFFICES ASSUME Inv, [Next]_vars
               PROVE  Atomic!Next \/ UNCHANGED <<disk, result>>
      OBVIOUS
  <2>1. CASE UNCHANGED vars
      BY <2>1 DEF vars
  <2>2. ASSUME NEW c \in Calls, Chain(c) \/ Enter(c) \/ Load(c)
        PROVE  UNCHANGED <<disk, result>>
      BY <2>2 DEF Chain, Enter, Load
  <2>3. ASSUME NEW c \in Calls, Store(c) PROVE Atomic!Update(c)
      BY <2>3 DEF Inv, Unsettled, SnapshotIsFresh, Store, Atomic!Update
  <2>4. ASSUME NEW c \in Calls, Throw(c) PROVE Atomic!Fail(c)
      BY <2>4 DEF Inv, Unsettled, Throw, Atomic!Fail
  <2> QED BY <2>1, <2>2, <2>3, <2>4 DEF Next, Atomic!Next
<1> QED BY <1>1, <1>2, Invariance, PTL DEF Spec, RefinesAtomicStore, Atomic!Spec

-----------------------------------------------------------------------------
(* AtomicWrite.                                                            *)

\* What a rename may move: a synced file is whole, unless the sweep took it.
SyncedIsWhole == \A w \in Writes: stage[w] = "synced" => tmp[w] \in {"whole", "absent"}

\* Every content of the target is whole, and its writer was told so.
TargetsAreSound ==
    \A i \in DOMAIN targets:
        /\ targets[i].data = "whole"
        /\ \A w \in targets[i].by: stage[w] = "ok"

WriteInv == WriteTypeOK /\ SyncedIsWhole /\ TargetsAreSound

LEMMA LastOf ==
    ASSUME NEW S, NEW s \in Seq(S), s # <<>>
    PROVE  Len(s) \in 1 .. Len(s) /\ Last(s) = s[Len(s)] /\ Last(s) \in S
BY DEF Last

\* A crash takes the calls in flight and leaves the settled ones settled.
LEMMA DiedFacts ==
    ASSUME WriteTypeOK
    PROVE  /\ Died \in [Writes -> Stage]
           /\ \A w \in Writes: Died[w] # "synced" /\ (stage[w] = "ok" => Died[w] = "ok")
BY DEF WriteTypeOK, Died, Live, Stage

LEMMA WriteInitInv == WriteInit => WriteInv
<1> SUFFICES ASSUME WriteInit PROVE WriteInv
    OBVIOUS
<1>1. [by |-> {}, data |-> "whole"] \in Content
    BY DEF Content, Data
<1>2. targets \in Seq(Content) /\ targets # <<>> /\ Len(targets) = 1
      /\ targets[1] = [by |-> {}, data |-> "whole"]
    BY <1>1 DEF WriteInit
<1>3. WriteTypeOK
  <2>1. stage \in [Writes -> Stage] /\ tmp \in [Writes -> Data \cup {"absent"}]
      BY DEF WriteInit, Stage
  <2>2. up \in BOOLEAN /\ sweepError \in BOOLEAN
      BY DEF WriteInit
  <2>3. crashes = 0
      BY DEF WriteInit
  <2>4. crashes \in Nat
      BY <2>3
  <2> QED
      BY <1>2, <2>1, <2>2, <2>4 DEF WriteInit, WriteTypeOK
<1>4. SyncedIsWhole
    BY DEF WriteInit, SyncedIsWhole
<1>5. TargetsAreSound
    BY <1>2 DEF TargetsAreSound
<1> QED
    BY <1>3, <1>4, <1>5 DEF WriteInv

LEMMA StepType == WriteTypeOK /\ [WriteNext]_writeVars => WriteTypeOK'
<1> SUFFICES ASSUME WriteTypeOK, [WriteNext]_writeVars PROVE WriteTypeOK'
    OBVIOUS
<1>0. Died \in [Writes -> Stage]
    BY DiedFacts
<1> USE DEF WriteTypeOK, sweepVars
<1>1. CASE UNCHANGED writeVars
    BY <1>1 DEF writeVars
<1>2. ASSUME NEW w \in Writes, Write(w) PROVE WriteTypeOK'
  <2>1. CASE Rename(w)
    <3>1. tmp[w] \in Data
        BY <2>1 DEF Rename, Exists
    <3>2. [by |-> {w}, data |-> tmp[w]] \in Content
        BY <3>1 DEF Content
    <3> QED
        BY <2>1, <3>2 DEF Rename, Step, Stage
  <2>2. CASE StartWrite(w)
      BY <2>2 DEF StartWrite, Step, Stage, Data
  <2>3. CASE FinishWrite(w)
      BY <2>3 DEF FinishWrite, Step, Exists, Stage, Data
  <2>4. CASE Sync(w)
      BY <2>4 DEF Sync, Step, Exists, Stage, Data
  <2>5. CASE Fail(w)
      BY <2>5 DEF Fail, Step, Stage, Data
  <2>6. CASE Cleanup(w)
      BY <2>6 DEF Cleanup, Step, Stage, Data
  <2> QED
      BY <1>2, <2>1, <2>2, <2>3, <2>4, <2>5, <2>6 DEF Write
<1>3. ASSUME NEW w \in Writes, SweepUnlink(w) PROVE WriteTypeOK'
  <2>1. sweepError' \in BOOLEAN
      BY <1>3 DEF SweepUnlink, Exists
  <2> QED
      BY <1>3, <2>1 DEF SweepUnlink
<1>4. CASE SweepList
    BY <1>4 DEF SweepList
<1>5. CASE ProcessDies
  <2>1. stage' \in [Writes -> Stage] /\ up' \in BOOLEAN /\ crashes' \in Nat
    <3>1. stage' = Died /\ up' = FALSE
        BY <1>5 DEF ProcessDies
    <3>2. crashes' = crashes + 1
        BY <1>5 DEF ProcessDies
    <3>3. crashes' \in Nat
        BY <3>2
    <3> QED
        BY <1>0, <3>1, <3>3
  <2> QED
      BY <1>5, <2>1 DEF ProcessDies
<1>6. CASE PowerLoss
  <2>1. stage' \in [Writes -> Stage] /\ up' \in BOOLEAN /\ crashes' \in Nat
    <3>1. stage' = Died /\ up' = FALSE
        BY <1>6 DEF PowerLoss
    <3>2. crashes' = crashes + 1
        BY <1>6 DEF PowerLoss
    <3>3. crashes' \in Nat
        BY <3>2
    <3> QED
        BY <1>0, <3>1, <3>3
  <2>2. targets' \in Seq(Content) /\ targets' # <<>>
    <3>1. PICK i \in 1 .. Len(targets), kept \in {"partial", "whole"}:
            targets' = <<[by |-> targets[i].by,
                          data |-> IF targets[i].data = "cached"
                                   THEN kept ELSE targets[i].data]>>
        BY <1>6 DEF PowerLoss
    <3>2. targets[i] \in Content
        OBVIOUS
    <3>3. [by |-> targets[i].by,
           data |-> IF targets[i].data = "cached" THEN kept ELSE targets[i].data] \in Content
        BY <3>2 DEF Content, Data
    <3> QED
        BY <3>1, <3>3
  <2>3. tmp' \in [Writes -> Data \cup {"absent"}]
      BY <1>6 DEF PowerLoss, Data
  <2> QED
      BY <1>6, <2>1, <2>2, <2>3 DEF PowerLoss
<1>7. CASE Flush
  <2>1. target \in Content
      BY LastOf DEF target
  <2>2. targets' \in Seq(Content) /\ targets' # <<>>
      BY <1>7, <2>1 DEF Flush
  <2> QED
      BY <1>7, <2>2 DEF Flush
<1>8. CASE Restart
    BY <1>8 DEF Restart
<1> QED
    BY <1>1, <1>2, <1>3, <1>4, <1>5, <1>6, <1>7, <1>8 DEF WriteNext

LEMMA StepSynced == WriteInv /\ [WriteNext]_writeVars => SyncedIsWhole'
<1> SUFFICES ASSUME WriteInv, [WriteNext]_writeVars PROVE SyncedIsWhole'
    OBVIOUS
<1> USE DEF WriteInv, WriteTypeOK, Stage, Data, SyncedIsWhole, sweepVars
<1>1. CASE UNCHANGED writeVars
    BY <1>1 DEF writeVars
<1>2. ASSUME NEW w \in Writes, Write(w) PROVE SyncedIsWhole'
    BY <1>2 DEF Write, StartWrite, FinishWrite, Sync, Rename, Fail, Cleanup, Step, Exists
<1>3. ASSUME NEW w \in Writes, SweepUnlink(w) PROVE SyncedIsWhole'
    BY <1>3 DEF SweepUnlink
<1>4. CASE SweepList \/ Flush \/ Restart
    BY <1>4 DEF SweepList, Flush, Restart
<1>5. CASE ProcessDies \/ PowerLoss
    BY <1>5, DiedFacts DEF ProcessDies, PowerLoss
<1> QED
    BY <1>1, <1>2, <1>3, <1>4, <1>5 DEF WriteNext

LEMMA StepTargets == WriteInv /\ [WriteNext]_writeVars => TargetsAreSound'
<1> SUFFICES ASSUME WriteInv, [WriteNext]_writeVars PROVE TargetsAreSound'
    OBVIOUS
<1>0. \A w \in Writes: stage[w] = "ok" => Died[w] = "ok"
    BY DiedFacts DEF WriteInv
<1> USE DEF WriteInv, WriteTypeOK, sweepVars
<1>1. CASE UNCHANGED writeVars
    BY <1>1 DEF writeVars, TargetsAreSound
<1>2. ASSUME NEW w \in Writes, Write(w) PROVE TargetsAreSound'
  <2>1. CASE Rename(w)
    <3>1. tmp[w] = "whole"
        BY <2>1 DEF Rename, Step, Exists, SyncedIsWhole
    <3>2. stage' = [stage EXCEPT ![w] = "ok"] /\ targets' = Append(targets, [by |-> {w}, data |-> "whole"])
        BY <2>1, <3>1 DEF Rename, Step
    <3> QED
        BY <3>2 DEF TargetsAreSound, Content, Stage
  <2>2. CASE StartWrite(w) \/ FinishWrite(w) \/ Sync(w) \/ Fail(w) \/ Cleanup(w)
    <3>1. targets' = targets /\ stage[w] # "ok" /\ \E to \in Stage: stage' = [stage EXCEPT ![w] = to]
        BY <2>2 DEF StartWrite, FinishWrite, Sync, Fail, Cleanup, Step, Stage
    <3> QED
        BY <3>1 DEF TargetsAreSound, Content, Stage
  <2> QED
      BY <1>2, <2>1, <2>2 DEF Write
<1>3. ASSUME NEW w \in Writes, SweepUnlink(w) PROVE TargetsAreSound'
    BY <1>3 DEF SweepUnlink, TargetsAreSound
<1>4. CASE SweepList \/ Restart
    BY <1>4 DEF SweepList, Restart, TargetsAreSound
<1>5. CASE ProcessDies
  <2>1. targets' = targets /\ stage' = Died
      BY <1>5 DEF ProcessDies
  <2>2. \A i \in DOMAIN targets: targets[i] \in Content
      OBVIOUS
  <2>3. \A i \in DOMAIN targets: targets[i].by \subseteq Writes
      BY <2>2 DEF Content
  <2> QED
      BY <1>0, <2>1, <2>3 DEF TargetsAreSound
<1>6. CASE PowerLoss
  <2>1. PICK i \in 1 .. Len(targets), kept \in {"partial", "whole"}:
          targets' = <<[by |-> targets[i].by,
                        data |-> IF targets[i].data = "cached"
                                 THEN kept ELSE targets[i].data]>>
      BY <1>6 DEF PowerLoss
  <2>2. targets[i] \in Content /\ targets[i].data = "whole"
        /\ \A w \in targets[i].by: stage[w] = "ok"
      BY DEF TargetsAreSound
  <2>3. targets' = <<[by |-> targets[i].by, data |-> "whole"]>>
      BY <2>1, <2>2
  <2>4. \A w \in targets[i].by: stage'[w] = "ok"
      BY <1>6, <1>0, <2>2 DEF PowerLoss, Content
  <2> QED
      BY <2>3, <2>4 DEF TargetsAreSound
<1>7. CASE Flush
    BY <1>7, LastOf DEF Flush, target, TargetsAreSound
<1> QED
    BY <1>1, <1>2, <1>3, <1>4, <1>5, <1>6, <1>7 DEF WriteNext

\* Every reachable state satisfies the invariant.
THEOREM WriteInvariance == WriteSpec => []WriteInv
<1>1. WriteInv /\ [WriteNext]_writeVars => WriteInv'
    BY StepType, StepSynced, StepTargets DEF WriteInv
<1> QED
    BY WriteInitInv, <1>1, PTL DEF WriteSpec

\* The variables keep their types, whatever the number of writes and crashes.
THEOREM WriteTypeCorrect == WriteSpec => []WriteTypeOK
BY WriteInvariance, PTL DEF WriteInv

\* A reader never finds a half-written target (atomicWriteFile syncs before it renames).
THEOREM TargetWhole == WriteSpec => []NeverTorn
<1>1. WriteInv => NeverTorn
    BY LastOf DEF WriteInv, WriteTypeOK, TargetsAreSound, NeverTorn, target
<1> QED
    BY WriteInvariance, <1>1, PTL

\* What a failed write has written is never in the target, not even after a crash.
THEOREM FailuresLeaveNothing == WriteSpec => []FailedIsInvisible
<1>1. WriteInv => FailedIsInvisible
    BY LastOf DEF WriteInv, WriteTypeOK, TargetsAreSound, FailedIsInvisible, target
<1> QED
    BY WriteInvariance, <1>1, PTL

-----------------------------------------------------------------------------
(***************************************************************************)
(* Checkpoints.  A call's checkpoint keeps the snapshot of the file taken    *)
(* when the call began (CallsInv, StoredInv), and of two calls on one file *)
(* the later has the later timestamp (OrderInv), so the index lists newer  *)
(* calls of a file first (IndexInv).  While a rewind is under way and no   *)
(* file changes otherwise, a file holds what the last of its checkpoints   *)
(* applied so far has kept (RewindInv).                                    *)
(***************************************************************************)
Active(c) == caller[c].pc # "idle"
Stamped(c) == caller[c].pc \in {"ran", "stored", "read"}
Path(row) == touches[row.id]
Kept(id) == \E s \in stored: s.id = id

CallsInv ==
    /\ \A c \in Callers: Active(c) =>
          /\ caller[c].id \in 1..calls /\ caller[c].path \in Files
          /\ touches[caller[c].id] = caller[c].path
          /\ Preserved(caller[c].id) = caller[c].before
    /\ \A c, d \in Callers: Active(c) /\ Active(d) /\ c # d =>
          caller[c].id # caller[d].id /\ caller[c].path # caller[d].path
    /\ \A c \in Callers: Stamped(c) => caller[c].ts <= clock
    /\ misread \subseteq 1..calls

StoredInv ==
    /\ \A s \in stored: /\ s.id \in 1..calls
                        /\ s.path = touches[s.id] /\ s.before = Preserved(s.id)
    /\ \A c \in Callers: caller[c].pc \in {"stored", "read"} => Kept(caller[c].id)

LockInv ==
    \A c \in Callers: caller[c].pc = "read" => lock = c /\ caller[c].read = index

IndexInv ==
    /\ \A i \in DOMAIN index: /\ index[i].id \in 1..calls /\ index[i].ts <= clock
                              /\ Kept(index[i].id)
    /\ \A i, j \in DOMAIN index: i < j =>
          /\ index[i].ts >= index[j].ts /\ index[i].id # index[j].id

OrderInv ==
    /\ \A i, j \in DOMAIN index:
          Path(index[i]) = Path(index[j]) /\ index[i].id < index[j].id
             => index[i].ts <= index[j].ts
    /\ \A c \in Callers, i \in DOMAIN index: Active(c) =>
          /\ index[i].id # caller[c].id
          /\ Path(index[i]) = caller[c].path =>
                /\ index[i].id < caller[c].id
                /\ Stamped(c) => index[i].ts <= caller[c].ts

Applied == Len(rewind.entries) - Len(rewind.todo)

\* the j-th row is the last one applied to its file, and the file shows it
Shows(j) ==
    LET id == rewind.entries[j].id
    IN  /\ \A l \in (j + 1)..Applied: Path(rewind.entries[l]) # touches[id]
        /\ Preserved(id) = Large \/ file[touches[id]] = Preserved(id)

RewindInv ==
    /\ Applied >= 0
    /\ \A i \in DOMAIN rewind.todo: rewind.todo[i] = rewind.entries[Applied + i]
    /\ \A i \in DOMAIN rewind.entries: \E j \in DOMAIN index: index[j] = rewind.entries[i]
    /\ \A i, j \in DOMAIN rewind.entries: i < j =>
          /\ rewind.entries[i].ts >= rewind.entries[j].ts
          /\ rewind.entries[i].id # rewind.entries[j].id
    /\ rewind.calm => \A i \in 1..Applied: \E j \in i..Applied:
          Path(rewind.entries[j]) = Path(rewind.entries[i]) /\ Shows(j)

CheckpointsInv ==
    /\ CheckpointsTypeOK /\ CallsInv /\ StoredInv /\ LockInv /\ IndexInv /\ OrderInv
    /\ RewindInv

CallerRecord == [pc: {"idle", "snapped", "ran", "stored", "read"}, id: ToolCalls \cup {0},
                 path: Files \cup {NoPath}, before: Contents, ts: Nat, read: Seq(Row)]
RewindRecord == [todo: Seq(Row), entries: Seq(Row), calm: BOOLEAN]

LEMMA CheckpointTypes ==
    ASSUME CheckpointsTypeOK
    PROVE  /\ caller \in [Callers -> CallerRecord] /\ rewind \in RewindRecord
           /\ calls \in Nat /\ clock \in Nat /\ index \in Seq(Row)
           /\ \A i \in DOMAIN index: index[i] \in Row
           /\ ToolCalls \subseteq Nat /\ \A r \in Row: r.id \in Nat /\ r.ts \in Nat
           /\ \A n \in 1..calls: n \in ToolCalls /\ n \in Nat
           /\ \A c \in Callers: caller[c].id \in Nat /\ caller[c].ts \in Nat
<1>1. MaxCalls \in Nat /\ ToolCalls \subseteq Nat
    BY CheckpointsAssumption DEF ToolCalls
<1>2. \A n \in 1..calls: n \in ToolCalls /\ n \in Nat
    BY <1>1 DEF CheckpointsTypeOK, ToolCalls
<1>3. caller \in [Callers -> CallerRecord]
    BY DEF CheckpointsTypeOK, CallerRecord
<1>4. \A c \in Callers: caller[c].id \in Nat /\ caller[c].ts \in Nat
  <2>1. ASSUME NEW r \in CallerRecord PROVE r.id \in Nat /\ r.ts \in Nat
    <3>1. r.id \in ToolCalls \cup {0} /\ r.ts \in Nat
        BY DEF CallerRecord
    <3> QED BY <1>1, <3>1 DEF ToolCalls
  <2> QED BY <1>3, <2>1
<1>5. \A r \in Row: r.id \in Nat /\ r.ts \in Nat
    BY <1>1 DEF Row
<1>6. index \in Seq(Row) /\ calls \in Nat /\ clock \in Nat /\ rewind \in RewindRecord
    BY <1>1 DEF CheckpointsTypeOK, RewindRecord
<1>7. \A i \in DOMAIN index: index[i] \in Row
    BY <1>6
<1> QED BY <1>1, <1>2, <1>3, <1>4, <1>5, <1>6, <1>7

LEMMA SetCallerSets ==
    ASSUME CheckpointsTypeOK, NEW c \in Callers, NEW r \in CallerRecord, SetCaller(c, r)
    PROVE  /\ caller' \in [Callers -> CallerRecord] /\ caller'[c] = r
           /\ \A d \in Callers: d # c => caller'[d] = caller[d]
BY CheckpointTypes DEF SetCaller

LEMMA ContentsKept ==
    /\ {NoFile, Other, Binary} \subseteq Contents
    /\ \A content \in Contents: Decoded(content) \in Contents
BY CheckpointsAssumption DEF Contents, NoFile, Other, Binary, Mangled, Decoded

LEMMA IdleIsRecord == Idle \in CallerRecord /\ Idle.pc = "idle"
<1>1. 0 \in Contents /\ <<>> \in Seq(Row) /\ NoFile = 0
    BY ContentsKept DEF NoFile
<1> QED BY <1>1 DEF Idle, CallerRecord

LEMMA Concats ==
    ASSUME NEW S, NEW s \in Seq(S), NEW t \in Seq(S)
    PROVE  /\ s \o t \in Seq(S) /\ Len(s \o t) = Len(s) + Len(t)
           /\ \A i \in 1..(Len(s) + Len(t)):
                (s \o t)[i] = IF i <= Len(s) THEN s[i] ELSE t[i - Len(s)]
OBVIOUS

\* `new` is `rows` with `row` behind the first k.
Inserted(rows, k, row, new) ==
    /\ new \in Seq(Row) /\ Len(new) = Len(rows) + 1
    /\ \A i \in 1..(Len(rows) + 1):
          new[i] = IF i <= k THEN rows[i] ELSE IF i = k + 1 THEN row ELSE rows[i - 1]

LEMMA Inserts ==
    ASSUME NEW rows \in Seq(Row), NEW k \in 0..Len(rows), NEW row \in Row
    PROVE  Inserted(rows, k, row, InsertAt(rows, k + 1, row))
<1>n. PICK new: new = InsertAt(rows, k + 1, row)
    OBVIOUS
<1>0. (k + 1) - 1 = k
    OBVIOUS
<1>1. new = SubSeq(rows, 1, k) \o <<row>> \o SubSeq(rows, k + 1, Len(rows))
    BY <1>0, <1>n, Zenon DEF InsertAt
<1> DEFINE front == SubSeq(rows, 1, k)
           back == SubSeq(rows, k + 1, Len(rows))
<1>2. /\ front \in Seq(Row) /\ Len(front) = k
      /\ \A i \in 1..k: front[i] = rows[i]
    OBVIOUS
<1>3. /\ back \in Seq(Row) /\ Len(back) = Len(rows) - k
      /\ \A i \in 1..(Len(rows) - k): back[i] = rows[k + i]
    OBVIOUS
<1> HIDE DEF front, back
<1>4. PICK rest: rest = front \o <<row>> /\ new = rest \o back
    BY <1>1 DEF front, back
<1>5. /\ rest \in Seq(Row) /\ Len(rest) = k + 1
      /\ \A i \in 1..(k + 1): rest[i] = IF i <= k THEN rows[i] ELSE row
    BY <1>2, <1>4
<1>6. new \in Seq(Row) /\ Len(new) = Len(rest) + Len(back)
      /\ \A i \in 1..(Len(rest) + Len(back)):
            new[i] = IF i <= Len(rest) THEN rest[i] ELSE back[i - Len(rest)]
  <2>1. rest \in Seq(Row) /\ back \in Seq(Row)
    BY <1>3, <1>5
  <2>2. /\ rest \o back \in Seq(Row) /\ Len(rest \o back) = Len(rest) + Len(back)
        /\ \A i \in 1..(Len(rest) + Len(back)):
              (rest \o back)[i] = IF i <= Len(rest) THEN rest[i] ELSE back[i - Len(rest)]
    BY ONLY <2>1, Concats
  <2> QED BY <1>4, <2>2, Zenon
<1>7. Len(rows) \in Nat /\ Len(new) = Len(rows) + 1
    BY <1>3, <1>5, <1>6
<1>8. ASSUME NEW i \in 1..(Len(rows) + 1)
      PROVE  new[i] = IF i <= k THEN rows[i] ELSE IF i = k + 1 THEN row ELSE rows[i - 1]
  <2>0. i \in 1..(Len(rest) + Len(back))
    BY <1>3, <1>5
  <2>1. CASE i <= k + 1
    BY <1>5, <1>6, <2>0, <2>1
  <2>2. CASE i > k + 1
    <3>1. new[i] = back[i - (k + 1)]
        BY <1>5, <1>6, <2>0, <2>2
    <3>2. i - (k + 1) \in 1..(Len(rows) - k) /\ k + (i - (k + 1)) = i - 1
        BY <1>7, <2>2
    <3>3. back[i - (k + 1)] = rows[k + (i - (k + 1))]
        BY <1>3, <3>2
    <3>4. ~(i <= k) /\ i # k + 1
        BY <2>2
    <3> QED BY <3>1, <3>2, <3>3, <3>4
  <2> QED BY <2>1, <2>2
<1> QED BY <1>n, <1>6, <1>7, <1>8 DEF Inserted

\* What each step of a call makes of the calls.
LEMMA Snaps ==
    ASSUME CheckpointsTypeOK, CallsInv, NEW c \in Callers, NEW f \in Files, SnapBefore(c, f)
    PROVE  /\ caller' \in [Callers -> CallerRecord]
           /\ caller'[c].pc = "snapped" /\ caller'[c].id = calls + 1 /\ caller'[c].path = f
           /\ caller'[c].before = Preserved(caller[c].id)'
           /\ \A d \in Callers: d # c => caller'[d] = caller[d]
           /\ calls + 1 \in ToolCalls /\ calls' = calls + 1
           /\ was' \in [ToolCalls -> Contents] /\ touches' \in [ToolCalls -> Files \cup {NoPath}]
           /\ touches'[calls + 1] = f
           /\ \A n \in 1..calls: Preserved(n)' = Preserved(n) /\ touches'[n] = touches[n]
           /\ misread' \subseteq 1..(calls + 1) /\ misread' \subseteq ToolCalls /\ faults' \in Nat
<1>1. calls' = calls + 1 /\ calls + 1 \in ToolCalls /\ file[f] \in Contents
    BY CheckpointsAssumption DEF SnapBefore, CheckpointsTypeOK, ToolCalls
<1>2. PICK before \in {Decoded(file[f]), NoFile}:
        /\ SetCaller(c, [Idle EXCEPT !.pc = "snapped", !.id = calls', !.path = f,
                                     !.before = before])
        /\ \/ before = Decoded(file[f]) /\ misread' = misread /\ faults' = faults
           \/ before = NoFile /\ misread' = misread \cup {calls + 1} /\ faults' = faults + 1
    BY <1>1 DEF SnapBefore
<1>3. before \in Contents
    BY <1>1, ContentsKept
<1>4. PICK r: r = [Idle EXCEPT !.pc = "snapped", !.id = calls', !.path = f, !.before = before]
    OBVIOUS
<1>5. r \in CallerRecord /\ r.pc = "snapped" /\ r.id = calls + 1 /\ r.path = f
      /\ r.before = before
    BY <1>1, <1>3, <1>4, IdleIsRecord DEF CallerRecord, Idle
<1>6. /\ caller' \in [Callers -> CallerRecord] /\ caller'[c] = r
      /\ \A d \in Callers: d # c => caller'[d] = caller[d]
    BY <1>2, <1>4, <1>5, SetCallerSets
<1>7. /\ was' = [was EXCEPT ![calls + 1] = file[f]]
      /\ touches' = [touches EXCEPT ![calls + 1] = f]
    BY <1>1 DEF SnapBefore
<1>8. /\ was' \in [ToolCalls -> Contents] /\ touches' \in [ToolCalls -> Files \cup {NoPath}]
      /\ was'[calls + 1] = file[f] /\ touches'[calls + 1] = f
      /\ \A n \in 1..calls: was'[n] = was[n] /\ touches'[n] = touches[n]
    BY <1>1, <1>7, CheckpointTypes DEF CheckpointsTypeOK
<1>9. /\ misread \subseteq 1..calls /\ calls \in Nat /\ faults \in Nat /\ misread \subseteq ToolCalls
      /\ calls + 1 \notin 1..calls /\ 1..calls \subseteq 1..(calls + 1)
    BY CheckpointTypes DEF CallsInv, CheckpointsTypeOK
<1>10. /\ misread' \subseteq 1..(calls + 1) /\ misread' \subseteq ToolCalls /\ faults' \in Nat
    BY <1>1, <1>2, <1>9
<1>11. \A n \in 1..calls: Preserved(n)' = Preserved(n)
  <2>1. \A n \in 1..calls: n \in misread' <=> n \in misread
    BY <1>2, <1>9
  <2> QED BY <1>8, <2>1 DEF Preserved
<1>12. Preserved(caller[c].id)' = before
  <2>0. caller'[c].id = calls + 1
    BY <1>5, <1>6
  <2>1. CASE before = Decoded(file[f]) /\ misread' = misread
    BY <1>8, <1>9, <2>0, <2>1 DEF Preserved
  <2>2. CASE before = NoFile /\ misread' = misread \cup {calls + 1}
    BY <2>0, <2>2 DEF Preserved
  <2> QED BY <1>2, <2>1, <2>2
<1> QED BY <1>1, <1>5, <1>6, <1>8, <1>10, <1>11, <1>12

\* A call goes on with the same file.
SameCall(c, pc1) ==
    /\ caller' \in [Callers -> CallerRecord]
    /\ caller'[c].pc = pc1 /\ caller'[c].id = caller[c].id /\ caller'[c].path = caller[c].path
    /\ caller'[c].before = caller[c].before
    /\ \A d \in Callers: d # c => caller'[d] = caller[d]

LEMMA Runs ==
    ASSUME CheckpointsTypeOK, NEW c \in Callers, RunTool(c),
           ~(SetCaller(c, Idle) /\ UNCHANGED <<file, clock, rewind>>)
    PROVE  /\ SameCall(c, "ran") /\ clock' \in Nat /\ caller'[c].ts = clock' /\ clock <= clock'
           /\ file' \in [Files -> Contents] /\ rewind' = [rewind EXCEPT !.calm = FALSE]
           /\ UNCHANGED <<was, touches, misread, calls, stored, index, lock, rewinds, faults>>
<1>1. /\ clock' \in {clock, clock + 1}
      /\ SetCaller(c, [caller[c] EXCEPT !.pc = "ran", !.ts = clock'])
      /\ rewind' = [rewind EXCEPT !.calm = FALSE]
      /\ UNCHANGED <<was, touches, misread, calls, stored, index, lock, rewinds, faults>>
    BY DEF RunTool
<1>2. PICK content \in {caller[c].id, Large}: file' = [file EXCEPT ![caller[c].path] = content]
    BY DEF RunTool
<1>3. clock' \in Nat /\ clock <= clock'
    BY <1>1, CheckpointTypes
<1>4. PICK time \in Nat: time = clock'
    BY <1>3
<1>5. PICK r: r = [caller[c] EXCEPT !.pc = "ran", !.ts = time]
    OBVIOUS
<1>6. /\ r \in CallerRecord /\ r.pc = "ran" /\ r.ts = time /\ r.id = caller[c].id
      /\ r.path = caller[c].path /\ r.before = caller[c].before
    BY <1>5, CheckpointTypes DEF CallerRecord
<1>7. /\ caller' \in [Callers -> CallerRecord] /\ caller'[c] = r
      /\ \A d \in Callers: d # c => caller'[d] = caller[d]
    BY <1>1, <1>4, <1>5, <1>6, SetCallerSets
<1>8. content \in Contents
  <2>1. caller[c].id \in 0..MaxCalls /\ MaxCalls \in Nat
    BY CheckpointTypes, CheckpointsAssumption DEF CallerRecord, ToolCalls
  <2> QED BY <1>2, <2>1 DEF Contents, Large, Mangled
<1>9. file' \in [Files -> Contents]
    BY <1>2, <1>8 DEF CheckpointsTypeOK
<1> QED BY <1>1, <1>3, <1>4, <1>6, <1>7, <1>9 DEF SameCall

LEMMA Advances ==
    ASSUME CheckpointsTypeOK, NEW c \in Callers, Advance(c, "stored")
    PROVE  SameCall(c, "stored") /\ caller'[c].ts = caller[c].ts
<1>1. PICK r: r = [caller[c] EXCEPT !.pc = "stored"]
    OBVIOUS
<1>2. /\ r \in CallerRecord /\ r.pc = "stored" /\ r.ts = caller[c].ts /\ r.id = caller[c].id
      /\ r.path = caller[c].path /\ r.before = caller[c].before
    BY <1>1, CheckpointTypes DEF CallerRecord
<1> QED BY <1>1, <1>2, SetCallerSets DEF Advance, SameCall

LEMMA ReadsRows ==
    ASSUME CheckpointsTypeOK, NEW c \in Callers, ReadIndex(c)
    PROVE  SameCall(c, "read") /\ caller'[c].ts = caller[c].ts /\ caller'[c].read = index
<1>1. PICK r: r = [caller[c] EXCEPT !.pc = "read", !.read = index]
    OBVIOUS
<1>2. /\ r \in CallerRecord /\ r.pc = "read" /\ r.ts = caller[c].ts /\ r.id = caller[c].id
      /\ r.path = caller[c].path /\ r.before = caller[c].before /\ r.read = index
    BY <1>1, CheckpointTypes DEF CallerRecord
<1> QED BY <1>1, <1>2, SetCallerSets DEF ReadIndex, SameCall

\* A call is over, or the process is.
LEMMA Rests ==
    ASSUME CheckpointsTypeOK, NEW c \in Callers, SetCaller(c, Idle)
    PROVE  /\ caller' \in [Callers -> CallerRecord] /\ caller'[c].pc = "idle"
           /\ \A d \in Callers: d # c => caller'[d] = caller[d]
BY IdleIsRecord, SetCallerSets

\* What a rewind has applied stays applied while no file changes.
LEMMA RewindStays ==
    ASSUME CheckpointsTypeOK, IndexInv, RewindInv,
           rewind'.todo = rewind.todo, rewind'.entries = rewind.entries,
           rewind'.calm => rewind.calm /\ file' = file,
           \A n \in 1..calls: Preserved(n)' = Preserved(n) /\ touches'[n] = touches[n],
           \A i \in DOMAIN index: \E j \in DOMAIN index': index'[j] = index[i]
    PROVE  RewindInv'
<1>0. PICK e: e = rewind.entries
    OBVIOUS
<1>1. Applied' = Applied /\ Applied \in Int /\ Applied <= Len(e) /\ e \in Seq(Row)
  <2>1. rewind.todo \in Seq(Row) /\ e \in Seq(Row)
    BY <1>0, CheckpointTypes DEF RewindRecord
  <2>2. Len(rewind.todo) \in Nat /\ Len(e) \in Nat
    BY <2>1
  <2>3. Applied = Len(e) - Len(rewind.todo)
    BY <1>0 DEF Applied
  <2>4. Applied' = Applied
    BY DEF Applied
  <2> QED BY <2>1, <2>2, <2>3, <2>4
<1>2. \A i \in DOMAIN e: touches'[e[i].id] = touches[e[i].id] /\ Preserved(e[i].id)' = Preserved(e[i].id)
    BY <1>0 DEF RewindInv, IndexInv
<1>3. \A l \in 1..Applied: l \in DOMAIN e
    BY <1>1
<1>4. ASSUME rewind'.calm, NEW i \in 1..Applied
      PROVE  \E j \in i..Applied:
                /\ touches'[e[j].id] = touches'[e[i].id]
                /\ \A l \in (j + 1)..Applied: touches'[e[l].id] # touches'[e[j].id]
                /\ Preserved(e[j].id)' = Large \/ file'[touches'[e[j].id]] = Preserved(e[j].id)'
  <2>1. PICK j \in i..Applied:
          /\ touches[e[j].id] = touches[e[i].id]
          /\ \A l \in (j + 1)..Applied: touches[e[l].id] # touches[e[j].id]
          /\ Preserved(e[j].id) = Large \/ file[touches[e[j].id]] = Preserved(e[j].id)
    BY <1>0, <1>4 DEF RewindInv, Shows, Path
  <2>2. i \in DOMAIN e /\ j \in DOMAIN e /\ \A l \in (j + 1)..Applied: l \in DOMAIN e
    BY <1>1, <1>3
  <2>3. file' = file
    BY <1>4
  <2> QED BY <1>2, <2>1, <2>2, <2>3
<1>5. rewind'.calm => \A i \in 1..Applied': \E j \in i..Applied':
          touches'[rewind'.entries[j].id] = touches'[rewind'.entries[i].id] /\ Shows(j)'
  <2> SUFFICES ASSUME rewind'.calm, NEW i \in 1..Applied'
               PROVE  \E j \in i..Applied':
                        touches'[rewind'.entries[j].id] = touches'[rewind'.entries[i].id] /\ Shows(j)'
    OBVIOUS
  <2>1. rewind'.entries = e /\ i \in 1..Applied
    BY <1>0, <1>1
  <2>2. PICK j \in i..Applied:
          /\ touches'[e[j].id] = touches'[e[i].id]
          /\ \A l \in (j + 1)..Applied: touches'[e[l].id] # touches'[e[j].id]
          /\ Preserved(e[j].id)' = Large \/ file'[touches'[e[j].id]] = Preserved(e[j].id)'
    BY <1>4, <2>1
  <2>3. Shows(j)'
    BY <1>1, <2>1, <2>2 DEF Shows, Path
  <2> QED BY <1>1, <2>1, <2>2, <2>3
<1>6. \A i \in DOMAIN e: \E j \in DOMAIN index': index'[j] = e[i]
    BY <1>0 DEF RewindInv
<1>7. /\ Applied' >= 0
      /\ \A i \in DOMAIN rewind'.todo: rewind'.todo[i] = rewind'.entries[Applied' + i]
      /\ \A i, j \in DOMAIN rewind'.entries: i < j =>
            /\ rewind'.entries[i].ts >= rewind'.entries[j].ts
            /\ rewind'.entries[i].id # rewind'.entries[j].id
    BY <1>1 DEF RewindInv
<1> QED BY <1>0, <1>5, <1>6, <1>7 DEF RewindInv, Path

-----------------------------------------------------------------------------
(* One lemma per kind of step.                                             *)

LEMMA SnapKeeps ==
    ASSUME CheckpointsInv, NEW c \in Callers, NEW f \in Files, SnapBefore(c, f)
    PROVE  CheckpointsInv'
<1> USE DEF CheckpointsInv
<1>1. /\ caller' \in [Callers -> CallerRecord]
      /\ caller'[c].pc = "snapped" /\ caller'[c].id = calls + 1 /\ caller'[c].path = f
      /\ caller'[c].before = Preserved(caller[c].id)'
      /\ \A d \in Callers: d # c => caller'[d] = caller[d]
      /\ calls + 1 \in ToolCalls /\ calls' = calls + 1
      /\ was' \in [ToolCalls -> Contents] /\ touches' \in [ToolCalls -> Files \cup {NoPath}]
      /\ touches'[calls + 1] = f
      /\ misread' \subseteq 1..(calls + 1) /\ misread' \subseteq ToolCalls /\ faults' \in Nat
      /\ \A n \in 1..calls: Preserved(n)' = Preserved(n) /\ touches'[n] = touches[n]
    BY Snaps
<1>2. /\ UNCHANGED <<file, clock, stored, index, lock, rewind, rewinds>>
      /\ \A d \in Callers: caller[d].pc = "idle" \/ caller[d].path # f
    BY DEF SnapBefore
<1>3. calls \in Nat /\ calls + 1 \in 0..MaxCalls /\ \A n \in 1..calls: n \in 1..(calls + 1) /\ n < calls + 1
    BY <1>1, CheckpointTypes, CheckpointsAssumption DEF ToolCalls
<1>4. CheckpointsTypeOK'
    BY <1>1, <1>2, <1>3 DEF CheckpointsTypeOK, CallerRecord
<1>5. CallsInv'
  <2>1. ASSUME NEW d \in Callers, Active(d)'
        PROVE  /\ caller'[d].id \in 1..calls' /\ caller'[d].path \in Files
               /\ touches'[caller'[d].id] = caller'[d].path
               /\ Preserved(caller[d].id)' = caller'[d].before
               /\ d # c => caller'[d].id \in 1..calls /\ caller'[d].path # f
               /\ Stamped(d)' => caller'[d].ts <= clock'
    BY <1>1, <1>2, <1>3, <2>1 DEF CallsInv, Active, Stamped, Preserved
  <2>2. ASSUME NEW d \in Callers, NEW e \in Callers, Active(d)', Active(e)', d # e
        PROVE  caller'[d].id # caller'[e].id /\ caller'[d].path # caller'[e].path
    BY <1>1, <1>3, <2>1, <2>2 DEF CallsInv, Active
  <2>3. \A d \in Callers: Stamped(d)' => Active(d)'
    BY DEF Stamped, Active
  <2> QED BY <1>1, <2>1, <2>2, <2>3 DEF CallsInv
<1>6. StoredInv'
    BY <1>1, <1>2, <1>3 DEF StoredInv, Kept
<1>7. LockInv'
    BY <1>1, <1>2 DEF LockInv
<1>8. IndexInv'
    BY <1>1, <1>2, <1>3 DEF IndexInv, Kept
<1>9. OrderInv'
  <2>1. \A i \in DOMAIN index: Path(index[i])' = Path(index[i]) /\ index[i].id < calls + 1
    BY <1>1, <1>2, <1>3 DEF Path, IndexInv
  <2> QED BY <1>1, <1>2, <2>1 DEF OrderInv, Active, Stamped
<1>10. RewindInv'
    BY <1>1, <1>2, RewindStays
<1> QED BY <1>4, <1>5, <1>6, <1>7, <1>8, <1>9, <1>10

\* What the other steps leave alone.
SameRows ==
    /\ UNCHANGED <<was, touches, misread, calls, stored, index>>
    /\ rewind'.todo = rewind.todo /\ rewind'.entries = rewind.entries
    /\ rewind'.calm => rewind.calm /\ file' = file

\* A call goes on, or is over: its id, path and stamp are the same.
LEMMA CallKeeps ==
    ASSUME CheckpointsInv, NEW c \in Callers, SameRows, clock' \in Nat, clock <= clock',
           caller' \in [Callers -> CallerRecord],
           \A d \in Callers: d # c => caller'[d] = caller[d],
           \/ caller'[c].pc = "idle"
           \/ /\ Active(c) /\ caller'[c].id = caller[c].id /\ caller'[c].path = caller[c].path
              /\ caller'[c].before = caller[c].before
              /\ Stamped(c)' => caller'[c].ts = clock' \/ (Stamped(c) /\ caller'[c].ts = caller[c].ts)
    PROVE  CallsInv' /\ IndexInv' /\ OrderInv' /\ RewindInv'
<1> USE DEF CheckpointsInv, Preserved
<1>1. clock \in Nat /\ (\A d \in Callers: caller[d].ts \in Nat) /\ \A i \in DOMAIN index: index[i].ts \in Nat
    BY CheckpointTypes
<1>2. CallsInv'
  <2>1. \A d \in Callers: Stamped(d)' => caller'[d].ts <= clock'
    BY <1>1 DEF CallsInv, Stamped
  <2>2. \A d \in Callers: Active(d)' => Active(d) /\ caller'[d].id = caller[d].id
                /\ caller'[d].path = caller[d].path /\ caller'[d].before = caller[d].before
    BY DEF Active
  <2> QED BY <2>1, <2>2 DEF CallsInv, SameRows
<1>3. IndexInv'
    BY <1>1 DEF IndexInv, Kept, SameRows
<1>4. OrderInv'
  <2>1. \A d \in Callers: Active(d)' => Active(d) /\ caller'[d].id = caller[d].id
                /\ caller'[d].path = caller[d].path
    BY DEF Active
  <2>2. \A d \in Callers: Stamped(d)' =>
            caller'[d].ts = clock' \/ (Stamped(d) /\ caller'[d].ts = caller[d].ts)
    BY DEF Stamped
  <2>3. \A i \in DOMAIN index: index[i].ts <= clock'
    BY <1>1 DEF IndexInv
  <2>4. index' = index /\ \A i \in DOMAIN index: Path(index[i])' = Path(index[i])
    BY DEF SameRows, Path
  <2> QED BY <2>1, <2>2, <2>3, <2>4 DEF OrderInv
<1>5. RewindInv'
    BY RewindStays DEF SameRows
<1> QED BY <1>2, <1>3, <1>4, <1>5

LEMMA RunKeeps ==
    ASSUME CheckpointsInv, NEW c \in Callers, RunTool(c),
           ~(SetCaller(c, Idle) /\ UNCHANGED <<file, clock, rewind>>)
    PROVE  CheckpointsInv'
<1> USE DEF CheckpointsInv, Preserved
<1>1. /\ SameCall(c, "ran") /\ clock' \in Nat /\ caller'[c].ts = clock' /\ clock <= clock'
      /\ file' \in [Files -> Contents] /\ rewind' = [rewind EXCEPT !.calm = FALSE]
      /\ UNCHANGED <<was, touches, misread, calls, stored, index, lock, rewinds, faults>>
    BY Runs
<1>2. /\ rewind' \in RewindRecord /\ rewind'.todo = rewind.todo
      /\ rewind'.entries = rewind.entries /\ ~rewind'.calm
    BY <1>1, CheckpointTypes DEF RewindRecord
<1>3. SameRows /\ Active(c)
    BY <1>1, <1>2 DEF SameRows, RunTool, Active
<1>4. CheckpointsTypeOK'
    BY <1>1, <1>2 DEF CheckpointsTypeOK, CallerRecord, RewindRecord, SameCall
<1>5. CallsInv' /\ IndexInv' /\ OrderInv' /\ RewindInv'
    BY <1>1, <1>3, CallKeeps DEF SameCall
<1>6. StoredInv' /\ LockInv'
    BY <1>1 DEF StoredInv, LockInv, Kept, SameCall
<1> QED BY <1>4, <1>5, <1>6

LEMMA StoreKeeps ==
    ASSUME CheckpointsInv, NEW c \in Callers, StoreFile(c)
    PROVE  CheckpointsInv'
<1> USE DEF CheckpointsInv, Preserved
<1>1. SameCall(c, "stored") /\ caller'[c].ts = caller[c].ts
    BY Advances DEF StoreFile
<1>2. PICK s: s = [id |-> caller[c].id, path |-> caller[c].path, before |-> caller[c].before]
    OBVIOUS
<1>3. /\ Active(c) /\ Stamped(c) /\ stored' = stored \cup {s}
      /\ UNCHANGED <<file, was, touches, misread, calls, clock, index, lock, rewind, rewinds, faults>>
    BY <1>2 DEF StoreFile, Active, Stamped
<1>4. /\ s.id \in 1..calls /\ s.path = touches[s.id] /\ s.before = Preserved(s.id) /\ s.id = caller[c].id
      /\ s \in [id: ToolCalls, path: Files, before: Contents]
    BY <1>2, <1>3, CheckpointTypes DEF CallsInv, CallerRecord
<1>5. CheckpointsTypeOK'
    BY <1>1, <1>3, <1>4 DEF CheckpointsTypeOK, CallerRecord, SameCall
<1>6. CallsInv' /\ OrderInv' /\ RewindInv'
  <2>1. CallsInv'
    BY <1>1, <1>3 DEF CallsInv, Active, Stamped, SameCall
  <2>2. OrderInv'
    BY <1>1, <1>3 DEF OrderInv, Active, Stamped, SameCall, Path
  <2>3. RewindInv'
    BY <1>3, RewindStays
  <2> QED BY <2>1, <2>2, <2>3
<1>7. StoredInv'
    BY <1>1, <1>3, <1>4 DEF StoredInv, Kept, SameCall
<1>8. LockInv' /\ IndexInv'
    BY <1>1, <1>3 DEF LockInv, IndexInv, Kept, SameCall
<1> QED BY <1>5, <1>6, <1>7, <1>8

LEMMA ReadKeeps ==
    ASSUME CheckpointsInv, NEW c \in Callers, ReadIndex(c)
    PROVE  CheckpointsInv'
<1> USE DEF CheckpointsInv, Preserved
<1>1. SameCall(c, "read") /\ caller'[c].ts = caller[c].ts /\ caller'[c].read = index
    BY ReadsRows
<1>2. /\ caller[c].pc = "stored" /\ Active(c) /\ Stamped(c) /\ lock = Free /\ lock' = c
      /\ UNCHANGED <<file, was, touches, misread, calls, clock, stored, index, rewind, rewinds, faults>>
    BY DEF ReadIndex, Active, Stamped
<1>3. SameRows /\ clock' \in Nat /\ clock <= clock' /\ Free \notin Callers
    BY <1>2, CheckpointTypes, CheckpointsAssumption DEF SameRows
<1>4. CheckpointsTypeOK'
    BY <1>1, <1>2 DEF CheckpointsTypeOK, CallerRecord, SameCall
<1>5. CallsInv' /\ IndexInv' /\ OrderInv' /\ RewindInv'
    BY <1>1, <1>2, <1>3, CallKeeps DEF SameCall
<1>6. StoredInv'
    BY <1>1, <1>2 DEF StoredInv, Kept, SameCall
<1>7. LockInv'
    BY <1>1, <1>2, <1>3 DEF LockInv, SameCall
<1> QED BY <1>4, <1>5, <1>6, <1>7

\* A call fails, or its record does.
LEMMA RestKeeps ==
    ASSUME CheckpointsInv, NEW c \in Callers, SetCaller(c, Idle), SameRows,
           lock' = lock \/ (lock = c /\ lock' = Free),
           file' = file, rewind' = rewind, clock' = clock, rewinds' = rewinds, faults' \in Nat
    PROVE  CheckpointsInv'
<1> USE DEF CheckpointsInv, Preserved
<1>1. /\ caller' \in [Callers -> CallerRecord] /\ caller'[c].pc = "idle"
      /\ \A d \in Callers: d # c => caller'[d] = caller[d]
    BY Rests
<1>2. CheckpointsTypeOK'
    BY <1>1 DEF CheckpointsTypeOK, CallerRecord, SameRows
<1>3. CallsInv' /\ IndexInv' /\ OrderInv' /\ RewindInv'
  <2>1. clock' \in Nat /\ clock <= clock'
    BY CheckpointTypes
  <2> QED BY <1>1, <2>1, CallKeeps
<1>4. StoredInv'
    BY <1>1 DEF StoredInv, Kept, SameRows
<1>5. LockInv'
    BY <1>1 DEF LockInv, SameRows
<1> QED BY <1>2, <1>3, <1>4, <1>5

LEMMA WriteKeeps ==
    ASSUME CheckpointsInv, NEW c \in Callers, WriteIndex(c)
    PROVE  CheckpointsInv'
<1> USE DEF CheckpointsInv, Preserved
<1>1. /\ caller' \in [Callers -> CallerRecord] /\ caller'[c].pc = "idle"
      /\ \A d \in Callers: d # c => caller'[d] = caller[d]
    BY Rests DEF WriteIndex
<1>2. /\ caller[c].pc = "read" /\ Active(c) /\ Stamped(c) /\ lock = c /\ caller[c].read = index
      /\ lock' = Free
      /\ UNCHANGED <<file, was, touches, misread, calls, clock, stored, rewind, rewinds, faults>>
    BY DEF WriteIndex, Active, Stamped, LockInv
<1>3. PICK row: row = [id |-> caller[c].id, ts |-> caller[c].ts]
    OBVIOUS
<1>4. /\ row \in Row /\ row.id = caller[c].id /\ row.ts = caller[c].ts /\ row.id \in 1..calls
      /\ row.ts \in Nat /\ row.ts <= clock /\ Kept(row.id) /\ Path(row) = caller[c].path
    BY <1>2, <1>3, CheckpointTypes DEF Row, CallsInv, StoredInv, Path
<1>5. PICK k \in 0..Len(index): Fits(index, row, k) /\ index' = InsertAt(index, k + 1, row)
    BY <1>2, <1>3 DEF WriteIndex
<1>6. /\ index' \in Seq(Row) /\ Len(index') = Len(index) + 1
      /\ \A i \in 1..(Len(index) + 1):
            index'[i] = IF i <= k THEN index[i] ELSE IF i = k + 1 THEN row ELSE index[i - 1]
  <2>1. Inserted(index, k, row, index')
    BY <1>4, <1>5, CheckpointTypes, Inserts
  <2> QED BY <2>1 DEF Inserted
<1>7. Len(index) \in Nat /\ DOMAIN index = 1..Len(index) /\ DOMAIN index' = 1..(Len(index) + 1)
    BY <1>6, CheckpointTypes
<1>8. \A i \in DOMAIN index': index'[i] = row \/ \E j \in DOMAIN index: index'[i] = index[j]
  <2>1. ASSUME NEW i \in DOMAIN index', i # k + 1 PROVE \E j \in DOMAIN index: index'[i] = index[j]
    <3>1. CASE i <= k
        BY <1>6, <1>7, <3>1
    <3>2. CASE i > k + 1
        <4>1. i - 1 \in DOMAIN index /\ ~(i <= k) /\ i \in 1..(Len(index) + 1)
            BY <1>7, <3>2
        <4> QED BY <1>6, <2>1, <4>1
    <3> QED BY <1>7, <2>1, <3>1, <3>2
  <2>2. index'[k + 1] = row
    BY <1>6, <1>7
  <2> QED BY <2>1, <2>2
<1>9. \A i \in DOMAIN index: \E j \in DOMAIN index': index'[j] = index[i]
  <2> SUFFICES ASSUME NEW i \in DOMAIN index PROVE \E j \in DOMAIN index': index'[j] = index[i]
    OBVIOUS
  <2>1. CASE i <= k
    BY <1>6, <1>7, <2>1
  <2>2. CASE i > k
    <3>1. i + 1 \in DOMAIN index' /\ ~(i + 1 <= k) /\ i + 1 # k + 1 /\ (i + 1) - 1 = i
        BY <1>7, <2>2
    <3> QED BY <1>6, <1>7, <3>1
  <2> QED BY <1>7, <2>1, <2>2
<1>10. CheckpointsTypeOK'
    BY <1>1, <1>2, <1>6 DEF CheckpointsTypeOK, CallerRecord
<1>11. CallsInv' /\ StoredInv'
    BY <1>1, <1>2 DEF CallsInv, StoredInv, Kept, Active, Stamped
<1>12. LockInv'
    BY <1>1, <1>2 DEF LockInv
<1>13. IndexInv'
  <2>1. \A i \in DOMAIN index': /\ index'[i].id \in 1..calls' /\ index'[i].ts <= clock'
                                /\ \E s \in stored': s.id = index'[i].id
    BY <1>2, <1>4, <1>8 DEF IndexInv, Kept
  <2>2. ASSUME NEW i \in DOMAIN index', NEW j \in DOMAIN index', i < j
        PROVE  index'[i].ts >= index'[j].ts /\ index'[i].id # index'[j].id
    <3>0. \A l \in DOMAIN index: index[l].ts \in Nat /\ index[l].id # row.id
        BY <1>2, <1>4, CheckpointTypes DEF OrderInv
    <3>1. /\ \A l \in 1..k: index[l].ts >= row.ts
          /\ \A l \in (k + 1)..Len(index): row.ts >= index[l].ts
        <4>1. \A l \in (k + 1)..Len(index): index[l].ts < row.ts /\ l \in DOMAIN index
            BY <1>5, <1>7 DEF Fits
        <4>2. \A l \in (k + 1)..Len(index): row.ts >= index[l].ts
            BY <1>4, <3>0, <4>1
        <4>3. \A l \in 1..k: index[l].ts >= row.ts
            BY <1>5 DEF Fits
        <4> QED BY <4>2, <4>3
    <3>2. i \in 1..(Len(index) + 1) /\ j \in 1..(Len(index) + 1)
        BY <1>7
    <3>3. CASE i = k + 1
        <4>1. index'[i] = row /\ index'[j] = index[j - 1] /\ j - 1 \in (k + 1)..Len(index)
            BY <1>6, <1>7, <2>2, <3>2, <3>3
        <4> QED BY <1>7, <3>0, <3>1, <4>1
    <3>4. CASE j = k + 1
        <4>1. index'[j] = row /\ index'[i] = index[i] /\ i \in 1..k
            BY <1>6, <1>7, <2>2, <3>2, <3>4
        <4> QED BY <1>7, <3>0, <3>1, <4>1
    <3>5. CASE i # k + 1 /\ j # k + 1
        <4>1. PICK i1, j1: /\ i1 = (IF i <= k THEN i ELSE i - 1)
                           /\ j1 = (IF j <= k THEN j ELSE j - 1)
            OBVIOUS
        <4>2. index'[i] = index[i1] /\ index'[j] = index[j1]
            BY <1>6, <3>2, <3>5, <4>1
        <4>3. i1 \in 1..Len(index) /\ j1 \in 1..Len(index) /\ i1 < j1
            <5>1. CASE j <= k
                BY <1>7, <2>2, <3>2, <3>5, <4>1, <5>1
            <5>2. CASE ~(j <= k) /\ i <= k
                BY <1>7, <2>2, <3>2, <3>5, <4>1, <5>2
            <5>3. CASE ~(j <= k) /\ ~(i <= k)
                BY <1>7, <2>2, <3>2, <3>5, <4>1, <5>3
            <5> QED BY <5>1, <5>2, <5>3
        <4> QED BY <1>7, <4>2, <4>3 DEF IndexInv
    <3> QED BY <3>3, <3>4, <3>5
  <2> QED BY <2>1, <2>2 DEF IndexInv, Kept
<1>14. OrderInv'
  <2>0. /\ touches' = touches /\ row.id \in Nat
        /\ \A l \in DOMAIN index: /\ index[l].id \in Nat
                                  /\ Path(index[l]) = Path(row) => /\ index[l].id < row.id
                                                                   /\ index[l].ts <= row.ts
    BY <1>2, <1>4, CheckpointTypes DEF OrderInv
  <2>1. ASSUME NEW i \in DOMAIN index', NEW j \in DOMAIN index',
               touches[index'[i].id] = touches[index'[j].id], index'[i].id < index'[j].id
        PROVE  index'[i].ts <= index'[j].ts
    <3>1. CASE index'[i] = row /\ index'[j] = row
        BY <1>4, <3>1
    <3>2. CASE index'[i] = row /\ \E l \in DOMAIN index: index'[j] = index[l]
        BY <2>0, <2>1, <3>2 DEF Path
    <3>3. CASE index'[j] = row /\ \E l \in DOMAIN index: index'[i] = index[l]
        BY <2>0, <2>1, <3>3 DEF Path
    <3>4. CASE (\E l \in DOMAIN index: index'[i] = index[l]) /\ \E l \in DOMAIN index: index'[j] = index[l]
        BY <2>1, <3>4 DEF OrderInv, Path
    <3> QED BY <1>8, <3>1, <3>2, <3>3, <3>4
  <2>2. ASSUME NEW d \in Callers, NEW i \in DOMAIN index', Active(d)'
        PROVE  /\ index'[i].id # caller'[d].id
               /\ touches[index'[i].id] = caller'[d].path =>
                     /\ index'[i].id < caller'[d].id
                     /\ Stamped(d)' => index'[i].ts <= caller'[d].ts
    <3>1. d # c /\ caller'[d] = caller[d] /\ Active(d)
        BY <1>1, <2>2 DEF Active
    <3>2. CASE index'[i] = row
        BY <1>2, <1>4, <3>1, <3>2 DEF CallsInv, Path
    <3>3. CASE \E l \in DOMAIN index: index'[i] = index[l]
        BY <3>1, <3>3 DEF OrderInv, Path, Stamped
    <3> QED BY <1>8, <3>2, <3>3
  <2> QED BY <2>0, <2>1, <2>2 DEF OrderInv, Path
<1>15. RewindInv'
    BY <1>2, <1>9, RewindStays
<1> QED BY <1>10, <1>11, <1>12, <1>13, <1>14, <1>15

LEMMA StartKeeps ==
    ASSUME CheckpointsInv, NEW n \in 1..Len(index), StartRewind(n)
    PROVE  CheckpointsInv'
<1> USE DEF CheckpointsInv, Preserved
<1>1. PICK rows: rows = SubSeq(index, 1, n)
    OBVIOUS
<1>2. /\ rows \in Seq(Row) /\ Len(rows) = n /\ n \in Nat /\ \A i \in 1..n: rows[i] = index[i]
      /\ \A i \in 1..n: i \in DOMAIN index
  <2>1. index \in Seq(Row)
    BY CheckpointTypes
  <2> QED BY <1>1, <2>1
<1>3. PICK calm1 \in BOOLEAN: rewind' = [todo |-> rows, entries |-> rows, calm |-> calm1]
    BY <1>1 DEF StartRewind, Prefix
<1>4. /\ rewind' \in RewindRecord /\ rewind'.todo = rows /\ rewind'.entries = rows
      /\ rewinds' \in Nat
      /\ UNCHANGED <<file, was, touches, misread, caller, calls, clock, stored, index, lock, faults>>
  <2>1. rewind' \in RewindRecord /\ rewind'.todo = rows /\ rewind'.entries = rows
    BY <1>2, <1>3 DEF RewindRecord
  <2>2. rewinds \in Nat /\ rewinds' = rewinds + 1
    BY DEF StartRewind, CheckpointsTypeOK
  <2> QED BY <2>1, <2>2 DEF StartRewind
<1>5. CheckpointsTypeOK'
    BY <1>4 DEF CheckpointsTypeOK, RewindRecord
<1>6. CallsInv' /\ StoredInv' /\ LockInv' /\ IndexInv' /\ OrderInv'
    BY <1>4 DEF CallsInv, StoredInv, LockInv, IndexInv, OrderInv, Active, Stamped, Kept, Path
<1>7. RewindInv'
  <2>1. Applied' = 0
    BY <1>2, <1>4 DEF Applied
  <2>2. DOMAIN rows = 1..n
    BY <1>2
  <2>3. /\ \A i \in 1..n: \E j \in DOMAIN index: index[j] = rows[i]
        /\ \A i, j \in 1..n: i < j => rows[i].ts >= rows[j].ts /\ rows[i].id # rows[j].id
    BY <1>2 DEF IndexInv
  <2>4. \A i \in 1..n: rows[i] = rows[0 + i]
    BY <1>2
  <2> QED BY <1>4, <2>1, <2>2, <2>3, <2>4 DEF RewindInv
<1> QED BY <1>5, <1>6, <1>7

\* A checkpoint written back: the file of the next row gets what that kept.
LEMMA RestoreKeeps ==
    ASSUME CheckpointsInv, Restore
    PROVE  CheckpointsInv'
<1> USE DEF CheckpointsInv, Preserved
<1>0. PICK e, k: e = rewind.entries /\ k = Applied
    OBVIOUS
<1>1. /\ rewind.todo \in Seq(Row) /\ rewind.todo # <<>> /\ e \in Seq(Row)
      /\ UNCHANGED <<was, touches, misread, caller, calls, clock, stored, index, lock, rewinds, faults>>
    BY <1>0, CheckpointTypes DEF RewindRecord, Restore
<1>2. PICK rest: rest = Tail(rewind.todo)
    OBVIOUS
<1>3. /\ rest \in Seq(Row) /\ Len(rest) = Len(rewind.todo) - 1 /\ Len(rewind.todo) \in Nat
      /\ \A i \in 1..Len(rest): rest[i] = rewind.todo[i + 1]
      /\ 1 \in DOMAIN rewind.todo /\ Head(rewind.todo) = rewind.todo[1]
    BY <1>1, <1>2
<1>4. /\ rewind' \in RewindRecord /\ rewind'.todo = rest /\ rewind'.entries = e
      /\ rewind'.calm = rewind.calm
    BY <1>0, <1>2, <1>3, CheckpointTypes DEF Restore, RewindRecord
<1>a. PICK n, m: n = Len(e) /\ m = Len(rewind.todo)
    OBVIOUS
<1>b. n \in Nat /\ m \in Nat /\ m >= 1 /\ Len(rest) = m - 1 /\ k = n - m /\ k >= 0
    BY <1>0, <1>1, <1>3, <1>a DEF Applied, RewindInv
<1>c. Applied' = n - (m - 1)
    BY <1>4, <1>a, <1>b DEF Applied
<1>5. k \in Nat /\ Applied' = k + 1
    BY <1>b, <1>c
<1>d. DOMAIN e = 1..n /\ k + 1 \in 1..n
    BY <1>1, <1>a, <1>b
<1>6. PICK row: row = e[k + 1] /\ row = Head(rewind.todo) /\ row.id \in 1..calls /\ Kept(row.id)
    BY <1>0, <1>3, <1>d DEF RewindInv, IndexInv
<1>7. PICK here: here = {s \in stored: s.id = row.id /\ s.before # Large}
    OBVIOUS
<1>8. file' = [f \in Files |-> IF \E s \in here: s.path = f
                               THEN (CHOOSE s \in here: s.path = f).before ELSE file[f]]
    BY <1>6, <1>7 DEF Restore
<1>9. \A s \in here: s.path = touches[row.id] /\ s.before = Preserved(row.id) /\ s.path \in Files
    BY <1>7 DEF StoredInv, CheckpointsTypeOK
<1>10. /\ Preserved(row.id) = Large \/ file'[touches[row.id]] = Preserved(row.id)
       /\ \A f \in Files: f # touches[row.id] => file'[f] = file[f]
  <2>1. \A f \in Files: f # touches[row.id] => file'[f] = file[f]
    BY <1>8, <1>9
  <2>2. CASE Preserved(row.id) # Large
    <3>1. PICK s \in here: TRUE
        BY <1>6, <1>7, <2>2 DEF Kept, StoredInv
    <3>2. \E t \in here: t.path = touches[row.id]
        BY <1>9, <3>1
    <3>3. (CHOOSE t \in here: t.path = touches[row.id]) \in here
        BY <3>2
    <3>4. touches[row.id] \in Files
        BY <1>9, <3>1
    <3> QED BY <1>8, <1>9, <2>1, <3>2, <3>3, <3>4
  <2> QED BY <2>1, <2>2
<1>11. file' \in [Files -> Contents]
  <2>1. ASSUME NEW f \in Files, \E s \in here: s.path = f
        PROVE  (CHOOSE s \in here: s.path = f).before \in Contents
    BY <1>7, <2>1 DEF CheckpointsTypeOK
  <2>2. \A f \in Files: file[f] \in Contents
    BY DEF CheckpointsTypeOK
  <2> QED BY <1>8, <2>1, <2>2
<1>12. CheckpointsTypeOK'
    BY <1>1, <1>4, <1>11 DEF CheckpointsTypeOK, RewindRecord
<1>13. CallsInv' /\ StoredInv' /\ LockInv' /\ IndexInv' /\ OrderInv'
    BY <1>1 DEF CallsInv, StoredInv, LockInv, IndexInv, OrderInv, Active, Stamped, Kept, Path
<1>14. ASSUME rewind.calm, NEW i \in 1..(k + 1)
       PROVE  \E j \in i..(k + 1):
                 /\ touches[e[j].id] = touches[e[i].id]
                 /\ \A l \in (j + 1)..(k + 1): touches[e[l].id] # touches[e[j].id]
                 /\ Preserved(e[j].id) = Large \/ file'[touches[e[j].id]] = Preserved(e[j].id)
  <2>1. CASE touches[e[i].id] = touches[row.id]
    <3>1. k + 1 \in i..(k + 1) /\ (k + 1 + 1)..(k + 1) = {}
        BY <1>5
    <3>2. /\ touches[e[k + 1].id] = touches[e[i].id]
          /\ Preserved(e[k + 1].id) = Large \/ file'[touches[e[k + 1].id]] = Preserved(e[k + 1].id)
        BY <1>6, <1>10, <2>1
    <3> QED BY <3>1, <3>2
  <2>2. CASE touches[e[i].id] # touches[row.id]
    <3>0. i # k + 1 /\ touches[e[k + 1].id] # touches[e[i].id]
        BY <1>6, <2>2
    <3>1. i \in 1..k
        BY <1>5, <3>0
    <3>2. PICK j \in i..k:
            /\ touches[e[j].id] = touches[e[i].id]
            /\ \A l \in (j + 1)..k: touches[e[l].id] # touches[e[j].id]
            /\ Preserved(e[j].id) = Large \/ file[touches[e[j].id]] = Preserved(e[j].id)
        BY <1>0, <1>14, <3>1 DEF RewindInv, Shows, Path
    <3>3. j \in i..(k + 1) /\ \A l \in (j + 1)..(k + 1): l \in (j + 1)..k \/ l = k + 1
        BY <1>5, <3>1, <3>2
    <3>4. Preserved(e[j].id) = Large \/ file'[touches[e[j].id]] = Preserved(e[j].id)
      <4>1. CASE touches[e[j].id] \in Files
        BY <1>10, <2>2, <3>2, <4>1
      <4>2. CASE touches[e[j].id] \notin Files
        <5>1. e[j].id \in 1..calls /\ Kept(e[j].id)
            BY <1>0, <1>b, <1>d, <3>1, <3>2 DEF RewindInv, IndexInv
        <5> QED BY <4>2, <5>1 DEF Kept, StoredInv, CheckpointsTypeOK
      <4> QED BY <4>1, <4>2
    <3>5. \A l \in (j + 1)..(k + 1): touches[e[l].id] # touches[e[j].id]
        BY <3>0, <3>2, <3>3
    <3> QED BY <3>2, <3>3, <3>4, <3>5
  <2> QED BY <2>1, <2>2
<1>15. RewindInv'
  <2>1. rewind'.calm => \A i \in 1..Applied': \E j \in i..Applied':
            touches'[rewind'.entries[j].id] = touches'[rewind'.entries[i].id] /\ Shows(j)'
    <3> SUFFICES ASSUME rewind'.calm, NEW i \in 1..Applied'
                 PROVE  \E j \in i..Applied':
                     touches'[rewind'.entries[j].id] = touches'[rewind'.entries[i].id] /\ Shows(j)'
        OBVIOUS
    <3>1. rewind'.entries = e /\ i \in 1..(k + 1) /\ rewind.calm
        BY <1>4, <1>5
    <3>2. PICK j \in i..(k + 1):
            /\ touches[e[j].id] = touches[e[i].id]
            /\ \A l \in (j + 1)..(k + 1): touches[e[l].id] # touches[e[j].id]
            /\ Preserved(e[j].id) = Large \/ file'[touches[e[j].id]] = Preserved(e[j].id)
        BY <1>14, <3>1
    <3>3. Shows(j)'
        BY <1>1, <1>5, <3>1, <3>2 DEF Shows, Path
    <3> QED BY <1>1, <1>5, <3>1, <3>2, <3>3
  <2>2. \A i \in DOMAIN rest: rest[i] = e[k + 1 + i]
    <3>1. ASSUME NEW i \in DOMAIN rest PROVE rest[i] = e[k + 1 + i]
      <4>1. i \in 1..Len(rest) /\ i + 1 \in DOMAIN rewind.todo /\ k + (i + 1) = k + 1 + i
        <5>1. i \in 1..Len(rest) /\ DOMAIN rewind.todo = 1..m
            BY <1>1, <1>3, <1>a
        <5> QED BY <1>5, <1>b, <5>1
      <4>2. rewind.todo[i + 1] = e[k + (i + 1)]
        BY <1>0, <4>1 DEF RewindInv
      <4> QED BY <1>3, <4>1, <4>2
    <3> QED BY <3>1
  <2>3. /\ \A i \in DOMAIN e: \E j \in DOMAIN index: index[j] = e[i]
        /\ \A i, j \in DOMAIN e: i < j => e[i].ts >= e[j].ts /\ e[i].id # e[j].id
    BY <1>0 DEF RewindInv
  <2>4. Applied' >= 0
    BY <1>5
  <2> QED BY <1>1, <1>4, <1>5, <2>1, <2>2, <2>3, <2>4 DEF RewindInv, Path
<1> QED BY <1>12, <1>13, <1>15

LEMMA OtherKeeps ==
    ASSUME CheckpointsInv, NEW f \in Files, OtherChange(f)
    PROVE  CheckpointsInv'
<1> USE DEF CheckpointsInv, Preserved
<1>1. /\ rewind' = [rewind EXCEPT !.calm = FALSE] /\ faults' = faults + 1
      /\ UNCHANGED <<was, touches, misread, caller, calls, clock, stored, index, lock, rewinds>>
    BY DEF OtherChange
<1>2. PICK content \in Contents: file' = [file EXCEPT ![f] = content]
    BY ContentsKept DEF OtherChange
<1>3. /\ rewind' \in RewindRecord /\ rewind'.todo = rewind.todo
      /\ rewind'.entries = rewind.entries /\ ~rewind'.calm
    BY <1>1, CheckpointTypes DEF RewindRecord
<1>4. file' \in [Files -> Contents] /\ faults' \in Nat
    BY <1>1, <1>2 DEF CheckpointsTypeOK
<1>5. CheckpointsTypeOK'
    BY <1>1, <1>3, <1>4 DEF CheckpointsTypeOK, RewindRecord
<1>6. CallsInv' /\ StoredInv' /\ LockInv' /\ IndexInv' /\ OrderInv'
    BY <1>1 DEF CallsInv, StoredInv, LockInv, IndexInv, OrderInv, Active, Stamped, Kept, Path
<1>7. RewindInv'
    BY <1>1, <1>3, RewindStays
<1> QED BY <1>5, <1>6, <1>7

\* A rewind that stops, or passes over one of its rows, has applied no more.
LEMMA RestoreFailsKeeps ==
    ASSUME CheckpointsInv, RestoreFails
    PROVE  CheckpointsInv'
<1> USE DEF CheckpointsInv, Preserved
<1>1. /\ rewind' \in {NoRewind, [rewind EXCEPT !.todo = Tail(rewind.todo), !.calm = FALSE]}
      /\ rewind.todo \in Seq(Row) /\ rewind.todo # <<>> /\ rewind.entries \in Seq(Row)
      /\ faults' \in Nat
      /\ UNCHANGED <<file, was, touches, misread, caller, calls, clock, stored, index, lock,
                     rewinds>>
    BY CheckpointTypes DEF RestoreFails, RewindRecord, CheckpointsTypeOK
<1>2. CASE rewind' = NoRewind
  <2>1. /\ rewind' \in RewindRecord /\ rewind'.todo = <<>> /\ rewind'.entries = <<>>
    BY <1>2 DEF NoRewind, RewindRecord
  <2>2. CheckpointsTypeOK'
    BY <1>1, <2>1 DEF CheckpointsTypeOK, RewindRecord
  <2>3. CallsInv' /\ StoredInv' /\ LockInv' /\ IndexInv' /\ OrderInv'
    BY <1>1 DEF CallsInv, StoredInv, LockInv, IndexInv, OrderInv, Active, Stamped, Kept, Path
  <2>4. RewindInv'
    <3>1. Applied' = 0 /\ 1..0 = {}
        BY <2>1 DEF Applied
    <3> QED BY <2>1, <3>1 DEF RewindInv
  <2> QED BY <2>2, <2>3, <2>4
<1>3. CASE rewind' = [rewind EXCEPT !.todo = Tail(rewind.todo), !.calm = FALSE]
  <2>1. PICK e, rest, m: e = rewind.entries /\ rest = Tail(rewind.todo) /\ m = Len(rewind.todo)
    OBVIOUS
  <2>2. /\ rest \in Seq(Row) /\ Len(rest) = m - 1 /\ m \in Nat /\ m >= 1 /\ Len(e) \in Nat
        /\ \A i \in 1..(m - 1): rest[i] = rewind.todo[i + 1]
        /\ DOMAIN rest = 1..(m - 1) /\ DOMAIN rewind.todo = 1..m
    BY <1>1, <2>1
  <2>3. /\ rewind' \in RewindRecord /\ rewind'.todo = rest /\ rewind'.entries = e
        /\ ~rewind'.calm
    BY <1>3, <2>1, <2>2, CheckpointTypes DEF RewindRecord
  <2>4. CheckpointsTypeOK'
    BY <1>1, <2>3 DEF CheckpointsTypeOK, RewindRecord
  <2>5. CallsInv' /\ StoredInv' /\ LockInv' /\ IndexInv' /\ OrderInv'
    BY <1>1 DEF CallsInv, StoredInv, LockInv, IndexInv, OrderInv, Active, Stamped, Kept, Path
  <2>6. PICK k: k = Applied
    OBVIOUS
  <2>7. k = Len(e) - m /\ k >= 0 /\ Applied' = Len(e) - (m - 1)
    BY <2>1, <2>2, <2>3, <2>6 DEF Applied, RewindInv
  <2>8. Applied' = k + 1 /\ Applied' >= 0
    BY <2>2, <2>7
  <2>9. \A i \in DOMAIN rest: rest[i] = e[k + 1 + i]
    <3>1. ASSUME NEW i \in 1..(m - 1) PROVE rest[i] = e[k + 1 + i]
      <4>1. i + 1 \in 1..m /\ k + (i + 1) = k + 1 + i
        BY <2>2, <2>7
      <4>2. rewind.todo[i + 1] = e[k + (i + 1)]
        BY <2>1, <2>2, <2>6, <4>1 DEF RewindInv
      <4> QED BY <2>2, <4>1, <4>2
    <3> QED BY <2>2, <3>1
  <2>10. /\ \A i \in DOMAIN e: \E j \in DOMAIN index: index[j] = e[i]
         /\ \A i, j \in DOMAIN e: i < j => e[i].ts >= e[j].ts /\ e[i].id # e[j].id
    BY <2>1 DEF RewindInv
  <2>11. RewindInv'
    BY <1>1, <2>3, <2>8, <2>9, <2>10 DEF RewindInv
  <2> QED BY <2>4, <2>5, <2>11
<1> QED BY <1>1, <1>2, <1>3

LEMMA DieKeeps ==
    ASSUME CheckpointsInv, ServerDies
    PROVE  CheckpointsInv'
<1> USE DEF CheckpointsInv, Preserved
<1>1. /\ caller' \in [Callers -> CallerRecord] /\ \A c \in Callers: caller'[c].pc = "idle"
      /\ lock' = Free /\ rewind' = NoRewind /\ faults' = faults + 1
      /\ UNCHANGED <<file, was, touches, misread, calls, clock, stored, index, rewinds>>
    BY IdleIsRecord DEF ServerDies
<1>2. /\ rewind' \in RewindRecord /\ rewind'.todo = <<>> /\ rewind'.entries = <<>>
    BY <1>1 DEF NoRewind, RewindRecord
<1>3. CheckpointsTypeOK'
    BY <1>1, <1>2 DEF CheckpointsTypeOK, CallerRecord, RewindRecord
<1>4. CallsInv' /\ StoredInv' /\ LockInv' /\ IndexInv' /\ OrderInv'
    BY <1>1 DEF CallsInv, StoredInv, LockInv, IndexInv, OrderInv, Active, Stamped, Kept, Path
<1>5. RewindInv'
  <2>1. Applied' = 0 /\ 1..0 = {}
    BY <1>2 DEF Applied
  <2> QED BY <1>2, <2>1 DEF RewindInv
<1> QED BY <1>3, <1>4, <1>5

-----------------------------------------------------------------------------
LEMMA CheckpointsStart == ASSUME CheckpointsInit PROVE CheckpointsInv
<1>1. /\ caller \in [Callers -> CallerRecord] /\ \A c \in Callers: caller[c].pc = "idle"
      /\ rewind \in RewindRecord /\ rewind.todo = <<>> /\ rewind.entries = <<>>
    BY IdleIsRecord DEF CheckpointsInit, NoRewind, RewindRecord
<1>2. /\ index = <<>> /\ stored = {} /\ misread = {} /\ calls = 0 /\ clock = 1 /\ lock = Free
      /\ rewinds = 0 /\ faults = 0 /\ MaxCalls \in Nat
    BY CheckpointsAssumption DEF CheckpointsInit
<1>3. /\ file \in [Files -> Contents] /\ was \in [ToolCalls -> Contents]
      /\ touches \in [ToolCalls -> Files \cup {NoPath}]
  <2>1. NoFile \in Contents
    BY ContentsKept
  <2> QED BY <2>1 DEF CheckpointsInit
<1>4. CheckpointsTypeOK
  <2>1. index \in Seq(Row) /\ calls \in 0..MaxCalls
    BY <1>2
  <2> QED BY <1>1, <1>2, <1>3, <2>1 DEF CheckpointsTypeOK, CallerRecord, RewindRecord
<1>5. CallsInv /\ StoredInv /\ LockInv /\ IndexInv /\ OrderInv
    BY <1>1, <1>2 DEF CallsInv, StoredInv, LockInv, IndexInv, OrderInv, Active, Stamped
<1>6. RewindInv
  <2>1. Applied = 0 /\ 1..0 = {}
    BY <1>1 DEF Applied
  <2> QED BY <1>1, <2>1 DEF RewindInv
<1> QED BY <1>4, <1>5, <1>6 DEF CheckpointsInv

LEMMA CheckpointsStep ==
    ASSUME CheckpointsInv, CheckpointsNext
    PROVE  CheckpointsInv'
<1>1. ASSUME NEW c \in Callers, RunTool(c) PROVE CheckpointsInv'
  <2>1. CASE SetCaller(c, Idle) /\ UNCHANGED <<file, clock, rewind>>
    <3>1. /\ SameRows /\ faults' = faults /\ faults \in Nat
          /\ UNCHANGED <<lock, file, rewind, clock, rewinds>>
        BY <1>1, <2>1 DEF RunTool, SameRows, CheckpointsInv, CheckpointsTypeOK
    <3> QED BY <2>1, <3>1, RestKeeps
  <2>2. CASE ~(SetCaller(c, Idle) /\ UNCHANGED <<file, clock, rewind>>)
    BY <1>1, <2>2, RunKeeps
  <2> QED BY <2>1, <2>2
<1>2. ASSUME NEW c \in Callers, RecordFails(c) PROVE CheckpointsInv'
  <2>1. /\ SetCaller(c, Idle) /\ SameRows /\ faults' \in Nat
        /\ lock' = lock \/ (lock = c /\ lock' = Free)
        /\ UNCHANGED <<file, rewind, clock, rewinds>>
    BY <1>2 DEF RecordFails, SameRows, CheckpointsInv, CheckpointsTypeOK
  <2> QED BY <2>1, RestKeeps
<1> QED BY <1>1, <1>2, SnapKeeps, StoreKeeps, ReadKeeps, WriteKeeps, StartKeeps, RestoreKeeps,
        RestoreFailsKeeps, OtherKeeps, DieKeeps DEF CheckpointsNext

LEMMA CheckpointsKeep ==
    ASSUME CheckpointsInv, [CheckpointsNext]_checkpointsVars
    PROVE  CheckpointsInv'
<1>1. CASE UNCHANGED checkpointsVars
  <2>1. UNCHANGED <<file, was, touches, misread, caller, calls, clock, stored, index, lock, rewind,
                    rewinds, faults>>
    BY <1>1 DEF checkpointsVars
  <2>2. SameRows
    BY <2>1 DEF SameRows
  <2>3. CheckpointsTypeOK' /\ CallsInv' /\ StoredInv' /\ LockInv' /\ IndexInv' /\ OrderInv'
    BY <2>1 DEF CheckpointsInv, CheckpointsTypeOK, CallsInv, StoredInv, LockInv, IndexInv,
                OrderInv, Active, Stamped, Kept, Path, Preserved
  <2>4. RewindInv'
    BY <2>1, RewindStays DEF CheckpointsInv, Preserved
  <2> QED BY <2>3, <2>4 DEF CheckpointsInv
<1> QED BY <1>1, CheckpointsStep

(***************************************************************************)
(* The checkpoints of a conversation (middleware.ts, store.ts): what they  *)
(* keep and how the index orders them, and how far a rewind has come,      *)
(* through failed records, changes by others and deaths of the process.    *)
(***************************************************************************)
THEOREM CheckpointsInvariance == CheckpointsSpec => []CheckpointsInv
BY CheckpointsStart, CheckpointsKeep, PTL DEF CheckpointsSpec

\* What a call's snapshot is, and of which file, is settled when it begins.
LEMMA HistoryStays ==
    ASSUME CheckpointsInv, CheckpointsNext
    PROVE  \A n \in 1..calls: Preserved(n)' = Preserved(n) /\ touches'[n] = touches[n]
<1>1. CASE \E c \in Callers: \E f \in Files: SnapBefore(c, f)
    BY <1>1, Snaps DEF CheckpointsInv
<1>2. CASE \E c \in Callers: RunTool(c) \/ StoreFile(c) \/ ReadIndex(c) \/ WriteIndex(c) \/ RecordFails(c)
    BY <1>2 DEF RunTool, StoreFile, ReadIndex, WriteIndex, RecordFails, Preserved
<1>3. CASE \/ \E n \in 1..Len(index): StartRewind(n)
           \/ Restore \/ RestoreFails \/ (\E f \in Files: OtherChange(f)) \/ ServerDies
    BY <1>3 DEF StartRewind, Restore, RestoreFails, OtherChange, ServerDies, Preserved
<1> QED BY <1>1, <1>2, <1>3 DEF CheckpointsNext

\* In an index without ties a file's rows lead back in time.
LEMMA OlderIsLater ==
    ASSUME CheckpointsInv, Untied, NEW i \in DOMAIN rewind.entries, NEW j \in DOMAIN rewind.entries,
           i < j, Path(rewind.entries[i]) = Path(rewind.entries[j])
    PROVE  rewind.entries[j].id < rewind.entries[i].id
<1>1. PICK a \in DOMAIN index, b \in DOMAIN index:
        index[a] = rewind.entries[i] /\ index[b] = rewind.entries[j]
    BY DEF CheckpointsInv, RewindInv
<1>2. /\ index[a].ts \in Nat /\ index[b].ts \in Nat /\ index[a].id \in Nat /\ index[b].id \in Nat
    BY <1>1, CheckpointTypes DEF CheckpointsInv
<1>3. index[a].ts >= index[b].ts /\ index[a].id # index[b].id
    BY <1>1 DEF CheckpointsInv, RewindInv
<1>4. index[a].ts # index[b].ts
    BY <1>1, <1>3 DEF Untied
<1>5. ~(index[a].id < index[b].id)
    BY <1>1, <1>2, <1>3, <1>4 DEF CheckpointsInv, OrderInv
<1> QED BY <1>1, <1>2, <1>3, <1>5

(***************************************************************************)
(* /rewind (rewind.ts) gives every file that the calls rolled back have    *)
(* touched the content it had when the first of them began: for any number *)
(* of files, rounds, calls and earlier rewinds, and whatever records were  *)
(* lost; unless a file was changed meanwhile, was too large to keep, or    *)
(* timestamps collide.                                                     *)
(***************************************************************************)
THEOREM RewindsRestore == CheckpointsSpec => RewindRestores
<1>1. ASSUME CheckpointsInv, [CheckpointsNext]_checkpointsVars,
             Len(rewind.todo) = 1, rewind' = [rewind EXCEPT !.todo = <<>>], Untied, rewind.calm,
             NEW f \in {touches[n]: n \in Rolled}
      PROVE  Preserved(Earliest(f)) = Large \/ file'[f] = Preserved(Earliest(f))
  <2>1. PICK e: e = rewind.entries
    OBVIOUS
  <2>2. e \in Seq(Row) /\ rewind \in RewindRecord
    BY <1>1, <2>1, CheckpointTypes DEF CheckpointsInv, RewindRecord
  <2>3. /\ rewind'.todo = <<>> /\ rewind'.entries = e /\ rewind'.calm
    BY <1>1, <2>1, <2>2 DEF RewindRecord
  <2>4. CheckpointsNext
    <3>1. rewind'.todo # rewind.todo
        BY <1>1, <2>3
    <3> QED BY <1>1, <3>1 DEF checkpointsVars
  <2>5. RewindInv' /\ Applied' = Len(e) /\ Len(e) \in Nat /\ DOMAIN e = 1..Len(e)
    <3>1. RewindInv'
        BY <1>1, CheckpointsKeep DEF CheckpointsInv
    <3>2. Len(e) \in Nat /\ DOMAIN e = 1..Len(e)
        BY <2>2
    <3>3. Applied' = Len(e)
        BY <2>3, <3>2 DEF Applied
    <3> QED BY <3>1, <3>2, <3>3
  <2>6. /\ \A l \in DOMAIN e: e[l].id \in 1..calls /\ e[l].id \in Nat
        /\ \A n \in 1..calls: Preserved(n)' = Preserved(n) /\ touches'[n] = touches[n]
    BY <1>1, <2>1, <2>4, HistoryStays, CheckpointTypes DEF CheckpointsInv, RewindInv, IndexInv
  <2>7. PICK i \in DOMAIN e: touches[e[i].id] = f
    BY <2>1 DEF Rolled
  <2>8. PICK j \in i..Len(e):
          /\ touches'[e[j].id] = touches'[e[i].id]
          /\ \A l \in (j + 1)..Len(e): touches'[e[l].id] # touches'[e[j].id]
          /\ Preserved(e[j].id)' = Large \/ file'[touches'[e[j].id]] = Preserved(e[j].id)'
    <3>1. i \in 1..Applied'
        BY <2>5, <2>7
    <3>2. PICK j \in i..Applied':
            touches'[rewind'.entries[j].id] = touches'[rewind'.entries[i].id] /\ Shows(j)'
        BY <2>3, <2>5, <3>1 DEF RewindInv, Path
    <3> QED BY <2>3, <2>5, <3>2 DEF Shows, Path
  <2>9. j \in DOMAIN e /\ \A l \in (j + 1)..Len(e): l \in DOMAIN e
    BY <2>5, <2>7, <2>8
  <2>10. /\ touches[e[j].id] = f
         /\ \A l \in (j + 1)..Len(e): touches[e[l].id] # f
         /\ Preserved(e[j].id) = Large \/ file'[f] = Preserved(e[j].id)
    BY <2>6, <2>7, <2>8, <2>9
  <2>11. ASSUME NEW l \in DOMAIN e, touches[e[l].id] = f PROVE e[j].id <= e[l].id
    <3>1. l \in 1..j
        BY <2>5, <2>9, <2>10, <2>11
    <3>2. CASE l = j
        BY <2>6, <2>9, <3>2
    <3>3. CASE l < j
        BY <1>1, <2>1, <2>6, <2>9, <2>10, <2>11, <3>3, OlderIsLater DEF Path
    <3> QED BY <2>5, <2>9, <3>1, <3>2, <3>3
  <2>12. Earliest(f) = e[j].id
    <3>1. /\ e[j].id \in Rolled /\ touches[e[j].id] = f
          /\ \A m \in Rolled: touches[m] = f => e[j].id <= m
        BY <2>1, <2>9, <2>10, <2>11 DEF Rolled
    <3>2. ASSUME NEW n \in Rolled, touches[n] = f, \A m \in Rolled: touches[m] = f => n <= m
          PROVE  n = e[j].id
      <4>1. n <= e[j].id /\ e[j].id <= n /\ n \in Nat /\ e[j].id \in Nat
        BY <2>1, <2>6, <2>9, <3>1, <3>2 DEF Rolled
      <4> QED BY <4>1
    <3> QED BY <3>1, <3>2 DEF Earliest
  <2> QED BY <2>10, <2>12
<1>2. ASSUME CheckpointsInv, [CheckpointsNext]_checkpointsVars
      PROVE  [Len(rewind.todo) = 1 /\ rewind' = [rewind EXCEPT !.todo = <<>>] /\ Untied
                /\ rewind.calm
              => \A f \in {touches[n]: n \in Rolled}:
                    \/ Preserved(Earliest(f)) = Large
                    \/ file'[f] = Preserved(Earliest(f))]_checkpointsVars
    BY <1>1, <1>2
<1> QED BY <1>2, CheckpointsInvariance, PTL DEF CheckpointsSpec, RewindRestores

-----------------------------------------------------------------------------
(* Plans.                                                                  *)

\* The record that create() wrote is never the line that is spoiled.
Opened == Len(lines) > 0 /\ lines[1] = Draft /\ (cut => Len(lines) > 1)

\* No frame and no end without a run; streams are not ahead of it.
Followed ==
    /\ run.pc = "none" => run.frames = 0
    /\ run.finished => run.pc = "ended"
    /\ deaths = 0 => \A s \in Streams: stream[s].cursor <= run.frames

PlansInv == PlansTypeOK /\ Opened /\ Followed /\ NoFrameIsMissed

Line == Snapshot \cup {Torn}

\* What a reader of the file gets is the last line that parses.
LEMMA LatestIs ==
    ASSUME lines \in Seq(Line), Opened
    PROVE  Latest \in Snapshot /\ Latest # Torn
<1>1. Len(lines) \in Nat /\ DOMAIN lines = 1..Len(lines)
    OBVIOUS
<1>2. 1 \in Parsed /\ Parsed \in SUBSET (1..Len(lines))
    BY <1>1 DEF Opened, Parsed, Draft, Torn
<1>3. \E i \in Parsed: \A j \in Parsed: i >= j
    BY <1>1, <1>2, GreatestNatural
<1>4. PICK i \in Parsed: Latest = lines[i]
    BY <1>2, <1>3 DEF Latest
<1>5. lines[i] \in Line /\ lines[i] # Torn
    BY <1>4 DEF Parsed
<1> QED BY <1>4, <1>5 DEF Line

LEMMA WriteKeepsLines ==
    ASSUME lines \in Seq(Line), cut \in BOOLEAN, Opened,
           NEW record \in Line, NEW newline \in BOOLEAN, WriteRecord(record, newline)
    PROVE  lines' \in Seq(Line) /\ cut' \in BOOLEAN /\ Opened'
<1>1. Len(lines) \in Nat /\ Torn \in Line
    BY DEF Line
<1>2. CASE cut
  <2>1. lines' = [lines EXCEPT ![Len(lines)] = Torn] /\ Len(lines) > 1
      BY <1>2 DEF WriteRecord, Opened
  <2>2. lines' \in Seq(Line) /\ Len(lines') = Len(lines) /\ lines'[1] = lines[1]
      BY <1>1, <2>1
  <2> QED BY <1>1, <2>1, <2>2 DEF WriteRecord, Opened
<1>3. CASE ~cut
  <2>1. lines' = Append(lines, record)
      BY <1>3 DEF WriteRecord
  <2>2. lines' \in Seq(Line) /\ Len(lines') = Len(lines) + 1 /\ lines'[1] = lines[1]
      BY <1>1, <2>1 DEF Opened
  <2> QED BY <1>1, <2>2 DEF WriteRecord, Opened
<1> QED BY <1>2, <1>3

LEMMA RecordsAreLines ==
    ASSUME NEW o \in Ops, op[o].copy \in Snapshot
    PROVE  Records(o) \subseteq Line
BY DEF Records, Snapshot, Line

LEMMA PlansStart == PlansInit => PlansInv
<1> SUFFICES ASSUME PlansInit PROVE PlansInv
  OBVIOUS
<1>1. lines = <<Draft>> /\ Draft \in Snapshot
    BY DEF PlansInit, Draft, Snapshot
<1>2. lines \in Seq(Snapshot \cup {Torn}) /\ Len(lines) = 1 /\ lines[1] = Draft
    BY <1>1
<1>3. PlansTypeOK
    BY <1>1, <1>2 DEF PlansInit, PlansTypeOK, NoOp, NoRun
<1> QED
    BY <1>2, <1>3 DEF PlansInit, PlansInv, Opened, Followed, NoFrameIsMissed, NoRun

\* What is left of the file and of the operations.
LEMMA FileKeeps ==
    ASSUME PlansInv, [PlansNext]_plansVars
    PROVE  /\ lines' \in Seq(Line) /\ cut' \in BOOLEAN /\ Opened'
           /\ op' \in [Ops -> [pc: {"idle", "read", "done"}, copy: Snapshot]]
<1> DEFINE Good == /\ lines' \in Seq(Line) /\ cut' \in BOOLEAN /\ Opened'
                   /\ op' \in [Ops -> [pc: {"idle", "read", "done"}, copy: Snapshot]]
<1>a. /\ lines \in Seq(Line) /\ cut \in BOOLEAN /\ Opened
      /\ op \in [Ops -> [pc: {"idle", "read", "done"}, copy: Snapshot]]
    BY DEF PlansInv, PlansTypeOK, Line
<1>b. Latest \in Snapshot /\ Draft \in Snapshot /\ "run" \in Ops
    BY <1>a, LatestIs DEF Draft, Snapshot, Ops
<1>c. ASSUME lines' = lines, cut' = cut PROVE lines' \in Seq(Line) /\ cut' \in BOOLEAN /\ Opened'
    BY <1>a, <1>c DEF Opened
<1>d. ASSUME NEW o \in Ops, NEW p \in {"idle", "read", "done"}, NEW copy \in Snapshot, SetOp(o, p, copy)
      PROVE  op' \in [Ops -> [pc: {"idle", "read", "done"}, copy: Snapshot]]
    BY <1>a, <1>d DEF SetOp
<1>e. ASSUME NEW o \in Ops, NEW record \in Records(o), NEW newline \in BOOLEAN,
             WriteRecord(record, newline)
      PROVE  lines' \in Seq(Line) /\ cut' \in BOOLEAN /\ Opened'
  <2>1. record \in Line
      BY <1>a, <1>e, RecordsAreLines
  <2> QED BY <1>a, <1>e, <2>1, WriteKeepsLines
<1>1. ASSUME NEW o \in Clients, ClientReads(o) PROVE Good
  <2>1. o \in Ops /\ lines' = lines /\ cut' = cut
      BY <1>1 DEF ClientReads, Ops
  <2>2. PICK p \in {"read", "done"}: SetOp(o, p, Latest)
      BY <1>1 DEF ClientReads
  <2> QED BY <1>b, <1>c, <1>d, <2>1, <2>2
<1>2. ASSUME NEW o \in Clients, ClientWrites(o) PROVE Good
  <2>1. o \in Ops /\ op[o].copy \in Snapshot
      BY <1>2, <1>a DEF Ops
  <2>2. PICK record \in Records(o): WriteRecord(record, TRUE)
      BY <1>2 DEF ClientWrites
  <2>3. SetOp(o, "done", op[o].copy)
      BY <1>2 DEF ClientWrites
  <2>4. lines' \in Seq(Line) /\ cut' \in BOOLEAN /\ Opened'
      BY <1>e, <2>1, <2>2
  <2> QED BY <1>d, <2>1, <2>3, <2>4
<1>3. ASSUME RunReads PROVE Good
  <2>1. lines' = lines /\ cut' = cut /\ SetOp("run", "read", Latest)
      BY <1>3 DEF RunReads
  <2> QED BY <1>b, <1>c, <1>d, <2>1
<1>4. ASSUME RunDone PROVE Good
  <2>1. SetOp("run", "done", Draft) /\ \E record \in Records("run"): WriteRecord(record, TRUE)
      BY <1>4 DEF RunDone
  <2>2. lines' \in Seq(Line) /\ cut' \in BOOLEAN /\ Opened'
      BY <1>b, <1>e, <2>1
  <2> QED BY <1>b, <1>d, <2>1, <2>2
<1>5. ASSUME RunFails PROVE Good
  <2>1. lines' = lines /\ cut' = cut /\ SetOp("run", "done", Draft)
      BY <1>5 DEF RunFails
  <2> QED BY <1>b, <1>c, <1>d, <2>1
<1>6. ASSUME \/ StartRun \/ RunFrame \/ RunFinished \/ UNCHANGED plansVars
             \/ \E s \in Streams: Connect(s) \/ Drain(s)
      PROVE  Good
  <2>1. lines' = lines /\ cut' = cut /\ op' = op
      BY <1>6 DEF StartRun, RunFrame, RunFinished, Connect, Drain, plansVars
  <2> QED BY <1>a, <1>c, <2>1
<1>7. ASSUME PlanServerDies PROVE Good
  <2>1. op' \in [Ops -> [pc: {"idle", "read", "done"}, copy: Snapshot]]
    <3>1. op' = [o \in Ops |-> IF op[o].pc = "read" THEN [op[o] EXCEPT !.pc = "done"]
                               ELSE op[o]]
        BY <1>7 DEF PlanServerDies
    <3>2. \A o \in Ops: op'[o] \in [pc: {"idle", "read", "done"}, copy: Snapshot]
        BY <1>a, <3>1
    <3> QED BY <3>1, <3>2
  <2>2. CASE lines' = lines /\ cut' = cut
      BY <1>c, <2>1, <2>2
  <2>3. CASE \E o \in Ops: \E part \in {Torn} \cup Records(o): WriteRecord(part, FALSE)
    <3>1. PICK o \in Ops: \E part \in {Torn} \cup Records(o): WriteRecord(part, FALSE)
        BY <2>3
    <3>2. PICK part \in {Torn} \cup Records(o): WriteRecord(part, FALSE)
        BY <3>1
    <3>3. part \in Line
        BY <1>a, RecordsAreLines DEF Line
    <3> QED BY <1>a, <2>1, <3>2, <3>3, WriteKeepsLines
  <2> QED BY <1>7, <2>2, <2>3 DEF PlanServerDies
<1> QED
    BY <1>1, <1>2, <1>3, <1>4, <1>5, <1>6, <1>7 DEF PlansNext

\* What a frame of the run, or its end, makes of the streams.
LEMMA WokenIs ==
    ASSUME stream \in [Streams -> [pc: {"idle", "ready", "waiting", "closed"}, cursor: Nat]]
    PROVE  /\ Woken \in [Streams -> [pc: {"idle", "ready", "waiting", "closed"}, cursor: Nat]]
           /\ \A s \in Streams: /\ Woken[s].pc # "waiting"
                                /\ Woken[s].pc = "closed" => stream[s].pc = "closed"
                                /\ Woken[s].cursor = stream[s].cursor
BY DEF Woken

LEMMA StreamsKeep ==
    ASSUME PlansInv, [PlansNext]_plansVars
    PROVE  /\ run' \in [pc: {"none", "asking", "saving", "ended"}, frames: Nat, finished: BOOLEAN]
           /\ stream' \in [Streams -> [pc: {"idle", "ready", "waiting", "closed"}, cursor: Nat]]
           /\ deaths' \in Nat
           /\ Followed' /\ NoFrameIsMissed'
<1> DEFINE Good ==
           /\ run' \in [pc: {"none", "asking", "saving", "ended"}, frames: Nat, finished: BOOLEAN]
           /\ stream' \in [Streams -> [pc: {"idle", "ready", "waiting", "closed"}, cursor: Nat]]
           /\ deaths' \in Nat
           /\ Followed' /\ NoFrameIsMissed'
<1>a. /\ run \in [pc: {"none", "asking", "saving", "ended"}, frames: Nat, finished: BOOLEAN]
      /\ stream \in [Streams -> [pc: {"idle", "ready", "waiting", "closed"}, cursor: Nat]]
      /\ deaths \in Nat
    BY DEF PlansInv, PlansTypeOK
<1>b. Followed /\ NoFrameIsMissed
    BY DEF PlansInv
<1>1. ASSUME run' = run, stream' = stream, deaths' = deaths PROVE Good
    BY <1>1, <1>a, <1>b DEF Followed, NoFrameIsMissed
<1>2. ASSUME StartRun PROVE Good
  <2>1. /\ run.pc = "none" /\ stream' = stream /\ deaths' = deaths
        /\ run' = [pc |-> "asking", frames |-> 0, finished |-> FALSE]
      BY <1>2 DEF StartRun, NoRun
  <2>2. run'.frames = run.frames /\ run'.finished = run.finished
      BY <1>a, <1>b, <2>1 DEF Followed
  <2> QED BY <1>a, <1>b, <2>1, <2>2 DEF Followed, NoFrameIsMissed
\* a frame, or the end, wakes the waiters
<1>3. ASSUME run.pc # "none", ~run.finished, stream' = Woken, deaths' = deaths,
             run' \in [pc: {"asking", "saving", "ended"}, frames: Nat, finished: BOOLEAN],
             run'.frames = run.frames \/ run'.frames = run.frames + 1,
             run'.finished => run'.pc = "ended"
      PROVE  Good
  <2>1. \A s \in Streams: /\ stream'[s].pc # "waiting"
                          /\ stream'[s].pc = "closed" => stream[s].pc = "closed"
                          /\ stream'[s].cursor = stream[s].cursor
      BY <1>3, <1>a, WokenIs
  <2>2. \A s \in Streams: deaths = 0 => stream'[s].pc # "closed"
      BY <1>3, <1>b, <2>1 DEF NoFrameIsMissed
  <2>3. NoFrameIsMissed'
      BY <1>3, <2>1, <2>2 DEF NoFrameIsMissed
  <2>4. \A s \in Streams: deaths = 0 => stream'[s].cursor <= run'.frames
    <3>1. ASSUME NEW s \in Streams, deaths = 0 PROVE stream'[s].cursor <= run'.frames
      <4>1. stream[s].cursor <= run.frames /\ stream[s].cursor \in Nat /\ run.frames \in Nat
          BY <1>a, <1>b, <3>1 DEF Followed
      <4> QED BY <1>3, <2>1, <4>1
    <3> QED BY <3>1
  <2>5. Followed'
      BY <1>3, <2>4 DEF Followed
  <2> QED BY <1>3, <1>a, <2>3, <2>5, WokenIs
<1>4. ASSUME RunFrame \/ RunDone \/ RunFails \/ RunFinished PROVE Good
  <2>1. run.pc # "none" /\ ~run.finished /\ stream' = Woken /\ deaths' = deaths
      BY <1>4, <1>b DEF RunFrame, RunDone, RunFails, RunFinished, Followed
  <2>2. /\ run' \in [pc: {"asking", "saving", "ended"}, frames: Nat, finished: BOOLEAN]
        /\ run'.frames = run.frames \/ run'.frames = run.frames + 1
        /\ run'.finished => run'.pc = "ended"
    <3>1. CASE RunFrame
      <4>1. run' = [run EXCEPT !.frames = run.frames + 1] /\ run.pc = "asking"
          BY <3>1 DEF RunFrame
      <4> QED BY <1>a, <2>1, <4>1
    <3>2. CASE RunDone \/ RunFails
      <4>1. run' = [run EXCEPT !.pc = "ended", !.frames = run.frames + 1]
          BY <3>2 DEF RunDone, RunFails
      <4>2. run' = [pc |-> "ended", frames |-> run.frames + 1, finished |-> run.finished]
          BY <1>a, <4>1
      <4> QED BY <1>a, <4>2
    <3>3. CASE RunFinished
      <4>1. run' = [run EXCEPT !.finished = TRUE] /\ run.pc = "ended"
          BY <3>3 DEF RunFinished
      <4> QED BY <1>a, <4>1
    <3> QED BY <1>4, <3>1, <3>2, <3>3
  <2> QED BY <1>3, <2>1, <2>2
<1>5. ASSUME RunReads PROVE Good
  <2>1. /\ run' = [run EXCEPT !.pc = "saving"] /\ run.pc = "asking"
        /\ stream' = stream /\ deaths' = deaths
      BY <1>5 DEF RunReads
  <2>2. run'.frames = run.frames /\ run'.finished = run.finished /\ ~run.finished /\ run'.pc = "saving"
      BY <1>a, <1>b, <2>1 DEF Followed
  <2> QED BY <1>a, <1>b, <2>1, <2>2 DEF Followed, NoFrameIsMissed
<1>6. ASSUME NEW s \in Streams, Connect(s) \/ Drain(s) PROVE Good
  <2>1. run' = run /\ deaths' = deaths /\ \A q \in Streams: q # s => stream'[q] = stream[q]
      BY <1>6, <1>a DEF Connect, Drain
  <2>2. /\ stream[s].cursor \in Nat /\ run.frames \in Nat
        /\ deaths = 0 => stream[s].cursor <= run.frames
      BY <1>a, <1>b DEF Followed
  <2>3. /\ stream' \in [Streams -> [pc: {"idle", "ready", "waiting", "closed"}, cursor: Nat]]
        /\ deaths = 0 => /\ stream'[s].cursor <= run.frames
                         /\ stream'[s].pc = "waiting" => stream'[s].cursor = run.frames /\ ~run.finished
                         /\ stream'[s].pc = "closed" => stream'[s].cursor = run.frames /\ run.finished
    <3>1. CASE Connect(s)
        BY <3>1, <1>a, <2>2 DEF Connect
    <3>2. CASE Drain(s)
      <4>1. CASE /\ stream[s].cursor < run.frames
                 /\ stream' = [stream EXCEPT ![s].cursor = @ + 1]
          BY <1>a, <2>2, <3>2, <4>1 DEF Drain
      <4>2. CASE /\ stream[s].cursor >= run.frames /\ run.finished
                 /\ stream' = [stream EXCEPT ![s].pc = "closed"]
          BY <1>a, <2>2, <4>2
      <4>3. CASE /\ stream[s].cursor >= run.frames /\ ~run.finished
                 /\ stream' = [stream EXCEPT ![s].pc = "waiting"]
          BY <1>a, <2>2, <4>3
      <4> QED BY <3>2, <4>1, <4>2, <4>3 DEF Drain
    <3> QED BY <1>6, <3>1, <3>2
  <2>4. Followed'
      BY <1>b, <2>1, <2>3 DEF Followed
  <2>5. NoFrameIsMissed'
      BY <1>b, <2>1, <2>3 DEF NoFrameIsMissed
  <2> QED BY <1>a, <2>1, <2>3, <2>4, <2>5
<1>7. ASSUME PlanServerDies PROVE Good
  <2>1. /\ run' = [pc |-> "none", frames |-> 0, finished |-> FALSE] /\ deaths' = deaths + 1
        /\ stream' = [s \in Streams |-> [stream[s] EXCEPT !.pc = "closed"]]
      BY <1>7 DEF PlanServerDies, NoRun
  <2>2. deaths' \in Nat /\ deaths' # 0
      BY <1>a, <2>1
  <2> QED BY <1>a, <2>1, <2>2 DEF Followed, NoFrameIsMissed
<1>8. ASSUME \/ UNCHANGED plansVars
             \/ \E o \in Clients: ClientReads(o) \/ ClientWrites(o)
      PROVE  Good
  <2>1. run' = run /\ stream' = stream /\ deaths' = deaths
      BY <1>8 DEF ClientReads, ClientWrites, plansVars
  <2> QED BY <1>1, <2>1
<1> QED
    BY <1>2, <1>4, <1>5, <1>6, <1>7, <1>8 DEF PlansNext

\* The invariant of a plan's file, run and streams, for any number of them.
THEOREM PlansInvariance == PlansSpec => []PlansInv
<1>1. PlansInv /\ [PlansNext]_plansVars => PlansInv'
    BY FileKeeps, StreamsKeep DEF PlansInv, PlansTypeOK, Line
<1> QED
    BY <1>1, PlansStart, PTL DEF PlansSpec

\* A plan that was created is readable ever after: readLatest never finds
\* nothing but torn lines, wherever the server dies and whatever an append
\* after a torn one spoils.
THEOREM PlansStayReadable == PlansSpec => []PlanIsReadable
<1>1. PlansInv => PlanIsReadable
    BY LatestIs DEF PlansInv, PlansTypeOK, Line, PlanIsReadable
<1> QED
    BY <1>1, PlansInvariance, PTL

\* The stream route's loop: no frame falls between its look at the buffer and
\* its wait, and what is closed has sent everything, while the server lives.
THEOREM StreamsMissNothing == PlansSpec => []NoFrameIsMissed
<1>1. PlansInv => NoFrameIsMissed
    BY DEF PlansInv
<1> QED
    BY <1>1, PlansInvariance, PTL
=============================================================================
