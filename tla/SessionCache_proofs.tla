------------------------ MODULE SessionCache_proofs ------------------------
(***************************************************************************)
(* The safety properties of the session cache, for any number of turns,    *)
(* deletions and conversations and any size of the cache.                  *)
(*                                                                         *)
(* A turn is safe because of who can be at work on its conversation at the *)
(* same time.  Without an overlap there is one request per conversation    *)
(* (Alone); an eviction keeps the entry until its save is applied, so a    *)
(* request that finds no entry finds no save under way either, and what it *)
(* reads from the disk is all there is (Fresh).  From then on every save   *)
(* is a copy of a history that only grows (CacheExtendsDisk), and the      *)
(* order of the saves does the rest (Kept).                                *)
(***************************************************************************)
EXTENDS SessionCache, FiniteSetTheorems, TLAPS

\* What the properties make no claim about.
Exempt == dropped \cup overlapped

Saves == [by : Turns, evict : BOOLEAN, history : Seq(Turns)]

Typed ==
    /\ pc \in [Requests -> TurnStages \cup DropStages]
    /\ \A r \in Turns : pc[r] \in TurnStages
    /\ \A d \in Drops : pc[d] \in DropStages
    /\ conv \in [Requests -> Conversations \cup {None}]
    /\ \A r \in Requests : pc[r] # "idle" => conv[r] \in Conversations
    /\ \A d \in Drops : pc[d] # "idle" => conv[d] \in dropped
    /\ holds \in [Turns -> Turns \cup {None}]
    /\ entries \in [Conversations -> Turns \cup {None}]
    /\ evicting \in [Turns -> [Conversations -> EvictStages]]
    /\ evictLock \in [Conversations -> Turns \cup {None}]

Stored ==
    /\ memory \in [Turns -> Seq(Turns)]
    /\ file \in [Conversations -> Seq(Turns)]
    /\ writes \in [Conversations -> Seq(Saves)]

Named ==
    /\ older \subseteq Conversations \X Conversations
    /\ index \subseteq Conversations
    /\ orphaned \subseteq Turns
    /\ overlapped \subseteq Conversations
    /\ dropped \subseteq Conversations

\* Whoever saves or removes an entry holds the lock of its conversation, and
\* only a request that waits for its evictions evicts.
Locked ==
    \A r \in Turns, k \in Conversations :
        /\ evicting[r][k] \in {"write", "index"} => evictLock[k] = r
        /\ evicting[r][k] # "none" => pc[r] \in {"expire", "makeRoom"}

\* A save that waits is waited for: by an eviction, or by a turn's flush.
Awaited ==
    \A k \in Conversations : \A i \in DOMAIN writes[k] :
        LET w == writes[k][i]
        IN  IF w.evict THEN evicting[w.by][k] = "write"
            ELSE pc[w.by] = "write" /\ conv[w.by] = k

\* Nobody has two saves of one kind waiting for a file.
Distinct ==
    \A k \in Conversations : \A i, j \in DOMAIN writes[k] :
        /\ writes[k][i].by = writes[k][j].by
        /\ writes[k][i].evict = writes[k][j].evict
        => i = j

Active(r) == pc[r] \notin {"idle", "done"}
Loaded(s) == pc[s] \in {"turn", "flush", "write", "index", "done"}

\* A session is registered and used only in the conversation it was loaded for.
Homes ==
    /\ \A k \in Cached : Loaded(entries[k]) /\ conv[entries[k]] = k
    /\ \A r \in Turns : pc[r] \in {"turn", "flush"} =>
          holds[r] \in Turns /\ Loaded(holds[r]) /\ conv[holds[r]] = conv[r]

\* One request at a time works on a conversation where none overlapped.
Alone ==
    \A r, s \in Turns :
        Active(r) /\ Active(s) /\ conv[r] = conv[s] /\ conv[r] \notin overlapped => r = s

\* An entry stays in the cache until the save of its eviction is applied.
EvictedLast ==
    \A r \in Turns, k \in Conversations \ dropped :
        evicting[r][k] \in {"write", "index"} => k \in Cached

\* A request that loads finds no entry, and reads all that was ever saved.
Fresh ==
    \A r \in Turns :
        conv[r] \notin Exempt =>
            /\ pc[r] \in {"makeRoom", "register"} => conv[r] \notin Cached
            /\ pc[r] = "register" => memory[r] = file[conv[r]] /\ writes[conv[r]] = <<>>

\* All saves from position `n` on have the turn, and so has the session.
SavedFrom(r, k, n) ==
    /\ \A i \in DOMAIN writes[k] : i >= n => Contains(writes[k][i].history, r)
    /\ k \in Cached => Contains(memory[entries[k]], r)

\* Where the turn of a request is, from the round to the disk.
Safe(r) ==
    LET k == conv[r] IN
    /\ pc[r] \in {"turn", "flush"} => k \in Cached /\ entries[k] = holds[r]
    /\ pc[r] = "flush" => Contains(memory[holds[r]], r)
    /\ pc[r] = "write" => \E n \in DOMAIN writes[k] : /\ writes[k][n].by = r
                                                      /\ ~writes[k][n].evict
                                                      /\ SavedFrom(r, k, n)
    /\ pc[r] \in {"index", "done"} => Contains(file[k], r) /\ SavedFrom(r, k, 1)

\* It is there unless its session was lost.
Kept == \A r \in Turns : conv[r] \notin Exempt /\ r \notin orphaned => Safe(r)

IInv == Typed /\ Stored /\ Named /\ Locked /\ Awaited /\ Distinct /\ Homes /\ Alone
        /\ EvictedLast /\ Fresh /\ CacheExtendsDisk /\ Kept
-----------------------------------------------------------------------------
(* Sets, sequences and queues.                                             *)

LEMMA Sets ==
    /\ Turns \cap Drops = {} /\ None \notin Turns /\ None \notin Conversations
    /\ Requests = Turns \cup Drops
BY CacheAssumption DEF Requests

LEMMA SaveType ==
    ASSUME NEW r \in Turns, NEW e \in BOOLEAN, NEW h \in Seq(Turns)
    PROVE  /\ Save(r, e, h) \in Saves
           /\ Save(r, e, h).by = r /\ Save(r, e, h).evict = e /\ Save(r, e, h).history = h
BY DEF Save, Saves

LEMMA WaitingType ==
    ASSUME Stored
    PROVE  \A k \in Conversations : \A i \in DOMAIN writes[k] :
              /\ i \in Nat \ {0} /\ writes[k][i] \in Saves
              /\ writes[k][i].by \in Turns /\ writes[k][i].evict \in BOOLEAN
              /\ writes[k][i].history \in Seq(Turns)
<1> SUFFICES ASSUME NEW k \in Conversations, NEW i \in DOMAIN writes[k]
             PROVE  i \in Nat \ {0} /\ writes[k][i] \in Saves
    BY DEF Saves
<1> QED
    BY DEF Stored

\* What a save that joins the queue of a file changes ...
Joined(k, w, n) ==
    /\ writes' \in [Conversations -> Seq(Saves)]
    /\ \A c \in Conversations : c # k => writes'[c] = writes[c]
    /\ n > 0 /\ \A i \in DOMAIN writes[k] : i \in Nat /\ i < n /\ writes'[k][i] = writes[k][i]
    /\ DOMAIN writes'[k] = DOMAIN writes[k] \cup {n}
    /\ writes'[k][n] = w

LEMMA JoinEffect ==
    ASSUME Stored, NEW k \in Conversations, NEW w \in Saves,
           writes' = [writes EXCEPT ![k] = Append(@, w)]
    PROVE  \E n \in Nat : Joined(k, w, n)
<1>1. writes[k] \in Seq(Saves) /\ writes'[k] = Append(writes[k], w)
    BY DEF Stored
<1>2. writes' \in [Conversations -> Seq(Saves)]
    BY <1>1 DEF Stored
<1>3. Joined(k, w, Len(writes[k]) + 1) /\ Len(writes[k]) + 1 \in Nat
    BY <1>1, <1>2 DEF Stored, Joined
<1> QED
    BY <1>3

\* ... and one that is applied and leaves it.
Left(k) ==
    /\ writes' \in [Conversations -> Seq(Saves)]
    /\ \A c \in Conversations : c # k => writes'[c] = writes[c]
    /\ 1 \in DOMAIN writes[k]
    /\ \A i \in DOMAIN writes'[k] :
          i \in Nat \ {0} /\ i + 1 \in DOMAIN writes[k] /\ writes'[k][i] = writes[k][i + 1]
    /\ \A i \in DOMAIN writes[k] :
          i \in Nat \ {0} /\ (i # 1 => i - 1 \in DOMAIN writes'[k])

LEMMA LeaveEffect ==
    ASSUME Stored, NEW k \in Conversations, writes[k] # <<>>,
           writes' = [writes EXCEPT ![k] = Tail(@)]
    PROVE  Left(k)
<1>1. writes[k] \in Seq(Saves) /\ writes'[k] = Tail(writes[k])
    BY DEF Stored
<1>2. writes' \in [Conversations -> Seq(Saves)]
    BY <1>1 DEF Stored
<1> QED
    BY <1>1, <1>2 DEF Stored, Left

\* What none of the steps of a queue changes, and a step of one request.
Resting == UNCHANGED <<conv, holds, entries, memory, orphaned, overlapped, dropped>>
Moves(r, stage) == pc' = [pc EXCEPT ![r] = stage]

\* A flush finds no session, or queues a save of it; so does an eviction that
\* has the lock.
Skips(r) ==
    /\ Resting /\ UNCHANGED <<file, writes, evicting, evictLock>>
    /\ pc[r] = "flush" /\ conv[r] \in Conversations /\ entries[conv[r]] = None
    /\ Moves(r, "done")

Queues(r, w, n) ==
    /\ Resting /\ UNCHANGED <<file, evicting, evictLock>>
    /\ pc[r] = "flush" /\ conv[r] \in Conversations /\ entries[conv[r]] \in Turns
    /\ Moves(r, "write")
    /\ w.by = r /\ ~w.evict /\ w.history = memory[entries[conv[r]]]
    /\ Joined(conv[r], w, n)

LEMMA FlushEffect ==
    ASSUME Typed, Stored, NEW r \in Turns, Flush(r)
    PROVE  Skips(r) \/ \E w \in Saves, n \in Nat : Queues(r, w, n)
<1>1. /\ conv[r] \in Conversations /\ pc[r] = "flush"
      /\ Resting /\ UNCHANGED <<file, evicting, evictLock>>
    BY Sets DEF Typed, Flush, Resting, cacheVars, lockVars, ghosts
<1>2. CASE entries[conv[r]] = None
    BY <1>1, <1>2 DEF Flush, Skips, Cached, Moves
<1>3. CASE entries[conv[r]] # None
  <2> DEFINE w == Save(r, FALSE, memory[entries[conv[r]]])
  <2>1. entries[conv[r]] \in Turns /\ memory[entries[conv[r]]] \in Seq(Turns)
      BY <1>1, <1>3 DEF Typed, Stored
  <2>2. w \in Saves /\ w.by = r /\ ~w.evict /\ w.history = memory[entries[conv[r]]]
      BY ZenonT(60), <2>1, SaveType
  <2>3. writes' = [writes EXCEPT ![conv[r]] = Append(@, w)] /\ Moves(r, "write")
      BY <1>1, <1>3 DEF Flush, Cached, Moves
  <2> HIDE DEF w
  <2>4. \E n \in Nat : Joined(conv[r], w, n)
      BY <1>1, <2>2, <2>3, JoinEffect
  <2> QED
      BY <1>1, <2>1, <2>2, <2>3, <2>4 DEF Queues
<1> QED
    BY <1>2, <1>3

GivesUp(r, k) ==
    /\ Resting /\ UNCHANGED <<pc, file, writes, evictLock>>
    /\ evicting[r][k] = "lock" /\ entries[k] = None
    /\ evicting' = [evicting EXCEPT ![r][k] = "none"]

Evicts(r, k, w, n) ==
    /\ Resting /\ UNCHANGED <<pc, file>>
    /\ evicting[r][k] = "lock" /\ evictLock[k] = None /\ entries[k] \in Turns
    /\ evictLock' = [evictLock EXCEPT ![k] = r]
    /\ evicting' = [evicting EXCEPT ![r][k] = "write"]
    /\ w.by = r /\ w.evict /\ w.history = memory[entries[k]]
    /\ Joined(k, w, n)

LEMMA LockEffect ==
    ASSUME Typed, Stored, NEW r \in Turns, NEW k \in Conversations, LockEntry(r, k)
    PROVE  GivesUp(r, k) \/ \E w \in Saves, n \in Nat : Evicts(r, k, w, n)
<1>1. /\ evicting[r][k] = "lock" /\ evictLock[k] = None
      /\ Resting /\ UNCHANGED <<pc, file>>
    BY DEF LockEntry, Resting, requestVars, cacheVars, ghosts
<1>2. CASE entries[k] = None
    BY <1>1, <1>2 DEF LockEntry, GivesUp, Cached
<1>3. CASE entries[k] # None
  <2> DEFINE w == Save(r, TRUE, memory[entries[k]])
  <2>1. entries[k] \in Turns /\ memory[entries[k]] \in Seq(Turns)
      BY <1>3 DEF Typed, Stored
  <2>2. w \in Saves /\ w.by = r /\ w.evict /\ w.history = memory[entries[k]]
      BY ZenonT(60), <2>1, SaveType
  <2>3. /\ writes' = [writes EXCEPT ![k] = Append(@, w)]
        /\ evictLock' = [evictLock EXCEPT ![k] = r]
        /\ evicting' = [evicting EXCEPT ![r][k] = "write"]
      BY <1>3 DEF LockEntry, Cached
  <2> HIDE DEF w
  <2>4. \E n \in Nat : Joined(k, w, n)
      BY <2>2, <2>3, JoinEffect
  <2> QED
      BY <1>1, <2>1, <2>2, <2>3, <2>4 DEF Evicts
<1> QED
    BY <1>2, <1>3

\* The oldest save of a file is applied: an eviction's, or a turn's.
Applied(k, w) ==
    /\ Resting /\ UNCHANGED evictLock
    /\ Left(k) /\ w = writes[k][1] /\ w.by \in Turns /\ w.history \in Seq(Turns)
    /\ file' = [file EXCEPT ![k] = w.history]

EvictionApplied(k, w) ==
    /\ Applied(k, w) /\ w.evict /\ evicting[w.by][k] = "write"
    /\ evicting' = [evicting EXCEPT ![w.by][k] = "index"] /\ UNCHANGED pc

TurnApplied(k, w) ==
    /\ Applied(k, w) /\ ~w.evict /\ pc[w.by] = "write" /\ conv[w.by] = k
    /\ Moves(w.by, "index") /\ UNCHANGED evicting

LEMMA WriteEffect ==
    ASSUME Stored, Awaited, NEW k \in Conversations, WriteFile(k)
    PROVE  \E w \in Saves : EvictionApplied(k, w) \/ TurnApplied(k, w)
<1> DEFINE w == writes[k][1]
<1>1. writes[k] # <<>> /\ writes[k] \in Seq(Saves) /\ 1 \in DOMAIN writes[k]
      /\ Head(writes[k]) = w
    BY DEF WriteFile, Stored
<1>2. w \in Saves /\ w.by \in Turns /\ w.history \in Seq(Turns) /\ w.evict \in BOOLEAN
    BY <1>1, WaitingType
<1>3. Left(k)
    BY <1>1, LeaveEffect DEF WriteFile
<1>4. IF w.evict THEN evicting[w.by][k] = "write" ELSE pc[w.by] = "write" /\ conv[w.by] = k
    BY <1>1 DEF Awaited
<1>5. Applied(k, w)
    BY <1>1, <1>2, <1>3 DEF WriteFile, Applied, Resting, cacheVars, ghosts
<1> HIDE DEF w
<1>6. EvictionApplied(k, w) \/ TurnApplied(k, w)
    BY <1>1, <1>2, <1>4, <1>5 DEF WriteFile, EvictionApplied, TurnApplied, Moves
<1> QED
    BY <1>2, <1>6

(* Each part of the invariant, through every step.                         *)

LEMMA TypedStep == IInv /\ [Next]_vars => Typed'
<1> SUFFICES ASSUME Typed, Stored, Awaited, [Next]_vars PROVE Typed'
    BY DEF IInv
<1> USE Sets DEF Typed, TurnStages, DropStages, EvictStages, requestVars, cacheVars,
    diskVars, lockVars, ghosts
<1>0. CASE UNCHANGED vars
    BY <1>0 DEF vars, Cached
<1>1. ASSUME NEW r \in Turns, Hit(r) PROVE Typed'
    BY <1>1 DEF Hit
<1>2. ASSUME NEW r \in Turns, MakeRoom(r) PROVE Typed'
    BY <1>2 DEF MakeRoom, Cached
<1>3. ASSUME NEW r \in Turns, Load(r) PROVE Typed'
    BY <1>3 DEF Load
<1>4. ASSUME NEW r \in Turns, Register(r) PROVE Typed'
    BY <1>4 DEF Register
<1>5. ASSUME NEW r \in Turns, Turn(r) PROVE Typed'
    BY <1>5 DEF Turn
<1>6. ASSUME NEW r \in Turns, Flush(r) PROVE Typed'
  <2>1. CASE Skips(r)
      BY <2>1 DEF Skips, Resting, Moves
  <2>2. ASSUME NEW w \in Saves, NEW n \in Nat, Queues(r, w, n) PROVE Typed'
      BY <2>2 DEF Queues, Resting, Moves, Joined
  <2> QED
      BY <1>6, <2>1, <2>2, FlushEffect
<1>7. ASSUME NEW r \in Turns, ListTurn(r) PROVE Typed'
    BY <1>7 DEF ListTurn
<1>8. ASSUME NEW r \in Turns, NEW k \in Conversations, LockEntry(r, k) PROVE Typed'
  <2>1. CASE GivesUp(r, k)
      BY <2>1 DEF GivesUp, Resting
  <2>2. ASSUME NEW w \in Saves, NEW n \in Nat, Evicts(r, k, w, n) PROVE Typed'
      BY <2>2 DEF Evicts, Resting, Joined
  <2> QED
      BY <1>8, <2>1, <2>2, LockEffect
<1>9. ASSUME NEW r \in Turns, NEW k \in Conversations, RemoveEntry(r, k) PROVE Typed'
    BY <1>9 DEF RemoveEntry, Forget
<1>10. ASSUME NEW k \in Conversations, WriteFile(k) PROVE Typed'
  <2>1. ASSUME NEW w \in Saves, EvictionApplied(k, w) PROVE Typed'
      BY <2>1 DEF EvictionApplied, Applied, Resting
  <2>2. ASSUME NEW w \in Saves, TurnApplied(k, w) PROVE Typed'
      BY <2>2 DEF TurnApplied, Applied, Resting, Moves
  <2> QED
      BY <1>10, <2>1, <2>2, WriteEffect
<1>11. ASSUME NEW d \in Drops, Unlink(d) PROVE Typed'
    BY <1>11 DEF Unlink
<1>12. ASSUME NEW d \in Drops, Unlist(d) PROVE Typed'
    BY <1>12 DEF Unlist
<1>13. ASSUME NEW r \in Turns, NEW k \in Conversations, Arrive(r, k) PROVE Typed'
    BY <1>13 DEF Arrive
<1>14. ASSUME NEW d \in Drops, NEW k \in Conversations, Drop(d, k) PROVE Typed'
    BY <1>14 DEF Drop, Forget
<1> QED
    BY <1>0, <1>1, <1>2, <1>3, <1>4, <1>5, <1>6, <1>7, <1>8, <1>9, <1>10, <1>11, <1>12,
        <1>13, <1>14 DEF Next, Steps

LEMMA StoredStep == IInv /\ [Next]_vars => Stored'
<1> SUFFICES ASSUME Stored, Typed, Awaited, Homes, [Next]_vars PROVE Stored'
    BY DEF IInv
<1> USE Sets DEF Stored, Typed, TurnStages, DropStages, requestVars, cacheVars, diskVars,
    lockVars, ghosts
<1>0. CASE UNCHANGED vars
    BY <1>0 DEF vars, Cached
<1>1. ASSUME NEW r \in Turns, Hit(r) PROVE Stored'
    BY <1>1 DEF Hit
<1>2. ASSUME NEW r \in Turns, MakeRoom(r) PROVE Stored'
    BY <1>2 DEF MakeRoom
<1>3. ASSUME NEW r \in Turns, Load(r) PROVE Stored'
    BY <1>3 DEF Load
<1>4. ASSUME NEW r \in Turns, Register(r) PROVE Stored'
    BY <1>4 DEF Register
<1>5. ASSUME NEW r \in Turns, Turn(r) PROVE Stored'
  <2>1. holds[r] \in Turns
      BY <1>5 DEF Turn, Homes
  <2>2. memory' \in [Turns -> Seq(Turns)]
      BY <1>5, <2>1 DEF Turn
  <2> QED
      BY <1>5, <2>2 DEF Turn
<1>6. ASSUME NEW r \in Turns, Flush(r) PROVE Stored'
  <2>1. CASE Skips(r)
      BY <2>1 DEF Skips, Resting, Moves
  <2>2. ASSUME NEW w \in Saves, NEW n \in Nat, Queues(r, w, n) PROVE Stored'
      BY <2>2 DEF Queues, Resting, Moves, Joined
  <2> QED
      BY <1>6, <2>1, <2>2, FlushEffect
<1>7. ASSUME NEW r \in Turns, ListTurn(r) PROVE Stored'
    BY <1>7 DEF ListTurn
<1>8. ASSUME NEW r \in Turns, NEW k \in Conversations, LockEntry(r, k) PROVE Stored'
  <2>1. CASE GivesUp(r, k)
      BY <2>1 DEF GivesUp, Resting
  <2>2. ASSUME NEW w \in Saves, NEW n \in Nat, Evicts(r, k, w, n) PROVE Stored'
      BY <2>2 DEF Evicts, Resting, Joined
  <2> QED
      BY <1>8, <2>1, <2>2, LockEffect
<1>9. ASSUME NEW r \in Turns, NEW k \in Conversations, RemoveEntry(r, k) PROVE Stored'
    BY <1>9 DEF RemoveEntry, Forget
<1>10. ASSUME NEW k \in Conversations, WriteFile(k) PROVE Stored'
  <2>1. ASSUME NEW w \in Saves, EvictionApplied(k, w) PROVE Stored'
      BY <2>1 DEF EvictionApplied, Applied, Resting, Left
  <2>2. ASSUME NEW w \in Saves, TurnApplied(k, w) PROVE Stored'
      BY <2>2 DEF TurnApplied, Applied, Resting, Moves, Left
  <2> QED
      BY <1>10, <2>1, <2>2, WriteEffect
<1>11. ASSUME NEW d \in Drops, Unlink(d) PROVE Stored'
    BY <1>11 DEF Unlink
<1>12. ASSUME NEW d \in Drops, Unlist(d) PROVE Stored'
    BY <1>12 DEF Unlist
<1>13. ASSUME NEW r \in Turns, NEW k \in Conversations, Arrive(r, k) PROVE Stored'
    BY <1>13 DEF Arrive
<1>14. ASSUME NEW d \in Drops, NEW k \in Conversations, Drop(d, k) PROVE Stored'
    BY <1>14 DEF Drop, Forget
<1> QED
    BY <1>0, <1>1, <1>2, <1>3, <1>4, <1>5, <1>6, <1>7, <1>8, <1>9, <1>10, <1>11, <1>12,
        <1>13, <1>14 DEF Next, Steps

LEMMA NamedStep == IInv /\ [Next]_vars => Named'
<1> SUFFICES ASSUME Typed, Named, [Next]_vars PROVE Named'
    BY DEF IInv
<1> USE Sets DEF Typed, Named, Cached, Users, TurnStages, DropStages, requestVars,
    cacheVars, diskVars, lockVars, ghosts
<1>0. CASE UNCHANGED vars
    BY <1>0 DEF vars
<1>1. ASSUME NEW r \in Turns, Hit(r) PROVE Named'
    BY <1>1 DEF Hit, Touched, Without
<1>2. ASSUME NEW r \in Turns, MakeRoom(r) PROVE Named'
    BY <1>2 DEF MakeRoom
<1>3. ASSUME NEW r \in Turns, Load(r) PROVE Named'
    BY <1>3 DEF Load
<1>4. ASSUME NEW r \in Turns, Register(r) PROVE Named'
    BY <1>4 DEF Register, Touched, Without
<1>5. ASSUME NEW r \in Turns, Turn(r) PROVE Named'
    BY <1>5 DEF Turn
<1>6. ASSUME NEW r \in Turns, Flush(r) PROVE Named'
    BY <1>6 DEF Flush
<1>7. ASSUME NEW r \in Turns, ListTurn(r) PROVE Named'
    BY <1>7 DEF ListTurn
<1>8. ASSUME NEW r \in Turns, NEW k \in Conversations, LockEntry(r, k) PROVE Named'
    BY <1>8 DEF LockEntry
<1>9. ASSUME NEW r \in Turns, NEW k \in Conversations, RemoveEntry(r, k) PROVE Named'
    BY <1>9 DEF RemoveEntry, Forget, Without
<1>10. ASSUME NEW k \in Conversations, WriteFile(k) PROVE Named'
    BY <1>10 DEF WriteFile
<1>11. ASSUME NEW d \in Drops, Unlink(d) PROVE Named'
    BY <1>11 DEF Unlink
<1>12. ASSUME NEW d \in Drops, Unlist(d) PROVE Named'
    BY <1>12 DEF Unlist
<1>13. ASSUME NEW r \in Turns, NEW k \in Conversations, Arrive(r, k) PROVE Named'
    BY <1>13 DEF Arrive
<1>14. ASSUME NEW d \in Drops, NEW k \in Conversations, Drop(d, k) PROVE Named'
    BY <1>14 DEF Drop, Forget, Without
<1> QED
    BY <1>0, <1>1, <1>2, <1>3, <1>4, <1>5, <1>6, <1>7, <1>8, <1>9, <1>10, <1>11, <1>12,
        <1>13, <1>14 DEF Next, Steps

LEMMA LockedStep == IInv /\ [Next]_vars => Locked'
<1> SUFFICES ASSUME Typed, Stored, Locked, Awaited, [Next]_vars PROVE Locked'
    BY DEF IInv
<1> USE Sets DEF Typed, TurnStages, DropStages, Locked, Evicted, requestVars, cacheVars,
    diskVars, lockVars, ghosts
<1>0. CASE UNCHANGED vars
    BY <1>0 DEF vars, Cached
<1>1. ASSUME NEW r \in Turns, Hit(r) PROVE Locked'
    BY <1>1 DEF Hit
<1>2. ASSUME NEW r \in Turns, MakeRoom(r) PROVE Locked'
    BY <1>2 DEF MakeRoom
<1>3. ASSUME NEW r \in Turns, Load(r) PROVE Locked'
    BY <1>3 DEF Load
<1>4. ASSUME NEW r \in Turns, Register(r) PROVE Locked'
    BY <1>4 DEF Register
<1>5. ASSUME NEW r \in Turns, Turn(r) PROVE Locked'
    BY <1>5 DEF Turn
<1>6. ASSUME NEW r \in Turns, Flush(r) PROVE Locked'
  <2>1. CASE Skips(r)
      BY <2>1 DEF Skips, Resting, Moves
  <2>2. ASSUME NEW w \in Saves, NEW n \in Nat, Queues(r, w, n) PROVE Locked'
      BY <2>2 DEF Queues, Resting, Moves
  <2> QED
      BY <1>6, <2>1, <2>2, FlushEffect
<1>7. ASSUME NEW r \in Turns, ListTurn(r) PROVE Locked'
    BY <1>7 DEF ListTurn
<1>8. ASSUME NEW r \in Turns, NEW k \in Conversations, LockEntry(r, k) PROVE Locked'
  <2>1. CASE GivesUp(r, k)
      BY <2>1 DEF GivesUp, Resting
  <2>2. ASSUME NEW w \in Saves, NEW n \in Nat, Evicts(r, k, w, n) PROVE Locked'
      BY <2>2 DEF Evicts, Resting
  <2> QED
      BY <1>8, <2>1, <2>2, LockEffect
<1>9. ASSUME NEW r \in Turns, NEW k \in Conversations, RemoveEntry(r, k) PROVE Locked'
    BY <1>9 DEF RemoveEntry, Forget
<1>10. ASSUME NEW k \in Conversations, WriteFile(k) PROVE Locked'
  <2>1. ASSUME NEW w \in Saves, EvictionApplied(k, w) PROVE Locked'
      BY <2>1 DEF EvictionApplied, Applied, Resting
  <2>2. ASSUME NEW w \in Saves, TurnApplied(k, w) PROVE Locked'
      BY <2>2 DEF TurnApplied, Applied, Resting, Moves
  <2> QED
      BY <1>10, <2>1, <2>2, WriteEffect
<1>11. ASSUME NEW d \in Drops, Unlink(d) PROVE Locked'
    BY <1>11 DEF Unlink
<1>12. ASSUME NEW d \in Drops, Unlist(d) PROVE Locked'
    BY <1>12 DEF Unlist
<1>13. ASSUME NEW r \in Turns, NEW k \in Conversations, Arrive(r, k) PROVE Locked'
    BY <1>13 DEF Arrive
<1>14. ASSUME NEW d \in Drops, NEW k \in Conversations, Drop(d, k) PROVE Locked'
    BY <1>14 DEF Drop, Forget
<1> QED
    BY <1>0, <1>1, <1>2, <1>3, <1>4, <1>5, <1>6, <1>7, <1>8, <1>9, <1>10, <1>11, <1>12,
        <1>13, <1>14 DEF Next, Steps

LEMMA AwaitedStep == IInv /\ [Next]_vars => Awaited'
<1> SUFFICES ASSUME Typed, Stored, Locked, Awaited, Distinct, [Next]_vars PROVE Awaited'
    BY DEF IInv
<1> USE Sets DEF Typed, TurnStages, DropStages, Locked, Awaited, Distinct, Evicted,
    requestVars, cacheVars, diskVars, lockVars, ghosts
<1>w. \A k \in Conversations : \A i \in DOMAIN writes[k] :
         writes[k][i].by \in Turns /\ writes[k][i].evict \in BOOLEAN
    BY WaitingType
<1>0. CASE UNCHANGED vars
    BY <1>0 DEF vars, Cached
<1>1. ASSUME NEW r \in Turns, Hit(r) PROVE Awaited'
    BY <1>1 DEF Hit
<1>2. ASSUME NEW r \in Turns, MakeRoom(r) PROVE Awaited'
    BY <1>2 DEF MakeRoom
<1>3. ASSUME NEW r \in Turns, Load(r) PROVE Awaited'
    BY <1>3 DEF Load
<1>4. ASSUME NEW r \in Turns, Register(r) PROVE Awaited'
    BY <1>4 DEF Register
<1>5. ASSUME NEW r \in Turns, Turn(r) PROVE Awaited'
    BY <1>5 DEF Turn
<1>6. ASSUME NEW r \in Turns, Flush(r) PROVE Awaited'
  <2>1. CASE Skips(r)
      BY <2>1 DEF Skips, Resting, Moves
  <2>2. ASSUME NEW w \in Saves, NEW n \in Nat, Queues(r, w, n) PROVE Awaited'
    <3> SUFFICES ASSUME NEW c \in Conversations, NEW i \in DOMAIN writes'[c]
                 PROVE  IF writes'[c][i].evict THEN evicting'[writes'[c][i].by][c] = "write"
                        ELSE pc'[writes'[c][i].by] = "write" /\ conv'[writes'[c][i].by] = c
        OBVIOUS
    <3>1. CASE c = conv[r] /\ i = n
        BY <3>1, <2>2, <1>w DEF Queues, Joined, Resting, Moves
    <3>2. CASE ~(c = conv[r] /\ i = n)
      <4>1. i \in DOMAIN writes[c] /\ writes'[c][i] = writes[c][i]
          BY <3>2, <2>2 DEF Queues, Joined
      <4> QED
          BY <4>1, <2>2, <1>w DEF Queues, Resting, Moves
    <3> QED
        BY <3>1, <3>2
  <2> QED
      BY <1>6, <2>1, <2>2, FlushEffect
<1>7. ASSUME NEW r \in Turns, ListTurn(r) PROVE Awaited'
    BY <1>7 DEF ListTurn
<1>8. ASSUME NEW r \in Turns, NEW k \in Conversations, LockEntry(r, k) PROVE Awaited'
  <2>1. CASE GivesUp(r, k)
      BY <2>1 DEF GivesUp, Resting
  <2>2. ASSUME NEW w \in Saves, NEW n \in Nat, Evicts(r, k, w, n) PROVE Awaited'
    <3> SUFFICES ASSUME NEW c \in Conversations, NEW i \in DOMAIN writes'[c]
                 PROVE  IF writes'[c][i].evict THEN evicting'[writes'[c][i].by][c] = "write"
                        ELSE pc'[writes'[c][i].by] = "write" /\ conv'[writes'[c][i].by] = c
        OBVIOUS
    <3>1. CASE c = k /\ i = n
        BY <3>1, <2>2, <1>w DEF Evicts, Joined, Resting
    <3>2. CASE ~(c = k /\ i = n)
      <4>1. i \in DOMAIN writes[c] /\ writes'[c][i] = writes[c][i]
          BY <3>2, <2>2 DEF Evicts, Joined
      <4> QED
          BY <4>1, <2>2, <1>w DEF Evicts, Resting
    <3> QED
        BY <3>1, <3>2
  <2> QED
      BY <1>8, <2>1, <2>2, LockEffect
<1>9. ASSUME NEW r \in Turns, NEW k \in Conversations, RemoveEntry(r, k) PROVE Awaited'
    BY <1>9 DEF RemoveEntry, Forget
<1>10. ASSUME NEW k \in Conversations, WriteFile(k) PROVE Awaited'
  <2>1. ASSUME NEW w \in Saves, EvictionApplied(k, w) PROVE Awaited'
    <3> SUFFICES ASSUME NEW c \in Conversations, NEW i \in DOMAIN writes'[c]
                 PROVE  IF writes'[c][i].evict THEN evicting'[writes'[c][i].by][c] = "write"
                        ELSE pc'[writes'[c][i].by] = "write" /\ conv'[writes'[c][i].by] = c
        OBVIOUS
    <3>1. CASE c = k
      <4>1. /\ i + 1 \in DOMAIN writes[k] /\ i + 1 # 1 /\ writes'[k][i] = writes[k][i + 1]
            /\ 1 \in DOMAIN writes[k] /\ w = writes[k][1]
          BY <3>1, <2>1 DEF EvictionApplied, Applied, Left
      <4>2. ~(writes[k][i + 1].by = w.by /\ writes[k][i + 1].evict = w.evict)
          BY <4>1
      <4> QED
          BY <3>1, <4>1, <4>2, <2>1, <1>w DEF EvictionApplied, Applied, Resting
    <3>2. CASE c # k
      <4>1. i \in DOMAIN writes[c] /\ writes'[c][i] = writes[c][i]
          BY <3>2, <2>1 DEF EvictionApplied, Applied, Left
      <4> QED
          BY <3>2, <4>1, <2>1, <1>w DEF EvictionApplied, Applied, Resting
    <3> QED
        BY <3>1, <3>2
  <2>2. ASSUME NEW w \in Saves, TurnApplied(k, w) PROVE Awaited'
    <3> SUFFICES ASSUME NEW c \in Conversations, NEW i \in DOMAIN writes'[c]
                 PROVE  IF writes'[c][i].evict THEN evicting'[writes'[c][i].by][c] = "write"
                        ELSE pc'[writes'[c][i].by] = "write" /\ conv'[writes'[c][i].by] = c
        OBVIOUS
    <3>1. CASE c = k
      <4>1. /\ i + 1 \in DOMAIN writes[k] /\ i + 1 # 1 /\ writes'[k][i] = writes[k][i + 1]
            /\ 1 \in DOMAIN writes[k] /\ w = writes[k][1]
          BY <3>1, <2>2 DEF TurnApplied, Applied, Left
      <4>2. ~(writes[k][i + 1].by = w.by /\ writes[k][i + 1].evict = w.evict)
          BY <4>1
      <4> QED
          BY <3>1, <4>1, <4>2, <2>2, <1>w DEF TurnApplied, Applied, Resting, Moves
    <3>2. CASE c # k
      <4>1. i \in DOMAIN writes[c] /\ writes'[c][i] = writes[c][i]
          BY <3>2, <2>2 DEF TurnApplied, Applied, Left
      <4> QED
          BY <3>2, <4>1, <2>2, <1>w DEF TurnApplied, Applied, Resting, Moves
    <3> QED
        BY <3>1, <3>2
  <2> QED
      BY <1>10, <2>1, <2>2, WriteEffect
<1>11. ASSUME NEW d \in Drops, Unlink(d) PROVE Awaited'
    BY <1>11 DEF Unlink
<1>12. ASSUME NEW d \in Drops, Unlist(d) PROVE Awaited'
    BY <1>12 DEF Unlist
<1>13. ASSUME NEW r \in Turns, NEW k \in Conversations, Arrive(r, k) PROVE Awaited'
    BY <1>13, <1>w DEF Arrive
<1>14. ASSUME NEW d \in Drops, NEW k \in Conversations, Drop(d, k) PROVE Awaited'
    BY <1>14 DEF Drop, Forget
<1> QED
    BY <1>0, <1>1, <1>2, <1>3, <1>4, <1>5, <1>6, <1>7, <1>8, <1>9, <1>10, <1>11, <1>12,
        <1>13, <1>14 DEF Next, Steps

LEMMA DistinctStep == IInv /\ [Next]_vars => Distinct'
<1> SUFFICES ASSUME Typed, Stored, Awaited, Distinct, [Next]_vars PROVE Distinct'
    BY DEF IInv
<1> USE Sets DEF Typed, TurnStages, DropStages, Awaited, Distinct, requestVars, cacheVars,
    diskVars, lockVars, ghosts
<1>w. \A k \in Conversations : \A i \in DOMAIN writes[k] :
         writes[k][i].by \in Turns /\ writes[k][i].evict \in BOOLEAN
    BY WaitingType
<1>0. CASE UNCHANGED vars
    BY <1>0 DEF vars, Cached
<1>1. ASSUME NEW r \in Turns, Hit(r) PROVE Distinct'
    BY <1>1 DEF Hit
<1>2. ASSUME NEW r \in Turns, MakeRoom(r) PROVE Distinct'
    BY <1>2 DEF MakeRoom
<1>3. ASSUME NEW r \in Turns, Load(r) PROVE Distinct'
    BY <1>3 DEF Load
<1>4. ASSUME NEW r \in Turns, Register(r) PROVE Distinct'
    BY <1>4 DEF Register
<1>5. ASSUME NEW r \in Turns, Turn(r) PROVE Distinct'
    BY <1>5 DEF Turn
<1>6. ASSUME NEW r \in Turns, Flush(r) PROVE Distinct'
  <2>1. CASE Skips(r)
      BY <2>1 DEF Skips, Resting, Moves
  <2>2. ASSUME NEW w \in Saves, NEW n \in Nat, Queues(r, w, n) PROVE Distinct'
    <3>1. \A i \in DOMAIN writes[conv[r]] : ~(writes[conv[r]][i].by = w.by /\ writes[conv[r]][i].evict = w.evict)
        BY <2>2, <1>w DEF Queues
    <3> SUFFICES ASSUME NEW c \in Conversations, NEW i \in DOMAIN writes'[c],
                        NEW j \in DOMAIN writes'[c],
                        writes'[c][i].by = writes'[c][j].by,
                        writes'[c][i].evict = writes'[c][j].evict
                 PROVE  i = j
        OBVIOUS
    <3>2. /\ DOMAIN writes'[conv[r]] = DOMAIN writes[conv[r]] \cup {n} /\ writes'[conv[r]][n] = w
          /\ \A m \in DOMAIN writes[conv[r]] : writes'[conv[r]][m] = writes[conv[r]][m]
          /\ c # conv[r] => writes'[c] = writes[c]
        BY <2>2 DEF Queues, Joined
    <3>3. CASE c = conv[r]
      <4>1. CASE i = n /\ j = n
          BY <4>1
      <4>2. CASE i # n /\ j # n
        <5>1. /\ i \in DOMAIN writes[c] /\ writes'[c][i] = writes[c][i]
              /\ j \in DOMAIN writes[c] /\ writes'[c][j] = writes[c][j]
            BY <3>2, <3>3, <4>2
        <5> QED
            BY <5>1
      <4>3. CASE i = n /\ j # n
        <5>1. /\ writes'[c][i] = w
              /\ j \in DOMAIN writes[conv[r]] /\ writes'[c][j] = writes[conv[r]][j]
            BY <3>2, <3>3, <4>3
        <5> QED
            BY <5>1, <3>1
      <4>4. CASE i # n /\ j = n
        <5>1. /\ i \in DOMAIN writes[conv[r]] /\ writes'[c][i] = writes[conv[r]][i]
              /\ writes'[c][j] = w
            BY <3>2, <3>3, <4>4
        <5> QED
            BY <5>1, <3>1
      <4> QED
          BY <4>1, <4>2, <4>3, <4>4
    <3>4. CASE c # conv[r]
      <4>1. writes'[c] = writes[c]
          BY <3>2, <3>4
      <4> QED
          BY <4>1
    <3> QED
        BY <3>3, <3>4
  <2> QED
      BY <1>6, <2>1, <2>2, FlushEffect
<1>7. ASSUME NEW r \in Turns, ListTurn(r) PROVE Distinct'
    BY <1>7 DEF ListTurn
<1>8. ASSUME NEW r \in Turns, NEW k \in Conversations, LockEntry(r, k) PROVE Distinct'
  <2>1. CASE GivesUp(r, k)
      BY <2>1 DEF GivesUp, Resting
  <2>2. ASSUME NEW w \in Saves, NEW n \in Nat, Evicts(r, k, w, n) PROVE Distinct'
    <3>1. \A i \in DOMAIN writes[k] : ~(writes[k][i].by = w.by /\ writes[k][i].evict = w.evict)
        BY <2>2, <1>w DEF Evicts
    <3> SUFFICES ASSUME NEW c \in Conversations, NEW i \in DOMAIN writes'[c],
                        NEW j \in DOMAIN writes'[c],
                        writes'[c][i].by = writes'[c][j].by,
                        writes'[c][i].evict = writes'[c][j].evict
                 PROVE  i = j
        OBVIOUS
    <3>2. /\ DOMAIN writes'[k] = DOMAIN writes[k] \cup {n} /\ writes'[k][n] = w
          /\ \A m \in DOMAIN writes[k] : writes'[k][m] = writes[k][m]
          /\ c # k => writes'[c] = writes[c]
        BY <2>2 DEF Evicts, Joined
    <3>3. CASE c = k
      <4>1. CASE i = n /\ j = n
          BY <4>1
      <4>2. CASE i # n /\ j # n
        <5>1. /\ i \in DOMAIN writes[c] /\ writes'[c][i] = writes[c][i]
              /\ j \in DOMAIN writes[c] /\ writes'[c][j] = writes[c][j]
            BY <3>2, <3>3, <4>2
        <5> QED
            BY <5>1
      <4>3. CASE i = n /\ j # n
        <5>1. /\ writes'[c][i] = w
              /\ j \in DOMAIN writes[k] /\ writes'[c][j] = writes[k][j]
            BY <3>2, <3>3, <4>3
        <5> QED
            BY <5>1, <3>1
      <4>4. CASE i # n /\ j = n
        <5>1. /\ i \in DOMAIN writes[k] /\ writes'[c][i] = writes[k][i]
              /\ writes'[c][j] = w
            BY <3>2, <3>3, <4>4
        <5> QED
            BY <5>1, <3>1
      <4> QED
          BY <4>1, <4>2, <4>3, <4>4
    <3>4. CASE c # k
      <4>1. writes'[c] = writes[c]
          BY <3>2, <3>4
      <4> QED
          BY <4>1
    <3> QED
        BY <3>3, <3>4
  <2> QED
      BY <1>8, <2>1, <2>2, LockEffect
<1>9. ASSUME NEW r \in Turns, NEW k \in Conversations, RemoveEntry(r, k) PROVE Distinct'
    BY <1>9 DEF RemoveEntry, Forget
<1>10. ASSUME NEW k \in Conversations, WriteFile(k) PROVE Distinct'
  <2>1. ASSUME NEW w \in Saves, EvictionApplied(k, w) PROVE Distinct'
    <3> SUFFICES ASSUME NEW c \in Conversations, NEW i \in DOMAIN writes'[c],
                        NEW j \in DOMAIN writes'[c],
                        writes'[c][i].by = writes'[c][j].by,
                        writes'[c][i].evict = writes'[c][j].evict
                 PROVE  i = j
        OBVIOUS
    <3>1. CASE c = k
      <4>1. /\ i \in Nat /\ i + 1 \in DOMAIN writes[k] /\ writes'[k][i] = writes[k][i + 1]
            /\ j \in Nat /\ j + 1 \in DOMAIN writes[k] /\ writes'[k][j] = writes[k][j + 1]
          BY <3>1, <2>1 DEF EvictionApplied, Applied, Left
      <4>2. i + 1 = j + 1
          BY <3>1, <4>1
      <4> QED
          BY <4>1, <4>2
    <3>2. CASE c # k
      <4>1. writes'[c] = writes[c]
          BY <3>2, <2>1 DEF EvictionApplied, Applied, Left
      <4> QED
          BY <4>1
    <3> QED
        BY <3>1, <3>2
  <2>2. ASSUME NEW w \in Saves, TurnApplied(k, w) PROVE Distinct'
    <3> SUFFICES ASSUME NEW c \in Conversations, NEW i \in DOMAIN writes'[c],
                        NEW j \in DOMAIN writes'[c],
                        writes'[c][i].by = writes'[c][j].by,
                        writes'[c][i].evict = writes'[c][j].evict
                 PROVE  i = j
        OBVIOUS
    <3>1. CASE c = k
      <4>1. /\ i \in Nat /\ i + 1 \in DOMAIN writes[k] /\ writes'[k][i] = writes[k][i + 1]
            /\ j \in Nat /\ j + 1 \in DOMAIN writes[k] /\ writes'[k][j] = writes[k][j + 1]
          BY <3>1, <2>2 DEF TurnApplied, Applied, Left
      <4>2. i + 1 = j + 1
          BY <3>1, <4>1
      <4> QED
          BY <4>1, <4>2
    <3>2. CASE c # k
      <4>1. writes'[c] = writes[c]
          BY <3>2, <2>2 DEF TurnApplied, Applied, Left
      <4> QED
          BY <4>1
    <3> QED
        BY <3>1, <3>2
  <2> QED
      BY <1>10, <2>1, <2>2, WriteEffect
<1>11. ASSUME NEW d \in Drops, Unlink(d) PROVE Distinct'
    BY <1>11 DEF Unlink
<1>12. ASSUME NEW d \in Drops, Unlist(d) PROVE Distinct'
    BY <1>12 DEF Unlist
<1>13. ASSUME NEW r \in Turns, NEW k \in Conversations, Arrive(r, k) PROVE Distinct'
    BY <1>13 DEF Arrive
<1>14. ASSUME NEW d \in Drops, NEW k \in Conversations, Drop(d, k) PROVE Distinct'
    BY <1>14 DEF Drop, Forget
<1> QED
    BY <1>0, <1>1, <1>2, <1>3, <1>4, <1>5, <1>6, <1>7, <1>8, <1>9, <1>10, <1>11, <1>12,
        <1>13, <1>14 DEF Next, Steps

LEMMA HomesStep == IInv /\ [Next]_vars => Homes'
<1> SUFFICES ASSUME Typed, Stored, Awaited, Homes, [Next]_vars PROVE Homes'
    BY DEF IInv
<1> USE Sets DEF Typed, TurnStages, DropStages, Homes, Loaded, Cached, requestVars,
    cacheVars, diskVars, lockVars, ghosts
<1>0. CASE UNCHANGED vars
    BY <1>0 DEF vars
<1>1. ASSUME NEW r \in Turns, Hit(r) PROVE Homes'
    BY <1>1 DEF Hit
<1>2. ASSUME NEW r \in Turns, MakeRoom(r) PROVE Homes'
    BY <1>2 DEF MakeRoom
<1>3. ASSUME NEW r \in Turns, Load(r) PROVE Homes'
    BY <1>3 DEF Load
<1>4. ASSUME NEW r \in Turns, Register(r) PROVE Homes'
    BY <1>4 DEF Register
<1>5. ASSUME NEW r \in Turns, Turn(r) PROVE Homes'
    BY <1>5 DEF Turn
<1>6. ASSUME NEW r \in Turns, Flush(r) PROVE Homes'
  <2>1. CASE Skips(r)
      BY <2>1 DEF Skips, Resting, Moves
  <2>2. ASSUME NEW w \in Saves, NEW n \in Nat, Queues(r, w, n) PROVE Homes'
      BY <2>2 DEF Queues, Resting, Moves
  <2> QED
      BY <1>6, <2>1, <2>2, FlushEffect
<1>7. ASSUME NEW r \in Turns, ListTurn(r) PROVE Homes'
    BY <1>7 DEF ListTurn
<1>8. ASSUME NEW r \in Turns, NEW k \in Conversations, LockEntry(r, k) PROVE Homes'
  <2>1. CASE GivesUp(r, k)
      BY <2>1 DEF GivesUp, Resting
  <2>2. ASSUME NEW w \in Saves, NEW n \in Nat, Evicts(r, k, w, n) PROVE Homes'
      BY <2>2 DEF Evicts, Resting
  <2> QED
      BY <1>8, <2>1, <2>2, LockEffect
<1>9. ASSUME NEW r \in Turns, NEW k \in Conversations, RemoveEntry(r, k) PROVE Homes'
    BY <1>9 DEF RemoveEntry, Forget
<1>10. ASSUME NEW k \in Conversations, WriteFile(k) PROVE Homes'
  <2>1. ASSUME NEW w \in Saves, EvictionApplied(k, w) PROVE Homes'
      BY <2>1 DEF EvictionApplied, Applied, Resting
  <2>2. ASSUME NEW w \in Saves, TurnApplied(k, w) PROVE Homes'
      BY <2>2 DEF TurnApplied, Applied, Resting, Moves
  <2> QED
      BY <1>10, <2>1, <2>2, WriteEffect
<1>11. ASSUME NEW d \in Drops, Unlink(d) PROVE Homes'
    BY <1>11 DEF Unlink
<1>12. ASSUME NEW d \in Drops, Unlist(d) PROVE Homes'
    BY <1>12 DEF Unlist
<1>13. ASSUME NEW r \in Turns, NEW k \in Conversations, Arrive(r, k) PROVE Homes'
    BY <1>13 DEF Arrive
<1>14. ASSUME NEW d \in Drops, NEW k \in Conversations, Drop(d, k) PROVE Homes'
    BY <1>14 DEF Drop, Forget
<1> QED
    BY <1>0, <1>1, <1>2, <1>3, <1>4, <1>5, <1>6, <1>7, <1>8, <1>9, <1>10, <1>11, <1>12,
        <1>13, <1>14 DEF Next, Steps

LEMMA AloneStep == IInv /\ [Next]_vars => Alone'
<1> SUFFICES ASSUME Typed, Stored, Awaited, Alone, [Next]_vars PROVE Alone'
    BY DEF IInv
<1> USE Sets DEF Typed, TurnStages, DropStages, Alone, Active, HasActiveStream, Loading,
    requestVars, cacheVars, diskVars, lockVars, ghosts
<1>0. CASE UNCHANGED vars
    BY <1>0 DEF vars, Cached
<1>1. ASSUME NEW r \in Turns, Hit(r) PROVE Alone'
    BY <1>1 DEF Hit
<1>2. ASSUME NEW r \in Turns, MakeRoom(r) PROVE Alone'
    BY <1>2 DEF MakeRoom
<1>3. ASSUME NEW r \in Turns, Load(r) PROVE Alone'
    BY <1>3 DEF Load
<1>4. ASSUME NEW r \in Turns, Register(r) PROVE Alone'
    BY <1>4 DEF Register
<1>5. ASSUME NEW r \in Turns, Turn(r) PROVE Alone'
    BY <1>5 DEF Turn
<1>6. ASSUME NEW r \in Turns, Flush(r) PROVE Alone'
  <2>1. CASE Skips(r)
      BY <2>1 DEF Skips, Resting, Moves
  <2>2. ASSUME NEW w \in Saves, NEW n \in Nat, Queues(r, w, n) PROVE Alone'
      BY <2>2 DEF Queues, Resting, Moves
  <2> QED
      BY <1>6, <2>1, <2>2, FlushEffect
<1>7. ASSUME NEW r \in Turns, ListTurn(r) PROVE Alone'
    BY <1>7 DEF ListTurn
<1>8. ASSUME NEW r \in Turns, NEW k \in Conversations, LockEntry(r, k) PROVE Alone'
  <2>1. CASE GivesUp(r, k)
      BY <2>1 DEF GivesUp, Resting
  <2>2. ASSUME NEW w \in Saves, NEW n \in Nat, Evicts(r, k, w, n) PROVE Alone'
      BY <2>2 DEF Evicts, Resting
  <2> QED
      BY <1>8, <2>1, <2>2, LockEffect
<1>9. ASSUME NEW r \in Turns, NEW k \in Conversations, RemoveEntry(r, k) PROVE Alone'
    BY <1>9 DEF RemoveEntry, Forget
<1>10. ASSUME NEW k \in Conversations, WriteFile(k) PROVE Alone'
  <2>1. ASSUME NEW w \in Saves, EvictionApplied(k, w) PROVE Alone'
      BY <2>1 DEF EvictionApplied, Applied, Resting
  <2>2. ASSUME NEW w \in Saves, TurnApplied(k, w) PROVE Alone'
      BY <2>2 DEF TurnApplied, Applied, Resting, Moves
  <2> QED
      BY <1>10, <2>1, <2>2, WriteEffect
<1>11. ASSUME NEW d \in Drops, Unlink(d) PROVE Alone'
    BY <1>11 DEF Unlink
<1>12. ASSUME NEW d \in Drops, Unlist(d) PROVE Alone'
    BY <1>12 DEF Unlist
<1>13. ASSUME NEW r \in Turns, NEW k \in Conversations, Arrive(r, k) PROVE Alone'
    BY <1>13 DEF Arrive
<1>14. ASSUME NEW d \in Drops, NEW k \in Conversations, Drop(d, k) PROVE Alone'
    BY <1>14 DEF Drop, Forget
<1> QED
    BY <1>0, <1>1, <1>2, <1>3, <1>4, <1>5, <1>6, <1>7, <1>8, <1>9, <1>10, <1>11, <1>12,
        <1>13, <1>14 DEF Next, Steps

LEMMA EvictedLastStep == IInv /\ [Next]_vars => EvictedLast'
<1> SUFFICES ASSUME Typed, Stored, Awaited, Locked, EvictedLast,
    [Next]_vars PROVE EvictedLast'
    BY DEF IInv
<1> USE Sets DEF Typed, TurnStages, DropStages, EvictedLast, Locked, Cached, requestVars,
    cacheVars, diskVars, lockVars, ghosts
<1>0. CASE UNCHANGED vars
    BY <1>0 DEF vars
<1>1. ASSUME NEW r \in Turns, Hit(r) PROVE EvictedLast'
    BY <1>1 DEF Hit
<1>2. ASSUME NEW r \in Turns, MakeRoom(r) PROVE EvictedLast'
    BY <1>2 DEF MakeRoom
<1>3. ASSUME NEW r \in Turns, Load(r) PROVE EvictedLast'
    BY <1>3 DEF Load
<1>4. ASSUME NEW r \in Turns, Register(r) PROVE EvictedLast'
    BY <1>4 DEF Register
<1>5. ASSUME NEW r \in Turns, Turn(r) PROVE EvictedLast'
    BY <1>5 DEF Turn
<1>6. ASSUME NEW r \in Turns, Flush(r) PROVE EvictedLast'
  <2>1. CASE Skips(r)
      BY <2>1 DEF Skips, Resting, Moves
  <2>2. ASSUME NEW w \in Saves, NEW n \in Nat, Queues(r, w, n) PROVE EvictedLast'
      BY <2>2 DEF Queues, Resting, Moves
  <2> QED
      BY <1>6, <2>1, <2>2, FlushEffect
<1>7. ASSUME NEW r \in Turns, ListTurn(r) PROVE EvictedLast'
    BY <1>7 DEF ListTurn
<1>8. ASSUME NEW r \in Turns, NEW k \in Conversations, LockEntry(r, k) PROVE EvictedLast'
  <2>1. CASE GivesUp(r, k)
      BY <2>1 DEF GivesUp, Resting
  <2>2. ASSUME NEW w \in Saves, NEW n \in Nat, Evicts(r, k, w, n) PROVE EvictedLast'
      BY <2>2 DEF Evicts, Resting
  <2> QED
      BY <1>8, <2>1, <2>2, LockEffect
<1>9. ASSUME NEW r \in Turns, NEW k \in Conversations, RemoveEntry(r, k) PROVE EvictedLast'
    BY <1>9 DEF RemoveEntry, Forget
<1>10. ASSUME NEW k \in Conversations, WriteFile(k) PROVE EvictedLast'
  <2>1. ASSUME NEW w \in Saves, EvictionApplied(k, w) PROVE EvictedLast'
      BY <2>1 DEF EvictionApplied, Applied, Resting
  <2>2. ASSUME NEW w \in Saves, TurnApplied(k, w) PROVE EvictedLast'
      BY <2>2 DEF TurnApplied, Applied, Resting, Moves
  <2> QED
      BY <1>10, <2>1, <2>2, WriteEffect
<1>11. ASSUME NEW d \in Drops, Unlink(d) PROVE EvictedLast'
    BY <1>11 DEF Unlink
<1>12. ASSUME NEW d \in Drops, Unlist(d) PROVE EvictedLast'
    BY <1>12 DEF Unlist
<1>13. ASSUME NEW r \in Turns, NEW k \in Conversations, Arrive(r, k) PROVE EvictedLast'
    BY <1>13 DEF Arrive
<1>14. ASSUME NEW d \in Drops, NEW k \in Conversations, Drop(d, k) PROVE EvictedLast'
    BY <1>14 DEF Drop, Forget
<1> QED
    BY <1>0, <1>1, <1>2, <1>3, <1>4, <1>5, <1>6, <1>7, <1>8, <1>9, <1>10, <1>11, <1>12,
        <1>13, <1>14 DEF Next, Steps

LEMMA PrefixPoints ==
    ASSUME NEW s \in Seq(Turns), NEW t \in Seq(Turns)
    PROVE  IsPrefix(s, t) <=> Len(s) <= Len(t) /\ \A i \in 1 .. Len(s) : s[i] = t[i]
<1>1. ASSUME IsPrefix(s, t) PROVE Len(s) <= Len(t) /\ \A i \in 1 .. Len(s) : s[i] = t[i]
  <2>1. Len(s) <= Len(t) /\ SubSeq(s, 1, Len(s)) = SubSeq(t, 1, Len(s))
      BY <1>1 DEF IsPrefix
  <2>2. ASSUME NEW i \in 1 .. Len(s) PROVE s[i] = t[i]
    <3>1. SubSeq(s, 1, Len(s))[i] = s[i] /\ SubSeq(t, 1, Len(s))[i] = t[i]
        BY <2>1
    <3> QED
        BY <2>1, <3>1
  <2> QED
      BY <2>1, <2>2
<1>2. ASSUME Len(s) <= Len(t), \A i \in 1 .. Len(s) : s[i] = t[i] PROVE IsPrefix(s, t)
  <2>1. SubSeq(s, 1, Len(s)) = SubSeq(t, 1, Len(s))
      BY <1>2
  <2> QED
      BY <1>2, <2>1 DEF IsPrefix
<1> QED
    BY <1>1, <1>2

\* A history grows at its end, and keeps the turns it has.
LEMMA Histories ==
    ASSUME NEW s \in Seq(Turns), NEW e \in Turns
    PROVE  /\ IsPrefix(s, s)
           /\ Append(s, e) \in Seq(Turns) /\ Contains(Append(s, e), e)
           /\ \A x \in Turns : Contains(s, x) => Contains(Append(s, e), x)
           /\ \A t \in Seq(Turns) : IsPrefix(t, s) => IsPrefix(t, Append(s, e))
<1>1. IsPrefix(s, s)
    BY PrefixPoints
<1>2. /\ Append(s, e) \in Seq(Turns) /\ Len(Append(s, e)) = Len(s) + 1
      /\ Append(s, e)[Len(s) + 1] = e /\ \A i \in 1 .. Len(s) : Append(s, e)[i] = s[i]
    OBVIOUS
<1>3. ASSUME NEW t \in Seq(Turns), IsPrefix(t, s) PROVE IsPrefix(t, Append(s, e))
  <2>1. Len(t) <= Len(s) /\ \A i \in 1 .. Len(t) : t[i] = s[i]
      BY <1>3, PrefixPoints
  <2>2. Len(t) <= Len(Append(s, e)) /\ \A i \in 1 .. Len(t) : t[i] = Append(s, e)[i]
      BY <1>2, <2>1
  <2> QED
      BY <1>2, <2>2, PrefixPoints
<1> QED
    BY <1>1, <1>2, <1>3 DEF Contains

LEMMA EmptyQueue ==
    ASSUME NEW q \in Seq(Saves), \A i \in DOMAIN q : FALSE
    PROVE  q = <<>>
<1>1. DOMAIN q = 1 .. Len(q) /\ Len(q) \in Nat
    OBVIOUS
<1>2. CASE Len(q) = 0
    BY <1>2
<1>3. CASE Len(q) # 0
  <2>1. 1 \in DOMAIN q
      BY <1>1, <1>3
  <2> QED
      BY <2>1
<1> QED
    BY <1>2, <1>3

LEMMA FreshStep == IInv /\ [Next]_vars => Fresh'
<1> SUFFICES ASSUME Typed, Stored, Awaited, Homes, Alone, EvictedLast, Fresh,
    [Next]_vars PROVE Fresh'
    BY DEF IInv
<1> USE Sets DEF Typed, TurnStages, DropStages, Fresh, Exempt, Cached, requestVars,
    cacheVars, diskVars, lockVars, ghosts
<1>0. CASE UNCHANGED vars
    BY <1>0 DEF vars
<1>1. ASSUME NEW r \in Turns, Hit(r) PROVE Fresh'
    BY <1>1 DEF Hit
<1>2. ASSUME NEW r \in Turns, MakeRoom(r) PROVE Fresh'
    BY <1>2 DEF MakeRoom
<1>3. ASSUME NEW r \in Turns, Load(r) PROVE Fresh'
  <2> DEFINE k == conv[r]
  <2>1. k \in Conversations
      BY <1>3 DEF Load
  <2>2. ASSUME k \notin Exempt PROVE k \notin Cached /\ writes[k] = <<>>
    <3>1. k \notin Cached
        BY <1>3, <2>1, <2>2 DEF Load
    <3>2. ASSUME NEW i \in DOMAIN writes[k] PROVE FALSE
      <4> DEFINE w == writes[k][i]
      <4>1. w.by \in Turns /\ w.evict \in BOOLEAN
          BY <2>1, WaitingType
      <4>2. CASE w.evict
          BY <2>1, <2>2, <3>1, <4>1, <4>2 DEF Awaited, EvictedLast
      <4>3. CASE ~w.evict
        <5>1. pc[w.by] = "write" /\ conv[w.by] = k
            BY <2>1, <4>3 DEF Awaited
        <5> QED
            BY <1>3, <2>2, <4>1, <5>1 DEF Load, Alone, Active
      <4> QED
          BY <4>1, <4>2, <4>3
    <3>3. writes[k] = <<>>
        BY <2>1, <3>2, EmptyQueue DEF Stored
    <3> QED
        BY <3>1, <3>3
  <2>3. memory' = [memory EXCEPT ![r] = file[k]] /\ DOMAIN memory = Turns
      BY <1>3 DEF Load, Stored
  <2> HIDE DEF k
  <2> QED
      BY <1>3, <2>2, <2>3 DEF Load, k
<1>4. ASSUME NEW r \in Turns, Register(r) PROVE Fresh'
    BY <1>4 DEF Register, Alone, Active
<1>5. ASSUME NEW r \in Turns, Turn(r) PROVE Fresh'
  <2>1. holds[r] \in Turns /\ pc[holds[r]] # "register" /\ DOMAIN memory = Turns
      BY <1>5 DEF Turn, Homes, Loaded, Stored
  <2> QED
      BY <1>5, <2>1 DEF Turn
<1>6. ASSUME NEW r \in Turns, Flush(r) PROVE Fresh'
  <2>1. CASE Skips(r)
      BY <2>1 DEF Skips, Resting, Moves
  <2>2. ASSUME NEW w \in Saves, NEW n \in Nat, Queues(r, w, n) PROVE Fresh'
    <3>1. \A s \in Turns : pc[s] = "register" /\ conv[s] \notin Exempt =>
             conv[s] \in Conversations /\ conv[s] # conv[r]
        BY <2>2 DEF Queues, Alone, Active
    <3>2. \A s \in Turns : pc[s] = "register" /\ conv[s] \notin Exempt =>
             writes'[conv[s]] = writes[conv[s]]
        BY <2>2, <3>1 DEF Queues, Joined
    <3> QED
        BY <2>2, <3>2 DEF Queues, Resting, Moves
  <2> QED
      BY <1>6, <2>1, <2>2, FlushEffect
<1>7. ASSUME NEW r \in Turns, ListTurn(r) PROVE Fresh'
    BY <1>7 DEF ListTurn
<1>8. ASSUME NEW r \in Turns, NEW k \in Conversations, LockEntry(r, k) PROVE Fresh'
  <2>1. CASE GivesUp(r, k)
      BY <2>1 DEF GivesUp, Resting
  <2>2. ASSUME NEW w \in Saves, NEW n \in Nat, Evicts(r, k, w, n) PROVE Fresh'
    <3>1. \A s \in Turns : pc[s] = "register" /\ conv[s] \notin Exempt =>
             conv[s] \in Conversations /\ conv[s] # k
        BY <2>2 DEF Evicts
    <3>2. \A s \in Turns : pc[s] = "register" /\ conv[s] \notin Exempt =>
             writes'[conv[s]] = writes[conv[s]]
        BY <2>2, <3>1 DEF Evicts, Joined
    <3> QED
        BY <2>2, <3>2 DEF Evicts, Resting
  <2> QED
      BY <1>8, <2>1, <2>2, LockEffect
<1>9. ASSUME NEW r \in Turns, NEW k \in Conversations, RemoveEntry(r, k) PROVE Fresh'
    BY <1>9 DEF RemoveEntry, Forget
<1>10. ASSUME NEW k \in Conversations, WriteFile(k) PROVE Fresh'
  <2>1. ASSUME NEW w \in Saves, EvictionApplied(k, w) PROVE Fresh'
      BY SMTT(30), <2>1 DEF EvictionApplied, Applied, Resting, Left, Stored
  <2>2. ASSUME NEW w \in Saves, TurnApplied(k, w) PROVE Fresh'
      BY <2>2 DEF TurnApplied, Applied, Resting, Moves, Left, Stored
  <2> QED
      BY <1>10, <2>1, <2>2, WriteEffect
<1>11. ASSUME NEW d \in Drops, Unlink(d) PROVE Fresh'
    BY <1>11 DEF Unlink, Stored
<1>12. ASSUME NEW d \in Drops, Unlist(d) PROVE Fresh'
    BY <1>12 DEF Unlist
<1>13. ASSUME NEW r \in Turns, NEW k \in Conversations, Arrive(r, k) PROVE Fresh'
    BY <1>13 DEF Arrive
<1>14. ASSUME NEW d \in Drops, NEW k \in Conversations, Drop(d, k) PROVE Fresh'
    BY <1>14 DEF Drop, Forget
<1> QED
    BY <1>0, <1>1, <1>2, <1>3, <1>4, <1>5, <1>6, <1>7, <1>8, <1>9, <1>10, <1>11, <1>12,
        <1>13, <1>14 DEF Next, Steps

LEMMA ExtendsStep == IInv /\ [Next]_vars => CacheExtendsDisk'
<1> SUFFICES ASSUME Typed, Stored, Awaited, Homes, Alone, Fresh, CacheExtendsDisk,
    [Next]_vars PROVE CacheExtendsDisk'
    BY DEF IInv
<1> USE Sets DEF Typed, TurnStages, DropStages, Exempt, requestVars, cacheVars, diskVars,
    lockVars, ghosts
<1>0. CASE UNCHANGED vars
    BY <1>0 DEF vars, Cached, CacheExtendsDisk
<1>1. ASSUME NEW r \in Turns, Hit(r) PROVE CacheExtendsDisk'
    BY <1>1 DEF Hit, CacheExtendsDisk, Cached
<1>2. ASSUME NEW r \in Turns, MakeRoom(r) PROVE CacheExtendsDisk'
    BY <1>2 DEF MakeRoom, CacheExtendsDisk, Cached
<1>3. ASSUME NEW r \in Turns, Load(r) PROVE CacheExtendsDisk'
  <2>1. /\ \A k \in Cached : entries[k] # r
        /\ memory' = [memory EXCEPT ![r] = file[conv[r]]] /\ DOMAIN memory = Turns
        /\ UNCHANGED <<entries, file, writes, overlapped, dropped>>
      BY <1>3 DEF Load, Homes, Loaded, Stored
  <2> QED
      BY <2>1 DEF CacheExtendsDisk, Cached
<1>4. ASSUME NEW r \in Turns, Register(r) PROVE CacheExtendsDisk'
  <2> SUFFICES ASSUME NEW k \in Cached' \ Exempt'
               PROVE  /\ IsPrefix(file'[k], memory'[entries'[k]])
                      /\ \A i \in DOMAIN writes'[k] :
                            IsPrefix(writes'[k][i].history, memory'[entries'[k]])
      BY DEF CacheExtendsDisk
  <2>1. CASE k = conv[r]
    <3>1. memory[r] = file[k] /\ writes[k] = <<>> /\ memory[r] \in Seq(Turns)
        BY <1>4, <2>1 DEF Register, Fresh, Stored
    <3>2. IsPrefix(memory[r], memory[r])
        BY <3>1, Histories
    <3>3. entries'[k] = r /\ file' = file /\ memory' = memory /\ writes' = writes
        BY <1>4, <2>1 DEF Register
    <3> QED
        BY <3>1, <3>2, <3>3
  <2>2. CASE k # conv[r]
    <3>1. /\ entries'[k] = entries[k] /\ k \in Cached \ Exempt
          /\ UNCHANGED <<file, memory, writes>>
        BY <1>4, <2>2 DEF Register, Cached
    <3> QED
        BY <3>1 DEF CacheExtendsDisk
  <2> QED
      BY <2>1, <2>2
<1>5. ASSUME NEW r \in Turns, Turn(r) PROVE CacheExtendsDisk'
  <2>0. holds[r] \in Turns
      BY <1>5 DEF Turn, Homes
  <2>1. /\ holds[r] \in Turns
        /\ memory' = [memory EXCEPT ![holds[r]] = Append(memory[holds[r]], r)]
        /\ UNCHANGED <<entries, file, writes, overlapped, dropped>>
      BY <1>5, <2>0 DEF Turn
  <2> SUFFICES ASSUME NEW k \in Cached \ Exempt
               PROVE  /\ IsPrefix(file[k], memory'[entries[k]])
                      /\ \A i \in DOMAIN writes[k] :
                            IsPrefix(writes[k][i].history, memory'[entries[k]])
      BY <2>1 DEF CacheExtendsDisk, Cached
  <2>2. /\ k \in Conversations /\ entries[k] \in Turns /\ file[k] \in Seq(Turns)
        /\ \A i \in DOMAIN writes[k] : writes[k][i].history \in Seq(Turns)
      BY WaitingType DEF Stored, Cached
  <2>3. /\ IsPrefix(file[k], memory[entries[k]])
        /\ \A i \in DOMAIN writes[k] : IsPrefix(writes[k][i].history, memory[entries[k]])
      BY DEF CacheExtendsDisk
  <2>4. CASE entries[k] = holds[r]
    <3>1. /\ memory'[entries[k]] = Append(memory[entries[k]], r)
          /\ memory[entries[k]] \in Seq(Turns)
      <4>1. memory[holds[r]] \in Seq(Turns) /\ DOMAIN memory = Turns
          BY <2>1 DEF Stored
      <4>2. memory'[holds[r]] = Append(memory[holds[r]], r)
          BY <2>1, <4>1
      <4> QED
          BY <4>1, <4>2, <2>4
    <3>2. \A t \in Seq(Turns) : IsPrefix(t, memory[entries[k]])
                                => IsPrefix(t, Append(memory[entries[k]], r))
        BY <3>1, Histories
    <3> QED
        BY <2>2, <2>3, <3>1, <3>2
  <2>5. CASE entries[k] # holds[r]
    <3>1. memory'[entries[k]] = memory[entries[k]]
        BY <2>1, <2>2, <2>5 DEF Stored
    <3> QED
        BY <2>3, <3>1
  <2> QED
      BY <2>4, <2>5
<1>6. ASSUME NEW r \in Turns, Flush(r) PROVE CacheExtendsDisk'
  <2>1. CASE Skips(r)
      BY <2>1 DEF Skips, Resting, Moves, CacheExtendsDisk, Cached
  <2>2. ASSUME NEW w \in Saves, NEW n \in Nat, Queues(r, w, n) PROVE CacheExtendsDisk'
    <3>1. UNCHANGED <<entries, file, memory, overlapped, dropped>>
        BY <2>2 DEF Queues, Resting
    <3>2. /\ DOMAIN writes'[conv[r]] = DOMAIN writes[conv[r]] \cup {n} /\ writes'[conv[r]][n] = w
          /\ \A m \in DOMAIN writes[conv[r]] : writes'[conv[r]][m] = writes[conv[r]][m]
          /\ \A c \in Conversations : c # conv[r] => writes'[c] = writes[c]
          /\ entries[conv[r]] \in Turns /\ w.history = memory[entries[conv[r]]]
        BY <2>2 DEF Queues, Joined
    <3>3. IsPrefix(w.history, memory[entries[conv[r]]])
        BY <3>2, Histories DEF Stored
    <3> SUFFICES ASSUME NEW c \in Cached \ Exempt
                 PROVE  /\ IsPrefix(file[c], memory[entries[c]])
                        /\ \A i \in DOMAIN writes'[c] :
                              IsPrefix(writes'[c][i].history, memory[entries[c]])
        BY <3>1 DEF CacheExtendsDisk, Cached
    <3>4. /\ c \in Conversations /\ IsPrefix(file[c], memory[entries[c]])
          /\ \A i \in DOMAIN writes[c] : IsPrefix(writes[c][i].history, memory[entries[c]])
        BY DEF CacheExtendsDisk, Cached
    <3> QED
        BY <3>2, <3>3, <3>4
  <2> QED
      BY <1>6, <2>1, <2>2, FlushEffect
<1>7. ASSUME NEW r \in Turns, ListTurn(r) PROVE CacheExtendsDisk'
    BY <1>7 DEF ListTurn, CacheExtendsDisk, Cached
<1>8. ASSUME NEW r \in Turns, NEW k \in Conversations, LockEntry(r,
    k) PROVE CacheExtendsDisk'
  <2>1. CASE GivesUp(r, k)
      BY <2>1 DEF GivesUp, Resting, CacheExtendsDisk, Cached
  <2>2. ASSUME NEW w \in Saves, NEW n \in Nat, Evicts(r, k, w, n) PROVE CacheExtendsDisk'
    <3>1. UNCHANGED <<entries, file, memory, overlapped, dropped>>
        BY <2>2 DEF Evicts, Resting
    <3>2. /\ DOMAIN writes'[k] = DOMAIN writes[k] \cup {n} /\ writes'[k][n] = w
          /\ \A m \in DOMAIN writes[k] : writes'[k][m] = writes[k][m]
          /\ \A c \in Conversations : c # k => writes'[c] = writes[c]
          /\ entries[k] \in Turns /\ w.history = memory[entries[k]]
        BY <2>2 DEF Evicts, Joined
    <3>3. IsPrefix(w.history, memory[entries[k]])
        BY <3>2, Histories DEF Stored
    <3> SUFFICES ASSUME NEW c \in Cached \ Exempt
                 PROVE  /\ IsPrefix(file[c], memory[entries[c]])
                        /\ \A i \in DOMAIN writes'[c] :
                              IsPrefix(writes'[c][i].history, memory[entries[c]])
        BY <3>1 DEF CacheExtendsDisk, Cached
    <3>4. /\ c \in Conversations /\ IsPrefix(file[c], memory[entries[c]])
          /\ \A i \in DOMAIN writes[c] : IsPrefix(writes[c][i].history, memory[entries[c]])
        BY DEF CacheExtendsDisk, Cached
    <3> QED
        BY <3>2, <3>3, <3>4
  <2> QED
      BY <1>8, <2>1, <2>2, LockEffect
<1>9. ASSUME NEW r \in Turns, NEW k \in Conversations, RemoveEntry(r,
    k) PROVE CacheExtendsDisk'
    BY <1>9 DEF RemoveEntry, Forget, CacheExtendsDisk, Cached
<1>10. ASSUME NEW k \in Conversations, WriteFile(k) PROVE CacheExtendsDisk'
  <2>1. ASSUME NEW w \in Saves, EvictionApplied(k, w) PROVE CacheExtendsDisk'
    <3>1. UNCHANGED <<entries, memory, overlapped, dropped>>
        BY <2>1 DEF EvictionApplied, Applied, Resting
    <3>2. /\ \A c \in Conversations : c # k => writes'[c] = writes[c] /\ file'[c] = file[c]
          /\ file'[k] = writes[k][1].history /\ 1 \in DOMAIN writes[k]
          /\ \A i \in DOMAIN writes'[k] :
                i + 1 \in DOMAIN writes[k] /\ writes'[k][i] = writes[k][i + 1]
        BY <2>1 DEF EvictionApplied, Applied, Left, Stored
    <3> SUFFICES ASSUME NEW c \in Cached \ Exempt
                 PROVE  /\ IsPrefix(file'[c], memory[entries[c]])
                        /\ \A i \in DOMAIN writes'[c] :
                              IsPrefix(writes'[c][i].history, memory[entries[c]])
        BY <3>1 DEF CacheExtendsDisk, Cached
    <3>3. /\ c \in Conversations /\ IsPrefix(file[c], memory[entries[c]])
          /\ \A i \in DOMAIN writes[c] : IsPrefix(writes[c][i].history, memory[entries[c]])
        BY DEF CacheExtendsDisk, Cached
    <3> QED
        BY <3>2, <3>3
  <2>2. ASSUME NEW w \in Saves, TurnApplied(k, w) PROVE CacheExtendsDisk'
    <3>1. UNCHANGED <<entries, memory, overlapped, dropped>>
        BY <2>2 DEF TurnApplied, Applied, Resting
    <3>2. /\ \A c \in Conversations : c # k => writes'[c] = writes[c] /\ file'[c] = file[c]
          /\ file'[k] = writes[k][1].history /\ 1 \in DOMAIN writes[k]
          /\ \A i \in DOMAIN writes'[k] :
                i + 1 \in DOMAIN writes[k] /\ writes'[k][i] = writes[k][i + 1]
        BY <2>2 DEF TurnApplied, Applied, Left, Stored
    <3> SUFFICES ASSUME NEW c \in Cached \ Exempt
                 PROVE  /\ IsPrefix(file'[c], memory[entries[c]])
                        /\ \A i \in DOMAIN writes'[c] :
                              IsPrefix(writes'[c][i].history, memory[entries[c]])
        BY <3>1 DEF CacheExtendsDisk, Cached
    <3>3. /\ c \in Conversations /\ IsPrefix(file[c], memory[entries[c]])
          /\ \A i \in DOMAIN writes[c] : IsPrefix(writes[c][i].history, memory[entries[c]])
        BY DEF CacheExtendsDisk, Cached
    <3> QED
        BY <3>2, <3>3
  <2> QED
      BY <1>10, <2>1, <2>2, WriteEffect
<1>11. ASSUME NEW d \in Drops, Unlink(d) PROVE CacheExtendsDisk'
    BY <1>11 DEF Unlink, CacheExtendsDisk, Cached, Stored
<1>12. ASSUME NEW d \in Drops, Unlist(d) PROVE CacheExtendsDisk'
    BY <1>12 DEF Unlist, CacheExtendsDisk, Cached
<1>13. ASSUME NEW r \in Turns, NEW k \in Conversations, Arrive(r, k) PROVE CacheExtendsDisk'
    BY <1>13 DEF Arrive, CacheExtendsDisk, Cached
<1>14. ASSUME NEW d \in Drops, NEW k \in Conversations, Drop(d, k) PROVE CacheExtendsDisk'
    BY <1>14 DEF Drop, Forget, CacheExtendsDisk, Cached
<1> QED
    BY <1>0, <1>1, <1>2, <1>3, <1>4, <1>5, <1>6, <1>7, <1>8, <1>9, <1>10, <1>11, <1>12,
        <1>13, <1>14 DEF Next, Steps

\* A save of the session's own history joins the saves that have the turn ...
LEMMA SavesJoined ==
    ASSUME Stored, NEW k \in Conversations, NEW w \in Saves, NEW n \in Nat, Joined(k, w, n),
           k \in Cached, w.history = memory[entries[k]],
           NEW q \in Turns, NEW m \in Nat, SavedFrom(q, k, m)
    PROVE  \A i \in DOMAIN writes'[k] : i >= m => Contains(writes'[k][i].history, q)
<1>1. Contains(w.history, q)
    BY DEF SavedFrom
<1>2. \A i \in DOMAIN writes'[k] : i = n \/ i \in DOMAIN writes[k]
    BY DEF Joined
<1> QED
    BY <1>1, <1>2 DEF Joined, SavedFrom

\* ... and an applied one leaves them.
LEMMA SavesLeft ==
    ASSUME Stored, NEW k \in Conversations, Left(k),
           NEW q \in Turns, NEW m \in Nat \ {0}, SavedFrom(q, k, m)
    PROVE  /\ \A i \in DOMAIN writes'[k] : i >= m \/ i >= m - 1 =>
                 Contains(writes'[k][i].history, q)
           /\ m = 1 => Contains(writes[k][1].history, q)
<1>1. ASSUME NEW i \in DOMAIN writes'[k], i >= m - 1
      PROVE  Contains(writes'[k][i].history, q)
  <2>1. i \in Nat /\ i + 1 \in DOMAIN writes[k] /\ writes'[k][i] = writes[k][i + 1]
      BY DEF Left
  <2>2. i + 1 >= m
      BY <1>1, <2>1
  <2> QED
      BY <2>1, <2>2 DEF SavedFrom
<1>2. \A i \in DOMAIN writes'[k] : i >= m => i >= m - 1
    BY DEF Left
<1>3. ASSUME m = 1 PROVE Contains(writes[k][1].history, q)
    BY <1>3 DEF Left, SavedFrom
<1> QED
    BY <1>1, <1>2, <1>3

LEMMA KeptStep == IInv /\ [Next]_vars => Kept'
<1> SUFFICES ASSUME Typed, Stored, Awaited, Distinct, Homes, Alone, Fresh, Kept,
    [Next]_vars PROVE Kept'
    BY DEF IInv
<1> USE Sets DEF Typed, TurnStages, DropStages, Exempt, requestVars, cacheVars, diskVars,
    lockVars, ghosts
<1>0. CASE UNCHANGED vars
    BY <1>0 DEF vars, Cached, Kept, Safe, SavedFrom
<1>1. ASSUME NEW r \in Turns, Hit(r) PROVE Kept'
    BY <1>1 DEF Hit, Kept, Safe, SavedFrom, Cached
<1>2. ASSUME NEW r \in Turns, MakeRoom(r) PROVE Kept'
    BY <1>2 DEF MakeRoom, Kept, Safe, SavedFrom, Cached
<1>3. ASSUME NEW r \in Turns, Load(r) PROVE Kept'
  <2>1. /\ \A k \in Cached : entries[k] # r
        /\ \A q \in Turns : pc[q] \in {"turn", "flush"} => holds[q] # r
        /\ memory' = [memory EXCEPT ![r] = file[conv[r]]] /\ DOMAIN memory = Turns
        /\ pc' = [pc EXCEPT ![r] = "register"]
        /\ UNCHANGED <<conv, holds, entries, file, writes, orphaned, overlapped, dropped>>
      BY <1>3 DEF Load, Homes, Loaded, Stored
  <2> SUFFICES ASSUME NEW q \in Turns, conv'[q] \notin Exempt', q \notin orphaned'
               PROVE  Safe(q)'
      BY DEF Kept
  <2>2. CASE q = r
      BY <2>1, <2>2 DEF Safe
  <2>3. CASE q # r
    <3>1. Safe(q) /\ pc'[q] = pc[q] /\ (conv[q] \in Conversations \/ pc[q] = "idle")
        BY <2>1, <2>3 DEF Kept
    <3>2. conv[q] \in Cached => memory'[entries[conv[q]]] = memory[entries[conv[q]]]
        BY <2>1 DEF Cached
    <3>3. pc[q] \in {"turn", "flush"} => memory'[holds[q]] = memory[holds[q]]
        BY <2>1 DEF Homes
    <3> QED
        BY <2>1, <3>1, <3>2, <3>3 DEF Safe, SavedFrom, Cached
  <2> QED
      BY <2>2, <2>3
<1>4. ASSUME NEW r \in Turns, Register(r) PROVE Kept'
  <2> SUFFICES ASSUME NEW q \in Turns, conv'[q] \notin Exempt', q \notin orphaned'
               PROVE  Safe(q)'
      BY DEF Kept
  <2>1. /\ UNCHANGED <<conv, memory, file, writes, overlapped, dropped>>
        /\ q \notin orphaned /\ conv[r] \in Conversations /\ pc[r] = "register"
        /\ pc'[r] = "turn" /\ holds'[r] = r /\ entries'[conv[r]] = r
        /\ \A c \in Conversations : c # conv[r] => entries'[c] = entries[c]
        /\ q # r => pc'[q] = pc[q] /\ holds'[q] = holds[q]
      BY <1>4 DEF Register
  <2>2. CASE q = r
      BY <2>1, <2>2 DEF Safe, Cached
  <2>3. CASE q # r /\ conv[q] = conv[r]
    <3>1. Safe(q) /\ pc[q] \in {"idle", "done"}
        BY <2>1, <2>3 DEF Kept, Alone, Active
    <3>2. memory[r] = file[conv[r]] /\ writes[conv[r]] = <<>>
        BY <2>1, <2>3 DEF Fresh
    <3> QED
        BY <2>1, <2>3, <3>1, <3>2 DEF Safe, SavedFrom
  <2>4. CASE conv[q] # conv[r]
    <3>1. Safe(q) /\ (conv[q] \in Conversations \/ pc[q] = "idle") /\ q # r
        BY <2>1, <2>4 DEF Kept
    <3> QED
        BY <2>1, <2>4, <3>1 DEF Safe, SavedFrom, Cached
  <2> QED
      BY <2>2, <2>3, <2>4
<1>5. ASSUME NEW r \in Turns, Turn(r) PROVE Kept'
  <2> SUFFICES ASSUME NEW q \in Turns, conv'[q] \notin Exempt', q \notin orphaned'
               PROVE  Safe(q)'
      BY DEF Kept
  <2>0. holds[r] \in Turns
      BY <1>5 DEF Turn, Homes
  <2>1. /\ memory' = [memory EXCEPT ![holds[r]] = Append(memory[holds[r]], r)]
        /\ UNCHANGED <<conv, holds, entries, file, writes, orphaned, overlapped, dropped>>
        /\ pc[r] = "turn" /\ pc'[r] = "flush" /\ (q # r => pc'[q] = pc[q])
      BY <1>5, <2>0 DEF Turn
  <2>2. memory[holds[r]] \in Seq(Turns) /\ DOMAIN memory = Turns
      BY <2>0 DEF Stored
  <2>3. /\ memory'[holds[r]] = Append(memory[holds[r]], r)
        /\ \A s \in Turns : s # holds[r] => memory'[s] = memory[s]
      BY <2>0, <2>1, <2>2
  <2>4. /\ Contains(memory'[holds[r]], r)
        /\ \A s \in Turns : Contains(memory[s], q) => Contains(memory'[s], q)
    <3>1. /\ Contains(Append(memory[holds[r]], r), r)
          /\ \A x \in Turns : Contains(memory[holds[r]], x)
                             => Contains(Append(memory[holds[r]], r), x)
        BY <2>2, Histories
    <3> QED
        BY <2>3, <3>1
  <2>5. Safe(q)
      BY <2>1 DEF Kept
  <2>6. /\ \A c \in Cached : entries[c] \in Turns
        /\ pc[q] \in {"turn", "flush"} => holds[q] \in Turns
      BY DEF Cached, Homes
  <2>7. \A c \in Conversations, n \in Nat : SavedFrom(q, c, n) => SavedFrom(q, c, n)'
      BY <2>1, <2>4, <2>6 DEF SavedFrom, Cached
  <2>8. conv[q] \in Conversations \/ pc[q] = "idle"
      OBVIOUS
  <2>9. \A n \in DOMAIN writes[conv[q]] : conv[q] \in Conversations => n \in Nat
      BY DEF Stored
  <2>10. CASE q = r
      BY <2>1, <2>4, <2>5, <2>10 DEF Safe, Cached
  <2>11. CASE q # r
      BY <2>1, <2>4, <2>5, <2>6, <2>7, <2>8, <2>9, <2>11 DEF Safe, Cached
  <2> QED
      BY <2>10, <2>11
<1>6. ASSUME NEW r \in Turns, Flush(r) PROVE Kept'
  <2>1. CASE Skips(r)
      BY <2>1 DEF Skips, Resting, Moves, Kept, Safe, SavedFrom, Cached
  <2>2. ASSUME NEW w \in Saves, NEW n \in Nat, Queues(r, w, n) PROVE Kept'
    <3> SUFFICES ASSUME NEW q \in Turns, conv'[q] \notin Exempt', q \notin orphaned'
                 PROVE  Safe(q)'
        BY DEF Kept
    <3>1. /\ UNCHANGED <<conv, holds, entries, file, memory, orphaned, overlapped, dropped>>
          /\ conv[r] \in Conversations /\ conv[r] \in Cached /\ w.history = memory[entries[conv[r]]]
          /\ Joined(conv[r], w, n)
        BY <2>2 DEF Queues, Resting, Cached
    <3>2. Safe(q) /\ (conv[q] \in Conversations \/ pc[q] = "idle")
        BY <3>1 DEF Kept
    <3>3. CASE conv[q] # conv[r]
      <4>1. pc'[q] = pc[q] /\ (pc[q] # "idle" => writes'[conv[q]] = writes[conv[q]])
          BY <2>2, <3>1, <3>2, <3>3 DEF Queues, Joined, Moves
      <4> QED
          BY <3>1, <3>2, <4>1 DEF Safe, SavedFrom, Cached
    <3>4. CASE conv[q] = conv[r] /\ q # r
      <4>1. pc'[q] = pc[q]
          BY <2>2, <3>4 DEF Queues, Moves
      <4>2. CASE pc[q] = "write"
        <5>1. PICK m \in DOMAIN writes[conv[q]] : /\ writes[conv[q]][m].by = q
                                                  /\ ~writes[conv[q]][m].evict
                                                  /\ SavedFrom(q, conv[q], m)
            BY <3>2, <4>2 DEF Safe
        <5>2. /\ m \in Nat /\ m \in DOMAIN writes'[conv[q]]
              /\ writes'[conv[q]][m] = writes[conv[q]][m]
            BY <3>1, <3>4, <5>1 DEF Joined
        <5>3. SavedFrom(q, conv[q], m)'
            BY <3>1, <3>4, <5>1, <5>2, SavesJoined DEF SavedFrom, Cached
        <5> QED
            BY <3>1, <4>1, <4>2, <5>1, <5>2, <5>3 DEF Safe
      <4>3. CASE pc[q] \in {"index", "done"}
        <5>1. SavedFrom(q, conv[q], 1)'
            BY <3>1, <3>2, <3>4, <4>3, SavesJoined DEF Safe, SavedFrom, Cached
        <5> QED
            BY <3>1, <3>2, <4>1, <4>3, <5>1 DEF Safe
      <4>4. CASE pc[q] \notin {"write", "index", "done"}
          BY <3>1, <3>2, <4>1, <4>4 DEF Safe, Cached
      <4> QED
          BY <4>2, <4>3, <4>4
    <3>5. CASE q = r
      <4>1. Contains(w.history, r)
          BY <2>2, <3>1, <3>2, <3>5 DEF Queues, Safe
      <4>2. /\ n \in DOMAIN writes'[conv[r]] /\ writes'[conv[r]][n] = w
            /\ w.by = r /\ ~w.evict /\ pc'[r] = "write"
            /\ \A i \in DOMAIN writes'[conv[r]] : i >= n => i = n
          BY <2>2 DEF Queues, Joined, Moves
      <4>3. SavedFrom(r, conv[r], n)'
          BY <3>1, <4>1, <4>2 DEF SavedFrom, Cached
      <4> QED
          BY <3>1, <3>5, <4>2, <4>3 DEF Safe
    <3> QED
        BY <3>3, <3>4, <3>5
  <2> QED
      BY <1>6, <2>1, <2>2, FlushEffect
<1>7. ASSUME NEW r \in Turns, ListTurn(r) PROVE Kept'
    BY <1>7 DEF ListTurn, Kept, Safe, SavedFrom, Cached
<1>8. ASSUME NEW r \in Turns, NEW k \in Conversations, LockEntry(r, k) PROVE Kept'
  <2>1. CASE GivesUp(r, k)
      BY <2>1 DEF GivesUp, Resting, Kept, Safe, SavedFrom, Cached
  <2>2. ASSUME NEW w \in Saves, NEW n \in Nat, Evicts(r, k, w, n) PROVE Kept'
    <3> SUFFICES ASSUME NEW q \in Turns, conv'[q] \notin Exempt', q \notin orphaned'
                 PROVE  Safe(q)'
        BY DEF Kept
    <3>1. /\ UNCHANGED <<conv, holds, entries, file, memory, orphaned, overlapped, dropped>>
          /\ k \in Conversations /\ k \in Cached /\ w.history = memory[entries[k]]
          /\ Joined(k, w, n)
        BY <2>2 DEF Evicts, Resting, Cached
    <3>2. Safe(q) /\ (conv[q] \in Conversations \/ pc[q] = "idle")
        BY <3>1 DEF Kept
    <3>3. CASE conv[q] # k
      <4>1. pc'[q] = pc[q] /\ (pc[q] # "idle" => writes'[conv[q]] = writes[conv[q]])
          BY <2>2, <3>1, <3>2, <3>3 DEF Evicts, Joined
      <4> QED
          BY <3>1, <3>2, <4>1 DEF Safe, SavedFrom, Cached
    <3>4. CASE conv[q] = k
      <4>1. pc'[q] = pc[q]
          BY <2>2, <3>4 DEF Evicts
      <4>2. CASE pc[q] = "write"
        <5>1. PICK m \in DOMAIN writes[conv[q]] : /\ writes[conv[q]][m].by = q
                                                  /\ ~writes[conv[q]][m].evict
                                                  /\ SavedFrom(q, conv[q], m)
            BY <3>2, <4>2 DEF Safe
        <5>2. /\ m \in Nat /\ m \in DOMAIN writes'[conv[q]]
              /\ writes'[conv[q]][m] = writes[conv[q]][m]
            BY <3>1, <3>4, <5>1 DEF Joined
        <5>3. SavedFrom(q, conv[q], m)'
            BY <3>1, <3>4, <5>1, <5>2, SavesJoined DEF SavedFrom, Cached
        <5> QED
            BY <3>1, <4>1, <4>2, <5>1, <5>2, <5>3 DEF Safe
      <4>3. CASE pc[q] \in {"index", "done"}
        <5>1. SavedFrom(q, conv[q], 1)'
            BY <3>1, <3>2, <3>4, <4>3, SavesJoined DEF Safe, SavedFrom, Cached
        <5> QED
            BY <3>1, <3>2, <4>1, <4>3, <5>1 DEF Safe
      <4>4. CASE pc[q] \notin {"write", "index", "done"}
          BY <3>1, <3>2, <4>1, <4>4 DEF Safe, Cached
      <4> QED
          BY <4>2, <4>3, <4>4
    <3> QED
        BY <3>3, <3>4
  <2> QED
      BY <1>8, <2>1, <2>2, LockEffect
<1>9. ASSUME NEW r \in Turns, NEW k \in Conversations, RemoveEntry(r, k) PROVE Kept'
  <2> SUFFICES ASSUME NEW q \in Turns, conv'[q] \notin Exempt', q \notin orphaned'
               PROVE  Safe(q)'
      BY DEF Kept
  <2>1. /\ UNCHANGED <<pc, conv, holds, memory, file, writes, overlapped, dropped>>
        /\ q \notin orphaned /\ entries'[k] = None
        /\ entries[k] # None => q \notin Users(entries[k])
        /\ \A c \in Conversations : c # k => entries'[c] = entries[c]
      BY <1>9 DEF RemoveEntry, Forget
  <2>2. Safe(q) /\ (conv[q] \in Conversations \/ pc[q] = "idle")
      BY <2>1 DEF Kept
  <2>3. CASE conv[q] = k
      BY <2>1, <2>2, <2>3 DEF Safe, SavedFrom, Cached, Users
  <2>4. CASE conv[q] # k
      BY <2>1, <2>2, <2>4 DEF Safe, SavedFrom, Cached
  <2> QED
      BY <2>3, <2>4
<1>10. ASSUME NEW k \in Conversations, WriteFile(k) PROVE Kept'
  <2>1. ASSUME NEW w \in Saves, EvictionApplied(k, w) PROVE Kept'
    <3> SUFFICES ASSUME NEW q \in Turns, conv'[q] \notin Exempt', q \notin orphaned'
                 PROVE  Safe(q)'
        BY DEF Kept
    <3>1. /\ UNCHANGED <<conv, holds, entries, memory, orphaned, overlapped, dropped>>
          /\ Left(k) /\ w = writes[k][1] /\ file'[k] = w.history
          /\ \A c \in Conversations : c # k => file'[c] = file[c] /\ writes'[c] = writes[c]
          /\ pc'[q] = pc[q]
        BY <2>1 DEF EvictionApplied, Applied, Resting, Left, Stored
    <3>2. Safe(q) /\ (conv[q] \in Conversations \/ pc[q] = "idle")
        BY <3>1 DEF Kept
    <3>3. CASE conv[q] # k
      <4>1. pc'[q] = pc[q]
          BY <2>1, <3>1, <3>3 DEF EvictionApplied
      <4> QED
          BY <3>1, <3>2, <3>3, <4>1 DEF Safe, SavedFrom, Cached
    <3>4. CASE conv[q] = k /\ pc[q] = "write"
      <4>1. PICK m \in DOMAIN writes[k] : /\ writes[k][m].by = q /\ ~writes[k][m].evict
                                          /\ SavedFrom(q, k, m)
          BY <3>2, <3>4 DEF Safe
      <4>2. m \in Nat \ {0} /\ 1 \in DOMAIN writes[k]
          BY <3>1, <4>1 DEF Left
      <4>3. CASE m = 1
          BY <2>1, <3>1, <4>1, <4>3 DEF EvictionApplied
      <4>4. CASE m # 1
        <5>1. pc'[q] = "write"
            BY <2>1, <3>1, <3>4, <4>1, <4>2, <4>4, WaitingType DEF EvictionApplied
        <5>2. /\ m - 1 \in DOMAIN writes'[k] /\ m = (m - 1) + 1
              /\ writes'[k][m - 1] = writes[k][m]
          <6>1. m - 1 \in DOMAIN writes'[k] /\ m = (m - 1) + 1
              BY <3>1, <4>1, <4>2, <4>4 DEF Left
          <6>2. writes'[k][m - 1] = writes[k][(m - 1) + 1]
              BY <3>1, <6>1 DEF Left
          <6> QED
              BY <6>1, <6>2
        <5>3. SavedFrom(q, k, m - 1)'
            BY <3>1, <4>1, <4>2, SavesLeft DEF SavedFrom, Cached
        <5> QED
            BY <3>1, <3>4, <4>1, <5>1, <5>2, <5>3 DEF Safe
      <4> QED
          BY <4>3, <4>4
    <3>5. CASE conv[q] = k /\ pc[q] \in {"index", "done"}
      <4>1. pc'[q] = pc[q]
          BY <2>1, <3>1, <3>5 DEF EvictionApplied
      <4>2. SavedFrom(q, k, 1)
          BY <3>2, <3>5 DEF Safe
      <4>3. Contains(w.history, q)
          BY <3>1, <4>2, SavesLeft
      <4>4. SavedFrom(q, k, 1)'
          BY <3>1, <4>2, SavesLeft DEF SavedFrom, Cached
      <4> QED
          BY <3>1, <3>5, <4>1, <4>3, <4>4 DEF Safe
    <3>6. CASE conv[q] = k /\ pc[q] \notin {"write", "index", "done"}
      <4>1. pc'[q] = pc[q]
          BY <2>1, <3>1, <3>6 DEF EvictionApplied
      <4> QED
          BY <3>1, <3>2, <3>6, <4>1 DEF Safe, Cached
    <3> QED
        BY <3>3, <3>4, <3>5, <3>6
  <2>2. ASSUME NEW w \in Saves, TurnApplied(k, w) PROVE Kept'
    <3> SUFFICES ASSUME NEW q \in Turns, conv'[q] \notin Exempt', q \notin orphaned'
                 PROVE  Safe(q)'
        BY DEF Kept
    <3>1. /\ UNCHANGED <<conv, holds, entries, memory, orphaned, overlapped, dropped>>
          /\ Left(k) /\ w = writes[k][1] /\ file'[k] = w.history
          /\ \A c \in Conversations : c # k => file'[c] = file[c] /\ writes'[c] = writes[c]
          /\ w.by # q => pc'[q] = pc[q]
        BY <2>2 DEF TurnApplied, Applied, Resting, Left, Stored, Moves
    <3>2. Safe(q) /\ (conv[q] \in Conversations \/ pc[q] = "idle")
        BY <3>1 DEF Kept
    <3>3. CASE conv[q] # k
      <4>1. pc'[q] = pc[q]
          BY <2>2, <3>1, <3>3 DEF TurnApplied
      <4> QED
          BY <3>1, <3>2, <3>3, <4>1 DEF Safe, SavedFrom, Cached
    <3>4. CASE conv[q] = k /\ pc[q] = "write"
      <4>1. PICK m \in DOMAIN writes[k] : /\ writes[k][m].by = q /\ ~writes[k][m].evict
                                          /\ SavedFrom(q, k, m)
          BY <3>2, <3>4 DEF Safe
      <4>2. m \in Nat \ {0} /\ 1 \in DOMAIN writes[k]
          BY <3>1, <4>1 DEF Left
      <4>3. CASE m = 1
        <5>1. pc'[q] = "index" /\ Contains(w.history, q)
            BY <2>2, <3>1, <4>1, <4>2, <4>3, SavesLeft DEF TurnApplied, Moves
        <5>2. SavedFrom(q, k, 1)'
            BY <3>1, <4>1, <4>2, <4>3, SavesLeft DEF SavedFrom, Cached
        <5> QED
            BY <3>1, <3>4, <5>1, <5>2 DEF Safe
      <4>4. CASE m # 1
        <5>1. pc'[q] = "write"
            BY SMTT(30), <2>2, <3>1, <3>4, <4>1, <4>2, <4>4, WaitingType
              DEF TurnApplied, Distinct, Moves
        <5>2. /\ m - 1 \in DOMAIN writes'[k] /\ m = (m - 1) + 1
              /\ writes'[k][m - 1] = writes[k][m]
          <6>1. m - 1 \in DOMAIN writes'[k] /\ m = (m - 1) + 1
              BY <3>1, <4>1, <4>2, <4>4 DEF Left
          <6>2. writes'[k][m - 1] = writes[k][(m - 1) + 1]
              BY <3>1, <6>1 DEF Left
          <6> QED
              BY <6>1, <6>2
        <5>3. SavedFrom(q, k, m - 1)'
            BY <3>1, <4>1, <4>2, SavesLeft DEF SavedFrom, Cached
        <5> QED
            BY <3>1, <3>4, <4>1, <5>1, <5>2, <5>3 DEF Safe
      <4> QED
          BY <4>3, <4>4
    <3>5. CASE conv[q] = k /\ pc[q] \in {"index", "done"}
      <4>1. pc'[q] = pc[q]
          BY <2>2, <3>1, <3>5 DEF TurnApplied
      <4>2. SavedFrom(q, k, 1)
          BY <3>2, <3>5 DEF Safe
      <4>3. Contains(w.history, q)
          BY <3>1, <4>2, SavesLeft
      <4>4. SavedFrom(q, k, 1)'
          BY <3>1, <4>2, SavesLeft DEF SavedFrom, Cached
      <4> QED
          BY <3>1, <3>5, <4>1, <4>3, <4>4 DEF Safe
    <3>6. CASE conv[q] = k /\ pc[q] \notin {"write", "index", "done"}
      <4>1. pc'[q] = pc[q]
          BY <2>2, <3>1, <3>6 DEF TurnApplied
      <4> QED
          BY <3>1, <3>2, <3>6, <4>1 DEF Safe, Cached
    <3> QED
        BY <3>3, <3>4, <3>5, <3>6
  <2> QED
      BY <1>10, <2>1, <2>2, WriteEffect
<1>11. ASSUME NEW d \in Drops, Unlink(d) PROVE Kept'
  <2> SUFFICES ASSUME NEW q \in Turns, conv'[q] \notin Exempt', q \notin orphaned'
               PROVE  Safe(q)'
      BY DEF Kept
  <2>1. /\ UNCHANGED <<conv, holds, entries, memory, writes, orphaned, overlapped, dropped>>
        /\ pc'[q] = pc[q] /\ (conv[q] \in Conversations => file'[conv[q]] = file[conv[q]])
      BY <1>11 DEF Unlink, Stored
  <2>2. Safe(q) /\ (conv[q] \in Conversations \/ pc[q] = "idle")
      BY <2>1 DEF Kept
  <2> QED
      BY <2>1, <2>2 DEF Safe, SavedFrom, Cached
<1>12. ASSUME NEW d \in Drops, Unlist(d) PROVE Kept'
    BY <1>12 DEF Unlist, Kept, Safe, SavedFrom, Cached
<1>13. ASSUME NEW r \in Turns, NEW k \in Conversations, Arrive(r, k) PROVE Kept'
    BY <1>13 DEF Arrive, Kept, Safe, SavedFrom, Cached
<1>14. ASSUME NEW d \in Drops, NEW k \in Conversations, Drop(d, k) PROVE Kept'
  <2> SUFFICES ASSUME NEW q \in Turns, conv'[q] \notin Exempt', q \notin orphaned'
               PROVE  Safe(q)'
      BY DEF Kept
  <2>1. /\ UNCHANGED <<holds, memory, file, writes, overlapped>>
        /\ pc'[q] = pc[q] /\ conv'[q] = conv[q] /\ conv[q] # k
        /\ conv[q] \notin Exempt /\ q \notin orphaned
        /\ \A c \in Conversations : c # k => entries'[c] = entries[c]
      BY <1>14 DEF Drop, Forget, diskVars
  <2>2. Safe(q) /\ (conv[q] \in Conversations \/ pc[q] = "idle")
      BY <2>1 DEF Kept
  <2> QED
      BY <2>1, <2>2 DEF Safe, SavedFrom, Cached
<1> QED
    BY <1>0, <1>1, <1>2, <1>3, <1>4, <1>5, <1>6, <1>7, <1>8, <1>9, <1>10, <1>11, <1>12,
        <1>13, <1>14 DEF Next, Steps

-----------------------------------------------------------------------------
LEMMA InitInv == Init => IInv
<1> SUFFICES ASSUME Init PROVE IInv
    OBVIOUS
<1> USE Sets DEF Init, TurnStages, DropStages, EvictStages
<1>1. Typed /\ Locked
    BY DEF Typed, Locked
<1>2. Stored
  <2>1. <<>> \in Seq(Turns) /\ <<>> \in Seq(Saves)
      OBVIOUS
  <2> QED
      BY <2>1 DEF Stored
<1>3. Named
    BY DEF Named
<1>4. Awaited /\ Distinct
    BY DEF Awaited, Distinct
<1>5. Cached = {}
    BY DEF Cached
<1>6. Homes /\ Alone /\ EvictedLast
    BY <1>5 DEF Homes, Alone, Active, EvictedLast
<1>7. Fresh /\ CacheExtendsDisk /\ Kept
    BY <1>5 DEF Fresh, CacheExtendsDisk, Kept, Safe
<1> QED
    BY <1>1, <1>2, <1>3, <1>4, <1>6, <1>7 DEF IInv

\* The inductive invariant holds in every state: all of its parts are kept.
THEOREM Invariance == Spec => []IInv
<1>1. IInv /\ [Next]_vars => IInv'
    BY TypedStep, StoredStep, NamedStep, LockedStep, AwaitedStep, DistinctStep, HomesStep,
       AloneStep, EvictedLastStep, FreshStep, ExtendsStep, KeptStep DEF IInv
<1> QED
    BY InitInv, <1>1, PTL DEF Spec

\* Types, for every number of requests and conversations.
THEOREM TypeCorrect == Spec => []TypeOK
<1>1. IInv => TypeOK
    BY DEF IInv, Typed, Stored, Named, Saves, TypeOK
<1> QED
    BY Invariance, <1>1, PTL

\* Two evictions of one conversation never overlap: whoever saves or removes an
\* entry holds its lock (evictOne, store.ts:686-697).
THEOREM EvictionsAreExclusive == Spec => []EvictionsExclusive
<1>1. IInv => EvictionsExclusive
  <2> SUFFICES ASSUME Locked, NEW k \in Conversations
               PROVE  Cardinality({r \in Turns : evicting[r][k] \in {"write", "index"}}) <= 1
      BY DEF IInv, EvictionsExclusive
  <2> DEFINE E == {r \in Turns : evicting[r][k] \in {"write", "index"}}
  <2>1. E \subseteq {evictLock[k]}
      BY DEF Locked
  <2>2. IsFiniteSet({evictLock[k]}) /\ Cardinality({evictLock[k]}) = 1
      BY FS_Singleton
  <2> HIDE DEF E
  <2>3. Cardinality(E) <= 1
      BY <2>1, <2>2, FS_Subset
  <2> QED
      BY <2>3 DEF E
<1> QED
    BY Invariance, <1>1, PTL

\* A cached session is never behind its file, nor behind a save that waits for
\* it (getOrCreate and evictLRU, store.ts:721-811).
THEOREM CachesExtendDisk == Spec => []CacheExtendsDisk
<1>1. IInv => CacheExtendsDisk
    BY DEF IInv
<1> QED
    BY Invariance, <1>1, PTL

\* A finished request's turn is on the disk, unless its session was lost, its
\* conversation deleted, or loaded by two requests at once.
THEOREM TurnsAreKept == Spec => []FinishedTurnsAreOnDisk
<1>1. IInv => FinishedTurnsAreOnDisk
    BY DEF IInv, FinishedTurnsAreOnDisk, Kept, Safe, Exempt
<1> QED
    BY Invariance, <1>1, PTL
=============================================================================
