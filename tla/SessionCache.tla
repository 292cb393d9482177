---------------------------- MODULE SessionCache ----------------------------
(***************************************************************************)
(* The cache of chat sessions (ScopedChatSessionStore in core/chat/store.ts) *)
(* and the requests of the server that use it.  A request for a turn gets the *)
(* session of its conversation, from the cache or from the disk, appends its *)
(* turn to the session's history and saves the history.  Getting a session   *)
(* first evicts what is stale and, when the cache is full, what was used     *)
(* longest ago; an eviction saves the history before it forgets the session. *)
(*                                                                         *)
(* A turn is the one message of its request, and a session is named by the *)
(* request that loaded it.  Saves of one file are applied in the order of   *)
(* their calls, which is what FileLock shows of withFileLock.  Time is the  *)
(* order of last use: what the TTL finds stale is the oldest part of it.    *)
(***************************************************************************)
EXTENDS Naturals, FiniteSets, SequencesExt

CONSTANTS Conversations,
          Turns,        \* requests that send a message
          Drops,        \* requests that delete a conversation
          MaxEntries,   \* maxEntries of the store
          None          \* no conversation, no session, nobody

ASSUME CacheAssumption ==
    /\ MaxEntries \in Nat \ {0}
    /\ Turns \cap Drops = {}
    /\ None \notin Conversations \cup Turns \cup Drops

Requests == Turns \cup Drops

VARIABLES
    pc,         \* where each request is
    conv,       \* the conversation of each request
    holds,      \* the session a turn was given
    entries,    \* the session cached for each conversation
    older,      \* pairs of cached conversations: the first was used longer ago
    memory,     \* the history of each session
    file,       \* the history in each conversation's .jsonl
    writes,     \* the saves waiting for each file, oldest first
    index,      \* the conversations listed in .index.json
    evicting,   \* how far each request's eviction of each conversation is
    evictLock,  \* who evicts each conversation
    orphaned,   \* history: turns whose session left the cache before their save
    overlapped, \* history: conversations that two requests were loading at once
    dropped     \* history: conversations that were deleted

requestVars == <<pc, conv, holds>>
cacheVars   == <<entries, older>>
diskVars    == <<file, writes, index>>
lockVars    == <<evicting, evictLock>>
ghosts      == <<orphaned, overlapped, dropped>>
vars == <<requestVars, cacheVars, memory, diskVars, lockVars, ghosts>>

TurnStages == {"idle", "expire", "makeRoom", "register", "turn", "flush", "write", "index",
               "done"}
DropStages == {"idle", "unlink", "unlist", "done"}
EvictStages == {"none", "lock", "write", "index"}

Save(r, evict, history) == [by |-> r, evict |-> evict, history |-> history]

TypeOK ==
    /\ pc \in [Requests -> TurnStages \cup DropStages]
    /\ conv \in [Requests -> Conversations \cup {None}]
    /\ holds \in [Turns -> Turns \cup {None}]
    /\ entries \in [Conversations -> Turns \cup {None}]
    /\ older \subseteq Conversations \X Conversations
    /\ memory \in [Turns -> Seq(Turns)]
    /\ file \in [Conversations -> Seq(Turns)]
    /\ writes \in [Conversations ->
                     Seq([by : Turns, evict : BOOLEAN, history : Seq(Turns)])]
    /\ index \subseteq Conversations
    /\ evicting \in [Turns -> [Conversations -> EvictStages]]
    /\ evictLock \in [Conversations -> Turns \cup {None}]
    /\ orphaned \subseteq Turns
    /\ overlapped \subseteq Conversations
    /\ dropped \subseteq Conversations

Init ==
    /\ pc = [r \in Requests |-> "idle"]
    /\ conv = [r \in Requests |-> None]
    /\ holds = [r \in Turns |-> None]
    /\ entries = [k \in Conversations |-> None]
    /\ older = {}
    /\ memory = [r \in Turns |-> <<>>]
    /\ file = [k \in Conversations |-> <<>>]
    /\ writes = [k \in Conversations |-> <<>>]
    /\ index = {}
    /\ evicting = [r \in Turns |-> [k \in Conversations |-> "none"]]
    /\ evictLock = [k \in Conversations |-> None]
    /\ orphaned = {}
    /\ overlapped = {}
    /\ dropped = {}

-----------------------------------------------------------------------------
Cached == {k \in Conversations : entries[k] # None}

\* The turns that were given the session `s` and have not saved yet.
Users(s) == {r \in Turns : holds[r] = s /\ pc[r] \in {"turn", "flush"}}

\* The loads of a conversation, from the overlap guard to the turn.
Loading(k) == {r \in Turns : conv[r] = k /\ pc[r] \in {"expire", "makeRoom", "register"}}

\* The overlap guard: a stream of the conversation is registered.
HasActiveStream(k) == \E r \in Turns : conv[r] = k /\ pc[r] \in {"turn", "flush", "write", "index"}

\* What remains of the order without a conversation, and when it is used now.
Without(k) == {p \in older : k \notin {p[1], p[2]}}
Touched(k) == Without(k) \cup ((Cached \ {k}) \X {k})

\* entries.delete(key), whatever session is there now.
Forget(k) ==
    /\ entries' = [entries EXCEPT ![k] = None]
    /\ older' = Without(k)
    /\ orphaned' = orphaned \cup (IF entries[k] = None THEN {} ELSE Users(entries[k]))

Evicted(r) == \A k \in Conversations : evicting[r][k] = "none"

-----------------------------------------------------------------------------
(* A turn *)

\* The request passes the overlap guard and calls getOrCreate, which starts to
\* evict everything stale at once.  What is older than a stale entry is stale.
Arrive(r, k) ==
    /\ pc[r] = "idle" /\ ~HasActiveStream(k)
    /\ pc' = [pc EXCEPT ![r] = "expire"]
    /\ conv' = [conv EXCEPT ![r] = k]
    /\ \E stale \in SUBSET Cached :
         /\ \A p \in older : p[2] \in stale => p[1] \in stale
         /\ evicting' = [evicting EXCEPT ![r] =
                          [c \in Conversations |-> IF c \in stale THEN "lock" ELSE "none"]]
    /\ overlapped' = IF Loading(k) = {} THEN overlapped ELSE overlapped \cup {k}
    /\ UNCHANGED <<holds, cacheVars, memory, diskVars, evictLock, orphaned, dropped>>

\* The session is cached: it counts as used now, and the turn runs on it.
Hit(r) ==
    /\ pc[r] = "expire" /\ Evicted(r) /\ conv[r] \in Cached
    /\ older' = Touched(conv[r])
    /\ holds' = [holds EXCEPT ![r] = entries[conv[r]]]
    /\ pc' = [pc EXCEPT ![r] = "turn"]
    /\ UNCHANGED <<conv, entries, memory, diskVars, lockVars, ghosts>>

\* It is not, and the cache is full: evictLRU evicts one conversation.
MakeRoom(r) ==
    /\ pc[r] = "expire" /\ Evicted(r) /\ conv[r] \notin Cached
    /\ Cardinality(Cached) >= MaxEntries
    /\ \E oldest \in Cached :
         /\ \A c \in Cached \ {oldest} : <<oldest, c>> \in older
         /\ evicting' = [evicting EXCEPT ![r][oldest] = "lock"]
    /\ pc' = [pc EXCEPT ![r] = "makeRoom"]
    /\ UNCHANGED <<conv, holds, cacheVars, memory, diskVars, evictLock, ghosts>>

\* bug: a session that needed room is registered without its history.
Bug_Load(r) ==
    /\ \/ pc[r] = "expire" /\ conv[r] \notin Cached /\ Cardinality(Cached) < MaxEntries
       \/ pc[r] = "makeRoom"
    /\ Evicted(r)
    /\ memory' = [memory EXCEPT ![r] = IF pc[r] = "makeRoom" THEN <<>> ELSE file[conv[r]]]
    /\ pc' = [pc EXCEPT ![r] = "register"]
    /\ UNCHANGED <<conv, holds, cacheVars, diskVars, lockVars, ghosts>>

\* The history is read from the disk into a new session ...
Load(r) ==
    /\ \/ pc[r] = "expire" /\ conv[r] \notin Cached /\ Cardinality(Cached) < MaxEntries
       \/ pc[r] = "makeRoom"
    /\ Evicted(r)
    /\ memory' = [memory EXCEPT ![r] = file[conv[r]]]
    /\ pc' = [pc EXCEPT ![r] = "register"]
    /\ UNCHANGED <<conv, holds, cacheVars, diskVars, lockVars, ghosts>>

\* ... and the session enters the cache, replacing one that another request
\* may have registered since the look-up.
Register(r) ==
    LET k == conv[r] IN
    /\ pc[r] = "register"
    /\ entries' = [entries EXCEPT ![k] = r]
    /\ older' = Touched(k)
    /\ orphaned' = orphaned \cup (IF entries[k] = None THEN {} ELSE Users(entries[k]))
    /\ holds' = [holds EXCEPT ![r] = r]
    /\ pc' = [pc EXCEPT ![r] = "turn"]
    /\ UNCHANGED <<conv, memory, diskVars, lockVars, overlapped, dropped>>

\* The round ends: its turn is in the history of the session it was given.
Turn(r) ==
    /\ pc[r] = "turn"
    /\ memory' = [memory EXCEPT ![holds[r]] = Append(@, r)]
    /\ pc' = [pc EXCEPT ![r] = "flush"]
    /\ UNCHANGED <<conv, holds, cacheVars, diskVars, lockVars, ghosts>>

\* flush() looks the conversation up again.  Nothing is saved when it is gone.
Flush(r) ==
    LET k == conv[r] IN
    /\ pc[r] = "flush"
    /\ IF k \in Cached
       THEN /\ writes' = [writes EXCEPT ![k] = Append(@, Save(r, FALSE, memory[entries[k]]))]
            /\ pc' = [pc EXCEPT ![r] = "write"]
       ELSE /\ pc' = [pc EXCEPT ![r] = "done"]
            /\ UNCHANGED writes
    /\ UNCHANGED <<conv, holds, cacheVars, memory, file, index, lockVars, ghosts>>

\* The index entry follows the file.
ListTurn(r) ==
    /\ pc[r] = "index"
    /\ index' = index \cup {conv[r]}
    /\ pc' = [pc EXCEPT ![r] = "done"]
    /\ UNCHANGED <<conv, holds, cacheVars, memory, file, writes, lockVars, ghosts>>

-----------------------------------------------------------------------------
(* evictOne *)

\* bug: the early return of evictOne keeps the lock.
Bug_LockEntryKept(r, k) ==
    /\ evicting[r][k] = "lock" /\ evictLock[k] = None
    /\ evictLock' = [evictLock EXCEPT ![k] = r]
    /\ IF k \in Cached
       THEN /\ evicting' = [evicting EXCEPT ![r][k] = "write"]
            /\ writes' = [writes EXCEPT ![k] = Append(@, Save(r, TRUE, memory[entries[k]]))]
       ELSE /\ evicting' = [evicting EXCEPT ![r][k] = "none"]
            /\ UNCHANGED writes
    /\ UNCHANGED <<requestVars, cacheVars, memory, file, index, ghosts>>

\* The lock of the conversation is taken.  If another eviction has removed the
\* entry meanwhile, it is given back; otherwise the history joins the saves.
LockEntry(r, k) ==
    /\ evicting[r][k] = "lock" /\ evictLock[k] = None
    /\ IF k \in Cached
       THEN /\ evictLock' = [evictLock EXCEPT ![k] = r]
            /\ evicting' = [evicting EXCEPT ![r][k] = "write"]
            /\ writes' = [writes EXCEPT ![k] = Append(@, Save(r, TRUE, memory[entries[k]]))]
       ELSE /\ evicting' = [evicting EXCEPT ![r][k] = "none"]
            /\ UNCHANGED <<evictLock, writes>>
    /\ UNCHANGED <<requestVars, cacheVars, memory, file, index, ghosts>>

\* The save is done: the index is updated, and the entry goes.
RemoveEntry(r, k) ==
    /\ evicting[r][k] = "index"
    /\ index' = index \cup {k}
    /\ Forget(k)
    /\ evicting' = [evicting EXCEPT ![r][k] = "none"]
    /\ evictLock' = [evictLock EXCEPT ![k] = None]
    /\ UNCHANGED <<requestVars, memory, file, writes, overlapped, dropped>>

\* bug: the newest save of a file is applied first.
Bug_WriteFile(k) ==
    LET w == Last(writes[k]) IN
    /\ writes[k] # <<>>
    /\ writes' = [writes EXCEPT ![k] = Front(@)]
    /\ file' = [file EXCEPT ![k] = w.history]
    /\ IF w.evict
       THEN /\ evicting' = [evicting EXCEPT ![w.by][k] = "index"]
            /\ UNCHANGED pc
       ELSE /\ pc' = [pc EXCEPT ![w.by] = "index"]
            /\ UNCHANGED evicting
    /\ UNCHANGED <<conv, holds, cacheVars, memory, index, evictLock, ghosts>>

\* The oldest save of a file is applied, and whoever waits for it goes on.
WriteFile(k) ==
    LET w == Head(writes[k]) IN
    /\ writes[k] # <<>>
    /\ writes' = [writes EXCEPT ![k] = Tail(@)]
    /\ file' = [file EXCEPT ![k] = w.history]
    /\ IF w.evict
       THEN /\ evicting' = [evicting EXCEPT ![w.by][k] = "index"]
            /\ UNCHANGED pc
       ELSE /\ pc' = [pc EXCEPT ![w.by] = "index"]
            /\ UNCHANGED evicting
    /\ UNCHANGED <<conv, holds, cacheVars, memory, index, evictLock, ghosts>>

-----------------------------------------------------------------------------
(* drop *)

\* The entry goes at once, then the file, then the line of the index.  Neither
\* the route nor drop() asks whether a turn of the conversation is running.
Drop(d, k) ==
    /\ pc[d] = "idle"
    /\ Forget(k)
    /\ pc' = [pc EXCEPT ![d] = "unlink"]
    /\ conv' = [conv EXCEPT ![d] = k]
    /\ dropped' = dropped \cup {k}
    /\ UNCHANGED <<holds, memory, diskVars, lockVars, overlapped>>

Unlink(d) ==
    /\ pc[d] = "unlink"
    /\ file' = [file EXCEPT ![conv[d]] = <<>>]
    /\ pc' = [pc EXCEPT ![d] = "unlist"]
    /\ UNCHANGED <<conv, holds, cacheVars, memory, writes, index, lockVars, ghosts>>

Unlist(d) ==
    /\ pc[d] = "unlist"
    /\ index' = index \ {conv[d]}
    /\ pc' = [pc EXCEPT ![d] = "done"]
    /\ UNCHANGED <<conv, holds, cacheVars, memory, file, writes, lockVars, ghosts>>

-----------------------------------------------------------------------------
Steps ==
    \/ \E r \in Turns : Hit(r) \/ MakeRoom(r) \/ Load(r) \/ Register(r) \/ Turn(r)
                        \/ Flush(r) \/ ListTurn(r)
    \/ \E r \in Turns, k \in Conversations : LockEntry(r, k) \/ RemoveEntry(r, k)
    \/ \E k \in Conversations : WriteFile(k)
    \/ \E d \in Drops : Unlink(d) \/ Unlist(d)

Next ==
    \/ Steps
    \/ \E r \in Turns, k \in Conversations : Arrive(r, k)
    \/ \E d \in Drops, k \in Conversations : Drop(d, k)

Spec == Init /\ [][Next]_vars

\* Promises resolve and the file system answers; nobody has to send a request.
FairSpec == Spec /\ WF_vars(Steps)

-----------------------------------------------------------------------------
(* Properties *)

\* store.ts:751-757 and the flush of every route: when a request has finished,
\* its turn is on the disk and stays there, whatever was evicted, loaded and
\* saved meanwhile.  The exceptions are the code's: its session left the cache
\* before the save, which flush() passes over in silence, the conversation was
\* deleted, or two requests slipped through the overlap guard and loaded it twice.
FinishedTurnsAreOnDisk ==
    \A r \in Turns :
        pc[r] = "done" /\ conv[r] \notin dropped \cup overlapped /\ r \notin orphaned
        => Contains(file[conv[r]], r)

\* store.ts:686-697: two evictions of one conversation never overlap, so that
\* none deletes the entry while the other is still saving it.
EvictionsExclusive ==
    \A k \in Conversations :
        Cardinality({r \in Turns : evicting[r][k] \in {"write", "index"}}) <= 1

\* store.ts:781-811: a cached session is never behind the disk.  What its file
\* holds, and every save still waiting for that file, is a beginning of the
\* session's history, so the next save adds turns and takes none away.
CacheExtendsDisk ==
    \A k \in Cached \ (dropped \cup overlapped) :
        LET known == memory[entries[k]]
        IN  /\ IsPrefix(file[k], known)
            /\ \A i \in DOMAIN writes[k] : IsPrefix(writes[k][i].history, known)

\* store.ts:721-772: evictions wait for each other and for the disk, and the
\* requests for the evictions; none of them waits for ever.
RequestsFinish == <>[](\A r \in Requests : pc[r] \in {"idle", "done"})
=============================================================================
