------------------------- MODULE Conversation_proofs -------------------------
(***************************************************************************)
(* The questions of a conversation, and the screen of a client of it.      *)
(*                                                                         *)
(* Conversation: the properties hold for any number of messages, answers,  *)
(* annotation edits and questions, and for any number of crashes and       *)
(* failed writes.  They rest on what a stale copy of the sidecar can name: *)
(* a question is in no copy before its asker has recorded it (Unasked,     *)
(* Recording), so a timer is armed before anybody can answer, and every    *)
(* copy, however old, names a question that is on disk (Durable).          *)
(*                                                                         *)
(* ChatClient: a stream finds its own bubbles and its own controller under *)
(* the key it was given, before and after the server names the             *)
(* conversation; ids are minted once, so no other stream can hold the key. *)
(***************************************************************************)
EXTENDS Conversation, ChatClient, FiniteSetTheorems, TLAPS

\* No file, copy or timer knows question a yet.
Fresh(a) ==
    /\ sidecar # a /\ a \notin timers
    /\ \A x \in Processes: loaded[x] # a

\* What nobody has asked is in no history either.
Unasked ==
    \A a \in Asks: asker[a] = NoAsk =>
        Fresh(a) /\ mem[a] = Absent /\ disk[a] = Absent

\* A process that is about to record a question is the one that asked it.
Recording ==
    \A p \in Resolvers: pc[p] \in {"keeping", "recording"} =>
        /\ asking[p] \in Asks
        /\ asker[asking[p]] = p
        /\ Fresh(asking[p])
        /\ mem[asking[p]] # Absent

\* An answer goes on only if it is the one that replaced the placeholder.
Deciding ==
    /\ \A p \in Resolvers: pc[p] \in {"patching", "clearing"} => loaded[p] \in Asks
    /\ \A p \in Answers: pc[p] = "clearing" \/ Accepted(p) =>
          loaded[p] \in Asks /\ mem[loaded[p]] = p

\* A request's question is on disk.
OnDisk(a) == asker[a] \in Requests => disk[a] # Absent

\* Whatever names a request's question, an old copy included, names one on disk.
Durable ==
    /\ \A a \in Asks: disk[a] # Absent => mem[a] # Absent
    /\ sidecar # NoAsk => OnDisk(sidecar)
    /\ \A x \in Processes: loaded[x] # NoAsk => OnDisk(loaded[x])
    /\ \A p \in Requests: pc[p] = "recording" => OnDisk(asking[p])

\* The requests whose stream is open, which the registry counts.
Readers == {p \in Requests: pc[p] \in Streaming}

Counted ==
    /\ IsFiniteSet(Readers)
    /\ streams = Cardinality(Readers)
    /\ steer => streams > 0

IInv == TypeOK /\ Unasked /\ Recording /\ Deciding /\ AnswerDisarmsTimer
          /\ Durable /\ Counted

-----------------------------------------------------------------------------
\* The kinds of processes and of message contents do not overlap.
LEMMA Sets ==
    /\ NoAsk \notin Resolvers /\ NoAsk \notin Asks
    /\ Absent \notin Resolvers /\ Placeholder \notin Resolvers
    /\ Absent # Placeholder
    /\ Resolvers = Requests \cup Asks /\ Requests = Sends \cup Answers
    /\ Sends \cap Answers = {} /\ Requests \cap Asks = {}
    /\ Annotators \cap Resolvers = {} /\ Viewers \cap Resolvers = {}
    /\ Processes = Resolvers \cup Annotators \cup Viewers
    /\ MaxCrashes \in Nat /\ MaxFailures \in Nat
BY ConversationAssumption DEF Resolvers, Requests, Processes, Absent,
    Placeholder

\* Closing a stream leaves a count and a flag of their types.
LEMMA InactiveType ==
    ASSUME TypeOK, NEW p, MarkInactive(p)
    PROVE  streams' \in Nat /\ steer' \in BOOLEAN
<1>1. streams' \in Nat
    BY DEF TypeOK, MarkInactive
<1>2. steer' \in BOOLEAN
    <2>1. CASE p \in Asks
        BY <2>1 DEF TypeOK, MarkInactive
    <2>2. CASE p \notin Asks
        <3>1. steer' = (streams > 1 /\ steer)
            BY <2>2 DEF MarkInactive
        <3> QED BY <3>1
    <2> QED BY <2>1, <2>2
<1> QED BY <1>1, <1>2

\* Every step keeps the variables in their types.
LEMMA TypeStep ==
    ASSUME TypeOK, Recording, [Next]_vars
    PROVE  TypeOK'
<1>1. ASSUME NEW p \in Resolvers, Post(p) PROVE TypeOK'
    BY <1>1, Sets DEF TypeOK, Stages, Post, Goto
<1>2. ASSUME NEW p \in Resolvers, FindOrphan(p) PROVE TypeOK'
    BY <1>2, Sets DEF TypeOK, Stages, FindOrphan, Goto
<1>3. ASSUME NEW p \in Resolvers, NEW claimed \in Asks \cup {NoAsk}, Answer(p, claimed)
      PROVE TypeOK'
    BY <1>3, Sets DEF TypeOK, Stages, Answer, Goto
<1>4. ASSUME NEW a \in Asks, Fire(a) PROVE TypeOK'
    BY <1>4, Sets DEF TypeOK, Stages, Fire, Goto
<1>5. ASSUME NEW p \in Resolvers, CheckPending(p) PROVE TypeOK'
    BY <1>5, Sets DEF TypeOK, Stages, CheckPending, Goto
<1>6. ASSUME NEW p \in Resolvers, Patch(p) PROVE TypeOK'
    BY <1>6, Sets DEF TypeOK, Stages, Patch, Goto, IsWaiting, Patched
<1>7. ASSUME NEW p \in Resolvers, Clear(p) PROVE TypeOK'
    BY <1>7, Sets DEF TypeOK, Stages, Clear, Goto, Disarm, WriteWorks,
        WriteFails
<1>8. ASSUME NEW p \in Resolvers, Drop(p) PROVE TypeOK'
    BY <1>8, Sets DEF TypeOK, Stages, Drop, Goto, WriteWorks, WriteFails
<1>9. ASSUME NEW p \in Resolvers, Start(p) PROVE TypeOK'
    BY <1>9, Sets DEF TypeOK, Stages, Start, Goto, MarkActive
<1>10. ASSUME NEW p \in Resolvers, BadAttachment(p) PROVE TypeOK'
    BY <1>10, Sets DEF TypeOK, Stages, BadAttachment, Goto
<1>11. ASSUME NEW p \in Resolvers, BeginRound(p) PROVE TypeOK'
    BY <1>11, Sets DEF TypeOK, Stages, BeginRound, Goto
<1>12. ASSUME NEW p \in Resolvers, Reply(p) PROVE TypeOK'
    BY <1>12, Sets DEF TypeOK, Stages, Reply, Goto
<1>13. ASSUME NEW p \in Resolvers, NEW a \in Asks, Ask(p, a) PROVE TypeOK'
    BY <1>13, Sets DEF TypeOK, Stages, Ask, Goto
<1>14. ASSUME NEW p \in Resolvers, CallFails(p) PROVE TypeOK'
    <2>1. streams' \in Nat /\ steer' \in BOOLEAN
        BY <1>14, InactiveType DEF CallFails
    <2> QED BY <1>14, <2>1, Sets DEF TypeOK, Stages, CallFails, Goto
<1>15. ASSUME NEW p \in Resolvers, Flush(p) PROVE TypeOK'
    <2>1. streams' \in Nat /\ steer' \in BOOLEAN
        BY <1>15, InactiveType DEF Flush, TypeOK
    <2>2. pc' \in [Processes -> Stages] /\ failures' \in 0..MaxFailures
        BY <1>15, Sets DEF TypeOK, Stages, Flush, Goto, WriteWorks, WriteFails
    <2>3. disk' \in [Asks -> Resolvers \cup {Absent, Placeholder}]
        BY <1>15 DEF TypeOK, Flush
    <2>4. sidecar' \in Asks \cup {NoAsk} /\ timers' \subseteq Asks
          /\ asking' \in [Resolvers -> Asks \cup {NoAsk}]
        BY <1>15 DEF TypeOK, Recording, Flush
    <2> QED BY <1>15, <2>1, <2>2, <2>3, <2>4 DEF TypeOK, Flush
<1>16. ASSUME NEW p \in Resolvers, Keep(p) PROVE TypeOK'
    <2>1. streams' \in Nat /\ steer' \in BOOLEAN
        BY <1>16, InactiveType DEF Keep, TypeOK
    <2>2. pc' \in [Processes -> Stages] /\ failures' \in 0..MaxFailures
        BY <1>16, Sets DEF TypeOK, Stages, Keep, Goto, WriteWorks, WriteFails
    <2>3. disk' \in [Asks -> Resolvers \cup {Absent, Placeholder}]
        BY <1>16 DEF TypeOK, Keep
    <2>4. sidecar' \in Asks \cup {NoAsk} /\ timers' \subseteq Asks
          /\ asking' \in [Resolvers -> Asks \cup {NoAsk}]
        BY <1>16 DEF TypeOK, Recording, Keep
    <2> QED BY <1>16, <2>1, <2>2, <2>3, <2>4 DEF TypeOK, Keep
<1>17. ASSUME NEW p \in Resolvers, Record(p) PROVE TypeOK'
    <2>1. streams' \in Nat /\ steer' \in BOOLEAN
        BY <1>17, InactiveType DEF Record, TypeOK
    <2>2. pc' \in [Processes -> Stages] /\ failures' \in 0..MaxFailures
        BY <1>17, Sets DEF TypeOK, Stages, Record, Goto, WriteWorks,
            WriteFails
    <2>3. disk' \in [Asks -> Resolvers \cup {Absent, Placeholder}]
        BY <1>17 DEF TypeOK, Record
    <2>4. sidecar' \in Asks \cup {NoAsk} /\ timers' \subseteq Asks
          /\ asking' \in [Resolvers -> Asks \cup {NoAsk}]
        BY <1>17 DEF TypeOK, Recording, Record
    <2> QED BY <1>17, <2>1, <2>2, <2>3, <2>4 DEF TypeOK, Record
<1>18. ASSUME Steer PROVE TypeOK'
    BY <1>18, Sets DEF TypeOK, Stages, Steer
<1>19. ASSUME NEW p \in Annotators, ReadNotes(p) PROVE TypeOK'
    BY <1>19, Sets DEF TypeOK, Stages, ReadNotes, Goto
<1>20. ASSUME NEW p \in Annotators, SaveNotes(p) PROVE TypeOK'
    BY <1>20, Sets DEF TypeOK, Stages, SaveNotes, Goto, WriteWorks, WriteFails
<1>21. ASSUME NEW p \in Viewers, SaveView(p) PROVE TypeOK'
    BY <1>21, Sets DEF TypeOK, Stages, SaveView, Goto, WriteWorks, WriteFails
<1>22. ASSUME Crash PROVE TypeOK'
    <2>1. pc' \in [Processes -> Stages]
        BY <1>22 DEF TypeOK, Stages, Crash
    <2>2. crashes' \in 0..MaxCrashes
        BY <1>22, Sets DEF TypeOK, Crash
    <2>3. steer' \in BOOLEAN /\ streams' \in Nat /\ timers' \subseteq Asks
        BY <1>22 DEF Crash
    <2> QED BY <1>22, <2>1, <2>2, <2>3 DEF TypeOK, Crash
<1>23. ASSUME UNCHANGED vars PROVE TypeOK'
    BY <1>23 DEF TypeOK, Stages, vars
<1> QED BY <1>1, <1>2, <1>3, <1>4, <1>5, <1>6, <1>7, <1>8, <1>9, <1>10, <1>11,
    <1>12, <1>13, <1>14, <1>15, <1>16, <1>17, <1>18, <1>19, <1>20, <1>21,
    <1>22, <1>23 DEF Next, Resolve

\* A question that was not asked stays unknown.
LEMMA UnaskedStep ==
    ASSUME TypeOK, Unasked, Recording, [Next]_vars
    PROVE  Unasked'
<1>1. ASSUME NEW p \in Resolvers, Post(p) PROVE Unasked'
    BY <1>1, Sets DEF TypeOK, Unasked, Recording, Fresh, Post, Goto
<1>2. ASSUME NEW p \in Resolvers, FindOrphan(p) PROVE Unasked'
    BY <1>2, Sets DEF TypeOK, Unasked, Recording, Fresh, FindOrphan, Goto
<1>3. ASSUME NEW p \in Resolvers, NEW claimed \in Asks \cup {NoAsk}, Answer(p, claimed)
      PROVE Unasked'
    BY <1>3, Sets DEF TypeOK, Unasked, Recording, Fresh, Answer, Goto
<1>4. ASSUME NEW a \in Asks, Fire(a) PROVE Unasked'
    BY <1>4, Sets DEF TypeOK, Unasked, Recording, Fresh, Fire, Goto
<1>5. ASSUME NEW p \in Resolvers, CheckPending(p) PROVE Unasked'
    BY <1>5, Sets DEF TypeOK, Unasked, Recording, Fresh, CheckPending, Goto
<1>6. ASSUME NEW p \in Resolvers, Patch(p) PROVE Unasked'
    BY <1>6, Sets DEF TypeOK, Unasked, Recording, Fresh, Patch, Goto,
        IsWaiting, Patched
<1>7. ASSUME NEW p \in Resolvers, Clear(p) PROVE Unasked'
    BY <1>7, Sets DEF TypeOK, Unasked, Recording, Fresh, Clear, Goto,
        Disarm, WriteWorks, WriteFails
<1>8. ASSUME NEW p \in Resolvers, Drop(p) PROVE Unasked'
    BY <1>8, Sets DEF TypeOK, Unasked, Recording, Fresh, Drop, Goto,
        WriteWorks, WriteFails
<1>9. ASSUME NEW p \in Resolvers, Start(p) PROVE Unasked'
    BY <1>9, Sets DEF TypeOK, Unasked, Recording, Fresh, Start, Goto,
        MarkActive
<1>10. ASSUME NEW p \in Resolvers, BadAttachment(p) PROVE Unasked'
    BY <1>10, Sets DEF TypeOK, Unasked, Recording, Fresh, BadAttachment, Goto
<1>11. ASSUME NEW p \in Resolvers, BeginRound(p) PROVE Unasked'
    BY <1>11, Sets DEF TypeOK, Unasked, Recording, Fresh, BeginRound, Goto
<1>12. ASSUME NEW p \in Resolvers, Reply(p) PROVE Unasked'
    BY <1>12, Sets DEF TypeOK, Unasked, Recording, Fresh, Reply, Goto
<1>13. ASSUME NEW p \in Resolvers, NEW a \in Asks, Ask(p, a) PROVE Unasked'
    BY <1>13, Sets DEF TypeOK, Unasked, Recording, Fresh, Ask, Goto
<1>14. ASSUME NEW p \in Resolvers, CallFails(p) PROVE Unasked'
    BY <1>14, Sets DEF TypeOK, Unasked, Recording, Fresh, CallFails, Goto,
        MarkInactive
<1>15. ASSUME NEW p \in Resolvers, Flush(p) PROVE Unasked'
    BY <1>15, Sets DEF TypeOK, Unasked, Recording, Fresh, Flush, Goto,
        MarkInactive, WriteWorks, WriteFails
<1>16. ASSUME NEW p \in Resolvers, Keep(p) PROVE Unasked'
    BY <1>16, Sets DEF TypeOK, Unasked, Recording, Fresh, Keep, Goto,
        MarkInactive, WriteWorks, WriteFails
<1>17. ASSUME NEW p \in Resolvers, Record(p) PROVE Unasked'
    BY <1>17, Sets DEF TypeOK, Unasked, Recording, Fresh, Record, Goto,
        MarkInactive, WriteWorks, WriteFails
<1>18. ASSUME Steer PROVE Unasked'
    BY <1>18, Sets DEF TypeOK, Unasked, Recording, Fresh, Steer
<1>19. ASSUME NEW p \in Annotators, ReadNotes(p) PROVE Unasked'
    BY <1>19, Sets DEF TypeOK, Unasked, Recording, Fresh, ReadNotes, Goto
<1>20. ASSUME NEW p \in Annotators, SaveNotes(p) PROVE Unasked'
    BY <1>20, Sets DEF TypeOK, Unasked, Recording, Fresh, SaveNotes, Goto,
        WriteWorks, WriteFails
<1>21. ASSUME NEW p \in Viewers, SaveView(p) PROVE Unasked'
    BY <1>21, Sets DEF TypeOK, Unasked, Recording, Fresh, SaveView, Goto,
        WriteWorks, WriteFails
<1>22. ASSUME Crash PROVE Unasked'
    BY <1>22, Sets DEF TypeOK, Unasked, Recording, Fresh, Crash
<1>23. ASSUME UNCHANGED vars PROVE Unasked'
    BY <1>23 DEF TypeOK, Unasked, Recording, Fresh, vars
<1> QED BY <1>1, <1>2, <1>3, <1>4, <1>5, <1>6, <1>7, <1>8, <1>9, <1>10, <1>11,
    <1>12, <1>13, <1>14, <1>15, <1>16, <1>17, <1>18, <1>19, <1>20, <1>21,
    <1>22, <1>23 DEF Next, Resolve

\* Until it is recorded, a question is known to its asker only.
LEMMA RecordingStep ==
    ASSUME TypeOK, Unasked, Recording, [Next]_vars
    PROVE  Recording'
<1>1. ASSUME NEW p \in Resolvers, Post(p) PROVE Recording'
    BY <1>1, Sets DEF TypeOK, Unasked, Recording, Fresh, Post, Goto
<1>2. ASSUME NEW p \in Resolvers, FindOrphan(p) PROVE Recording'
    BY <1>2, Sets DEF TypeOK, Unasked, Recording, Fresh, FindOrphan, Goto
<1>3. ASSUME NEW p \in Resolvers, NEW claimed \in Asks \cup {NoAsk}, Answer(p, claimed)
      PROVE Recording'
    BY <1>3, Sets DEF TypeOK, Unasked, Recording, Fresh, Answer, Goto
<1>4. ASSUME NEW a \in Asks, Fire(a) PROVE Recording'
    BY <1>4, Sets DEF TypeOK, Unasked, Recording, Fresh, Fire, Goto
<1>5. ASSUME NEW p \in Resolvers, CheckPending(p) PROVE Recording'
    BY <1>5, Sets DEF TypeOK, Unasked, Recording, Fresh, CheckPending, Goto
<1>6. ASSUME NEW p \in Resolvers, Patch(p) PROVE Recording'
    BY <1>6, Sets DEF TypeOK, Unasked, Recording, Fresh, Patch, Goto,
        IsWaiting, Patched
<1>7. ASSUME NEW p \in Resolvers, Clear(p) PROVE Recording'
    BY <1>7, Sets DEF TypeOK, Unasked, Recording, Fresh, Clear, Goto,
        Disarm, WriteWorks, WriteFails
<1>8. ASSUME NEW p \in Resolvers, Drop(p) PROVE Recording'
    BY <1>8, Sets DEF TypeOK, Unasked, Recording, Fresh, Drop, Goto,
        WriteWorks, WriteFails
<1>9. ASSUME NEW p \in Resolvers, Start(p) PROVE Recording'
    BY <1>9, Sets DEF TypeOK, Unasked, Recording, Fresh, Start, Goto,
        MarkActive
<1>10. ASSUME NEW p \in Resolvers, BadAttachment(p) PROVE Recording'
    BY <1>10, Sets DEF TypeOK, Unasked, Recording, Fresh, BadAttachment, Goto
<1>11. ASSUME NEW p \in Resolvers, BeginRound(p) PROVE Recording'
    BY <1>11, Sets DEF TypeOK, Unasked, Recording, Fresh, BeginRound, Goto
<1>12. ASSUME NEW p \in Resolvers, Reply(p) PROVE Recording'
    BY <1>12, Sets DEF TypeOK, Unasked, Recording, Fresh, Reply, Goto
<1>13. ASSUME NEW p \in Resolvers, NEW a \in Asks, Ask(p, a) PROVE Recording'
    BY <1>13, Sets DEF TypeOK, Unasked, Recording, Fresh, Ask, Goto
<1>14. ASSUME NEW p \in Resolvers, CallFails(p) PROVE Recording'
    BY <1>14, Sets DEF TypeOK, Unasked, Recording, Fresh, CallFails, Goto,
        MarkInactive
<1>15. ASSUME NEW p \in Resolvers, Flush(p) PROVE Recording'
    BY <1>15, Sets DEF TypeOK, Unasked, Recording, Fresh, Flush, Goto,
        MarkInactive, WriteWorks, WriteFails
<1>16. ASSUME NEW p \in Resolvers, Keep(p) PROVE Recording'
    BY <1>16, Sets DEF TypeOK, Unasked, Recording, Fresh, Keep, Goto,
        MarkInactive, WriteWorks, WriteFails
<1>17. ASSUME NEW p \in Resolvers, Record(p) PROVE Recording'
    BY <1>17, Sets DEF TypeOK, Unasked, Recording, Fresh, Record, Goto,
        MarkInactive, WriteWorks, WriteFails
<1>18. ASSUME Steer PROVE Recording'
    BY <1>18, Sets DEF TypeOK, Unasked, Recording, Fresh, Steer
<1>19. ASSUME NEW p \in Annotators, ReadNotes(p) PROVE Recording'
    BY <1>19, Sets DEF TypeOK, Unasked, Recording, Fresh, ReadNotes, Goto
<1>20. ASSUME NEW p \in Annotators, SaveNotes(p) PROVE Recording'
    BY <1>20, Sets DEF TypeOK, Unasked, Recording, Fresh, SaveNotes, Goto,
        WriteWorks, WriteFails
<1>21. ASSUME NEW p \in Viewers, SaveView(p) PROVE Recording'
    BY <1>21, Sets DEF TypeOK, Unasked, Recording, Fresh, SaveView, Goto,
        WriteWorks, WriteFails
<1>22. ASSUME Crash PROVE Recording'
    BY <1>22, Sets DEF TypeOK, Unasked, Recording, Fresh, Crash
<1>23. ASSUME UNCHANGED vars PROVE Recording'
    BY <1>23 DEF TypeOK, Unasked, Recording, Fresh, vars
<1> QED BY <1>1, <1>2, <1>3, <1>4, <1>5, <1>6, <1>7, <1>8, <1>9, <1>10, <1>11,
    <1>12, <1>13, <1>14, <1>15, <1>16, <1>17, <1>18, <1>19, <1>20, <1>21,
    <1>22, <1>23 DEF Next, Resolve

\* Nobody replaces the content that an answer wrote.
LEMMA DecidingStep ==
    ASSUME TypeOK, Unasked, Deciding, [Next]_vars
    PROVE  Deciding'
<1>1. ASSUME NEW p \in Resolvers, Post(p) PROVE Deciding'
    BY <1>1, Sets DEF TypeOK, Unasked, Deciding, Accepted, Streaming,
        Post, Goto
<1>2. ASSUME NEW p \in Resolvers, FindOrphan(p) PROVE Deciding'
    BY <1>2, Sets DEF TypeOK, Unasked, Deciding, Accepted, Streaming,
        FindOrphan, Goto
<1>3. ASSUME NEW p \in Resolvers, NEW claimed \in Asks \cup {NoAsk}, Answer(p, claimed)
      PROVE Deciding'
    BY <1>3, Sets DEF TypeOK, Unasked, Deciding, Accepted, Streaming,
        Answer, Goto
<1>4. ASSUME NEW a \in Asks, Fire(a) PROVE Deciding'
    BY <1>4, Sets DEF TypeOK, Unasked, Deciding, Accepted, Streaming,
        Fire, Goto
<1>5. ASSUME NEW p \in Resolvers, CheckPending(p) PROVE Deciding'
    BY <1>5, Sets DEF TypeOK, Unasked, Deciding, Accepted, Streaming,
        CheckPending, Goto
<1>6. ASSUME NEW p \in Resolvers, Patch(p) PROVE Deciding'
    BY <1>6, Sets DEF TypeOK, Unasked, Deciding, Accepted, Streaming,
        Patch, Goto, IsWaiting, Patched
<1>7. ASSUME NEW p \in Resolvers, Clear(p) PROVE Deciding'
    BY <1>7, Sets DEF TypeOK, Unasked, Deciding, Accepted, Streaming,
        Clear, Goto, Disarm, WriteWorks, WriteFails
<1>8. ASSUME NEW p \in Resolvers, Drop(p) PROVE Deciding'
    BY <1>8, Sets DEF TypeOK, Unasked, Deciding, Accepted, Streaming,
        Drop, Goto, WriteWorks, WriteFails
<1>9. ASSUME NEW p \in Resolvers, Start(p) PROVE Deciding'
    BY <1>9, Sets DEF TypeOK, Unasked, Deciding, Accepted, Streaming,
        Start, Goto, MarkActive
<1>10. ASSUME NEW p \in Resolvers, BadAttachment(p) PROVE Deciding'
    BY <1>10, Sets DEF TypeOK, Unasked, Deciding, Accepted, Streaming,
        BadAttachment, Goto
<1>11. ASSUME NEW p \in Resolvers, BeginRound(p) PROVE Deciding'
    BY <1>11, Sets DEF TypeOK, Unasked, Deciding, Accepted, Streaming,
        BeginRound, Goto
<1>12. ASSUME NEW p \in Resolvers, Reply(p) PROVE Deciding'
    BY <1>12, Sets DEF TypeOK, Unasked, Deciding, Accepted, Streaming,
        Reply, Goto
<1>13. ASSUME NEW p \in Resolvers, NEW a \in Asks, Ask(p, a) PROVE Deciding'
    BY <1>13, Sets DEF TypeOK, Unasked, Deciding, Accepted, Streaming,
        Ask, Goto
<1>14. ASSUME NEW p \in Resolvers, CallFails(p) PROVE Deciding'
    BY <1>14, Sets DEF TypeOK, Unasked, Deciding, Accepted, Streaming,
        CallFails, Goto, MarkInactive
<1>15. ASSUME NEW p \in Resolvers, Flush(p) PROVE Deciding'
    BY <1>15, Sets DEF TypeOK, Unasked, Deciding, Accepted, Streaming,
        Flush, Goto, MarkInactive, WriteWorks, WriteFails
<1>16. ASSUME NEW p \in Resolvers, Keep(p) PROVE Deciding'
    BY <1>16, Sets DEF TypeOK, Unasked, Deciding, Accepted, Streaming,
        Keep, Goto, MarkInactive, WriteWorks, WriteFails
<1>17. ASSUME NEW p \in Resolvers, Record(p) PROVE Deciding'
    BY <1>17, Sets DEF TypeOK, Unasked, Deciding, Accepted, Streaming,
        Record, Goto, MarkInactive, WriteWorks, WriteFails
<1>18. ASSUME Steer PROVE Deciding'
    BY <1>18, Sets DEF TypeOK, Unasked, Deciding, Accepted, Streaming, Steer
<1>19. ASSUME NEW p \in Annotators, ReadNotes(p) PROVE Deciding'
    BY <1>19, Sets DEF TypeOK, Unasked, Deciding, Accepted, Streaming,
        ReadNotes, Goto
<1>20. ASSUME NEW p \in Annotators, SaveNotes(p) PROVE Deciding'
    BY <1>20, Sets DEF TypeOK, Unasked, Deciding, Accepted, Streaming,
        SaveNotes, Goto, WriteWorks, WriteFails
<1>21. ASSUME NEW p \in Viewers, SaveView(p) PROVE Deciding'
    BY <1>21, Sets DEF TypeOK, Unasked, Deciding, Accepted, Streaming,
        SaveView, Goto, WriteWorks, WriteFails
<1>22. ASSUME Crash PROVE Deciding'
    BY <1>22, Sets DEF TypeOK, Unasked, Deciding, Accepted, Streaming, Crash
<1>23. ASSUME UNCHANGED vars PROVE Deciding'
    BY <1>23 DEF TypeOK, Unasked, Deciding, Accepted, Streaming, vars
<1> QED BY <1>1, <1>2, <1>3, <1>4, <1>5, <1>6, <1>7, <1>8, <1>9, <1>10, <1>11,
    <1>12, <1>13, <1>14, <1>15, <1>16, <1>17, <1>18, <1>19, <1>20, <1>21,
    <1>22, <1>23 DEF Next, Resolve

\* No timer is armed again for an answered question.
LEMMA DisarmStep ==
    ASSUME TypeOK, Unasked, Recording, Deciding, AnswerDisarmsTimer, [Next]_vars
    PROVE  AnswerDisarmsTimer'
<1>1. ASSUME NEW p \in Resolvers, Post(p) PROVE AnswerDisarmsTimer'
    BY <1>1, Sets DEF TypeOK, Unasked, Recording, Deciding, Accepted,
        Streaming, AnswerDisarmsTimer, Fresh, Post, Goto
<1>2. ASSUME NEW p \in Resolvers, FindOrphan(p) PROVE AnswerDisarmsTimer'
    BY <1>2, Sets DEF TypeOK, Unasked, Recording, Deciding, Accepted,
        Streaming, AnswerDisarmsTimer, Fresh, FindOrphan, Goto
<1>3. ASSUME NEW p \in Resolvers, NEW claimed \in Asks \cup {NoAsk}, Answer(p, claimed)
      PROVE AnswerDisarmsTimer'
    BY <1>3, Sets DEF TypeOK, Unasked, Recording, Deciding, Accepted,
        Streaming, AnswerDisarmsTimer, Fresh, Answer, Goto
<1>4. ASSUME NEW a \in Asks, Fire(a) PROVE AnswerDisarmsTimer'
    BY <1>4, Sets DEF TypeOK, Unasked, Recording, Deciding, Accepted,
        Streaming, AnswerDisarmsTimer, Fresh, Fire, Goto
<1>5. ASSUME NEW p \in Resolvers, CheckPending(p) PROVE AnswerDisarmsTimer'
    BY <1>5, Sets DEF TypeOK, Unasked, Recording, Deciding, Accepted,
        Streaming, AnswerDisarmsTimer, Fresh, CheckPending, Goto
<1>6. ASSUME NEW p \in Resolvers, Patch(p) PROVE AnswerDisarmsTimer'
    BY <1>6, Sets DEF TypeOK, Unasked, Recording, Deciding, Accepted,
        Streaming, AnswerDisarmsTimer, Fresh, Patch, Goto, IsWaiting,
        Patched
<1>7. ASSUME NEW p \in Resolvers, Clear(p) PROVE AnswerDisarmsTimer'
    BY <1>7, Sets DEF TypeOK, Unasked, Recording, Deciding, Accepted,
        Streaming, AnswerDisarmsTimer, Fresh, Clear, Goto, Disarm,
        WriteWorks, WriteFails
<1>8. ASSUME NEW p \in Resolvers, Drop(p) PROVE AnswerDisarmsTimer'
    BY <1>8, Sets DEF TypeOK, Unasked, Recording, Deciding, Accepted,
        Streaming, AnswerDisarmsTimer, Fresh, Drop, Goto, WriteWorks,
        WriteFails
<1>9. ASSUME NEW p \in Resolvers, Start(p) PROVE AnswerDisarmsTimer'
    BY <1>9, Sets DEF TypeOK, Unasked, Recording, Deciding, Accepted,
        Streaming, AnswerDisarmsTimer, Fresh, Start, Goto, MarkActive
<1>10. ASSUME NEW p \in Resolvers, BadAttachment(p) PROVE AnswerDisarmsTimer'
    BY <1>10, Sets DEF TypeOK, Unasked, Recording, Deciding, Accepted,
        Streaming, AnswerDisarmsTimer, Fresh, BadAttachment, Goto
<1>11. ASSUME NEW p \in Resolvers, BeginRound(p) PROVE AnswerDisarmsTimer'
    BY <1>11, Sets DEF TypeOK, Unasked, Recording, Deciding, Accepted,
        Streaming, AnswerDisarmsTimer, Fresh, BeginRound, Goto
<1>12. ASSUME NEW p \in Resolvers, Reply(p) PROVE AnswerDisarmsTimer'
    BY <1>12, Sets DEF TypeOK, Unasked, Recording, Deciding, Accepted,
        Streaming, AnswerDisarmsTimer, Fresh, Reply, Goto
<1>13. ASSUME NEW p \in Resolvers, NEW a \in Asks, Ask(p, a)
      PROVE AnswerDisarmsTimer'
    BY <1>13, Sets DEF TypeOK, Unasked, Recording, Deciding, Accepted,
        Streaming, AnswerDisarmsTimer, Fresh, Ask, Goto
<1>14. ASSUME NEW p \in Resolvers, CallFails(p) PROVE AnswerDisarmsTimer'
    BY <1>14, Sets DEF TypeOK, Unasked, Recording, Deciding, Accepted,
        Streaming, AnswerDisarmsTimer, Fresh, CallFails, Goto,
        MarkInactive
<1>15. ASSUME NEW p \in Resolvers, Flush(p) PROVE AnswerDisarmsTimer'
    BY <1>15, Sets DEF TypeOK, Unasked, Recording, Deciding, Accepted,
        Streaming, AnswerDisarmsTimer, Fresh, Flush, Goto, MarkInactive,
        WriteWorks, WriteFails
<1>16. ASSUME NEW p \in Resolvers, Keep(p) PROVE AnswerDisarmsTimer'
    BY <1>16, Sets DEF TypeOK, Unasked, Recording, Deciding, Accepted,
        Streaming, AnswerDisarmsTimer, Fresh, Keep, Goto, MarkInactive,
        WriteWorks, WriteFails
<1>17. ASSUME NEW p \in Resolvers, Record(p) PROVE AnswerDisarmsTimer'
    BY <1>17, Sets DEF TypeOK, Unasked, Recording, Deciding, Accepted,
        Streaming, AnswerDisarmsTimer, Fresh, Record, Goto, MarkInactive,
        WriteWorks, WriteFails
<1>18. ASSUME Steer PROVE AnswerDisarmsTimer'
    BY <1>18, Sets DEF TypeOK, Unasked, Recording, Deciding, Accepted,
        Streaming, AnswerDisarmsTimer, Fresh, Steer
<1>19. ASSUME NEW p \in Annotators, ReadNotes(p) PROVE AnswerDisarmsTimer'
    BY <1>19, Sets DEF TypeOK, Unasked, Recording, Deciding, Accepted,
        Streaming, AnswerDisarmsTimer, Fresh, ReadNotes, Goto
<1>20. ASSUME NEW p \in Annotators, SaveNotes(p) PROVE AnswerDisarmsTimer'
    BY <1>20, Sets DEF TypeOK, Unasked, Recording, Deciding, Accepted,
        Streaming, AnswerDisarmsTimer, Fresh, SaveNotes, Goto, WriteWorks,
        WriteFails
<1>21. ASSUME NEW p \in Viewers, SaveView(p) PROVE AnswerDisarmsTimer'
    BY <1>21, Sets DEF TypeOK, Unasked, Recording, Deciding, Accepted,
        Streaming, AnswerDisarmsTimer, Fresh, SaveView, Goto, WriteWorks,
        WriteFails
<1>22. ASSUME Crash PROVE AnswerDisarmsTimer'
    BY <1>22, Sets DEF TypeOK, Unasked, Recording, Deciding, Accepted,
        Streaming, AnswerDisarmsTimer, Fresh, Crash
<1>23. ASSUME UNCHANGED vars PROVE AnswerDisarmsTimer'
    BY <1>23 DEF TypeOK, Unasked, Recording, Deciding, Accepted,
        Streaming, AnswerDisarmsTimer, Fresh, vars
<1> QED BY <1>1, <1>2, <1>3, <1>4, <1>5, <1>6, <1>7, <1>8, <1>9, <1>10, <1>11,
    <1>12, <1>13, <1>14, <1>15, <1>16, <1>17, <1>18, <1>19, <1>20, <1>21,
    <1>22, <1>23 DEF Next, Resolve

\* Old copies keep naming questions that are on disk.
LEMMA DurableStep ==
    ASSUME TypeOK, Unasked, Recording, Durable, [Next]_vars
    PROVE  Durable'
<1>1. ASSUME NEW p \in Resolvers, Post(p) PROVE Durable'
    BY <1>1, Sets DEF TypeOK, Unasked, Recording, Durable, OnDisk, Fresh,
        Post, Goto
<1>2. ASSUME NEW p \in Resolvers, FindOrphan(p) PROVE Durable'
    BY <1>2, Sets DEF TypeOK, Unasked, Recording, Durable, OnDisk, Fresh,
        FindOrphan, Goto
<1>3. ASSUME NEW p \in Resolvers, NEW claimed \in Asks \cup {NoAsk}, Answer(p, claimed)
      PROVE Durable'
    BY <1>3, Sets DEF TypeOK, Unasked, Recording, Durable, OnDisk, Fresh,
        Answer, Goto
<1>4. ASSUME NEW a \in Asks, Fire(a) PROVE Durable'
    BY <1>4, Sets DEF TypeOK, Unasked, Recording, Durable, OnDisk, Fresh,
        Fire, Goto
<1>5. ASSUME NEW p \in Resolvers, CheckPending(p) PROVE Durable'
    BY <1>5, Sets DEF TypeOK, Unasked, Recording, Durable, OnDisk, Fresh,
        CheckPending, Goto
<1>6. ASSUME NEW p \in Resolvers, Patch(p) PROVE Durable'
    BY <1>6, Sets DEF TypeOK, Unasked, Recording, Durable, OnDisk, Fresh,
        Patch, Goto, IsWaiting, Patched
<1>7. ASSUME NEW p \in Resolvers, Clear(p) PROVE Durable'
    BY <1>7, Sets DEF TypeOK, Unasked, Recording, Durable, OnDisk, Fresh,
        Clear, Goto, Disarm, WriteWorks, WriteFails
<1>8. ASSUME NEW p \in Resolvers, Drop(p) PROVE Durable'
    BY <1>8, Sets DEF TypeOK, Unasked, Recording, Durable, OnDisk, Fresh,
        Drop, Goto, WriteWorks, WriteFails
<1>9. ASSUME NEW p \in Resolvers, Start(p) PROVE Durable'
    BY <1>9, Sets DEF TypeOK, Unasked, Recording, Durable, OnDisk, Fresh,
        Start, Goto, MarkActive
<1>10. ASSUME NEW p \in Resolvers, BadAttachment(p) PROVE Durable'
    BY <1>10, Sets DEF TypeOK, Unasked, Recording, Durable, OnDisk, Fresh,
        BadAttachment, Goto
<1>11. ASSUME NEW p \in Resolvers, BeginRound(p) PROVE Durable'
    BY <1>11, Sets DEF TypeOK, Unasked, Recording, Durable, OnDisk, Fresh,
        BeginRound, Goto
<1>12. ASSUME NEW p \in Resolvers, Reply(p) PROVE Durable'
    BY <1>12, Sets DEF TypeOK, Unasked, Recording, Durable, OnDisk, Fresh,
        Reply, Goto
<1>13. ASSUME NEW p \in Resolvers, NEW a \in Asks, Ask(p, a) PROVE Durable'
    BY <1>13, Sets DEF TypeOK, Unasked, Recording, Durable, OnDisk, Fresh,
        Ask, Goto
<1>14. ASSUME NEW p \in Resolvers, CallFails(p) PROVE Durable'
    BY <1>14, Sets DEF TypeOK, Unasked, Recording, Durable, OnDisk, Fresh,
        CallFails, Goto, MarkInactive
<1>15. ASSUME NEW p \in Resolvers, Flush(p) PROVE Durable'
    BY <1>15, Sets DEF TypeOK, Unasked, Recording, Durable, OnDisk, Fresh,
        Flush, Goto, MarkInactive, WriteWorks, WriteFails
<1>16. ASSUME NEW p \in Resolvers, Keep(p) PROVE Durable'
    BY <1>16, Sets DEF TypeOK, Unasked, Recording, Durable, OnDisk, Fresh,
        Keep, Goto, MarkInactive, WriteWorks, WriteFails
<1>17. ASSUME NEW p \in Resolvers, Record(p) PROVE Durable'
    BY <1>17, Sets DEF TypeOK, Unasked, Recording, Durable, OnDisk, Fresh,
        Record, Goto, MarkInactive, WriteWorks, WriteFails
<1>18. ASSUME Steer PROVE Durable'
    BY <1>18, Sets DEF TypeOK, Unasked, Recording, Durable, OnDisk, Fresh,
        Steer
<1>19. ASSUME NEW p \in Annotators, ReadNotes(p) PROVE Durable'
    BY <1>19, Sets DEF TypeOK, Unasked, Recording, Durable, OnDisk, Fresh,
        ReadNotes, Goto
<1>20. ASSUME NEW p \in Annotators, SaveNotes(p) PROVE Durable'
    BY <1>20, Sets DEF TypeOK, Unasked, Recording, Durable, OnDisk, Fresh,
        SaveNotes, Goto, WriteWorks, WriteFails
<1>21. ASSUME NEW p \in Viewers, SaveView(p) PROVE Durable'
    BY <1>21, Sets DEF TypeOK, Unasked, Recording, Durable, OnDisk, Fresh,
        SaveView, Goto, WriteWorks, WriteFails
<1>22. ASSUME Crash PROVE Durable'
    BY <1>22, Sets DEF TypeOK, Unasked, Recording, Durable, OnDisk, Fresh,
        Crash
<1>23. ASSUME UNCHANGED vars PROVE Durable'
    BY <1>23 DEF TypeOK, Unasked, Recording, Durable, OnDisk, Fresh, vars
<1> QED BY <1>1, <1>2, <1>3, <1>4, <1>5, <1>6, <1>7, <1>8, <1>9, <1>10, <1>11,
    <1>12, <1>13, <1>14, <1>15, <1>16, <1>17, <1>18, <1>19, <1>20, <1>21,
    <1>22, <1>23 DEF Next, Resolve
-----------------------------------------------------------------------------
(* The count of the steer registry.                                        *)

\* A process that is no request, or stays on its side of Streaming, changes nothing.
LEMMA ReadersSame ==
    ASSUME TypeOK, NEW p \in Processes, NEW s, Goto(p, s),
           p \in Requests => (pc[p] \in Streaming <=> s \in Streaming)
    PROVE  Readers' = Readers
BY Sets DEF TypeOK, Goto, Readers

LEMMA ReadersAdd ==
    ASSUME TypeOK, NEW p \in Requests, NEW s \in Streaming, Goto(p, s)
    PROVE  Readers' = Readers \cup {p}
BY Sets DEF TypeOK, Goto, Readers

LEMMA ReadersRemove ==
    ASSUME TypeOK, NEW p \in Requests, NEW s, s \notin Streaming, Goto(p, s)
    PROVE  Readers' = Readers \ {p}
BY Sets DEF TypeOK, Goto, Readers

\* Nothing is counted anew when readers, count and steer stay.
LEMMA CountedSame ==
    ASSUME Counted, Readers' = Readers, UNCHANGED streams,
           steer' => steer \/ streams > 0
    PROVE  Counted'
BY DEF Counted

\* A stream that closes was counted, and takes an unread steer with it if it
\* was the last one.
LEMMA CountedClose ==
    ASSUME TypeOK, Counted, NEW p \in Resolvers, pc[p] \in Streaming,
           MarkInactive(p), NEW s, s \notin Streaming \/ p \in Asks, Goto(p, s)
    PROVE  Counted'
<1>1. CASE p \in Asks
    <2>1. Readers' = Readers
        BY <1>1, ReadersSame, Sets
    <2> QED BY <1>1, <2>1, CountedSame DEF MarkInactive
<1>2. CASE p \in Requests
    <2>1. p \notin Asks /\ s \notin Streaming
        BY <1>2, Sets
    <2>2. Readers' = Readers \ {p} /\ p \in Readers
        BY <1>2, <2>1, ReadersRemove DEF Readers
    <2>3. IsFiniteSet(Readers') /\ Cardinality(Readers') = Cardinality(Readers) - 1
        BY <2>2, FS_RemoveElement DEF Counted
    <2>4. Cardinality(Readers) \in Nat /\ Cardinality(Readers) # 0
        BY <2>2, FS_CardinalityType, FS_EmptySet DEF Counted
    <2>5. streams' = IF streams <= 1 THEN 0 ELSE streams - 1
        BY <2>1 DEF MarkInactive
    <2>6. streams = Cardinality(Readers)
        BY DEF Counted
    <2>7. streams' = Cardinality(Readers')
        BY <2>3, <2>4, <2>5, <2>6
    <2>8. steer' => streams > 1
        BY <2>1 DEF MarkInactive
    <2>9. steer' => streams' > 0
        BY <2>4, <2>5, <2>6, <2>8
    <2> QED BY <2>3, <2>7, <2>9 DEF Counted
<1> QED BY <1>1, <1>2, Sets

\* A stream that opens is counted.
LEMMA CountedOpen ==
    ASSUME TypeOK, Counted, NEW p \in Resolvers, Start(p)
    PROVE  Counted'
<1>1. pc[p] = "ready" /\ Goto(p, "probing") /\ MarkActive(p) /\ UNCHANGED steer
    BY DEF Start
<1>2. CASE p \in Asks
    <2>1. Readers' = Readers
        BY <1>1, <1>2, ReadersSame, Sets
    <2> QED BY <1>1, <1>2, <2>1, CountedSame DEF MarkActive
<1>3. CASE p \in Requests
    <2>1. "probing" \in Streaming /\ p \notin Readers /\ p \notin Asks
        BY <1>1, <1>3, Sets DEF Streaming, Readers
    <2>2. Readers' = Readers \cup {p}
        BY <1>1, <1>3, <2>1, ReadersAdd
    <2>3. IsFiniteSet(Readers') /\ Cardinality(Readers') = Cardinality(Readers) + 1
        BY <2>1, <2>2, FS_AddElement DEF Counted
    <2>4. streams' = streams + 1
        BY <1>1, <2>1 DEF MarkActive
    <2> QED BY <1>1, <2>3, <2>4 DEF Counted, TypeOK
<1> QED BY <1>2, <1>3, Sets

\* The registry counts the open streams, and keeps no steer without one.
LEMMA CountedStep ==
    ASSUME TypeOK, Counted, [Next]_vars
    PROVE  Counted'
<1>1. ASSUME NEW p \in Resolvers, Post(p) PROVE Counted'
    <2>1. Readers' = Readers
        BY <1>1, ReadersSame, Sets DEF Post, Streaming
    <2> QED BY <1>1, <2>1, CountedSame DEF Post
<1>2. ASSUME NEW p \in Resolvers, FindOrphan(p) PROVE Counted'
    <2>1. Readers' = Readers
        BY <1>2, ReadersSame, Sets DEF FindOrphan, Streaming
    <2> QED BY <1>2, <2>1, CountedSame DEF FindOrphan
<1>3. ASSUME NEW p \in Resolvers, NEW claimed \in Asks \cup {NoAsk}, Answer(p, claimed)
      PROVE Counted'
    <2>1. Readers' = Readers
        BY <1>3, ReadersSame, Sets DEF Answer, Streaming
    <2> QED BY <1>3, <2>1, CountedSame DEF Answer
<1>4. ASSUME NEW a \in Asks, Fire(a) PROVE Counted'
    <2>1. Readers' = Readers
        BY <1>4, ReadersSame, Sets DEF Fire, Streaming
    <2> QED BY <1>4, <2>1, CountedSame DEF Fire
<1>5. ASSUME NEW p \in Resolvers, CheckPending(p) PROVE Counted'
    <2>1. Readers' = Readers
        BY <1>5, ReadersSame, Sets DEF CheckPending, Streaming
    <2> QED BY <1>5, <2>1, CountedSame DEF CheckPending
<1>6. ASSUME NEW p \in Resolvers, Patch(p) PROVE Counted'
    <2>1. Readers' = Readers
        BY <1>6, ReadersSame, Sets DEF Patch, Streaming
    <2> QED BY <1>6, <2>1, CountedSame DEF Patch
<1>7. ASSUME NEW p \in Resolvers, Clear(p) PROVE Counted'
    <2>1. Readers' = Readers
        BY <1>7, ReadersSame, Sets DEF Clear, Streaming
    <2> QED BY <1>7, <2>1, CountedSame DEF Clear
<1>8. ASSUME NEW p \in Resolvers, Drop(p) PROVE Counted'
    <2>1. Readers' = Readers
        BY <1>8, ReadersSame, Sets DEF Drop, Streaming
    <2> QED BY <1>8, <2>1, CountedSame DEF Drop
<1>9. ASSUME NEW p \in Resolvers, Start(p) PROVE Counted'
    BY <1>9, CountedOpen
<1>10. ASSUME NEW p \in Resolvers, BadAttachment(p) PROVE Counted'
    <2>1. Readers' = Readers
        BY <1>10, ReadersSame, Sets DEF BadAttachment, Streaming
    <2> QED BY <1>10, <2>1, CountedSame DEF BadAttachment
<1>11. ASSUME NEW p \in Resolvers, BeginRound(p) PROVE Counted'
    <2>1. Readers' = Readers
        BY <1>11, ReadersSame, Sets DEF BeginRound, Streaming
    <2> QED BY <1>11, <2>1, CountedSame DEF BeginRound
<1>12. ASSUME NEW p \in Resolvers, Reply(p) PROVE Counted'
    <2>1. Readers' = Readers
        BY <1>12, ReadersSame, Sets DEF Reply, Streaming
    <2> QED BY <1>12, <2>1, CountedSame DEF Reply
<1>13. ASSUME NEW p \in Resolvers, NEW a \in Asks, Ask(p, a) PROVE Counted'
    <2>1. Readers' = Readers
        BY <1>13, ReadersSame, Sets DEF Ask, Streaming
    <2> QED BY <1>13, <2>1, CountedSame DEF Ask
<1>14. ASSUME NEW p \in Resolvers, CallFails(p) PROVE Counted'
    <2>1. pc[p] \in Streaming /\ MarkInactive(p)
          /\ \E s: (s \notin Streaming \/ p \in Asks) /\ Goto(p, s)
        BY <1>14 DEF CallFails, Streaming
    <2> QED BY <2>1, CountedClose
<1>15. ASSUME NEW p \in Resolvers, Flush(p) PROVE Counted'
    <2>1. pc[p] \in Streaming /\ MarkInactive(p)
          /\ \E s: (s \notin Streaming \/ p \in Asks) /\ Goto(p, s)
        BY <1>15 DEF Flush, Streaming
    <2> QED BY <2>1, CountedClose
<1>16. ASSUME NEW p \in Resolvers, Keep(p) PROVE Counted'
    <2>1. CASE MarkInactive(p) /\ Goto(p, "done")
        BY <1>16, <2>1, CountedClose DEF Keep, Streaming
    <2>2. CASE /\ UNCHANGED <<streams, steer>>
               /\ Goto(p, "recording")
        <3>1. Readers' = Readers
            BY <1>16, <2>2, ReadersSame, Sets DEF Keep, Streaming
        <3> QED BY <2>2, <3>1, CountedSame
    <2> QED BY <1>16, <2>1, <2>2 DEF Keep
<1>17. ASSUME NEW p \in Resolvers, Record(p) PROVE Counted'
    <2>1. CASE MarkInactive(p) /\ Goto(p, "done")
        BY <1>17, <2>1, CountedClose DEF Record, Streaming
    <2>2. CASE /\ UNCHANGED <<streams, steer>>
               /\ Goto(p, "flushing")
        <3>1. Readers' = Readers
            BY <1>17, <2>2, ReadersSame, Sets DEF Record, Streaming
        <3> QED BY <2>2, <3>1, CountedSame
    <2> QED BY <1>17, <2>1, <2>2 DEF Record
<1>18. ASSUME Steer PROVE Counted'
    BY <1>18 DEF Steer, Counted, Readers
<1>19. ASSUME NEW p \in Annotators, ReadNotes(p) PROVE Counted'
    <2>1. Readers' = Readers
        BY <1>19, ReadersSame, Sets DEF ReadNotes, Streaming
    <2> QED BY <1>19, <2>1, CountedSame DEF ReadNotes
<1>20. ASSUME NEW p \in Annotators, SaveNotes(p) PROVE Counted'
    <2>1. Readers' = Readers
        BY <1>20, ReadersSame, Sets DEF SaveNotes, Streaming
    <2> QED BY <1>20, <2>1, CountedSame DEF SaveNotes
<1>21. ASSUME NEW p \in Viewers, SaveView(p) PROVE Counted'
    <2>1. Readers' = Readers
        BY <1>21, ReadersSame, Sets DEF SaveView, Streaming
    <2> QED BY <1>21, <2>1, CountedSame DEF SaveView
<1>22. ASSUME Crash PROVE Counted'
    <2>1. Readers' = {}
        BY <1>22, Sets DEF Crash, Readers, Streaming
    <2> QED BY <1>22, <2>1, FS_EmptySet DEF Crash, Counted
<1>23. ASSUME UNCHANGED vars PROVE Counted'
    BY <1>23 DEF Counted, Readers, vars
<1> QED BY <1>1, <1>2, <1>3, <1>4, <1>5, <1>6, <1>7, <1>8, <1>9, <1>10, <1>11,
    <1>12, <1>13, <1>14, <1>15, <1>16, <1>17, <1>18, <1>19, <1>20, <1>21,
    <1>22, <1>23 DEF Next, Resolve
-----------------------------------------------------------------------------
LEMMA InitInv == Init => IInv
<1> SUFFICES ASSUME Init PROVE IInv
    OBVIOUS
<1>1. TypeOK
    <2>1. pc \in [Processes -> Stages]
        BY DEF Init, Stages
    <2>2. /\ mem \in [Asks -> Resolvers \cup {Absent, Placeholder}]
          /\ disk \in [Asks -> Resolvers \cup {Absent, Placeholder}]
        BY DEF Init
    <2>3. crashes \in 0..MaxCrashes /\ failures \in 0..MaxFailures
        BY Sets DEF Init
    <2>4. steer \in BOOLEAN /\ streams \in Nat /\ timers \subseteq Asks
        BY DEF Init
    <2> QED BY <2>1, <2>2, <2>3, <2>4 DEF Init, TypeOK
<1>2. Unasked /\ Recording /\ Deciding /\ Durable
    BY Sets DEF Init, Unasked, Recording, Deciding, Durable, Fresh, OnDisk,
        Accepted, Streaming
<1>3. AnswerDisarmsTimer
    BY DEF Init, AnswerDisarmsTimer
<1>4. Readers = {}
    BY Sets DEF Init, Readers, Streaming
<1>5. Counted
    BY <1>4, FS_EmptySet DEF Init, Counted
<1> QED BY <1>1, <1>2, <1>3, <1>5 DEF IInv

LEMMA StepInv == IInv /\ [Next]_vars => IInv'
BY TypeStep, UnaskedStep, RecordingStep, DecidingStep, DisarmStep,
    DurableStep,
    CountedStep DEF IInv

LEMMA Invariance == Spec => []IInv
BY InitInv, StepInv, PTL DEF Spec

(***************************************************************************)
(* The variables have their types.                                         *)
(***************************************************************************)
THEOREM TypeCorrect == Spec => []TypeOK
<1>1. IInv => TypeOK
    BY DEF IInv
<1> QED BY <1>1, Invariance, PTL

(***************************************************************************)
(* The answer that was accepted is the one in the history.                 *)
(***************************************************************************)
THEOREM AnswersAreKept == Spec => []AcceptedAnswerIsKept
<1>1. IInv => AcceptedAnswerIsKept
    BY DEF IInv, Deciding, AcceptedAnswerIsKept
<1> QED BY <1>1, Invariance, PTL

(***************************************************************************)
(* An accepted answer leaves no timer armed for its question.              *)
(***************************************************************************)
THEOREM AnswersDisarm == Spec => []AnswerDisarmsTimer
<1>1. IInv => AnswerDisarmsTimer
    BY DEF IInv
<1> QED BY <1>1, Invariance, PTL

(***************************************************************************)
(* What the sidecar records for a request can be answered after a restart. *)
(***************************************************************************)
THEOREM RecordedAsksSurvive == Spec => []RecordedAskSurvives
<1>1. IInv => RecordedAskSurvives
    BY DEF IInv, Durable, OnDisk, RecordedAskSurvives
<1> QED BY <1>1, Invariance, PTL

(***************************************************************************)
(* A steer is only kept while a stream is open that will read or drop it.  *)
(***************************************************************************)
THEOREM SteersHaveReaders == Spec => []SteerHasReader
<1>1. ASSUME IInv, steer PROVE \E p \in Requests: pc[p] \in Streaming
    <2>1. Readers # {}
        BY <1>1, FS_EmptySet DEF IInv, Counted
    <2> QED BY <2>1 DEF Readers
<1>2. IInv => SteerHasReader
    BY <1>1 DEF SteerHasReader
<1> QED BY <1>2, Invariance, PTL

(***************************************************************************)
(* A placeholder is replaced once, whoever else had seen it.               *)
(***************************************************************************)
Kept == crashes' = crashes =>
          \A a \in Asks : mem[a] \in Resolvers => mem'[a] = mem[a]

THEOREM FirstAnswerIsFinal == Spec => FirstAnswerWins
<1>1. ASSUME IInv, [Next]_vars PROVE [Kept]_vars
    <2> SUFFICES ASSUME crashes' = crashes, NEW a \in Asks, mem[a] \in Resolvers
                 PROVE  mem'[a] = mem[a]
        BY DEF Kept
    <2>1. CASE UNCHANGED mem
        BY <2>1
    <2>2. ASSUME NEW p \in Resolvers, Patch(p) PROVE mem'[a] = mem[a]
        BY <1>1, <2>2, Sets DEF IInv, TypeOK, Patch, IsWaiting, Patched
    <2>3. ASSUME NEW p \in Resolvers, NEW b \in Asks, Ask(p, b)
          PROVE  mem'[a] = mem[a]
        BY <1>1, <2>3, Sets DEF IInv, TypeOK, Unasked, Ask
    <2>4. ~Crash
        BY <1>1, Sets DEF IInv, TypeOK, Crash
    <2>5. UNCHANGED mem \/ (\E p \in Resolvers: Patch(p) \/ \E b \in Asks: Ask(p, b))
        BY <1>1, <2>4 DEF Next, Resolve, vars, Post, FindOrphan, Answer, Fire,
            CheckPending, Clear, Drop, Start, BadAttachment, BeginRound, Reply,
            CallFails, Flush, Keep, Record, Steer, ReadNotes, SaveNotes, SaveView
    <2> QED BY <2>1, <2>2, <2>3, <2>5
<1> QED BY <1>1, Invariance, PTL DEF Spec, FirstAnswerWins, Kept

-----------------------------------------------------------------------------
(***************************************************************************)
(* The browser.  Four facts about its screen, marks and controllers.       *)
(* Minted: a new conversation is nobody's before its stream's first frame. *)
(* ScreenInv: whenever the channel on screen changes, either its history   *)
(* is being loaded, or the bubbles left there are all its own, or the      *)
(* anomaly is recorded; only the load of the channel on screen is live.    *)
(* MarksInv: a busy mark belongs to a stream or a truncation that removes  *)
(* it at its end; a stream before its first frame has the mark of its      *)
(* target only where it was sent from there.  ControllersInv: what is      *)
(* filed under a conversation is its open stream, and what is filed under  *)
(* PreMint is the one stream before its first frame.                       *)
(***************************************************************************)
StreamPC == {"idle", "preparing", "asked", "open", "ended"}
StreamRecord == [pc: StreamPC, target: Ids \cup {Blank}, conv: Ids \cup {Blank}]

Minted ==
    \A s \in Streams: /\ stream[s].conv = s => stream[s].pc \in {"open", "ended"}
                      /\ stream[s].pc = "open" => stream[s].conv = Id(s)

ScreenInv ==
    /\ \A l \in loads: l.live => l.of = rendered /\ rendered # Blank
    /\ confused \/ (\E l \in loads: l.live) \/ shown \ {Info} \subseteq Own

Marks(s, c) ==
    /\ stream[s].conv = c
    /\ stream[s].pc = "open" \/ (stream[s].pc = "asked" /\ stream[s].target = c)

MarksInv ==
    /\ \A c \in busy: \/ c \in slipped
                      \/ \E s \in Streams: Marks(s, c)
                      \/ \E w \in working: w.of = c /\ w.kind = "truncate"
    /\ preMintBusy => \E s \in Asked: stream[s].target = Blank

ControllersInv ==
    ~crossed =>
        /\ \A s, t \in Asked: s = t
        /\ \A s \in Asked: aborts[PreMint] = s /\ \A o \in Open: stream[o].conv # Id(s)
        /\ \A s \in Open: aborts[stream[s].conv] = s
        /\ \A c \in Ids: aborts[c] # Blank =>
              aborts[c] \in Open /\ stream[aborts[c]].conv = c

ClientInv == ClientTypeOK /\ Minted /\ ScreenInv /\ MarksInv /\ ControllersInv

-----------------------------------------------------------------------------
LEMMA ClientTypes ==
    ASSUME ClientTypeOK
    PROVE  /\ stream \in [Streams -> StreamRecord]
           /\ aborts \in [Ids \cup {PreMint} -> Streams \cup {Blank}]
           /\ rendered \in Known \cup {Blank} /\ selected \in Known \cup {Blank}
           /\ justMinted \in Known \cup {Blank}
           /\ Known \subseteq Ids
           /\ \A s \in Streams: /\ stream[s].target \in Known \cup {Blank}
                                /\ stream[s].conv \in Known \cup {Blank}
                                /\ Id(s) \in Ids
           /\ Streams \subseteq Ids /\ Existing \subseteq Ids
           /\ Blank \notin Ids /\ PreMint \notin Ids /\ PreMint # Blank
           /\ Existing \cap Streams = {}
           /\ shown \subseteq Ids \cup {Info} /\ busy \subseteq Ids /\ moves \in Nat
<1>1. stream \in [Streams -> StreamRecord]
    BY DEF ClientTypeOK, StreamRecord, StreamPC
<1>2. Known \subseteq Ids
    BY DEF Known, Ids
<1>3. /\ Streams \subseteq Ids /\ Existing \subseteq Ids
      /\ Blank \notin Ids /\ PreMint \notin Ids /\ PreMint # Blank
      /\ Existing \cap Streams = {} /\ MaxMoves \in Nat
    BY ChatClientAssumption DEF Ids
<1>4. \A s \in Streams: Id(s) \in Ids
    BY <1>1, <1>3 DEF Id, StreamRecord
<1> QED BY <1>1, <1>2, <1>3, <1>4 DEF ClientTypeOK

\* A stream's record is set, and no other's.
LEMMA StreamToSets ==
    ASSUME ClientTypeOK, NEW s \in Streams, NEW pc1 \in StreamPC,
           NEW target1 \in Ids \cup {Blank}, NEW conv1 \in Ids \cup {Blank},
           StreamTo(s, pc1, target1, conv1)
    PROVE  /\ stream' \in [Streams -> StreamRecord]
           /\ stream'[s].pc = pc1 /\ stream'[s].target = target1 /\ stream'[s].conv = conv1
           /\ \A t \in Streams: t # s => stream'[t] = stream[t]
<1> DEFINE record == [pc |-> pc1, target |-> target1, conv |-> conv1]
<1>1. stream \in [Streams -> StreamRecord] /\ stream' = [stream EXCEPT ![s] = record]
    BY ClientTypes DEF StreamTo
<1>2. record \in StreamRecord /\ record.pc = pc1 /\ record.target = target1 /\ record.conv = conv1
    BY DEF StreamRecord
<1> HIDE DEF record
<1> QED BY <1>1, <1>2

\* What the four kinds of steps of a stream make of the streams.
LEMMA Prepares ==
    ASSUME ClientTypeOK, Minted, NEW s \in Streams, stream[s].pc = "idle",
           StreamTo(s, "preparing", rendered, Blank)
    PROVE  /\ stream' \in [Streams -> StreamRecord]
           /\ stream'[s].pc = "preparing" /\ stream'[s].target = rendered
           /\ stream'[s].conv = Blank
           /\ \A t \in Streams: t # s => stream'[t] = stream[t]
           /\ Known' = Known /\ Asked' = Asked /\ Open' = Open
<1>1. "preparing" \in StreamPC /\ rendered \in Ids \cup {Blank} /\ Blank \in Ids \cup {Blank}
    BY ClientTypes DEF StreamPC
<1>2. /\ stream' \in [Streams -> StreamRecord]
      /\ stream'[s].pc = "preparing" /\ stream'[s].target = rendered
      /\ stream'[s].conv = Blank
      /\ \A t \in Streams: t # s => stream'[t] = stream[t]
    BY <1>1, StreamToSets
<1>3. stream[s].conv # s /\ stream'[s].conv # s
    BY <1>2, ClientTypes DEF Minted
<1>4. Known' = Known /\ Asked' = Asked /\ Open' = Open
    BY <1>2, <1>3 DEF Known, Asked, Open
<1> QED BY <1>2, <1>4

LEMMA Begins ==
    ASSUME ClientTypeOK, Minted, NEW s \in Streams, stream[s].pc \in {"idle", "preparing"},
           NEW target \in Known \cup {Blank}, NEW marks, Begin(s, target, marks)
    PROVE  /\ stream' \in [Streams -> StreamRecord]
           /\ stream'[s].pc = "asked" /\ stream'[s].target = target
           /\ stream'[s].conv = rendered
           /\ \A t \in Streams: t # s => stream'[t] = stream[t]
           /\ Known' = Known /\ Asked' = Asked \cup {s} /\ Open' = Open
           /\ rendered # s /\ target # s /\ stream[s].conv # s
           /\ s \notin Asked /\ s \notin Open
<1>1. "asked" \in StreamPC /\ target \in Ids \cup {Blank} /\ rendered \in Ids \cup {Blank}
    BY ClientTypes DEF StreamPC
<1>2. StreamTo(s, "asked", target, rendered)
    BY DEF Begin
<1>3. /\ stream' \in [Streams -> StreamRecord]
      /\ stream'[s].pc = "asked" /\ stream'[s].target = target
      /\ stream'[s].conv = rendered
      /\ \A t \in Streams: t # s => stream'[t] = stream[t]
    BY <1>1, <1>2, StreamToSets
<1>4. stream[s].conv # s
    BY DEF Minted
<1>5. s \notin Known /\ s # Blank
    BY <1>4, ClientTypes DEF Known
<1>6. rendered # s /\ target # s
    BY <1>5, ClientTypes
<1>7. Known' = Known /\ Asked' = Asked \cup {s} /\ Open' = Open
    BY <1>3, <1>4, <1>6 DEF Known, Asked, Open
<1>8. s \notin Asked /\ s \notin Open
    BY DEF Asked, Open
<1> QED BY <1>3, <1>4, <1>6, <1>7, <1>8

LEMMA Opens ==
    ASSUME ClientTypeOK, Minted, NEW s \in Streams, stream[s].pc = "asked",
           StreamTo(s, "open", stream[s].target, Id(s))
    PROVE  /\ stream' \in [Streams -> StreamRecord]
           /\ stream'[s].pc = "open" /\ stream'[s].target = stream[s].target
           /\ stream'[s].conv = Id(s) /\ Id(s)' = Id(s)
           /\ \A t \in Streams: t # s => stream'[t] = stream[t]
           /\ Known \subseteq Known' /\ Id(s) \in Known'
           /\ Asked' = Asked \ {s} /\ Open' = Open \cup {s}
<1>1. "open" \in StreamPC /\ stream[s].target \in Ids \cup {Blank} /\ Id(s) \in Ids \cup {Blank}
    BY ClientTypes DEF StreamPC
<1>2. /\ stream' \in [Streams -> StreamRecord]
      /\ stream'[s].pc = "open" /\ stream'[s].target = stream[s].target
      /\ stream'[s].conv = Id(s)
      /\ \A t \in Streams: t # s => stream'[t] = stream[t]
    BY <1>1, StreamToSets
<1>3. stream[s].conv # s
    BY DEF Minted
<1>4. Known \subseteq Known'
    BY <1>2, <1>3 DEF Known
<1>5. Id(s) \in Known'
    BY <1>2, <1>4, ClientTypes DEF Id, Known
<1>6. Asked' = Asked \ {s} /\ Open' = Open \cup {s}
    BY <1>2 DEF Asked, Open
<1> QED BY <1>2, <1>4, <1>5, <1>6 DEF Id

LEMMA Ends ==
    ASSUME ClientTypeOK, NEW s \in Streams, End(s)
    PROVE  /\ stream' \in [Streams -> StreamRecord]
           /\ stream'[s].pc = "ended"
           /\ \A t \in Streams: /\ stream'[t].target = stream[t].target
                                /\ stream'[t].conv = stream[t].conv
                                /\ t # s => stream'[t] = stream[t]
           /\ Known' = Known /\ Asked' = Asked \ {s} /\ Open' = Open \ {s}
<1>1. stream \in [Streams -> StreamRecord] /\ stream' = [stream EXCEPT ![s] = [@ EXCEPT !.pc = "ended"]]
    BY ClientTypes DEF End
<1>2. /\ stream' \in [Streams -> StreamRecord]
      /\ stream'[s].pc = "ended"
      /\ \A t \in Streams: /\ stream'[t].target = stream[t].target
                           /\ stream'[t].conv = stream[t].conv
                           /\ t # s => stream'[t] = stream[t]
    BY <1>1 DEF StreamRecord, StreamPC
<1>3. Known' = Known /\ Asked' = Asked \ {s} /\ Open' = Open \ {s}
    BY <1>2 DEF Known, Asked, Open
<1> QED BY <1>2, <1>3

-----------------------------------------------------------------------------
(* Types, and names of new conversations.                                  *)

\* The steps that leave the streams alone.
Still ==
    \/ Render \/ NewChat \/ Reload \/ Inform \/ Truncate
    \/ \E l \in loads: Loaded(l)
    \/ \E c \in Known: Select(c) \/ Jump(c) \/ Delete(c)
    \/ \E s \in Streams: Frame(s)
    \/ \E w \in working: Truncated(w) \/ Deleted(w)

\* The three kinds of sends.
Sends3(s) == Send(s) \/ AnswerAsk(s) \/ SendPrepared(s)

LEMMA ClientSteps ==
    ASSUME ClientNext
    PROVE  \/ Still
           \/ \E s \in Streams: Sends3(s) \/ Prepare(s) \/ Session(s) \/ End(s)
BY DEF ClientNext, Still, Sends3

LEMMA StillStreams == ASSUME Still PROVE stream' = stream
BY DEF Still, Render, NewChat, Reload, Inform, Truncate, Loaded, Select, Jump, Delete, Frame,
       Truncated, Deleted, screen, flags, ghosts

LEMMA CancelledTypes ==
    ASSUME ClientTypeOK
    PROVE  /\ Cancelled \subseteq [of: Ids, live: BOOLEAN]
           /\ \A l \in Cancelled: ~l.live
<1>1. \A l \in [of: Ids, live: BOOLEAN]:
        /\ [l EXCEPT !.live = FALSE] \in [of: Ids, live: BOOLEAN]
        /\ [l EXCEPT !.live = FALSE].live = FALSE
    OBVIOUS
<1>2. loads \subseteq [of: Ids, live: BOOLEAN]
    BY DEF ClientTypeOK
<1> QED BY <1>1, <1>2 DEF Cancelled

LEMMA HydrateTypes ==
    ASSUME ClientTypeOK, NEW c \in Known \cup {Blank}, NEW bubbles \in SUBSET (Ids \cup {Info}),
           Hydrate(c, bubbles)
    PROVE  /\ rendered' = c /\ shown' \subseteq Ids \cup {Info}
           /\ loads' \subseteq [of: Ids, live: BOOLEAN]
           /\ justMinted' \in {justMinted, Blank} /\ confused' \in BOOLEAN
<1>1. Cancelled \subseteq [of: Ids, live: BOOLEAN]
    BY CancelledTypes
<1>2. c # Blank => [of |-> c, live |-> TRUE] \in [of: Ids, live: BOOLEAN]
    BY ClientTypes
<1>3. confused \in BOOLEAN
    BY DEF ClientTypeOK
<1> QED BY <1>1, <1>2, <1>3 DEF Hydrate

LEMMA StillTypes ==
    ASSUME ClientTypeOK, Still
    PROVE  ClientTypeOK'
<1>a. stream' = stream /\ Known' = Known
    BY StillStreams DEF Known
<1>b. shown \in SUBSET (Ids \cup {Info}) /\ {} \in SUBSET (Ids \cup {Info}) /\ Blank \in Known \cup {Blank}
    BY DEF ClientTypeOK
<1>1. CASE Render
  <2>1. Hydrate(selected, shown) /\ selected \in Known \cup {Blank}
    BY <1>1 DEF Render, ClientTypeOK
  <2>2. /\ rendered' = selected /\ shown' \subseteq Ids \cup {Info}
        /\ loads' \subseteq [of: Ids, live: BOOLEAN]
        /\ justMinted' \in {justMinted, Blank} /\ confused' \in BOOLEAN
    BY <1>b, <2>1, HydrateTypes
  <2> QED BY <1>1, <1>a, <1>b, <2>1, <2>2 DEF Render, ClientTypeOK, flags
<1>2. ASSUME NEW c \in Known, Select(c) PROVE ClientTypeOK'
  <2>1. Hydrate(c, shown) /\ moves' \in 0..MaxMoves
    BY <1>2, ChatClientAssumption DEF Select, Moves, ClientTypeOK
  <2> QED BY <1>2, <1>a, <1>b, <2>1, HydrateTypes DEF Select, ClientTypeOK, flags
<1>3. CASE Reload
  <2>1. PICK info \in {{}, {Info}}: Hydrate(rendered, shown \cup info)
    BY <1>3 DEF Reload
  <2>2. shown \cup info \in SUBSET (Ids \cup {Info})
    BY <1>b
  <2>3. moves' \in 0..MaxMoves /\ rendered \in Known \cup {Blank}
    BY <1>3, ChatClientAssumption DEF Reload, Moves, ClientTypeOK
  <2> QED BY <1>3, <1>a, <1>b, <2>1, <2>2, <2>3, HydrateTypes DEF Reload, ClientTypeOK, flags
<1>4. CASE NewChat
  <2>1. moves' \in 0..MaxMoves /\ Cancelled \subseteq [of: Ids, live: BOOLEAN]
    BY <1>4, ChatClientAssumption, CancelledTypes DEF NewChat, Moves, ClientTypeOK
  <2> QED BY <1>4, <1>a, <1>b, <2>1 DEF NewChat, ClientTypeOK
<1>5. ASSUME NEW l \in loads, Loaded(l) PROVE ClientTypeOK'
  <2>1. shown' \subseteq Ids \cup {Info} /\ confused' \in BOOLEAN /\ loads' \subseteq loads
    BY <1>5 DEF Loaded, ClientTypeOK
  <2> QED BY <1>5, <1>a, <2>1 DEF Loaded, ClientTypeOK, flags
<1>6. ASSUME NEW c \in Known, Jump(c) PROVE ClientTypeOK'
  <2>1. moves' \in 0..MaxMoves /\ shown' \subseteq Ids \cup {Info}
    BY <1>6, <1>b, ChatClientAssumption DEF Jump, Moves, ClientTypeOK
  <2> QED BY <1>6, <1>a, <2>1 DEF Jump, ClientTypeOK, flags, ghosts
<1>7. ASSUME NEW c \in Known, Delete(c) PROVE ClientTypeOK'
  <2>1. moves' \in 0..MaxMoves /\ c \in Ids
    BY <1>7, ClientTypes, ChatClientAssumption DEF Delete, Moves, ClientTypeOK
  <2> QED BY <1>7, <1>a, <2>1 DEF Delete, ClientTypeOK, flags, ghosts, screen
<1>8. CASE Truncate
  <2>1. moves' \in 0..MaxMoves /\ rendered \in Ids
    BY <1>8, ClientTypes, ChatClientAssumption DEF Truncate, Moves, ClientTypeOK
  <2> QED BY <1>8, <1>a, <2>1 DEF Truncate, ClientTypeOK, ghosts, screen
<1>9. ASSUME NEW s \in Streams, Frame(s) PROVE ClientTypeOK'
    BY <1>9, <1>a, ClientTypes DEF Frame, ClientTypeOK, flags, ghosts
<1>10. ASSUME NEW w \in working, Truncated(w) \/ Deleted(w) PROVE ClientTypeOK'
    BY <1>10, <1>a, <1>b DEF Truncated, Deleted, ClientTypeOK, screen, ghosts
<1>11. CASE Inform
  <2>1. moves' \in 0..MaxMoves /\ shown' \subseteq Ids \cup {Info}
    BY <1>11, <1>b, ChatClientAssumption DEF Inform, Moves, ClientTypeOK
  <2> QED BY <1>11, <1>a, <2>1 DEF Inform, ClientTypeOK, flags, ghosts
<1> QED BY <1>1, <1>2, <1>3, <1>4, <1>5, <1>6, <1>7, <1>8, <1>9, <1>10, <1>11 DEF Still

\* The target of a send is a conversation that the server has, or will mint.
LEMMA Sent ==
    ASSUME ClientTypeOK, NEW s \in Streams, Sends3(s)
    PROVE  /\ stream[s].pc \in {"idle", "preparing"} /\ moves' = moves
           /\ \E marks \in BOOLEAN, target \in Known \cup {Blank}:
                /\ Begin(s, target, marks)
                /\ slipped' = IF target = rendered THEN slipped ELSE slipped \cup {target}
                /\ confused' = (confused \/ target # rendered)
                /\ ~marks => target # Blank
<1>0. confused \in BOOLEAN /\ rendered \in Known \cup {Blank}
      /\ stream[s].target \in Known \cup {Blank}
    BY ClientTypes DEF ClientTypeOK
<1>1. CASE Send(s)
    BY <1>0, <1>1 DEF Send
<1>2. CASE AnswerAsk(s)
    BY <1>0, <1>2 DEF AnswerAsk
<1>3. CASE SendPrepared(s)
    BY <1>0, <1>3 DEF SendPrepared
<1> QED BY <1>1, <1>2, <1>3 DEF Sends3

LEMMA SentTypes ==
    ASSUME ClientTypeOK, Minted, NEW s \in Streams, Sends3(s)
    PROVE  ClientTypeOK' /\ Minted'
<1>1. PICK marks \in BOOLEAN, target \in Known \cup {Blank}:
        /\ Begin(s, target, marks)
        /\ slipped' = IF target = rendered THEN slipped ELSE slipped \cup {target}
        /\ confused' = (confused \/ target # rendered)
    BY Sent
<1>2. stream[s].pc \in {"idle", "preparing"} /\ moves' = moves
    BY Sent
<1>3. /\ stream' \in [Streams -> StreamRecord]
      /\ stream'[s].pc = "asked" /\ stream'[s].target = target
      /\ stream'[s].conv = rendered
      /\ \A t \in Streams: t # s => stream'[t] = stream[t]
      /\ Known' = Known /\ rendered # s
    BY <1>1, <1>2, Begins
<1>4. target \in Ids \cup {Blank} /\ s \in Ids
    BY ClientTypes
<1>5. Minted'
    BY <1>3 DEF Minted, Id
<1>6. \A t \in Streams: {stream'[t].target, stream'[t].conv} \subseteq Known \cup {Blank}
    BY <1>3, ClientTypes
<1>7. /\ busy' \subseteq Ids /\ shown' \subseteq Ids \cup {Info} /\ slipped' \subseteq Ids \cup {Blank}
      /\ {preMintBusy', confused', crossed'} \subseteq BOOLEAN
    BY <1>1, <1>4 DEF Begin, ClientTypeOK
<1>8. aborts' \in [Ids \cup {PreMint} -> Streams \cup {Blank}]
    BY <1>1 DEF Begin, ClientTypeOK
<1>9. ClientTypeOK'
    BY <1>1, <1>2, <1>3, <1>6, <1>7, <1>8 DEF Begin, ClientTypeOK, StreamRecord, StreamPC
<1> QED BY <1>5, <1>9

LEMMA StreamStepTypes ==
    ASSUME ClientTypeOK, Minted, NEW s \in Streams, Prepare(s) \/ Session(s) \/ End(s)
    PROVE  ClientTypeOK' /\ Minted'
<1>1. CASE Prepare(s)
  <2>1. /\ stream' \in [Streams -> StreamRecord]
        /\ stream'[s].pc = "preparing" /\ stream'[s].target = rendered
        /\ stream'[s].conv = Blank
        /\ \A t \in Streams: t # s => stream'[t] = stream[t]
        /\ Known' = Known
    BY <1>1, Prepares DEF Prepare
  <2>2. \A t \in Streams: {stream'[t].target, stream'[t].conv} \subseteq Known \cup {Blank}
    BY <2>1, ClientTypes
  <2>3. Minted'
    BY <2>1, ClientTypes DEF Minted, Id
  <2> QED BY <1>1, <2>1, <2>2, <2>3 DEF Prepare, ClientTypeOK, StreamRecord, StreamPC, screen,
        flags, ghosts
<1>2. CASE Session(s)
  <2>1. /\ stream' \in [Streams -> StreamRecord]
        /\ stream'[s].pc = "open" /\ stream'[s].target = stream[s].target
        /\ stream'[s].conv = Id(s) /\ Id(s)' = Id(s)
        /\ \A t \in Streams: t # s => stream'[t] = stream[t]
        /\ Known \subseteq Known' /\ Id(s) \in Known'
    BY <1>2, Opens DEF Session
  <2>2. \A t \in Streams: {stream'[t].target, stream'[t].conv} \subseteq Known' \cup {Blank}
    BY <2>1, ClientTypes
  <2>3. Minted'
    BY <2>1, ClientTypes DEF Minted, Id
  <2>4. aborts' \in [Ids \cup {PreMint} -> Streams \cup {Blank}]
    BY <1>2, ClientTypes DEF Session, Rekeyed
  <2>5. Id(s) \in Ids
    BY ClientTypes
  <2> QED BY <1>2, <2>1, <2>2, <2>3, <2>4, <2>5 DEF Session, ClientTypeOK, StreamRecord, StreamPC,
        ghosts
<1>3. CASE End(s)
  <2>1. /\ stream' \in [Streams -> StreamRecord]
        /\ stream'[s].pc = "ended"
        /\ \A t \in Streams: /\ stream'[t].target = stream[t].target
                             /\ stream'[t].conv = stream[t].conv
                             /\ t # s => stream'[t] = stream[t]
        /\ Known' = Known
    BY <1>3, Ends
  <2>2. \A t \in Streams: {stream'[t].target, stream'[t].conv} \subseteq Known \cup {Blank}
    BY <2>1, ClientTypes
  <2>3. Minted'
    BY <2>1 DEF Minted, Id
  <2>4. aborts' \in [Ids \cup {PreMint} -> Streams \cup {Blank}]
    BY <1>3, ClientTypes DEF End
  <2>5. busy' \subseteq Ids
    BY <1>3, ClientTypes DEF End, Unmarked
  <2>6. /\ UNCHANGED <<selected, rendered, shown, loads, justMinted, working, moves,
                      confused, slipped, crossed>>
        /\ preMintBusy' = FALSE
    BY <1>3 DEF End, screen, ghosts
  <2> QED BY <2>1, <2>2, <2>3, <2>4, <2>5, <2>6 DEF ClientTypeOK, StreamRecord, StreamPC
<1> QED BY <1>1, <1>2, <1>3

LEMMA ClientTypeStep ==
    ASSUME ClientTypeOK, Minted, ClientNext
    PROVE  ClientTypeOK' /\ Minted'
<1>1. CASE Still
    BY <1>1, StillTypes, StillStreams DEF Minted, Id
<1> QED BY <1>1, ClientSteps, SentTypes, StreamStepTypes

-----------------------------------------------------------------------------
(* The screen.                                                             *)

LEMMA HydrateScreen ==
    ASSUME ClientTypeOK, NEW c \in Known \cup {Blank}, NEW bubbles \in SUBSET (Ids \cup {Info}),
           Hydrate(c, bubbles)
    PROVE  ScreenInv'
<1>1. rendered' = c
    BY HydrateTypes
<1>2. \A l \in Cancelled: ~l.live
    BY CancelledTypes
<1>3. CASE c = Blank
  <2>1. shown' = {} /\ loads' = Cancelled
    BY <1>3 DEF Hydrate
  <2> QED BY <1>2, <2>1 DEF ScreenInv
<1>4. CASE c # Blank /\ justMinted = c
  <2>1. shown' = bubbles /\ loads' = Cancelled /\ confused' = (bubbles \ {c, Info} # {})
    BY <1>4 DEF Hydrate
  <2>2. Own' = {c}
    BY <1>1, <1>4 DEF Own
  <2> QED BY <1>2, <2>1, <2>2 DEF ScreenInv
<1>5. CASE c # Blank /\ justMinted # c
  <2> DEFINE load == [of |-> c, live |-> TRUE]
  <2>1. loads' = Cancelled \cup {load} /\ load.live /\ load.of = c
    BY <1>5 DEF Hydrate
  <2> HIDE DEF load
  <2> QED BY <1>1, <1>2, <1>5, <2>1 DEF ScreenInv
<1> QED BY <1>3, <1>4, <1>5

LEMMA StillScreen ==
    ASSUME ClientTypeOK, Minted, ScreenInv, Still
    PROVE  ScreenInv'
<1>a. stream' = stream
    BY StillStreams
<1>b. shown \in SUBSET (Ids \cup {Info}) /\ selected \in Known \cup {Blank} /\ rendered \in Known \cup {Blank}
    BY DEF ClientTypeOK
<1>1. CASE Render
    BY <1>1, <1>b, HydrateScreen DEF Render
<1>2. ASSUME NEW c \in Known, Select(c) PROVE ScreenInv'
    BY <1>2, <1>b, HydrateScreen DEF Select
<1>3. CASE Reload
  <2>1. PICK info \in {{}, {Info}}: Hydrate(rendered, shown \cup info)
    BY <1>3 DEF Reload
  <2> QED BY <1>b, <2>1, HydrateScreen
<1>4. CASE NewChat
  <2>1. \A l \in loads': ~l.live
    BY <1>4, CancelledTypes DEF NewChat, ScreenInv
  <2> QED BY <1>4, <2>1 DEF NewChat, ScreenInv
<1>5. ASSUME NEW l \in loads, Loaded(l) PROVE ScreenInv'
  <2>1. rendered' = rendered /\ loads' = loads \ {l} /\ Own' = Own
    BY <1>5, <1>a DEF Loaded, Own
  <2>2. CASE l.live
    <3>1. shown' = {rendered} /\ rendered # Blank
        BY <1>5, <2>2 DEF Loaded, ScreenInv
    <3>2. Own = {rendered}
        BY <3>1 DEF Own
    <3> QED BY <2>1, <3>1, <3>2 DEF ScreenInv
  <2>3. CASE ~l.live
    BY <1>5, <2>1, <2>3 DEF Loaded, ScreenInv
  <2> QED BY <2>2, <2>3
<1>6. ASSUME NEW c \in Known, Jump(c) PROVE ScreenInv'
  <2>1. shown' \subseteq shown /\ rendered' = rendered /\ loads' = loads /\ confused' = confused
    BY <1>6 DEF Jump, ghosts
  <2>2. Own' = Own
    BY <1>a, <2>1 DEF Own
  <2> QED BY <2>1, <2>2 DEF ScreenInv
<1>7. ASSUME NEW c \in Known, Delete(c) PROVE ScreenInv'
    BY <1>7, <1>a DEF Delete, ScreenInv, Own, screen, ghosts
<1>8. CASE Truncate
    BY <1>8, <1>a DEF Truncate, ScreenInv, Own, screen, ghosts
<1>9. ASSUME NEW s \in Streams, Frame(s) PROVE ScreenInv'
  <2>1. stream[s].conv = Id(s) /\ Id(s) \in Ids /\ Blank \notin Ids
    BY <1>9, ClientTypes DEF Frame, Minted
  <2>2. Own = {rendered} /\ Id(s) = rendered
    BY <1>9, <2>1 DEF Frame, Own
  <2>3. Own' = Own
    BY <1>9, <1>a DEF Frame, Own
  <2> QED BY <1>9, <2>2, <2>3 DEF Frame, ScreenInv, ghosts
<1>10. ASSUME NEW w \in working, Truncated(w) \/ Deleted(w) PROVE ScreenInv'
  <2>1. /\ shown' = shown \/ shown' = {}
        /\ UNCHANGED <<rendered, loads, confused>>
    BY <1>10 DEF Truncated, Deleted, screen, ghosts
  <2>2. Own' = Own
    BY <1>a, <2>1 DEF Own
  <2> QED BY <2>1, <2>2 DEF ScreenInv
<1>11. CASE Inform
  <2>1. shown' \ {Info} = shown \ {Info} /\ UNCHANGED <<rendered, loads, confused, stream>>
    BY <1>11, <1>a DEF Inform, ghosts
  <2> QED BY <2>1 DEF ScreenInv, Own
<1> QED BY <1>1, <1>2, <1>3, <1>4, <1>5, <1>6, <1>7, <1>8, <1>9, <1>10, <1>11 DEF Still

LEMMA ScreenStep ==
    ASSUME ClientTypeOK, Minted, ScreenInv, ClientNext
    PROVE  ScreenInv'
<1>1. CASE Still
    BY <1>1, StillScreen
<1>2. ASSUME NEW s \in Streams, Sends3(s) PROVE ScreenInv'
  <2>1. PICK marks \in BOOLEAN, target \in Known \cup {Blank}:
          Begin(s, target, marks) /\ confused' = (confused \/ target # rendered)
    BY <1>2, Sent
  <2>2. /\ stream'[s].target = target
        /\ \A t \in Streams: t # s => stream'[t] = stream[t]
    BY <1>2, <2>1, Sent, Begins
  <2>3. /\ rendered' = rendered /\ loads' = loads
        /\ shown' = shown \cup {IF target = Blank THEN s ELSE target}
    BY <2>1 DEF Begin
  <2>4. CASE target # rendered
    BY <2>1, <2>3, <2>4 DEF ScreenInv
  <2>5. CASE target = rendered
    <3>1. Own \subseteq Own' /\ (IF target = Blank THEN s ELSE target) \in Own'
        BY <2>2, <2>3, <2>5 DEF Own
    <3> QED BY <2>1, <2>3, <3>1 DEF ScreenInv
  <2> QED BY <2>4, <2>5
<1>3. ASSUME NEW s \in Streams, Prepare(s) PROVE ScreenInv'
  <2>1. /\ stream'[s].target = rendered
        /\ \A t \in Streams: t # s => stream'[t] = stream[t]
    BY <1>3, Prepares DEF Prepare
  <2>2. UNCHANGED <<rendered, loads, shown, confused>>
    BY <1>3 DEF Prepare, screen, ghosts
  <2>3. Own \subseteq Own'
    BY <2>1, <2>2 DEF Own
  <2> QED BY <2>2, <2>3 DEF ScreenInv
<1>4. ASSUME NEW s \in Streams, Session(s) PROVE ScreenInv'
  <2>1. \A t \in Streams: stream'[t].target = stream[t].target
    BY <1>4, Opens DEF Session
  <2>2. UNCHANGED <<rendered, loads, shown, confused>>
    BY <1>4 DEF Session, ghosts
  <2>3. Own' = Own
    BY <2>1, <2>2 DEF Own
  <2> QED BY <2>2, <2>3 DEF ScreenInv
<1>5. ASSUME NEW s \in Streams, End(s) PROVE ScreenInv'
  <2>1. \A t \in Streams: stream'[t].target = stream[t].target
    BY <1>5, Ends
  <2>2. UNCHANGED <<rendered, loads, shown, confused>>
    BY <1>5 DEF End, screen, ghosts
  <2>3. Own' = Own
    BY <2>1, <2>2 DEF Own
  <2> QED BY <2>2, <2>3 DEF ScreenInv
<1> QED BY <1>1, <1>2, <1>3, <1>4, <1>5, ClientSteps

-----------------------------------------------------------------------------
(* The marks.                                                              *)

\* The steps that leave the streams alone, and their marks too.
LEMMA StillMarks ==
    ASSUME ClientTypeOK, MarksInv, Still
    PROVE  MarksInv'
<1>a. stream' = stream
    BY StillStreams
<1>b. \A s \in Streams, c \in Ids: Marks(s, c) => Marks(s, c)'
    BY <1>a DEF Marks
<1>c. Asked' = Asked /\ busy \subseteq Ids
    BY <1>a DEF Asked, ClientTypeOK
<1>1. CASE \/ Render \/ NewChat \/ Reload \/ Inform
           \/ \E l \in loads: Loaded(l)
           \/ \E c \in Known: Select(c) \/ Jump(c)
           \/ \E s \in Streams: Frame(s)
  <2>1. UNCHANGED <<busy, slipped, working>> /\ (preMintBusy' => preMintBusy)
    BY <1>1 DEF Render, NewChat, Reload, Inform, Loaded, Select, Jump, Frame, flags, ghosts
  <2> QED BY <1>a, <1>b, <1>c, <2>1 DEF MarksInv
<1>2. ASSUME NEW c \in Known, Delete(c) PROVE MarksInv'
  <2>1. UNCHANGED <<busy, slipped, preMintBusy>> /\ working \subseteq working'
    BY <1>2 DEF Delete, flags, ghosts
  <2> QED BY <1>a, <1>c, <2>1 DEF MarksInv, Marks
<1>3. CASE Truncate
  <2> DEFINE job == [of |-> rendered, kind |-> "truncate"]
  <2>1. /\ UNCHANGED <<slipped, preMintBusy>> /\ busy' = busy \cup {rendered}
        /\ working' = working \cup {job} /\ job.of = rendered /\ job.kind = "truncate"
    BY <1>3 DEF Truncate, ghosts
  <2> HIDE DEF job
  <2> QED BY <1>a, <1>c, <2>1 DEF MarksInv, Marks
<1>4. ASSUME NEW w \in working, Truncated(w) PROVE MarksInv'
  <2>1. /\ UNCHANGED <<slipped, preMintBusy>> /\ busy' = busy \ {w.of}
        /\ working' = working \ {w}
    BY <1>4 DEF Truncated, ghosts
  <2> QED BY <1>a, <1>c, <2>1 DEF MarksInv, Marks
<1>5. ASSUME NEW w \in working, Deleted(w) PROVE MarksInv'
  <2>1. /\ UNCHANGED <<slipped, busy>> /\ (preMintBusy' => preMintBusy)
        /\ working' = working \ {w} /\ w.kind # "truncate"
    BY <1>5 DEF Deleted, ghosts
  <2> QED BY <1>a, <1>c, <2>1 DEF MarksInv, Marks
<1> QED BY <1>1, <1>2, <1>3, <1>4, <1>5 DEF Still

LEMMA MarksStep ==
    ASSUME ClientTypeOK, Minted, MarksInv, ClientNext
    PROVE  MarksInv'
<1>a. busy \subseteq Ids /\ Blank \notin Ids
    BY ClientTypes
<1>1. CASE Still
    BY <1>1, StillMarks
<1>2. ASSUME NEW s \in Streams, Sends3(s) PROVE MarksInv'
  <2>1. PICK marks \in BOOLEAN, target \in Known \cup {Blank}:
          /\ Begin(s, target, marks)
          /\ slipped' = IF target = rendered THEN slipped ELSE slipped \cup {target}
    BY <1>2, Sent
  <2>2. /\ stream'[s].pc = "asked" /\ stream'[s].target = target /\ stream'[s].conv = rendered
        /\ \A t \in Streams: t # s => stream'[t] = stream[t]
        /\ Asked' = Asked \cup {s} /\ s \notin Asked
        /\ stream[s].pc \in {"idle", "preparing"}
    BY <1>2, <2>1, Sent, Begins
  <2>3. /\ busy' = IF marks /\ target # Blank THEN busy \cup {target} ELSE busy
        /\ preMintBusy' => preMintBusy \/ target = Blank
        /\ working' = working
    BY <2>1 DEF Begin
  <2>4. \A t \in Streams, c \in Ids: Marks(t, c) => Marks(t, c)'
    BY <2>2 DEF Marks
  <2>5. target = rendered => Marks(s, target)'
    BY <2>2 DEF Marks
  <2>6. slipped \subseteq slipped' /\ (target # rendered => target \in slipped')
    BY <2>1
  <2>7. \A c \in busy': c \in busy \/ c = target
    BY <2>3
  <2>8. ASSUME NEW c \in busy'
        PROVE  \/ c \in slipped' \/ \E t \in Streams: Marks(t, c)'
               \/ \E w \in working': w.of = c /\ w.kind = "truncate"
    BY <1>a, <2>3, <2>4, <2>5, <2>6, <2>7 DEF MarksInv
  <2>9. preMintBusy' => \E t \in Asked': stream'[t].target = Blank
    <3>1. \A t \in Asked: stream'[t].target = stream[t].target /\ t \in Asked'
        BY <2>2 DEF Asked
    <3>2. s \in Asked' /\ stream'[s].target = target
        BY <2>2
    <3> QED BY <2>3, <3>1, <3>2 DEF MarksInv
  <2> QED BY <2>8, <2>9 DEF MarksInv
<1>3. ASSUME NEW s \in Streams, Prepare(s) PROVE MarksInv'
  <2>1. /\ stream[s].pc = "idle"
        /\ \A t \in Streams: t # s => stream'[t] = stream[t]
        /\ Asked' = Asked
    BY <1>3, Prepares DEF Prepare
  <2>2. UNCHANGED <<busy, preMintBusy, working, slipped>>
    BY <1>3 DEF Prepare, flags, ghosts
  <2>3. \A t \in Streams, c \in Ids: Marks(t, c) => Marks(t, c)'
    BY <2>1 DEF Marks
  <2>4. \A t \in Asked: stream'[t].target = stream[t].target
    BY <2>1 DEF Asked
  <2> QED BY <1>a, <2>1, <2>2, <2>3, <2>4 DEF MarksInv
<1>4. ASSUME NEW s \in Streams, Session(s) PROVE MarksInv'
  <2>1. /\ stream[s].pc = "asked" /\ stream'[s].pc = "open" /\ stream'[s].conv = Id(s)
        /\ \A t \in Streams: t # s => stream'[t] = stream[t]
    BY <1>4, Opens DEF Session
  <2>2. /\ busy' = busy \cup {Id(s)} /\ preMintBusy' = FALSE
        /\ UNCHANGED <<working, slipped>>
    BY <1>4 DEF Session, ghosts
  <2>3. PICK id: id = Id(s)
    OBVIOUS
  <2>4. Marks(s, id)'
    BY <2>1, <2>3 DEF Marks
  <2>5. \A c \in Ids: Marks(s, c) => c = id
    BY <1>a, <2>1, <2>3 DEF Marks, Id
  <2>6. \A t \in Streams, c \in Ids: Marks(t, c) => Marks(t, c)' \/ t = s
    BY <2>1 DEF Marks
  <2>7. ASSUME NEW c \in busy'
        PROVE  \/ c \in slipped' \/ \E t \in Streams: Marks(t, c)'
               \/ \E w \in working': w.of = c /\ w.kind = "truncate"
    <3>1. CASE c = id
        BY <2>4, <3>1
    <3>2. CASE c # id
        BY <1>a, <2>2, <2>3, <2>5, <2>6, <3>2 DEF MarksInv
    <3> QED BY <3>1, <3>2
  <2> QED BY <2>2, <2>7 DEF MarksInv
<1>5. ASSUME NEW s \in Streams, End(s) PROVE MarksInv'
  <2>1. \A t \in Streams: t # s => stream'[t] = stream[t]
    BY <1>5, Ends
  <2>2. /\ busy' = busy \ {stream[s].conv} /\ preMintBusy' = FALSE
        /\ UNCHANGED <<working, slipped>>
    BY <1>5 DEF End, Unmarked, ghosts
  <2>3. \A t \in Streams, c \in busy': Marks(t, c) => Marks(t, c)'
    BY <2>1, <2>2 DEF Marks
  <2> QED BY <2>2, <2>3 DEF MarksInv
<1> QED BY <1>1, <1>2, <1>3, <1>4, <1>5, ClientSteps

-----------------------------------------------------------------------------
(* The controllers.                                                        *)

LEMMA StillControllers ==
    ASSUME ControllersInv, Still \/ \E s \in Streams: Prepare(s), ClientTypeOK, Minted
    PROVE  ControllersInv'
<1>1. Asked' = Asked /\ Open' = Open
    BY StillStreams, Prepares DEF Prepare, Asked, Open
<1>2. \A t \in Asked \cup Open: stream'[t] = stream[t]
    BY StillStreams, Prepares DEF Prepare, Asked, Open
<1>3. /\ aborts' = aborts
      /\ crossed' = crossed
    BY DEF Still, Render, NewChat, Reload, Inform, Truncate, Loaded, Select, Jump, Delete, Frame,
           Truncated, Deleted, Prepare, flags, ghosts
<1> QED BY <1>1, <1>2, <1>3 DEF ControllersInv, Id

LEMMA SentControllers ==
    ASSUME ClientTypeOK, Minted, ControllersInv, NEW s \in Streams, Sends3(s)
    PROVE  ControllersInv'
<1>1. PICK marks \in BOOLEAN, target \in Known \cup {Blank}: Begin(s, target, marks)
    BY Sent
<1>2. /\ stream'[s].target = target
      /\ \A t \in Streams: t # s => stream'[t] = stream[t]
      /\ Asked' = Asked \cup {s} /\ Open' = Open /\ s \notin Open
    BY <1>1, Sent, Begins
<1>3. ~crossed' => /\ ~crossed /\ Asked = {}
                   /\ \A o \in Open: stream[o].conv # target
    BY <1>1 DEF Begin
<1>4. /\ aborts'[PreMint] = s
      /\ \A c \in Ids: aborts'[c] = aborts[c]
    BY <1>1, ClientTypes DEF Begin
<1>5. \A o \in Open: stream'[o] = stream[o] /\ stream[o].conv = Id(o) /\ Id(o) \in Ids
    BY <1>2, ClientTypes DEF Open, Minted
<1>6. s \in Ids /\ s # Blank
    BY ClientTypes
<1>7. ASSUME ~crossed', NEW o \in Open PROVE stream[o].conv # Id(s)'
  <2>1. CASE target = Blank
    <3>1. Id(s)' = s
        BY <1>2, <2>1 DEF Id
    <3>2. stream[s].conv # s
        BY <1>1, Sent, Begins
    <3>3. s \notin Known
        BY <3>2, ClientTypes DEF Known
    <3>4. stream[o].conv # s
        BY <1>6, <3>3, ClientTypes DEF Open
    <3> QED BY <3>1, <3>4
  <2>2. CASE target # Blank
    BY <1>2, <1>3, <1>7, <2>2 DEF Id
  <2> QED BY <2>1, <2>2
<1> QED BY <1>2, <1>3, <1>4, <1>5, <1>6, <1>7 DEF ControllersInv

LEMMA SessionControllers ==
    ASSUME ClientTypeOK, Minted, ControllersInv, NEW s \in Streams, Session(s)
    PROVE  ControllersInv'
<1>1. /\ stream[s].pc = "asked" /\ stream'[s].conv = Id(s)
      /\ \A t \in Streams: t # s => stream'[t] = stream[t]
      /\ Asked' = Asked \ {s} /\ Open' = Open \cup {s}
    BY Opens DEF Session
<1>2. s \in Asked /\ crossed' = crossed /\ aborts' = Rekeyed(Id(s))
    BY <1>1 DEF Session, Asked, ghosts
<1>3. SUFFICES ASSUME ~crossed PROVE ControllersInv'
    BY <1>2 DEF ControllersInv
<1>4. aborts[PreMint] = s /\ s # Blank /\ Asked' = {} /\ \A o \in Open: stream[o].conv # Id(s)
    BY <1>1, <1>2, <1>3, ClientTypes DEF ControllersInv
<1>5. PICK id \in Ids: id = Id(s)
    BY ClientTypes
<1>6. aborts' = [aborts EXCEPT ![id] = s, ![PreMint] = Blank]
    BY <1>2, <1>4, <1>5 DEF Rekeyed
<1>7. aborts'[id] = s /\ \A c \in Ids: c # id => aborts'[c] = aborts[c]
    BY <1>5, <1>6, ClientTypes
<1>8. \A o \in Open: /\ stream'[o] = stream[o] /\ stream[o].conv \in Ids /\ stream[o].conv # id
                     /\ o # s
    BY <1>1, <1>4, <1>5, ClientTypes DEF Open, Minted
<1>9. \A o \in Open: aborts[stream[o].conv] = o
    BY <1>3 DEF ControllersInv
<1>10. \A c \in Ids: aborts[c] # Blank => aborts[c] \in Open /\ stream[aborts[c]].conv = c
    BY <1>3 DEF ControllersInv
<1>11. \A o \in Open': aborts'[stream'[o].conv] = o
    BY <1>1, <1>5, <1>7, <1>8, <1>9
<1>12. \A c \in Ids: aborts'[c] # Blank => aborts'[c] \in Open' /\ stream'[aborts'[c]].conv = c
    BY <1>1, <1>5, <1>7, <1>8, <1>10
<1> QED BY <1>4, <1>11, <1>12 DEF ControllersInv

LEMMA EndControllers ==
    ASSUME ClientTypeOK, Minted, ControllersInv, NEW s \in Streams, End(s)
    PROVE  ControllersInv'
<1>1. /\ \A t \in Streams: /\ stream'[t].target = stream[t].target
                           /\ stream'[t].conv = stream[t].conv
      /\ Asked' = Asked \ {s} /\ Open' = Open \ {s}
    BY Ends
<1>2. crossed' = crossed
    BY DEF End, ghosts
<1>3. SUFFICES ASSUME ~crossed PROVE ControllersInv'
    BY <1>2 DEF ControllersInv
<1>4. PICK key: key = IF stream[s].conv = Blank THEN PreMint ELSE stream[s].conv
    OBVIOUS
<1>5. aborts' = IF aborts[key] = s THEN [aborts EXCEPT ![key] = Blank] ELSE aborts
    BY <1>4 DEF End
<1>6. key \in Ids \cup {PreMint} /\ s # Blank
    BY <1>4, ClientTypes
<1>7. /\ \A s1, t \in Asked: s1 = t
      /\ \A t \in Asked: aborts[PreMint] = t /\ \A o \in Open: stream[o].conv # Id(t)
      /\ \A o \in Open: aborts[stream[o].conv] = o
      /\ \A c \in Ids: aborts[c] # Blank =>
            aborts[c] \in Open /\ stream[aborts[c]].conv = c
    BY <1>3 DEF ControllersInv
<1>8. \A o \in Open: stream[o].conv \in Ids
    BY ClientTypes DEF Open, Minted
<1>9. \A t \in Streams: Id(t)' = Id(t)
    BY <1>1 DEF Id
<1>10. \A k \in Ids \cup {PreMint}: aborts'[k] = IF k = key /\ aborts[key] = s THEN Blank ELSE aborts[k]
    BY <1>5, <1>6, ClientTypes
<1>11. \A t \in Asked': aborts'[PreMint] = t /\ \A o \in Open': stream'[o].conv # Id(t)'
    BY <1>1, <1>7, <1>9, <1>10 DEF Asked, Open
<1>12. \A o \in Open': aborts'[stream'[o].conv] = o
    BY <1>1, <1>7, <1>8, <1>10 DEF Open
<1>13. ASSUME NEW c \in Ids, aborts'[c] # Blank
       PROVE  aborts'[c] \in Open' /\ stream'[aborts'[c]].conv = c
  <2>1. aborts'[c] = aborts[c] /\ aborts[c] \in Open /\ stream[aborts[c]].conv = c
    BY <1>7, <1>10, <1>13
  <2>2. aborts[c] # s
    BY <1>4, <1>10, <1>13, <2>1, ClientTypes
  <2> QED BY <1>1, <2>1, <2>2 DEF Open
<1> QED BY <1>1, <1>7, <1>11, <1>12, <1>13 DEF ControllersInv

-----------------------------------------------------------------------------
LEMMA ClientStarts == ASSUME ClientInit PROVE ClientInv
<1>1. Blank \notin Ids /\ Ids = Existing \cup Streams /\ MaxMoves \in Nat
    BY ChatClientAssumption DEF Ids
<1>2. \A s \in Streams: stream[s].pc = "idle" /\ stream[s].target = Blank /\ stream[s].conv = Blank
    BY DEF ClientInit
<1>3. Asked = {} /\ Open = {}
    BY <1>2 DEF Asked, Open
<1>4. ClientTypeOK
  <2>1. /\ aborts \in [Ids \cup {PreMint} -> Streams \cup {Blank}]
        /\ stream \in [Streams -> StreamRecord]
    BY <1>1 DEF ClientInit, StreamRecord, StreamPC
  <2>2. /\ {selected, rendered, justMinted} \subseteq Known \cup {Blank}
        /\ \A s \in Streams: {stream[s].target, stream[s].conv} \subseteq Known \cup {Blank}
    BY <1>2 DEF ClientInit
  <2>3. /\ shown = {} /\ busy = {} /\ loads = {} /\ working = {} /\ slipped = {} /\ moves = 0
        /\ preMintBusy = FALSE /\ confused = FALSE /\ crossed = FALSE
    BY DEF ClientInit
  <2>4. /\ shown \subseteq Ids \cup {Info} /\ busy \subseteq Ids /\ slipped \subseteq Ids \cup {Blank}
        /\ loads \subseteq [of: Ids, live: BOOLEAN]
        /\ working \subseteq [of: Ids, kind: {"truncate", "leave", "stay"}]
    BY <2>3
  <2>5. moves \in 0..MaxMoves
    BY <1>1, <2>3
  <2>6. {preMintBusy, confused, crossed} \subseteq BOOLEAN
    BY <2>3
  <2> QED BY <2>1, <2>2, <2>4, <2>5, <2>6 DEF ClientTypeOK, StreamRecord, StreamPC
<1>5. Minted
    BY <1>1, <1>2 DEF Minted
<1>6. ScreenInv /\ MarksInv
    BY DEF ClientInit, ScreenInv, MarksInv
<1>7. ControllersInv
    BY <1>1, <1>3 DEF ClientInit, ControllersInv
<1> QED BY <1>4, <1>5, <1>6, <1>7 DEF ClientInv

LEMMA ClientKeeps == ASSUME ClientInv, [ClientNext]_clientVars PROVE ClientInv'
<1>1. CASE UNCHANGED clientVars
    BY <1>1 DEF clientVars, ClientInv, ClientTypeOK, Minted, ScreenInv, MarksInv, ControllersInv,
                Marks, Asked, Open, Own, Id, Known
<1>2. CASE ClientNext
  <2>1. ClientTypeOK' /\ Minted' /\ ScreenInv' /\ MarksInv'
    BY <1>2, ClientTypeStep, ScreenStep, MarksStep DEF ClientInv
  <2>2. ControllersInv'
    BY <1>2, ClientSteps, StillControllers, SentControllers, SessionControllers, EndControllers
    DEF ClientInv
  <2> QED BY <2>1, <2>2 DEF ClientInv
<1> QED BY <1>1, <1>2

(***************************************************************************)
(* The panel's bookkeeping: every step of the panel (ChatPanel.tsx) and of *)
(* its streams keeps the screen, the busy marks and the map of             *)
(* controllers consistent with the streams and the loads under way.        *)
(***************************************************************************)
THEOREM ClientInvariance == ClientSpec => []ClientInv
BY ClientStarts, ClientKeeps, PTL DEF ClientSpec

(***************************************************************************)
(* Channels, targets and late responses name conversations that the server *)
(* has, or the blank screen (ChatPanel.tsx, conversationIdRef and          *)
(* streamConvId).                                                          *)
(***************************************************************************)
THEOREM ClientTypeCorrect == ClientSpec => []ClientTypeOK
<1>1. ClientInv => ClientTypeOK
    BY DEF ClientInv
<1> QED BY <1>1, ClientInvariance, PTL

(***************************************************************************)
(* For any number of conversations and streams: a screen at rest shows no  *)
(* other channel's messages (answers to commands aside).  The effect that  *)
(* loads a history cancels the load before it, and a frame is dropped      *)
(* unless its channel is on screen.                                        *)
(***************************************************************************)
THEOREM NoForeign == ClientSpec => []NoForeignBubbles
<1>1. ClientInv => NoForeignBubbles
    BY DEF ClientInv, ScreenInv, NoForeignBubbles, Settled, Visible
<1> QED BY <1>1, ClientInvariance, PTL

(***************************************************************************)
(* A busy mark is removed at the end of the request that set it            *)
(* (markBusy, ChatPanel.tsx), wherever the user is by then: no channel is  *)
(* locked with nothing under way.                                          *)
(***************************************************************************)
THEOREM MarksAreWork == ClientSpec => []BusyMeansWorking
<1>1. ASSUME ClientInv, NEW c \in busy
      PROVE  c \in {stream[s].conv: s \in Asked \cup Open} \cup {w.of: w \in working} \cup slipped
  <2>1. CASE \E s \in Streams: Marks(s, c)
    BY <2>1 DEF Marks, Asked, Open
  <2>2. CASE \E w \in working: w.of = c
    BY <2>2
  <2> QED BY <1>1, <2>1, <2>2 DEF ClientInv, MarksInv
<1>2. ClientInv => BusyMeansWorking
    BY <1>1 DEF BusyMeansWorking, ClientInv, MarksInv
<1> QED BY <1>2, ClientInvariance, PTL

(***************************************************************************)
(* stop() finds the controller of the channel's stream: under PreMint      *)
(* before the session frame, under the conversation after it.              *)
(***************************************************************************)
THEOREM StopFinds == ClientSpec => []StopFindsStream
<1>1. ASSUME ClientInv, ~crossed, NEW s \in Asked PROVE StopTarget(stream[s].target) = s
  <2>1. aborts[PreMint] = s /\ \A o \in Open: stream[o].conv # Id(s)
    BY <1>1 DEF ClientInv, ControllersInv
  <2>2. CASE stream[s].target = Blank \/ aborts[stream[s].target] = Blank
    BY <2>1, <2>2 DEF StopTarget
  <2>3. CASE stream[s].target # Blank /\ aborts[stream[s].target] # Blank
    <3>1. stream[s].target \in Ids /\ Id(s) = stream[s].target
        BY <1>1, <2>3, ClientTypes DEF Asked, Id, ClientInv
    <3> QED BY <1>1, <2>1, <2>3, <3>1 DEF ClientInv, ControllersInv
  <2> QED BY <2>2, <2>3
<1>2. ASSUME ClientInv, ~crossed, NEW s \in Open PROVE StopTarget(stream[s].conv) = s
  <2>1. stream[s].conv # Blank /\ s # Blank
    BY <1>2, ClientTypes DEF Open, Minted, ClientInv
  <2>2. aborts[stream[s].conv] = s
    BY <1>2 DEF ClientInv, ControllersInv
  <2> QED BY <2>1, <2>2 DEF StopTarget
<1>3. ClientInv => StopFindsStream
    BY <1>1, <1>2 DEF StopFindsStream
<1> QED BY <1>3, ClientInvariance, PTL
=============================================================================
