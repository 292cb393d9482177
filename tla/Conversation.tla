---------------------------- MODULE Conversation ----------------------------
(***************************************************************************)
(* One chat conversation of the server (src/src/server/serve.ts) and the   *)
(* questions its model asks the user.  When a round calls `ask_user`, the  *)
(* session leaves a placeholder tool message in the history and stops; the *)
(* route flushes the history to disk, records the question in the          *)
(* annotations sidecar (`pendingAsk`) and may arm a timer.  Three kinds of *)
(* activity then race to replace the placeholder, each one reading the     *)
(* sidecar, awaiting, patching the shared session and writing the sidecar: *)
(*   - a new message, which cancels the question it finds;                 *)
(*   - an answer posted by the user, which resumes the round;              *)
(*   - the timer, which puts the default answer and resumes the round.     *)
(* Every await is a step boundary.  The steer registry                     *)
(* (steer-registry.ts) counts the streams of the conversation and holds    *)
(* one steer message for them.                                             *)
(***************************************************************************)
EXTENDS Naturals, FiniteSets

CONSTANTS
  Sends,        \* requests that post a new message
  Answers,      \* requests that post an answer to the pending question
  Annotators,   \* requests that edit an annotation
  Viewers,      \* requests that save the view's state (a request that is in
                \* both sets may turn out to be either)
  Asks,         \* the tool-call ids of the questions the model may ask
  NoAsk,        \* "no question": an absent pendingAsk
  MaxCrashes,   \* bound: how often the server may crash
  MaxFailures   \* bound: how many sidecar and history writes may fail

Requests == Sends \cup Answers

(* A timer is known by the question it was armed for, so the resolver that *)
(* it fires is the process named by that question.                         *)
Resolvers == Requests \cup Asks
Processes == Resolvers \cup Annotators \cup Viewers

Absent      == "absent"        \* the question has not been asked
Placeholder == "placeholder"   \* ASK_USER_PENDING_PLACEHOLDER

ASSUME ConversationAssumption ==
  /\ MaxCrashes \in Nat
  /\ MaxFailures \in Nat
  /\ NoAsk \notin Resolvers
  /\ Absent \notin Resolvers
  /\ Placeholder \notin Resolvers
  /\ Sends \cap Answers = {}
  /\ Requests \cap Asks = {}
  /\ (Annotators \cup Viewers) \cap Resolvers = {}

VARIABLES
  pc,        \* where each process stands
  loaded,    \* the pendingAsk in the copy of the sidecar a process read
  asking,    \* the question a process's round has just asked
  asker,     \* the process that asked each question (NoAsk: not asked yet)
  mem,       \* the live session: for each question absent, the placeholder,
             \* or the process that replaced it
  disk,      \* the same in the conversation's jsonl file
  sidecar,   \* pendingAsk in the annotations file
  timers,    \* askTimeoutRegistry: the questions with an armed timer
  streams,   \* activeStreamRefs: the reference count of the conversation
  steer,     \* whether a steer message waits to be consumed
  crashes, failures

vars == <<pc, loaded, asking, asker, mem, disk, sidecar, timers, streams,
          steer, crashes, failures>>

Stages == {"idle", "opening", "loading", "patching", "clearing",
           "dropping", "ready", "probing", "calling", "flushing",
           "keeping", "recording", "saving", "done", "refused", "failed",
           "lost"}

(* Where a process stands while its stream is open. *)
Streaming == {"probing", "calling", "flushing", "keeping", "recording"}

TypeOK ==
  /\ pc \in [Processes -> Stages]
  /\ loaded \in [Processes -> Asks \cup {NoAsk}]
  /\ asking \in [Resolvers -> Asks \cup {NoAsk}]
  /\ asker \in [Asks -> Resolvers \cup {NoAsk}]
  /\ mem \in [Asks -> Resolvers \cup {Absent, Placeholder}]
  /\ disk \in [Asks -> Resolvers \cup {Absent, Placeholder}]
  /\ sidecar \in Asks \cup {NoAsk}
  /\ timers \subseteq Asks
  /\ streams \in Nat
  /\ steer \in BOOLEAN
  /\ crashes \in 0..MaxCrashes
  /\ failures \in 0..MaxFailures

Init ==
  /\ pc = [p \in Processes |-> "idle"]
  /\ loaded = [p \in Processes |-> NoAsk]
  /\ asking = [p \in Resolvers |-> NoAsk]
  /\ asker = [a \in Asks |-> NoAsk]
  /\ mem = [a \in Asks |-> Absent]
  /\ disk = mem
  /\ sidecar = NoAsk
  /\ timers = {}
  /\ streams = 0
  /\ steer = FALSE
  /\ crashes = 0
  /\ failures = 0

-----------------------------------------------------------------------------
Goto(p, stage) == pc' = [pc EXCEPT ![p] = stage]

(* The write fails with an I/O error, or it succeeds. *)
WriteFails == failures < MaxFailures /\ failures' = failures + 1
WriteWorks == UNCHANGED failures

(* markStreamActive and markStreamInactive.  The timer's resolver runs the *)
(* model outside any request and is in no count.                           *)
MarkActive(p) ==
  IF p \in Asks THEN UNCHANGED streams ELSE streams' = streams + 1

\* bug: the last stream leaves an unread steer behind
Bug_SteerStays(p) ==
  IF p \in Asks
    THEN UNCHANGED <<streams, steer>>
    ELSE /\ streams' = IF streams <= 1 THEN 0 ELSE streams - 1
         /\ UNCHANGED steer

MarkInactive(p) ==
  IF p \in Asks
    THEN UNCHANGED <<streams, steer>>
    ELSE /\ streams' = IF streams <= 1 THEN 0 ELSE streams - 1
         /\ steer' = (streams > 1 /\ steer)

-----------------------------------------------------------------------------
(* A message arrives: refused when a stream is registered; the session is  *)
(* then fetched with an await before the stream registers itself.          *)
Post(p) ==
  /\ p \in Sends /\ pc[p] = "idle"
  /\ Goto(p, IF streams > 0 THEN "refused" ELSE "opening")
  /\ UNCHANGED <<loaded, asking, asker, mem, disk, sidecar, timers, streams,
                 steer, crashes, failures>>

(* cancelOrphanPendingAsk reads the sidecar. *)
FindOrphan(p) ==
  /\ p \in Sends /\ pc[p] = "opening"
  /\ loaded' = [loaded EXCEPT ![p] = sidecar]
  /\ Goto(p, IF sidecar = NoAsk THEN "ready" ELSE "patching")
  /\ UNCHANGED <<asking, asker, mem, disk, sidecar, timers, streams, steer,
                 crashes, failures>>

(* An answer arrives: ignored when no question is pending, refused when it *)
(* names another question than the pending one.                            *)
Answer(p, claimed) ==
  /\ p \in Answers /\ pc[p] = "idle"
  /\ IF sidecar = NoAsk \/ claimed \notin {NoAsk, sidecar}
       THEN Goto(p, "refused") /\ UNCHANGED loaded
       ELSE /\ Goto(p, "patching")
            /\ loaded' = [loaded EXCEPT ![p] = sidecar]
  /\ UNCHANGED <<asking, asker, mem, disk, sidecar, timers, streams, steer,
                 crashes, failures>>

(* The timer fires, and its resolver reads the sidecar: it goes on only if *)
(* the question is still the pending one.                                  *)
Fire(a) ==
  /\ a \in timers /\ pc[a] = "idle"
  /\ timers' = timers \ {a}
  /\ Goto(a, "loading")
  /\ UNCHANGED <<loaded, asking, asker, mem, disk, sidecar, streams, steer,
                 crashes, failures>>

CheckPending(a) ==
  /\ a \in Asks /\ pc[a] = "loading"
  /\ IF sidecar = a
       THEN Goto(a, "patching") /\ loaded' = [loaded EXCEPT ![a] = a]
       ELSE Goto(a, "done") /\ UNCHANGED loaded
  /\ UNCHANGED <<asking, asker, mem, disk, sidecar, timers, streams, steer,
                 crashes, failures>>

(* The session is at hand: replace the placeholder of the loaded question, *)
(* in one synchronous block.  When it is gone, an answer and a timer only  *)
(* drop the slot; a new message clears it in either case.                  *)
\* bug: the tool message is matched by its id only
Bug_ById(a) == mem[a] # Absent

IsWaiting(a) == mem[a] = Placeholder

\* bug: the patched copy is never put back into the session
Bug_CopyOnly(p, a) == mem

Patched(p, a) == [mem EXCEPT ![a] = p]

Patch(p) ==
  /\ p \in Resolvers /\ pc[p] = "patching"
  /\ IF IsWaiting(loaded[p])
       THEN mem' = Patched(p, loaded[p]) /\ Goto(p, "clearing")
       ELSE /\ UNCHANGED mem
            /\ Goto(p, IF p \in Sends THEN "clearing" ELSE "dropping")
  /\ UNCHANGED <<loaded, asking, asker, disk, sidecar, timers, streams, steer,
                 crashes, failures>>

Disarm(p) == timers \ {loaded[p]}

Clear(p) ==
  /\ p \in Resolvers /\ pc[p] = "clearing"
  /\ \/ /\ WriteWorks
        /\ sidecar' = NoAsk
        /\ timers' = Disarm(p)
        /\ Goto(p, "ready")
     \/ /\ WriteFails
        /\ UNCHANGED sidecar
        /\ timers' = IF p \in Answers THEN timers ELSE Disarm(p)
        /\ Goto(p, IF p \in Answers THEN "failed" ELSE "ready")
  /\ UNCHANGED <<loaded, asking, asker, mem, disk, streams, steer, crashes>>

Drop(p) ==
  /\ p \in Resolvers /\ pc[p] = "dropping"
  /\ \/ WriteWorks /\ sidecar' = NoAsk
     \/ WriteFails /\ UNCHANGED sidecar
  /\ Goto(p, "refused")
  /\ UNCHANGED <<loaded, asking, asker, mem, disk, timers, streams, steer,
                 crashes>>

-----------------------------------------------------------------------------
(* The stream opens and ChatSession.runRounds begins. *)
Start(p) ==
  /\ p \in Resolvers /\ pc[p] = "ready"
  /\ MarkActive(p)
  /\ Goto(p, "probing")
  /\ UNCHANGED <<loaded, asking, asker, mem, disk, sidecar, timers, steer,
                 crashes, failures>>

(* The attachments of a message turn out bad: the request ends before its  *)
(* stream opens, the question it found stays cancelled.                    *)
BadAttachment(p) ==
  /\ p \in Sends /\ pc[p] = "ready"
  /\ Goto(p, "refused")
  /\ UNCHANGED <<loaded, asking, asker, mem, disk, sidecar, timers, streams,
                 steer, crashes, failures>>

(* Top of a round: take the pending steer, then call the model. *)
BeginRound(p) ==
  /\ p \in Resolvers /\ pc[p] = "probing"
  /\ steer' = (steer /\ p \in Asks)
  /\ Goto(p, "calling")
  /\ UNCHANGED <<loaded, asking, asker, mem, disk, sidecar, timers, streams,
                 crashes, failures>>

(* The model calls ordinary tools and the loop goes round, or it answers   *)
(* and the history is flushed.                                             *)
Reply(p) ==
  /\ p \in Resolvers /\ pc[p] = "calling"
  /\ \E stage \in {"probing", "flushing"} : Goto(p, stage)
  /\ UNCHANGED <<loaded, asking, asker, mem, disk, sidecar, timers, streams,
                 steer, crashes, failures>>

\* bug: the question is recorded before the history is flushed
Bug_RecordFirst(p, a) ==
  /\ p \in Resolvers /\ pc[p] = "calling"
  /\ asker[a] = NoAsk
  /\ asker' = [asker EXCEPT ![a] = p]
  /\ asking' = [asking EXCEPT ![p] = a]
  /\ mem' = [mem EXCEPT ![a] = Placeholder]
  /\ Goto(p, "recording")
  /\ UNCHANGED <<loaded, disk, sidecar, timers, streams, steer, crashes,
                 failures>>

(* The model asks the user: the placeholder closes the tool call and the   *)
(* round ends with AskUserPending.  A request flushes the history before   *)
(* it records the question; the timer's resolver records it first.         *)
Ask(p, a) ==
  /\ p \in Resolvers /\ pc[p] = "calling"
  /\ asker[a] = NoAsk
  /\ asker' = [asker EXCEPT ![a] = p]
  /\ asking' = [asking EXCEPT ![p] = a]
  /\ mem' = [mem EXCEPT ![a] = Placeholder]
  /\ Goto(p, IF p \in Asks THEN "recording" ELSE "keeping")
  /\ UNCHANGED <<loaded, disk, sidecar, timers, streams, steer, crashes,
                 failures>>

(* The model call fails: an error frame, and no flush; the timer's         *)
(* resolver flushes what there is.                                         *)
CallFails(p) ==
  /\ p \in Resolvers /\ pc[p] = "calling"
  /\ MarkInactive(p)
  /\ Goto(p, IF p \in Asks THEN "flushing" ELSE "done")
  /\ UNCHANGED <<loaded, asking, asker, mem, disk, sidecar, timers, crashes,
                 failures>>

(* The last flush of a stream, which then closes. *)
Flush(p) ==
  /\ p \in Resolvers /\ pc[p] = "flushing"
  /\ \/ WriteWorks /\ disk' = mem
     \/ WriteFails /\ UNCHANGED disk
  /\ MarkInactive(p)
  /\ Goto(p, "done")
  /\ UNCHANGED <<loaded, asking, asker, mem, sidecar, timers, crashes>>

(* The flush that precedes the record of a question: when it fails, the    *)
(* error leaves the handler and the question is never recorded.            *)
Keep(p) ==
  /\ p \in Requests /\ pc[p] = "keeping"
  /\ \/ /\ WriteWorks
        /\ disk' = mem
        /\ Goto(p, "recording")
        /\ UNCHANGED <<streams, steer>>
     \/ /\ WriteFails
        /\ MarkInactive(p)
        /\ Goto(p, "done")
        /\ UNCHANGED disk
  /\ UNCHANGED <<loaded, asking, asker, mem, sidecar, timers, crashes>>

(* Write the question over whatever the sidecar held, and arm its timer if *)
(* it has one; a failed write leaves the question unrecorded.              *)
Record(p) ==
  /\ p \in Resolvers /\ pc[p] = "recording"
  /\ \/ /\ WriteWorks
        /\ sidecar' = asking[p]
        /\ \E armed \in {{}, {asking[p]}} : timers' = timers \cup armed
     \/ WriteFails /\ UNCHANGED <<sidecar, timers>>
  /\ IF p \in Asks
       THEN Goto(p, "flushing") /\ UNCHANGED <<streams, steer>>
       ELSE Goto(p, "done") /\ MarkInactive(p)
  /\ asking' = [asking EXCEPT ![p] = NoAsk]
  /\ UNCHANGED <<loaded, asker, mem, disk, crashes>>

-----------------------------------------------------------------------------
(* The user steers the round in flight. *)
Steer ==
  /\ streams > 0
  /\ steer' = TRUE
  /\ UNCHANGED <<pc, loaded, asking, asker, mem, disk, sidecar, timers,
                 streams, crashes, failures>>

(* mutateAnnotations: the whole sidecar is read, edited and written back   *)
(* under a lock that the writers above do not take.                        *)
ReadNotes(p) ==
  /\ p \in Annotators /\ pc[p] = "idle"
  /\ loaded' = [loaded EXCEPT ![p] = sidecar]
  /\ Goto(p, "saving")
  /\ UNCHANGED <<asking, asker, mem, disk, sidecar, timers, streams, steer,
                 crashes, failures>>

SaveNotes(p) ==
  /\ p \in Annotators /\ pc[p] = "saving"
  /\ \/ WriteWorks /\ sidecar' = loaded[p]
     \/ WriteFails /\ UNCHANGED sidecar
  /\ Goto(p, "done")
  /\ UNCHANGED <<loaded, asking, asker, mem, disk, timers, streams, steer,
                 crashes>>

(* PATCH uistate writes back the annotations and the interface's state,    *)
(* which are the only fields of the sidecar it keeps.                      *)
SaveView(p) ==
  /\ p \in Viewers /\ pc[p] = "idle"
  /\ \/ WriteWorks /\ sidecar' = NoAsk
     \/ WriteFails /\ UNCHANGED sidecar
  /\ Goto(p, "done")
  /\ UNCHANGED <<loaded, asking, asker, mem, disk, timers, streams, steer,
                 crashes>>

(* The server dies and starts again: files stay, the session is loaded     *)
(* from disk, and nothing arms the timers again.                           *)
Running(p) == pc[p] \notin {"idle", "done", "refused", "failed", "lost"}

Crash ==
  /\ crashes < MaxCrashes
  /\ crashes' = crashes + 1
  /\ pc' = [p \in Processes |->
              IF pc[p] = "idle" THEN "idle" ELSE "lost"]
  /\ loaded' = [p \in Processes |-> NoAsk]
  /\ asking' = [p \in Resolvers |-> NoAsk]
  /\ mem' = disk
  /\ timers' = {}
  /\ streams' = 0
  /\ steer' = FALSE
  /\ UNCHANGED <<asker, disk, sidecar, failures>>

Resolve(p) ==
  \/ Post(p) \/ FindOrphan(p) \/ CheckPending(p) \/ Patch(p) \/ Clear(p)
  \/ Drop(p) \/ Start(p) \/ BadAttachment(p) \/ BeginRound(p) \/ Reply(p)
  \/ CallFails(p) \/ Flush(p) \/ Keep(p) \/ Record(p)
  \/ \E a \in Asks : Ask(p, a)
  \/ \E claimed \in Asks \cup {NoAsk} : Answer(p, claimed)

Next ==
  \/ \E p \in Resolvers : Resolve(p)
  \/ \E a \in Asks : Fire(a)
  \/ \E p \in Annotators : ReadNotes(p) \/ SaveNotes(p)
  \/ \E p \in Viewers : SaveView(p)
  \/ Steer
  \/ Crash

Spec == Init /\ [][Next]_vars

-----------------------------------------------------------------------------
(* Once somebody has replaced the placeholder of a question, by an answer, *)
(* the default or a cancellation, nobody replaces it again: the processes  *)
(* that read the same sidecar and lose the race must notice (the           *)
(* placeholder test in serve.ts).  Only a crash goes back to the disk.     *)
FirstAnswerWins ==
  [][crashes' = crashes =>
       \A a \in Asks : mem[a] \in Resolvers => mem'[a] = mem[a]]_vars

(* An answer that was accepted, so that its stream was opened, is the one  *)
(* in the history the model goes on with, whatever timers and messages     *)
(* arrived meanwhile.                                                      *)
Accepted(p) ==
  p \in Answers /\ pc[p] \in Streaming \cup {"ready", "done"}

AcceptedAnswerIsKept ==
  \A p \in Answers : Accepted(p) => mem[loaded[p]] = p

(* An accepted answer has beaten the timer: from the opening of its stream *)
(* on, no timer of its question is armed any more.                         *)
AnswerDisarmsTimer ==
  \A p \in Answers : Accepted(p) => loaded[p] \notin timers

(* A question recorded by a request can be answered after a restart: its   *)
(* placeholder is on disk before the sidecar names it, and an annotation   *)
(* that writes an old copy back cannot break that.                         *)
RecordedAskSurvives ==
  sidecar # NoAsk /\ asker[sidecar] \in Requests =>
    disk[sidecar] # Absent

(* A steer message is only kept while a request that will poll it is       *)
(* streaming: it never waits for a later, unrelated stream.                *)
SteerHasReader ==
  steer => \E p \in Requests : pc[p] \in Streaming

(* "The serve `/answer-ask` endpoint clears this slot once the reply lands" *)
(* (store.ts:231): the record of a question leaves the sidecar only when   *)
(* its placeholder has been replaced.                                      *)
ClearedOnlyWhenResolved ==
  [][\A a \in Asks : sidecar = a /\ sidecar' # a => mem'[a] # Placeholder]_vars
=============================================================================
