----------------------------- MODULE ChatClient -----------------------------
(***************************************************************************)
(* The chat panel of the browser (web/src/components/ChatPanel.tsx) with   *)
(* the stream functions it calls (web/src/lib/chat.ts): several channels,  *)
(* of which one is on screen, and a stream that goes on when its channel   *)
(* is left.                                                                *)
(*                                                                         *)
(* A click is rendered, with its effects, before anything else happens.    *)
(* What a frame or a response changes is rendered later; until then        *)
(* conversationIdRef and the closures are the old ones.                    *)
(***************************************************************************)
EXTENDS Naturals, FiniteSets

CONSTANTS
    Existing,      \* conversations the server has from the start
    Streams,       \* calls of runChatStream
    Blank,         \* the screen of a conversation that is not yet minted
    MaxMoves       \* bound: changes of channel, reloads and deletions

\* the conversation that a stream from the blank screen mints is named after it
Ids == Existing \cup Streams
PreMint == "__pre_mint__"
\* a bubble with the answer to a command, of no conversation's history
Info == "info"

ASSUME ChatClientAssumption ==
    /\ Existing \cap Streams = {}                  \* ids are fresh
    /\ Blank \notin Ids \cup {PreMint} /\ PreMint \notin Ids
    /\ Info \notin Ids
    /\ MaxMoves \in Nat

VARIABLES
    selected,      \* conversationId as last set
    rendered,      \* conversationId as last rendered, and conversationIdRef
    shown,         \* the conversations of which the screen has bubbles; Info
    loads,         \* history requests; live: not cancelled
    justMinted,    \* justMintedConvIdRef
    busy,          \* busyConvIds
    preMintBusy,
    aborts,        \* abortByConvIdRef
    stream,        \* the streams; conv is streamConvId
    working,       \* truncations and deletions under way
    moves,
    confused,      \* history: the screen kept another conversation's bubbles
    slipped,       \* history: channels whose delayed send began in another
    crossed        \* history: two streams were in each other's way

clientVars == <<selected, rendered, shown, loads, justMinted, busy, preMintBusy, aborts,
          stream, working, moves, confused, slipped, crossed>>
screen == <<selected, rendered, shown, loads, justMinted>>
flags == <<busy, preMintBusy, aborts>>
ghosts == <<confused, slipped, crossed>>

ClientInit ==
    /\ selected = Blank /\ rendered = Blank /\ shown = {} /\ loads = {}
    /\ justMinted = Blank
    /\ busy = {} /\ preMintBusy = FALSE
    /\ aborts = [k \in Ids \cup {PreMint} |-> Blank]
    /\ stream = [s \in Streams |-> [pc |-> "idle", target |-> Blank, conv |-> Blank]]
    /\ working = {} /\ moves = 0
    /\ confused = FALSE /\ slipped = {} /\ crossed = FALSE

\* what the server calls the conversation of a stream
Id(s) == IF stream[s].target = Blank THEN s ELSE stream[s].target
StreamTo(s, pc, target, conv) ==
    stream' = [stream EXCEPT ![s] = [pc |-> pc, target |-> target, conv |-> conv]]
\* the conversations of the sidebar
Known == Existing \cup {s \in Streams: stream[s].conv = s}
Busy == rendered \in busy \/ (rendered = Blank /\ preMintBusy)
\* a user acts on what is rendered
Acts == selected = rendered

-----------------------------------------------------------------------------
(* The effect that loads the history of the channel on screen; its cleanup *)
(* cancels the load before it.                                             *)

\* bug: the load of the channel that was left is not cancelled
Bug_NotCancelled == loads

Cancelled == {[l EXCEPT !.live = FALSE]: l \in loads}

Hydrate(c, bubbles) ==
    /\ rendered' = c
    /\ CASE c = Blank -> shown' = {} /\ loads' = Cancelled
                         /\ justMinted' = justMinted /\ confused' = FALSE
         [] c # Blank /\ justMinted = c ->
               /\ justMinted' = Blank                  \* skip the reload
               /\ shown' = bubbles /\ loads' = Cancelled
               /\ confused' = (bubbles \ {c, Info} # {})
         [] OTHER -> /\ loads' = Cancelled \cup {[of |-> c, live |-> TRUE]}
                     /\ shown' = bubbles /\ UNCHANGED <<justMinted, confused>>

\* what a frame or a response has selected is rendered
Render ==
    /\ selected # rendered
    /\ Hydrate(selected, shown)
    /\ UNCHANGED <<selected, flags, stream, working, moves, slipped, crossed>>

\* the history, or the error in its stead, replaces the bubbles
Loaded(l) ==
    /\ l \in loads
    /\ loads' = loads \ {l}
    /\ IF l.live THEN shown' = {l.of} /\ confused' = FALSE ELSE UNCHANGED <<shown, confused>>
    /\ UNCHANGED <<selected, rendered, justMinted, flags, stream, working, moves,
                   slipped, crossed>>

Moves == moves < MaxMoves /\ moves' = moves + 1

\* selectConv
Select(c) ==
    /\ Acts /\ c # rendered /\ Moves
    /\ selected' = c /\ Hydrate(c, shown)
    /\ UNCHANGED <<flags, stream, working, slipped, crossed>>

\* newChat: a second one, on the blank screen, has no effect to run
NewChat ==
    /\ Acts /\ Moves
    /\ selected' = Blank /\ shown' = {} /\ preMintBusy' = FALSE /\ confused' = FALSE
    /\ rendered' = Blank
    /\ loads' = IF rendered = Blank THEN loads ELSE Cancelled
    /\ UNCHANGED <<justMinted, busy, aborts, stream, working, slipped, crossed>>

\* /compact, /rewind, a goal's round: reloadTick; a rewind first shows the
\* server's answer
Reload ==
    /\ Acts /\ Moves
    /\ \E info \in {{}, {Info}}: Hydrate(rendered, shown \cup info)
    /\ UNCHANGED <<selected, flags, stream, working, slipped, crossed>>

\* pushInfoBubble, after the await of a command or of a checkpoint's button:
\* the answer is shown in whatever channel the user is by now
Inform ==
    /\ Moves
    /\ shown' = shown \cup {Info}
    /\ UNCHANGED <<selected, rendered, loads, justMinted, flags, stream, working, ghosts>>

\* a goal's first round is over, or a thread was created: its conversation is
\* selected, wherever the user is by now
Jump(c) ==
    /\ Moves
    /\ selected' = c
    /\ shown' \in IF c = rendered THEN {shown} ELSE {shown, {}}
    /\ UNCHANGED <<rendered, loads, justMinted, flags, stream, working, ghosts>>

-----------------------------------------------------------------------------
(* Streams.                                                                *)

Asked == {s \in Streams: stream[s].pc = "asked"}
Open == {s \in Streams: stream[s].pc = "open"}

\* the optimistic bubbles, the busy mark of `target`, and runChatStream up to
\* its request
Begin(s, target, marks) ==
    /\ busy' = IF marks /\ target # Blank THEN busy \cup {target} ELSE busy
    /\ preMintBusy' = (preMintBusy \/ (marks /\ target = Blank))
    /\ shown' = shown \cup {IF target = Blank THEN s ELSE target}
    /\ aborts' = [aborts EXCEPT ![PreMint] = s]
    /\ StreamTo(s, "asked", target, rendered)
    /\ crossed' = \/ crossed \/ Asked # {}
                  \/ \E o \in Open: stream[o].conv = target
    /\ UNCHANGED <<selected, rendered, loads, justMinted, working>>

\* send; reRun and the commit of an edit, in a conversation that exists
Send(s) ==
    /\ Acts /\ ~Busy /\ stream[s].pc = "idle"
    /\ Begin(s, rendered, TRUE)
    /\ UNCHANGED <<moves, confused, slipped>>

\* handleAnswerAsk, and the commit of an edit begun before: no test of busy
AnswerAsk(s) ==
    /\ Acts /\ rendered # Blank /\ stream[s].pc = "idle"
    /\ \E marks \in BOOLEAN: Begin(s, rendered, marks)
    /\ UNCHANGED <<moves, confused, slipped>>

\* /review: the prompt is fetched first
Prepare(s) ==
    /\ Acts /\ ~Busy /\ stream[s].pc = "idle"
    /\ StreamTo(s, "preparing", rendered, Blank)
    /\ UNCHANGED <<screen, flags, working, moves, ghosts>>

SendPrepared(s) ==
    LET target == stream[s].target
    IN  /\ stream[s].pc = "preparing"
        /\ Begin(s, target, TRUE)
        /\ confused' = (confused \/ target # rendered)
        /\ slipped' = IF target # rendered THEN slipped \cup {target} ELSE slipped
        /\ UNCHANGED moves

\* bug: the controller stays where it was registered
Bug_NoRekey(c) == aborts

\* the controller found under PreMint moves to the conversation
Rekeyed(c) ==
    IF aborts[PreMint] = Blank THEN aborts
    ELSE [aborts EXCEPT ![c] = aborts[PreMint], ![PreMint] = Blank]

\* the session frame, which is the first
Session(s) ==
    /\ stream[s].pc = "asked"
    /\ StreamTo(s, "open", stream[s].target, Id(s))
    /\ justMinted' = Id(s)
    /\ busy' = busy \cup {Id(s)} /\ preMintBusy' = FALSE
    /\ aborts' = Rekeyed(Id(s))
    /\ selected' = Id(s)
    /\ UNCHANGED <<rendered, shown, loads, working, moves, ghosts>>

\* bug: frames are shown wherever the user is
Bug_FrameAnywhere(s) ==
    /\ stream[s].pc = "open"
    /\ shown' = shown \cup {Id(s)}
    /\ UNCHANGED <<selected, rendered, loads, justMinted, flags, stream, working, moves,
                   ghosts>>

\* any other frame is dropped unless the stream's channel is on screen
Frame(s) ==
    /\ stream[s].pc = "open"
    /\ stream[s].conv = rendered
    /\ shown' = shown \cup {Id(s)}
    /\ UNCHANGED <<selected, rendered, loads, justMinted, flags, stream, working, moves,
                   ghosts>>

\* bug: the mark is cleared only in the channel on screen
Bug_ClearShown(s) == IF stream[s].conv = rendered THEN busy \ {stream[s].conv} ELSE busy

\* markBusy(streamConvId, false)
Unmarked(s) == busy \ {stream[s].conv}

\* the response ends, fails or is refused, or the request was aborted
End(s) ==
    LET key == IF stream[s].conv = Blank THEN PreMint ELSE stream[s].conv
    IN  /\ stream[s].pc \in {"asked", "open"}
        /\ aborts' = IF aborts[key] = s THEN [aborts EXCEPT ![key] = Blank] ELSE aborts
        /\ busy' = Unmarked(s) /\ preMintBusy' = FALSE
        /\ stream' = [stream EXCEPT ![s].pc = "ended"]
        /\ UNCHANGED <<screen, working, moves, ghosts>>

-----------------------------------------------------------------------------
(* deleteFromHere marks its conversation busy while it awaits; deleteConv  *)
(* does not, and then goes to the blank screen if the conversation was on  *)
(* screen when it was asked.                                               *)

Truncate ==
    /\ Acts /\ rendered # Blank /\ ~Busy /\ Moves
    /\ busy' = busy \cup {rendered}
    /\ working' = working \cup {[of |-> rendered, kind |-> "truncate"]}
    /\ UNCHANGED <<screen, preMintBusy, aborts, stream, ghosts>>

Truncated(w) ==
    /\ w \in working /\ w.kind = "truncate"
    /\ working' = working \ {w}
    /\ busy' = busy \ {w.of}
    /\ UNCHANGED <<screen, preMintBusy, aborts, stream, moves, ghosts>>

Delete(c) ==
    /\ Acts /\ Moves
    /\ working' = working \cup {[of |-> c, kind |-> IF c = rendered THEN "leave" ELSE "stay"]}
    /\ UNCHANGED <<screen, flags, stream, ghosts>>

Deleted(w) ==
    /\ w \in working /\ w.kind \in {"leave", "stay"}
    /\ working' = working \ {w}
    /\ IF w.kind = "leave"
       THEN selected' = Blank /\ shown' = {} /\ preMintBusy' = FALSE
       ELSE UNCHANGED <<selected, shown, preMintBusy>>
    /\ UNCHANGED <<rendered, loads, justMinted, busy, aborts, stream, moves, ghosts>>

ClientNext ==
    \/ Render \/ NewChat \/ Reload \/ Inform \/ Truncate
    \/ \E l \in loads: Loaded(l)
    \/ \E c \in Known: Select(c) \/ Jump(c) \/ Delete(c)
    \/ \E s \in Streams:
          \/ Send(s) \/ AnswerAsk(s) \/ Prepare(s) \/ SendPrepared(s)
          \/ Session(s) \/ Frame(s) \/ End(s)
    \/ \E w \in working: Truncated(w) \/ Deleted(w)

ClientSpec == ClientInit /\ [][ClientNext]_clientVars

-----------------------------------------------------------------------------
(***************************************************************************)
(* Types.  A channel, a target or a late response names a conversation the *)
(* server has, or the blank screen.                                        *)
(***************************************************************************)
ClientTypeOK ==
    /\ {selected, rendered, justMinted} \subseteq Known \cup {Blank}
    /\ shown \subseteq Ids \cup {Info} /\ busy \subseteq Ids
    /\ loads \subseteq [of: Ids, live: BOOLEAN]
    /\ aborts \in [Ids \cup {PreMint} -> Streams \cup {Blank}]
    /\ stream \in [Streams -> [pc: {"idle", "preparing", "asked", "open", "ended"},
                               target: Ids \cup {Blank}, conv: Ids \cup {Blank}]]
    /\ \A s \in Streams: {stream[s].target, stream[s].conv} \subseteq Known \cup {Blank}
    /\ working \subseteq [of: Ids, kind: {"truncate", "leave", "stay"}]
    /\ moves \in 0..MaxMoves /\ slipped \subseteq Ids \cup {Blank}
    /\ {preMintBusy, confused, crossed} \subseteq BOOLEAN

\* the screen is at rest: rendered, and nothing is loading
Settled == Acts /\ \A l \in loads: ~l.live
\* the conversations whose messages are on screen
Visible == shown \ {Info}
\* what belongs there
Own == IF rendered = Blank THEN {s \in Streams: stream[s].target = Blank} ELSE {rendered}

(***************************************************************************)
(* A screen at rest shows the messages of the selected conversation and no *)
(* other's: late histories and the frames of channels in the background    *)
(* are dropped.  Not so after a load was skipped for a conversation whose  *)
(* bubbles were not on screen, or a delayed send, until the next load; and *)
(* the answers to commands appear wherever the user is when they come.     *)
(***************************************************************************)
NoForeignBubbles == Settled => confused \/ Visible \subseteq Own

(***************************************************************************)
(* The comments of the panel (ChatPanel.tsx:940-945, 964-969) say that     *)
(* coming back to a channel reloads it, and that only a new conversation   *)
(* that is still streaming skips the reload: once no stream is under way,  *)
(* a conversation that existed before is shown when it is selected.        *)
(***************************************************************************)
SelectedIsShown ==
    Settled /\ slipped = {} /\ Asked \cup Open = {} /\ rendered \in Existing
        => Visible \subseteq Own

(***************************************************************************)
(* A channel is locked as busy only while a request of its own is under    *)
(* way, however channels are left and streams fail; except where a         *)
(* delayed send began in another channel than it was typed in.             *)
(***************************************************************************)
BusyMeansWorking ==
    /\ busy \subseteq {stream[s].conv: s \in Asked \cup Open}
                       \cup {w.of: w \in working} \cup slipped
    /\ preMintBusy => \E s \in Asked: stream[s].target = Blank

\* stop(): whose controller the button of a channel finds
StopTarget(c) ==
    IF c # Blank /\ aborts[c] # Blank THEN aborts[c] ELSE aborts[PreMint]

(***************************************************************************)
(* Stop in the channel of a running stream finds that stream, before and   *)
(* after its first frame, also when other channels stream; except where    *)
(* two streams were before their first frame at once, or in one channel.   *)
(***************************************************************************)
StopFindsStream ==
    \/ crossed
    \/ /\ \A s \in Asked: StopTarget(stream[s].target) = s
       /\ \A s \in Open: StopTarget(stream[s].conv) = s
=============================================================================
