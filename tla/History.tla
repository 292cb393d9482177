------------------------------ MODULE History ------------------------------
(***************************************************************************)
(* The message history of one conversation: the round loop that appends to *)
(* it (src/src/core/chat/session.ts), compaction, which replaces its older *)
(* part by a summary (subagent/runners/compact.ts), and what the routes of *)
(* a conversation do to it (rerun, truncate, compact in serve.ts).         *)
(*                                                                         *)
(* Providers refuse a history in which a tool call is not followed by its  *)
(* results, or a result follows no call; such a conversation is stuck.     *)
(*                                                                         *)
(* A "chat" session lives in the server's cache and is compacted on        *)
(* request, beside a turn too.  A "goal" session is made from the file for *)
(* every iteration, and compacts itself before and within a turn.          *)
(***************************************************************************)
EXTENDS Naturals, SequencesExt

CONSTANTS
    TurnRequests,  \* POST message, rerun, truncate; or the goal's runner
    KeepRounds,    \* keepRecentRounds, at least 1
    MaxBatch,      \* bound: tool calls of one answer
    MaxRounds,     \* maxToolRounds
    MaxTurns,      \* bound: turns
    MaxSteers,     \* bound: steers
    MaxCompacts,   \* bound: /compact requests
    MaxDeaths      \* bound: deaths of the server

ASSUME HistoryAssumption ==
    /\ KeepRounds \in Nat \ {0} /\ MaxBatch \in Nat /\ MaxRounds \in Nat

VARIABLES
    mode,          \* "chat" or "goal"
    messages,      \* the session's array
    jsonl,         \* the conversation's .jsonl
    turn,          \* the requests
    compact,       \* the /compact under way
    recent,        \* history: what was pushed since the last user message
    mixed,         \* history: two writers lost or mixed each other's messages
    count          \* bounds, and the number of messages ever pushed

historyVars == <<mode, messages, jsonl, turn, compact, recent, mixed, count>>

Prompt == [role |-> "system", n |-> 0, calls |-> 0]
Summary == [role |-> "system", n |-> 1, calls |-> 0]
User(n) == [role |-> "user", n |-> n, calls |-> 0]
\* the goal runner's own "[daemon: continue]" is no real user's message
Daemon(n) == [role |-> "user", n |-> n, calls |-> 1]
Assistant(n, calls) == [role |-> "assistant", n |-> n, calls |-> calls]
Result(n, call) == [role |-> "tool", n |-> n, calls |-> call]

NoTurn == [pc |-> "idle", op |-> "none", cut |-> <<>>, round |-> 0, n |-> 0, calls |-> 0,
           next |-> 0]
NoCompact == [pc |-> "idle", snap |-> <<>>]

HistoryInit ==
    /\ mode \in {"chat", "goal"}
    /\ messages = <<Prompt>> /\ jsonl = <<Prompt>>
    /\ turn = [r \in TurnRequests |-> NoTurn]
    /\ compact = NoCompact
    /\ recent = <<>> /\ mixed = FALSE
    /\ count = [pushed |-> 0, turns |-> 0, steers |-> 0, compacts |-> 0, crashes |-> 0]

Message == [role: {"system", "user", "assistant", "tool"}, n: Nat, calls: Nat]
Histories == Seq(Message)

TurnRecord ==
    [pc: {"idle", "captured", "passed", "round", "steered", "answered", "tool", "closing"},
     op: {"none", "send", "rerun", "truncate"}, cut: Histories,
     round: Nat, n: Nat, calls: Nat, next: Nat]

HistoryTypeOK ==
    /\ mode \in {"chat", "goal"} /\ mixed \in BOOLEAN
    /\ messages \in Histories /\ jsonl \in Histories /\ recent \in Histories
    /\ turn \in [TurnRequests -> TurnRecord]
    /\ compact \in [pc: {"idle", "summarizing", "flushing"}, snap: Histories]
    /\ count \in [pushed: Nat, turns: Nat, steers: Nat, compacts: Nat, crashes: Nat]

-----------------------------------------------------------------------------
(* Compaction: pure functions of a history.                                *)

\* the leading system messages
Lead(h) == CHOOSE i \in 0..Len(h): /\ \A j \in 1..i: h[j].role = "system"
                                   /\ i = Len(h) \/ h[i + 1].role # "system"

Users(h) == {i \in DOMAIN h: h[i].role = "user"}

\* bug: the tail that is kept starts behind its user message
Bug_KeepBehind(h) ==
    LET starts == {i \in Users(h): Cardinality({j \in Users(h): j >= i}) = KeepRounds}
    IN  IF starts = {} THEN Lead(h) + 1 ELSE (CHOOSE i \in starts: TRUE) + 2

\* findKeepStartIndex: the KeepRounds-th user message from the end
KeepStart(h) ==
    LET starts == {i \in Users(h): Cardinality({j \in Users(h): j >= i}) = KeepRounds}
    IN  IF starts = {} THEN Lead(h) + 1 ELSE CHOOSE i \in starts: TRUE

\* rebuildHistory, mid-turn: above the last real user message, else above the
\* last user message of any kind, else at the end
SummaryPlace(tail) ==
    LET real == SelectLastInSeq(tail, LAMBDA m: m.role = "user" /\ m.calls = 0)
        any == SelectLastInSeq(tail, LAMBDA m: m.role = "user")
    IN  CASE real # 0 -> real [] real = 0 /\ any # 0 -> any [] OTHER -> Len(tail) + 1

\* computeCompacted and LocalCompactionStrategy.run
Compacted(h, policy) ==
    LET tail == SubSeq(h, KeepStart(h), Len(h))
        at == IF policy = "do_not_inject" THEN 1 ELSE SummaryPlace(tail)
    IN  IF KeepStart(h) = Lead(h) + 1 THEN h
        ELSE SubSeq(h, 1, Lead(h)) \o InsertAt(tail, at, Summary)

\* every call has its results right behind it, and there are no others
WellFormed(h) ==
    /\ \A i \in DOMAIN h: h[i].role = "assistant" =>
          {h[j]: j \in (i + 1)..Min({i + h[i].calls, Len(h)})}
             = {Result(h[i].n, c): c \in 1..h[i].calls}
    /\ \A i \in DOMAIN h: h[i].role = "tool" =>
          \E j \in 1..(i - 1): /\ h[j].role = "assistant" /\ h[j].n = h[i].n
                               /\ i <= j + h[j].calls

-----------------------------------------------------------------------------
(* The routes.  Each looks for an active stream, then awaits the session.  *)

RunningTurns == {r \in TurnRequests: turn[r].pc \notin {"idle", "captured", "passed"}}

Set(r, t) == turn' = [turn EXCEPT ![r] = t]
Goes(r, pc) == Set(r, [turn[r] EXCEPT !.pc = pc])
Counts(field) == count' = [count EXCEPT ![field] = @ + 1]

\* what rerun (before the user message) and truncate (mode "after": with it)
\* may leave of the history they read
Cuts(h, after) == {SubSeq(h, 1, IF after THEN i ELSE i - 1): i \in Users(h)}

\* rerun and truncate read the history first, and await before the guard
Capture(r) ==
    /\ mode = "chat" /\ turn[r].pc = "idle" /\ count.turns < MaxTurns
    /\ \E op \in {"rerun", "truncate"}, after \in BOOLEAN:
          /\ op = "rerun" => ~after
          /\ \E cut \in Cuts(messages, after):
                Set(r, [NoTurn EXCEPT !.pc = "captured", !.op = op, !.cut = cut])
    /\ Counts("turns")
    /\ UNCHANGED <<mode, messages, jsonl, compact, recent, mixed>>

\* hasActiveStream is false; getOrCreate is awaited next
Pass(r) ==
    /\ mode = "chat" /\ RunningTurns = {}
    /\ \/ turn[r].pc = "captured" /\ Goes(r, "passed") /\ UNCHANGED count
       \/ /\ turn[r].pc = "idle" /\ count.turns < MaxTurns /\ Counts("turns")
          /\ Set(r, [NoTurn EXCEPT !.pc = "passed", !.op = "send"])
    /\ UNCHANGED <<mode, messages, jsonl, compact, recent, mixed>>

\* POST message and rerun: cut, push the prompt, stream
StartTurn(r) ==
    LET user == User(count.pushed)
    IN  /\ turn[r].pc = "passed" /\ turn[r].op # "truncate"
        /\ messages' = Append(IF turn[r].op = "rerun" THEN turn[r].cut ELSE messages, user)
        /\ recent' = <<user>>
        /\ Goes(r, "round") /\ Counts("pushed")
        /\ mixed' = (mixed \/ RunningTurns # {})
        /\ UNCHANGED <<mode, jsonl, compact>>

\* POST truncate: cut and flush
TruncateHistory(r) ==
    /\ turn[r].pc = "passed" /\ turn[r].op = "truncate"
    /\ messages' = turn[r].cut /\ jsonl' = turn[r].cut /\ recent' = <<>>
    /\ Set(r, NoTurn)
    /\ mixed' = (mixed \/ RunningTurns # {})
    /\ UNCHANGED <<mode, compact, count>>

\* runOneIteration: a session from the file, maybe compacted, and the message
StartIteration(r) ==
    /\ mode = "goal" /\ turn = [q \in TurnRequests |-> NoTurn] /\ count.turns < MaxTurns
    /\ \E base \in {jsonl, Compacted(jsonl, "do_not_inject")},
          user \in {User(count.pushed), Daemon(count.pushed)}:
          messages' = Append(base, user) /\ recent' = <<user>>
    /\ Goes(r, "round")
    /\ count' = [count EXCEPT !.pushed = @ + 1, !.turns = @ + 1]
    /\ UNCHANGED <<mode, jsonl, compact, mixed>>

-----------------------------------------------------------------------------
(* The round loop, which only appends.                                     *)

Push(new) == messages' = messages \o new /\ recent' = recent \o new

\* the results of the open batch, from call `c` on
Results(r, c) == [i \in 1..(turn[r].calls - c + 1) |-> Result(turn[r].n, c + i - 1)]

\* the top of a round: a steer becomes a user message
SteerTurn(r) ==
    /\ turn[r].pc = "round" /\ count.steers < MaxSteers
    /\ messages' = Append(messages, User(count.pushed))
    /\ recent' = <<User(count.pushed)>>
    /\ count' = [count EXCEPT !.pushed = @ + 1, !.steers = @ + 1]
    /\ Goes(r, "steered")
    /\ UNCHANGED <<mode, jsonl, compact, mixed>>

\* the request is built from the messages and sent; the answer is recorded
\* when its stream is over
ModelAnswers(r) ==
    /\ turn[r].pc \in {"round", "steered"}
    /\ \E calls \in 0..MaxBatch:
          /\ Push(<<Assistant(count.pushed, calls)>>)
          /\ Set(r, [turn[r] EXCEPT !.pc = "answered", !.n = count.pushed,
                                    !.calls = calls, !.next = 1])
    /\ Counts("pushed")
    /\ UNCHANGED <<mode, jsonl, compact, mixed>>

\* maybeAutoCompactMidTurn, while the answer's calls are still open
Proceed(r) ==
    /\ turn[r].pc = "answered"
    /\ \/ UNCHANGED messages
       \/ mode = "goal" /\ messages' = Compacted(messages, "before_last_user_message")
    /\ Goes(r, IF turn[r].calls = 0 THEN "closing" ELSE "tool")
    /\ UNCHANGED <<mode, jsonl, compact, recent, mixed, count>>

\* one call after the other: run, refused, unknown, failed, or out of budget
RunCall(r) ==
    LET t == turn[r]
        last == t.next = t.calls
    IN  /\ t.pc = "tool"
        /\ Push(<<Result(t.n, t.next)>>)
        /\ Set(r, [t EXCEPT !.next = @ + 1,
                            !.round = IF last THEN @ + 1 ELSE @,
                            !.pc = CASE ~last -> "tool"
                                     [] last /\ t.round < MaxRounds -> "round"
                                     [] OTHER -> "closing"])
        /\ UNCHANGED <<mode, jsonl, compact, mixed, count>>

\* bug: the turn ends with a result for the call at hand only
Bug_CloseOne(r) ==
    /\ turn[r].pc = "tool" /\ turn[r].round < MaxRounds
    /\ Push(<<Result(turn[r].n, turn[r].next)>>)
    /\ Goes(r, "closing")
    /\ UNCHANGED <<mode, jsonl, compact, mixed, count>>

\* an ask_user call, or (in a goal) an abort, ends the turn between two calls:
\* the rest of the batch is closed with placeholders
CloseBatch(r) ==
    /\ turn[r].pc = "tool" /\ turn[r].round < MaxRounds
    /\ Push(Results(r, turn[r].next))
    /\ Goes(r, "closing")
    /\ UNCHANGED <<mode, jsonl, compact, mixed, count>>

\* an abort of the stream keeps the text and drops the calls; one between two
\* rounds leaves the history as it is
Abort(r) ==
    /\ mode = "goal" /\ turn[r].pc \in {"round", "steered"}
    /\ \/ Push(<<Assistant(count.pushed, 0)>>) /\ Counts("pushed")
       \/ turn[r].pc = "round" /\ UNCHANGED <<messages, recent, count>>
    /\ Goes(r, "closing")
    /\ UNCHANGED <<mode, jsonl, compact, mixed>>

\* the provider fails: nothing is pushed, nothing flushed
Fails(r) ==
    /\ turn[r].pc \in {"round", "steered"}
    /\ Set(r, NoTurn)
    /\ UNCHANGED <<mode, messages, jsonl, compact, recent, mixed, count>>

\* store.flush; the goal runner may add its feedback as a user message
Close(r) ==
    /\ turn[r].pc = "closing"
    /\ \/ jsonl' = messages
       \/ mode = "goal" /\ jsonl' = Append(messages, User(count.pushed))
    /\ Set(r, NoTurn)
    /\ Counts("pushed")
    /\ UNCHANGED <<mode, messages, compact, recent, mixed>>

-----------------------------------------------------------------------------
(* POST .../compact and /compact: nothing keeps them from a running turn.  *)

CompactBegins ==
    /\ mode = "chat" /\ compact.pc = "idle" /\ count.compacts < MaxCompacts
    /\ compact' = [pc |-> "summarizing", snap |-> messages]
    /\ Counts("compacts")
    /\ UNCHANGED <<mode, messages, jsonl, turn, recent, mixed>>

\* the summary is there: the snapshot, compacted, becomes the history
CompactSwaps ==
    LET new == Compacted(compact.snap, "do_not_inject")
    IN  /\ compact.pc = "summarizing"
        /\ compact' = [NoCompact EXCEPT !.pc = "flushing"]
        /\ messages' = IF new = compact.snap THEN messages ELSE new
        /\ mixed' = (mixed \/ (new # compact.snap /\ messages # compact.snap))
        /\ UNCHANGED <<mode, jsonl, turn, recent, count>>

CompactFlushes ==
    /\ compact.pc = "flushing"
    /\ jsonl' = messages
    /\ compact' = NoCompact
    /\ UNCHANGED <<mode, messages, turn, recent, mixed, count>>

-----------------------------------------------------------------------------
\* the calls of answer m that have a result somewhere
Answered(h, m) ==
    {h[j].calls: j \in {k \in DOMAIN h: h[k].role = "tool" /\ h[k].n = m.n}}

\* bug: only an answer without any result is repaired
Bug_MendWhole(h, m) ==
    IF m.role # "assistant" \/ Answered(h, m) # {} THEN <<m>>
    ELSE <<m>> \o SetToSeq({Result(m.n, c): c \in 1..m.calls})

\* an answer with a result right behind it for each of its calls that has none
Mended(h, m) ==
    IF m.role # "assistant" THEN <<m>>
    ELSE <<m>> \o SetToSeq({Result(m.n, c): c \in (1..m.calls) \ Answered(h, m)})

\* repairDanglingToolCalls
Repaired(h) == FlattenSeq([i \in DOMAIN h |-> Mended(h, h[i])])

\* results that are not among those right behind their call: nothing repairs
\* these
Strays(h) ==
    {i \in DOMAIN h: /\ h[i].role = "tool"
                     /\ ~\E j \in 1..(i - 1): /\ h[j].role = "assistant" /\ h[j].n = h[i].n
                                              /\ \A k \in (j + 1)..i: h[k].role = "tool"}

\* the server dies; the next one repairs the conversations of goals, and a
\* chat may have been held in one of these
ServerRestarts ==
    /\ count.crashes < MaxDeaths /\ Counts("crashes")
    /\ \/ jsonl' = Repaired(jsonl) /\ mixed' = (Strays(jsonl) # {})
       \/ mode = "chat" /\ UNCHANGED jsonl /\ mixed' = ~WellFormed(jsonl)
    /\ messages' = jsonl' /\ recent' = <<>>
    /\ turn' = [r \in TurnRequests |-> NoTurn] /\ compact' = NoCompact
    /\ UNCHANGED mode

HistoryNext ==
    \/ \E r \in TurnRequests:
          \/ Capture(r) \/ Pass(r) \/ StartTurn(r) \/ TruncateHistory(r) \/ StartIteration(r)
          \/ SteerTurn(r) \/ ModelAnswers(r) \/ Proceed(r) \/ RunCall(r) \/ CloseBatch(r)
          \/ Abort(r) \/ Fails(r) \/ Close(r)
    \/ CompactBegins \/ CompactSwaps \/ CompactFlushes
    \/ ServerRestarts

HistorySpec == HistoryInit /\ [][HistoryNext]_historyVars

-----------------------------------------------------------------------------
(***************************************************************************)
(* A request to the provider has the results of every call right behind    *)
(* the call and no others: after aborts, questions, spent budgets, reruns, *)
(* cuts, compactions within the turn and repairs after a crash; unless two *)
(* writers mixed their messages (a /compact or a second stream that        *)
(* slipped into a turn).                                                   *)
(***************************************************************************)
RequestsAreValid ==
    mixed \/ \A r \in TurnRequests: turn[r].pc \in {"round", "steered"} => WellFormed(messages)

(***************************************************************************)
(* A compaction never touches what the turn at hand has added since its    *)
(* last user message, that message included.                               *)
(***************************************************************************)
TurnIsKept == mixed \/ IsSuffix(recent, messages)
=============================================================================
