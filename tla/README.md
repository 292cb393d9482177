# A TLA+ model of mathran's core

mathran is a local server (Hono routes over Node, `src/src/server`) around one core
(`src/src/core`): chat conversations with a model that calls tools, long-running *goals*
that a daemon drives round after round, *subagents* that run beside them, approvals for
what tools may do, and files in a workspace that hold all of it. There is no database: the
state is maps in one process and JSON files, and every change is *read, await, write*.

This directory holds TLA+ modules of the parts whose correctness depends on the order of
things, the TLC configurations that check them on small instances, and TLAPS proofs of the
properties that matter most for instances of every size. `PROJECT.json` lists, machine
readably, the components, the runs, the lines each definition translates, the hazards and
the theorems.

Paths below are relative to `src/src/` of the repository unless they begin with `docs/`.

## 1. Inventory

One process, one event loop: code between two `await`s is atomic, and everything else
interleaves. Each model's step is the code between two awaits (or a few of them, where the
await in between cannot be observed; the module says so).

### Parts modelled

| part | state | operations | talks to |
|---|---|---|---|
| goal daemon (`core/goal/daemon.ts`) | map goal -> runner; each runner has pending messages, three flags, a sleeper, the current AbortController | kick, kick with a message, steer, interrupt, abort, `start()` (boot-resume), `stop()`; the runner's loop | reads the goal record, runs iterations; called by the goal routes, `propose_goal` and the server's start and shutdown |
| goal iteration (`core/goal/runner.ts`, `tools.ts`, `mark-done-review.ts`, `budget-continuation.ts`) | the record it holds, the turn in progress | budget check, turn, tool events, `mark_done` with its review and budget gates, statistics, transitions | the goal record, the model, reviewers |
| goal record (`core/goal/store.ts`) | one JSON file per goal | `updateStatus`, `appendStep`, `addStats`, `requestAbort`, `clearAbort`, gate counters: each a whole-record read and write | everybody above, and the goal routes of `server/serve.ts` |
| per-file lock (`withFileLock`, `core/chat/store.ts`) | a chain of promises per file | call; enter, read, write, throw | annotations, profile, checkpoints, todo lists, conversation saves |
| atomic file write (`core/chat/atomic-write.ts`) and startup sweep | temporary files, the target | write, sync, rename, clean up; sweep | nearly every store |
| subagent scheduler, background registry, subprocess runtime (`core/subagent`) | semaphore count and queue, dispatches, records, children and their timers | dispatch (inline, background, nested, in a child), time out, abort, cancel, announce | chat tools, the model |
| goal rounds (`server/serve.ts`, `steer-registry.ts`, `tools/goal-send-message.ts`) | map goal -> controller of the round in flight, steer slot, responses of `/run/stream` | inline rounds of `/run` and `autoRunGoal` beside the daemon's iterations, steer, send a message, interrupt, abort, follow | the daemon, the goal record, the model |
| conversation routes and questions (`server/serve.ts`, `core/chat/session.ts`, `steer-registry.ts`) | live history, `.jsonl`, sidecar (`pendingAsk`), timers, stream count, steer slot | send, answer, the timer's answer, annotate, save the view, steer, crash | the session cache, the store |
| session cache (`ScopedChatSessionStore`, `core/chat/store.ts`) | cached sessions and their last use, eviction locks, files, index | `getOrCreate`, evict (stale, least recently used), `flush`, `drop` | every conversation route |
| history and compaction (`core/chat/session.ts`, `core/subagent/runners/compact*.ts`, `serve.ts`) | the message array, the `.jsonl`, a snapshot being summarised | the round loop's pushes, abort, question, spent budget, rerun, truncate, `/compact`, compaction within a turn, repair after a crash | the provider, which refuses unpaired calls and results |
| checkpoints (`core/checkpoints`) | files, a checkpoint file per tool call, an index under the file lock | the wrapped tool call, `/rewind` | file tools, the user |
| plans (`core/plan`, plan routes) | an append-only file of snapshots, the run in memory, responses | accept, reject, set the body, run, follow | the planning session, clients |
| MCP registry (`core/mcp`, `mcp-config-routes.ts`) | `mcp.json`, map name -> entry, clients and their processes, delayed restarts | connect, crash, restart, reload, replace, remove | external processes, operators |
| init-project agent (`core/agents/init-project`, its routes) | run record, line log, checkpoint, results, map run -> controller | phases, cancel, resume, reap at start, follow | the model, clients |
| approvals (`core/chat/approval-broker.ts`, `core/approval`, `core/chat/session.ts`, `server/approval-routes.ts`) | policy, plan mode, session rules, rules file, learning history, waiting prompts | pre-check, prompt, answer, grant, learn, preview, execute, retry | the round loop, the client |
| chat panel of the browser (`web/src/components/ChatPanel.tsx`, `web/src/lib/chat.ts`) | selected channel, bubbles, history requests, busy marks, map channel -> controller, streams | select, new, reload, send, answer, stop, truncate, delete; frames and responses | the conversation routes |

### What makes them hard, and what makes them correct

- *Daemon.* A message or an interrupt may arrive while the runner reads a status, runs an
  iteration, or is about to sleep. Correct: messages reach iterations once each and in order; a
  flag is never lost; nothing starts after a flag or during a stop; an interrupt, a stop and
  the resumption after a restart take effect in the end.
- *Goal record.* No lock: every write puts back an earlier copy of the whole record.
  `mutateGoal`, which takes one, has no caller. Correct despite lost updates: the record is
  coherent, never counts a round that was not run, and the completion gates are bounded.
- *Lock and files.* Failures and crashes between any two steps. Correct: calls behave as atomic
  updates in call order; a reader never finds half a file; what failed is not there.
- *Subagents.* A runner holds a slot while it waits for another one; runners hang and ignore
  signals; a child goes on after its result. Correct: slots add up, every dispatch settles,
  each background run is announced once, a cancellation is final, no child survives.
- *Questions.* An answer, a timer and a new message race to replace one placeholder, each from
  an old copy of the sidecar. Correct: the first replacement is final, an accepted answer is
  kept, an answered question has no armed timer, a recorded question is on disk.
- *Cache.* Sessions are evicted, by other conversations' requests, while rounds use them.
  Correct: a finished turn is on disk and stays there; a cached session is never behind the disk.
- *Goal rounds.* Inline rounds have no guard against each other or the daemon, and delete each
  other's entry. Correct: an entry names a round that runs; an accepted steer reaches a model
  or still waits; every response ends.
- *History.* Calls and results must stay paired whatever ends a turn or replaces its past.
  Correct: each request to a provider is valid; a compaction spares the turn at hand.
- *Checkpoints.* Snapshot, tool, checkpoint file and index row are four steps, any of which may
  fail or be the last. Correct: a rewind gives each file the content it had before the first call rolled back.
- *Plans, init-project.* A producer writes while followers read with a cursor. Correct: followers see
  every line and end; a resume skips only what was done.
- *MCP registry.* Operators change an entry while its restarts sleep and its process closes. Correct: what
  was removed is not restarted; a crashed server comes back, gives up or is replaced.
- *Approvals.* Rules come from four places and change while prompts wait; one failing call
  asks several times under one id; a stream's end empties the registry. Correct: nothing
  overrides the denylist or the profile, a denied prompt never leads to its tool, writes are
  previewed when the rules say so, a session grant is remembered, every call settles.
- *Chat panel.* Streams go on when their channel is left, responses come late, and a click may
  come between a state change and its rendering. Correct: a channel shows its own bubbles, is
  locked only while a request of its own runs, and its Stop finds its stream.

### Parts not modelled

Listed with the reason in `PROJECT.json` (`components`). They are of three kinds. *Planned* (section 8): sub-goals, model fallback,
effort store, hooks. *Sequential*: configuration,
prompts, profiles, slash commands, rendering, the paper graph; unit tests reach them.
*Input and output*: model and Lean adapters, the command line, the web client's other views, scripts.

## 2. Modules

| module | models | proofs in |
|---|---|---|
| `GoalDaemon` | `GoalDaemon` and `GoalTurnRunner`, goal routes that call them, server start and stop | `GoalDaemon_proofs` |
| `GoalRecord` | the operations on one goal record, as operators on a record | |
| `GoalIteration` (EXTENDS `GoalRecord`), `MCGoalIteration` | `runOneIteration`, `goal_send_message` and the routes that write the same record, with crashes | `GoalIteration_proofs` |
| `AtomicStore` | what callers of the lock are promised: atomic updates | |
| `GoalRounds` (EXTENDS `GoalDaemon`) | the daemon composed with inline rounds, steers and `/run/stream` | `GoalDaemon_proofs` |
| `FileLock` | `withFileLock`; refines `AtomicStore` | `Storage_proofs` |
| `AtomicWrite` | `atomicWriteFile`, `sweepAtomicTmpFiles`, crashes, power loss | `Storage_proofs` |
| `Plans` | a plan's file, its run, its streams | `Storage_proofs` |
| `MCStorage` (EXTENDS `FileLock`, `AtomicWrite`, `Plans`) | these, side by side | |
| `Subagents` | scheduler, registry, child processes | `Services_proofs` |
| `MCSubagents` (EXTENDS both) | `Subagents` and `GoalDaemon`, side by side | |
| `Conversation` | questions of a conversation, streams, steer slot | `Conversation_proofs` |
| `History` | the messages of a conversation under turns, cuts and compactions | `History_proofs` |
| `Checkpoints` | tool calls with their checkpoints, rewinds | `Storage_proofs` |
| `ChatClient` | channels and streams of the browser's chat panel | `Conversation_proofs` |
| `MCConversation` (EXTENDS the other three) | `Conversation`, `Checkpoints`, `ChatClient` and `History`, side by side | |
| `SessionCache`, `MCSessionCache` | the cache and the turns that use it | `SessionCache_proofs` |
| `Approvals`, `MCApprovals` | the path of a tool call from plan mode to its result | `Approvals_proofs` |
| `InitProject` | a run of the init-project agent, its ledger, resumption, reaper and stream | `Services_proofs` |
| `McpRegistry` | one MCP server's clients and entries under the registry | `Services_proofs` |
| `MCServices` (EXTENDS both) | `InitProject` and `McpRegistry`, side by side | |

Modules said to be *side by side* share no state: a variable chosen in the initial state
(`part`) says which of them moves, and the others stay as they began. One run then answers the
questions of several small models; nothing is claimed of their composition. Modules that stand
together in this way name their variables and actions apart (`McpInit`, `CheckpointsNext`,
`writeVars`), so that one module can extend several of them. `GoalRounds` and
`GoalIteration` on the other hand compose with what they extend.

How state corresponds to code:

- **GoalDaemon.** `runner[g]` is the entry of the daemon's map: `pc` names the await at which
  `run()` is suspended, `pending` is `pendingUserMessages`, `interrupted`, `aborted` and
  `forceStopped` are its flags, `signal` says that `currentAbort` has fired; `accepted` and
  `taken` are ghosts of the messages. A status is read in one step and used in the next
  (`ReadStatus`, `Decide`), because that await is where interrupts get lost; it may also fail
  (`ReadFails`), which ends `run()` with an `error` event alone (`crashed`). `phase` is the
  life of the server process, `bootStale`/`bootFresh` the two loops of `start()`.
- **GoalRecord, GoalIteration.** `disk` is the file; `goal`, `seen[r]` and `held[r]` are the
  copies in memory. `loaded` separates the read of an update from its write; a handler passes
  `Receive`, `ReadAgain`, `Write`. The audit log is abstracted to the target of its last
  status step, `endedAt` with `endReason` to one bit. `goal_send_message` revives an ended goal by
  one write (`ReviveWrite`) and logs the status step by another (`LogRevival`).
- **GoalRounds.** The server is up throughout. `inflight[g]` says whose controller the map
  holds: an iteration's, an inline round's, or none. `queued` and `given` are the runner's steers
  before and after the drain, `slot` is the registry's; `posted` and `heard` are ghosts.
- **History.** A message is its role and a number; `calls` is the number of calls of an answer,
  or which of them a result answers. `mode` distinguishes a chat's cached session from the
  goal's, made from the file for each iteration. `recent` and `mixed` are ghosts: what was pushed
  since the last user message, and whether two writers met (which the code does not prevent).
- **Checkpoints.** A content is the number of the call that wrote it, `Absent`, `Large` or
  `Binary`, which is not UTF-8, `Mangled`, which is what `Binary` becomes when it is decoded and
  encoded again, or `Other`; `clock` counts ticks, and two checkpoints may share one. `was`,
  `touches` and `misread` (the snapshots whose read failed and was taken for an absent file) are ghosts.
- **Plans.** `lines` is the file, each line a snapshot or torn; `cut` says that the last has no
  newline. Frames are counted, not named.
- **McpRegistry.** Entries and clients are numbered as they are made, so that a stale reference
  to an old one can be told from the present one; `sleeping[m]` counts an entry's pending restarts.
- **InitProject.** `log` has only the kinds of lines (phase, or last), all of them whole: a last line
  that a crash tears, and one that is then appended to it, are left out. `artifacts` are the results on disk, one
  for each phase and the relations among efforts (`Relations`). `lost` and `skipped` are ghosts: results
  that a swallowed failure or a crash in the middle of a write took, and those that a resumption went without, because
  the request named a later phase than the checkpoint or because a resumed `build_efforts` drops
  the relations. Workspace and wiki are both enabled. A stream's `writing[f]` is what its flush `f` has read and not yet sent.
- **ChatClient.** `selected` is `conversationId` as last set, `rendered` as last rendered (and so
  the ref and the closures); `shown` is the set of conversations of which the screen has bubbles.
  An optimistic bubble counts for the conversation it was sent to, a local one (`Inform`: the answer
  of a slash command or of the checkpoint chip) is `Info`, without a conversation. A conversation minted by a stream
  is named after it. A click is rendered at once; what a frame or a response changes, later
  (`Render`). `confused`, `slipped` and `crossed` are ghosts: a load was skipped over another
  channel's bubbles, a delayed send began in another channel, two streams shared a key.
- **FileLock.** The promise chain is abstracted to a call's `position` in it; `Load` and
  `Store` are the awaits of the function that runs under the lock.
- **AtomicWrite.** `targets` holds every content that the target may have after a power loss,
  the present one last: a rename need not be on disk when it returns. `Flush` is the kernel's
  write-back.
- **Subagents.** Tasks are dispatches with a parent, a conversation, and inline or child
  runtime. The semaphore is a count and a FIFO queue; `Settle` gives the slot to the next
  waiter in the same step, as the code does. A child is given a wall-clock timer only when its
  `timeoutMs` is above 0 (`subprocess.ts:219`); tasks in `Untimed` have none (`NoTimer`).
- **Conversation.** A question's state in `mem` and `disk` is absent, the placeholder, or
  whoever replaced it. `loaded[p]` is the copy of the sidecar a process read before its await.
- **SessionCache.** A session is named by the request that loaded it; a turn is one message. `older` is the order
  of `lastUsedMs`; what the TTL finds stale is closed under it (time itself is abstracted).
  `writes[k]` is the FIFO queue of `withFileLock` on the `.jsonl` of `k`, whose order
  `FileLock` proves; the file changes when the rename happens. `HasActiveStream` is the
  overlap guard as the code has it: tested before `getOrCreate`, true only after it.
- **Approvals.** A call is its tool and the key that `derivePrefix` gives it; a rule matches a
  set of keys. Prompts wait in `parked`; a round's `pc` is its place in `executeWithApproval`
  and the helpers it calls. A call in `Outside` or `NoDiff` is one for which the preview finds no path
  in the workspace, or no proposal, and runs the tool at once (`session.ts:1935-1940`, `1961-1965`). Only
  tools with a risk class are modelled; others skip the denylist (`session.ts:1825`).

Definitions named `Bug_...` are not part of the model. Each is a plausible mistake in the
definition that follows it (a dropped guard, a wrong order, a missing reset); replacing the
one by the other must violate the property that `PROJECT.json` (`mutants`) names, which shows
that the property can see that part of the code.

## 3. Runs

| run | instance | shows |
|---|---|---|
| `daemon_stranded_message` | 1 goal, 2 messages, no restart | **violation**: a runner parks with a message pending |
| `goal_rounds` | 1 goal, 1 inline round of each kind, 2 steers, 1 stream | entries name running rounds, steers are not lost, streams end unless the record cannot be read |
| `goal` | *requests*: any 2 of 8 kinds of request, or 1 and a crash, during 2 iterations, a turn that spends the token budget; *gates*: a model that always claims completion, caps 2 and 4, 9 turns, 1 crash | record coherent but for a revival half done, turns only within budget; the goal ends |
| `goal_lost_pause` | 1 pause, 1 iteration | **violation**: the pause is overwritten |
| `storage` | *locks*: 3 calls on one file, 1 on another, each may throw; *writes*: 2 writes, 2 crashes; *plans*: 2 clients, 2 streams, 2 tokens, 2 crashes | no call waits for ever, refinement of `AtomicStore`; never torn; streams complete |
| `subagents` | *subagents*: a foreground run with a nested one in a child process, a background run in another, a second background run, 2 slots, no timer for the background child; *daemon*: 1 goal, 1 message, budget of 2 iterations, 1 restart | slots, settling, announcing, cancelling, children; no lost flag; interrupt, stop and boot-resume happen |
| `conversation` | *routes*: 2 messages, 1 answer, 2 questions with timers, 1 annotation or view save, 1 crash or 1 failed write (the latter without an annotation); *history*: 2 turns, batches of 0 to 2 calls, 2 rounds of tools, 1 steer, 1 compaction, 1 crash; *checkpoints*: 2 files, 2 concurrent callers, 3 calls, 2 rewinds or 1 rewind and 1 fault; *client*: 2 channels, 2 streams, 2 moves | first answer final, answers kept, questions durable, steers have readers; requests valid, turn kept; rewind restores; the screen shows its channel, no stale lock, Stop finds its stream |
| `conversation_view` | 1 message, 1 question, 1 view save, no annotation | **violation**: saving the view forgets the question |
| `client_skipped_load` | 2 channels, 2 streams, 3 moves | **violation**: a channel shows another one's bubbles |
| `session_cache` | 3 turns, 1 deletion, 2 conversations, room for 1 | finished turns stay on disk, cache not behind disk, requests finish |
| `approvals` | 2 overlapping browser rounds, 1 terminal round, 8 calls to 5 tools, one of them outside the workspace and one without a diff, all policies, 1 retry | vetoes, previews, grants, settling |
| `services` | *init*: 3 phases, 1 resume (from any phase), 1 failure (thrown or swallowed), 1 crash, a stream with 2 flushes; *mcp*: 2 requests, 2 configurations, 1 restart, 1 death | what a run has gone past is on disk, lost or skipped, stream ends; removed stays down, restart settles |

### Why these bounds

Each bound is the least at which the case of interest happens, and one more where it is cheap.
*daemon*: goals share nothing but `phase`, so one suffices for the runner's interleavings; a
message arrives before, during or after an iteration, and a budget of two lets another iteration
follow. What two messages do to each other is in `Fifo`, which is proved, and in `daemon_stranded_message`. *locks*: three in a chain have a first, a middle that fails and a
last; a fourth on another file shows independence. *gates*: 9 turns is more than the gates
allow (2 rejections, 4 continuations, the completing turn, one lost to the crash), so the
bound on turns is never what ends the goal. *requests*: two requests and two iterations give each write a chance to be
stale against each other; the budget is one of tokens (the check of a budget of rounds is the
same conjunct, and the proof is for both). *subagents*: two slots with four tasks gives a nested search
that finds a slot free and one that waits while its own parent holds one. *session_cache*: with room for one, two
conversations evict each other; the third turn comes after an eviction that another turn caused.
*goal_rounds*: two inline rounds
and the daemon's iteration are enough for one to delete another's entry; two steers, for one to
replace the other in the slot. *history*: `KeepRounds` is 1 for 4, so that two turns have
something to summarise; two calls make a batch that can be cut in the middle. *checkpoints*: two
files and two callers whose rows land in either order, a rewind after a rewind. *plans*: an append
after a torn append. *init*: a phase before the spine (no resumption possible), the spine, and one after. The pages that
`spine_wiki`, `review_refine` and `verify` write over (`Pages`) need six phases; only the proof has them.
*client*: one channel is left for another while both stream; a move is a change of channel, a
reload or a deletion, and sends, frames and responses come in any number between them.
*mcp*: a restart that sleeps while two requests replace and remove the entry.
*approvals*: retries 1 for 5, proposal after 1 for 5: the code compares counters
with these constants and does nothing else with them; the proofs hold for any.

`Symmetry` permutes requests of one kind (and questions), which no
definition tells apart; it is used only where there are no liveness properties. `session_cache`
has one, so it uses the constraint `ArrivalsInOrder` instead, which keeps one behaviour of each
class that differs only in names. The constraint `Bound` of `MCConversation` takes one of several
symmetric beginnings and does not follow a history once two writers have met in it (`mixed`), of
which nothing is claimed; a crash and a failed write do not come together, nor a failed write and an annotation. That of `MCGoalIteration` names the first request
`r1` and lets no second one meet a crash; that of `MCServices` follows the stream only while no resume runs, since
a stream reads the log alone. Deadlock is not checked where the system may stop: every
instance makes finitely many requests and then has nothing to do.

### Fairness

Safety is checked and proved for the bare `Spec`. The liveness properties assume, under
`FairSpec`, what an event loop gives: a continuation whose promise has resolved runs, a timer
fires, a file operation ends. Beyond that:

- *daemon*: an iteration is required to end only once its signal has fired, since all provider
  calls and tools get that signal; nothing makes a model stop by itself.
- *gates*: the daemon begins the next iteration of an active goal (its own property
  `BootResumes` and its loop), and models and reviewers answer.
- *subagents*: nothing of runners and children, except that SIGKILL ends a process. Timeouts
  alone make dispatches settle. A child without a timer may therefore hold its slot for ever; the
  properties claim what they do of all other dispatches as long as such children are fewer than the slots,
  and of these children that an abort, or never getting ready, ends them.
- *approvals*: the user answers. Without it a prompt waits for ever, which the code intends.
- *goal_rounds*: the daemon's continuations run and an iteration ends (`session.ts:2677` bounds its
  requests); nothing is assumed of inline rounds, steers, or the client of a stream. That the
  goal's record can be read is not assumed: a failed read is the exception in `StreamsEnd`.
- *plans*, *init*: the model answers or fails, files are read, the watcher polls; *mcp*: a timer
  fires, a connect or a close ends. All three bound these by a time limit of their own or the SDK's.
- *session_cache*: only that steps already begun go on.

No fairness is assumed of clients, crashes, or the kernel's write-back.

## 4. What is proved

TLAPS checks every proof below, for all values of the constants under the modules'
`ASSUME`s (bounds are naturals, kinds of names do not overlap; `SubagentsAssumption` and the
like say exactly what). TLC evaluates those assumptions on each run.

| module | theorems | the inductive invariant |
|---|---|---|
| `GoalDaemon_proofs` | `TypeCorrect`, `Invariance`, `Fifo`, `NoLostInterrupt`, `StopReachesAll`, `NoLateIteration` | `RunnerInv`, a property of one runner's record that each operator preserves; the goals are independent. It needs *forced implies interrupted*, because the loop does not look at `forceStopped` again after reading the status |
| `GoalDaemon_proofs` (rounds) | `RoundsInvariance`, `EntriesAreRunning`, `SteersSurvive` | the daemon's invariant holds of `GoalRounds` as well; added to it are that the map's entry names a round or an iteration that runs, and `GivenIsEntering`: drained steers belong to an iteration that is entering, so the next drain overwrites nothing |
| `Services_proofs` (subagents) | `SubagentsInvariance`, `SubagentsTypeCorrect`, `SlotsAreAccounted`, `EndsAreAnnouncedOnce` | a dispatch is in the queue once, and exactly while it waits (`QueueIsWaiting`), so a release gives its slot to one that has none and holders and count change together; a record is *running* until its one event was emitted or it was cancelled (`RegistrySound`) |
| `Storage_proofs` (lock) | `TypeCorrect`, `Exclusion`, `ChainsMove`, `FreshSnapshots`, `Implements` | positions in a chain are distinct, and a call inside the lock has every earlier link behind it. Exclusion follows; that a chain always has a call that can go on, because positions have a least one; freshness from exclusion, the refinement from freshness |
| `Storage_proofs` (writes) | `WriteTypeCorrect`, `TargetWhole`, `FailuresLeaveNothing` | *every* content the target may fall back to is whole and its writer was told so; a synced file is whole unless the sweep took it |
| `Storage_proofs` (checkpoints) | `CheckpointsInvariance`, `RewindsRestore` | from tool call to file: a call knows the content it found (`CallsInv`), its stored checkpoint says the same (`StoredInv`), an index row names a stored checkpoint (`IndexInv`), who writes the index has read it under the lock (`LockInv`). Of one file, rows are in the order of the calls (`OrderInv`: two calls on a file do not overlap, and a call that has no row yet is later than all that have). A rewind then walks from new to old, so what it wrote last to a file is the oldest content of it so far (`RewindInv`) |
| `Storage_proofs` (plans) | `PlansInvariance`, `PlansStayReadable`, `StreamsMissNothing` | the line `create` wrote is never the last one when that is cut, so no append spoils it (`Opened`); a stream is never ahead of its run, and a run is finished only after its last frame (`Followed`) |
| `GoalIteration_proofs` | `TypeCorrect`, `RecordStaysCoherent`, `TurnsHaveBudget`, `RoundsAreRun`, `GatesStayBounded` | a stale copy may be written back at any time, so what is to hold of the file is claimed of every copy in memory (`Sound` of all four). For budgets the copy may be as stale as it likes until a handler writes: `TurnInv` says that from the budget check to the turn, while no handler is past its check, the iteration's copy is the file and within budget |
| `Conversation_proofs` | `TypeCorrect`, `FirstAnswerIsFinal`, `AnswersAreKept`, `AnswersDisarm`, `RecordedAsksSurvive`, `SteersHaveReaders` | what a stale copy of the sidecar can name: a question is in no copy before its asker recorded it, so its timer is armed before anybody can answer; every copy names a question that is on disk |
| `Conversation_proofs` (client) | `ClientInvariance`, `ClientTypeCorrect`, `NoForeign`, `MarksAreWork`, `StopFinds` | a conversation is minted by one stream and that stream is open or over (`Minted`); a load that may still show its answer is for the channel on screen (`ScreenInv`); every mark has a stream or a truncation at work (`MarksInv`); until two streams have shared the pre-mint key, the map's entry under a stream's key is that stream and every entry is such a one (`ControllersInv`) |
| `History_proofs` | `HistoryTypeInvariance`, `TurnStaysKept`, `RequestsStayValid` | *the turn:* the history ends with what the turn has added, and that begins with its only user message (`TurnKept`). A compaction splits a history into leading system messages, what is dropped, and a kept tail that begins with a user message; the summary goes in front of the tail or of its last user message (`CompactedSplits`). So the part behind it holds the turn (`KeptBehind`). *Requests:* the messages, joined with the results that the open batch still owes, are valid: every call is followed by its results, in order, and no result is without its call (`Requests`). Valid histories may be joined, and split in front of any message that is no result, which is where cuts and compactions split. A restart is harder: the file may end within a batch, and two writers may have mixed their messages. That a repair then makes it valid needs, of every copy of the history and also after two writers have met, that no call or result is in it twice and a call's number is given once (`Sane`) |
| `SessionCache_proofs` | `TypeCorrect`, `EvictionsAreExclusive`, `CachesExtendDisk`, `TurnsAreKept` | one request works on a conversation that was not overlapped, and an entry stays until the save of its eviction is applied; so who finds no entry finds no save either, and what it reads is all there is. From then on every save is a copy of a history that only grows, and the order of saves keeps each turn |
| `Services_proofs` (init-project) | `TypeCorrect`, `ResumesAreSound` | what is on disk, lost or skipped stays one of these (`Accounted`). `Vouches`: a driver vouches for the results of the phases before its own, after its work for that one's too; the checkpoint vouches for all it names. Each is needed: a resume trusts the checkpoint, the checkpoint is written by any of several drivers, and may go back |
| `Services_proofs` (MCP) | `McpInvariance`, `RemovedStayDown` | entries and clients refer to each other, and a request that waits for a close knows its entry; a client is then made by a step for the live entry, or by a reload of its own |
| `Approvals_proofs` | `TypeCorrect`, `VetoesHold`, `DenialsHold`, `RetriesAreBounded`, `PromptsWait`, `GrantsHold`, `WritesArePreviewed` | what is known of a call at each of its stages, and, for grants, that session rules come first and all allow: the first matching rule of a granted call is one of them. For previews, that whatever is added to the rules between decision and execution asks for no preview and matches no path (`RulesSound`), also when a stale copy of the file is written back |

`Storage_proofs!Implements` is the refinement of the abstract store, checked by TLC as
`RefinesAtomicStore`. Type correctness is proved where there is a proofs module, and then not
run again. Some theorems state a property that no run checks any more, because the proof covers
it for every instance: `StopReachesAll`, `Exclusion`, `FailuresLeaveNothing`,
`Fifo`, `NoLateIteration`, `RoundsAreRun`, `GatesStayBounded`, `AnswersDisarm`,
`EvictionsAreExclusive`, `PlansStayReadable`, `StreamsMissNothing`, `ChainsMove`.

Only model-checked: all liveness properties and what rests on ENABLED, which are out of
this prover's reach. Every invariant and every action property that a passing run checks is
proved. No theorem is about a recursive definition; the prover cannot do induction over data. What a fold or a CHOOSE
over a sequence yields is proved where needed, by least and greatest positions (`LeastNatural`,
`FlattenIs`).

## 5. Disagreements between the code and its texts

With a run that exhibits them (`findings`):

- *A message is stranded* (`daemon_stranded_message`). A message enqueued during an iteration
  that ends naturally stays pending while the runner parks (`daemon.ts:1105`), although the
  class comment says it parks when there is "no pending user message".
- *A pause is lost* (`goal_lost_pause`). `POST /pause` and the iteration write whole records
  without a lock (`serve.ts:5447`); the comment on the unused `mutateGoal` names this very case.
- *A question is forgotten* (`conversation_view`). Saving the view's state writes the sidecar
  without `pendingAsk` (`serve.ts:3014`); the waiting question's answer is later ignored. (Annotating
  can do the same, `SaveNotes`: `mutateAnnotations` writes back a copy that it read before the question
  was recorded. The run has no annotation.)
- *A channel shows another one's bubbles* (`client_skipped_load`). The first frame of every turn
  marks its conversation as freshly minted (`ChatPanel.tsx:1303`), and the mark is consumed by the
  next selection or reload, which then loads nothing; the comments (944-945, 964-969) say that
  coming back reloads. Rerun and delete then count positions in the wrong bubbles.

Seen while modelling, in the models' behaviours, without a run:

- Goals: `/resume` writes back the record it read before clearing the abort flag, so the flag
  returns (`serve.ts:5742`, against 5719-5721). `/abort` of a parked runner wakes nobody
  (`docs/goal-mode.md:130-134`). `stop()` aborts iterations at once (`daemon.ts:468`), where
  `serve.ts:6366-6372` promises up to 30 s. The comment on `interrupt()` says the entry is kept;
  the runner leaves the map. An iteration refused at its start loses its message and steers.
  `goal_send_message` revives an ended goal by one write (`goal-send-message.ts:208`) and logs it by
  another (209-216), though 202-203 mean the log to line up with the record: after a crash or a
  failed write in between the log says that the goal has ended, and after a status change in between it says last
  that the goal was revived.
- Rounds: an inline round deletes the map's entry whosever it is, and `/interrupt` then answers
  404 while an iteration runs (`serve.ts:5361-5364`). `autoRunGoal` tests its guard (3504-3514)
  two awaits before it registers (3520-3531), so it may fire twice. `goal_send_message` decides by a look taken
  before an await: a stream that ended meanwhile leaves the text in a slot nobody reads, one that
  began gets it twice. `readGoal` rethrows all but ENOENT; then `run()` rejects and the daemon
  emits only `error` (`daemon.ts:670-679`, 689-698), on which the listener of `/run/stream` does not set
  `done` (`serve.ts:5153-5157`), so that the response never ends; 5184-5185 say that it does "on iteration-end / turn-end / error".
  A failed read for the result frame (5118) leaves `done` unset as well, and a rejection that
  nobody handles; what Node then does to the process is not in the model. Inline rounds never read the slot. An `/abort` between the check
  and the clearing of `/run` or `/run/stream` is lost. No route calls `daemon.interrupt` or `abort`.
- Checkpoints: equal timestamps put index rows in the wrong order, and a rewind is not itself
  recorded. A read error at the snapshot counts as "absent" (`middleware.ts:88-92`), so the rewind deletes the file.
  Files are read and written back as UTF-8 (`snapshot.ts:39`, `rewind.ts:133`): one that is not comes
  back mangled. `RewindRestores` is about what the middleware kept (`Preserved`). A write that fails ends the rewind half done.
  `/rewind` has no overlap guard; it passes over a large file, which keeps an intermediate content.
- Plans: two operations on one plan read, then append: an accepted plan can be undone
  (`plan/store.ts:198-199` says it is immutable) or its body lost. A torn last line swallows the
  next record as well, although it was acknowledged. `planRuns` is never cleared.
- History: post-tool hooks of the terminal chat push a system message after every result
  (`session.ts:3043-3050`), so between two results of one batch, which 3040-3042 means to avoid (hooks are not in
  the model). `/compact` beside a running turn puts an older snapshot back, and leaves results
  without calls; only conversations of goals are repaired, so a chat stays stuck. Two sends that
  both pass the guard share a session. With more steers than the rounds kept, compaction
  summarises the request of the turn at hand; summaries become leading messages and are never summarised.
- MCP: `onCrash` is also called when a connect fails (`registry.ts:182` says it is not), which
  starts two chains of restarts and charges the budget twice. A process that dies while its lists
  are read ends as "connected". The callback goes by name: an old client's crash takes down its healthy successor. Overlapping
  reloads or removals leave a process nobody owns; overlapping config edits compare
  with an entry that is being closed. `slash-routes.ts:333` says the server watches the file; only
  the terminal chat does.
- Init-project: nothing guards a resume, so two drivers may run, and the first to finish deletes
  the other's controller (cancel then answers 404). A resume does not set the status back to
  running. Cancel does nothing in a partial resume (`init-project-routes.ts:331`). The
  stream of a resumed run ends at the old "error" line; that of a reaped run never ends. Writers of
  results never throw (`builder.ts:61`, `effort-from-spine.ts:186`, `wiki-from-spine.ts:107`), so the run
  says completed without them; a resumption skips what the request names (`init-project-routes.ts:326`),
  whether or not it ever ran. A resumed `build_efforts` drops the relations (`agent.ts:914-921`) that a
  full run persists so that "the effort dep graph is actually populated by an init run" (609-614).
- Files: the startup sweep may remove the temporary file of a write of the new process
  (`serve.ts:6258-6259` says it cannot); `writeIndex` renames without sync.
- Subagents: `scheduler.ts:80` says "default 3", the constant is 20; after timeouts more runners
  than the cap may be at work, since a slot goes back when its dispatch settles. `dispatch_subagent`
  accepts a `timeoutMs` of 0 or below (246-249) and the scheduler keeps it (`scheduler.ts:363`): such a child has no
  timer, so if it hangs it holds its slot for ever, and if it goes on after its result nothing ends it.
- Cache: an eviction takes no notice of a round in progress. A round that outlives the time to
  live, say because a prompt waits for its user, loses its session, and `flush()` then
  saves nothing and says nothing, although `store.ts:1088-1090` promises that "the most recent
  in-memory turn is durably on disk before the `ChatSession` becomes unreferenced". `drop` beside
  a save brings the file and the index line back (`store.ts:850-851` says it cannot). Two loads
  that both find a full cache evict the same entry, and the cache exceeds `maxEntries` by one.
- Conversations: the overlap guard is tested several awaits before a stream registers
  (`serve.ts:1777`, comment 1770-1774), and rerun's answers and timers do not test it. The
  timer's nested question is recorded before its placeholder is flushed (`serve.ts:409`).
  Timers are not armed again after a restart.
- Chat panel: until their first frames, two streams share the key `__pre_mint__`, so Stop aborts
  the later one, whichever channel it is in (1264-1268 say each hits its own); the first frame moves whichever
  controller is there. That frame also selects its channel, wherever the user is; frames in the
  same chunk are dropped until the selection is rendered. `/review` followed by a change of channel sends in
  one channel and shows the turn in the other; if it fails before its first frame, the first stays
  locked. A channel revisited during its turn loads the history so far and nothing at its end.
  After the pending approvals are fetched, the load sets todos and the pinned filter without a
  look at `cancelled` (1060-1075). The answers of `/diff`, `/rewind`, `/outcomes`, `/skills`, `/agents`, `/goal` and the
  checkpoint chip (2353-2370) are pushed after an await into whatever channel is then on screen
  (1921-1923); `NoForeignBubbles` excepts these (`Info`). `deleteFromHere` cuts the bubbles of the channel then on screen.
- Approvals: `approval-routes.ts:13-15` promises that prompts are rejected when a stream dies, but
  the stream's pump waits for the prompt itself, so a client that goes away leaves the
  prompt and its stream until somebody answers. `retry` and `abandon` on a policy prompt count
  as an allow. A learned rule is always a `prefix` rule and never matches a tool without a
  command. Prompts of one failing call share an id, so a late answer settles the next prompt.
  An edit whose match is absent when the preview reads and present when the tool reads lands
  unpreviewed (`session.ts:1961-1965`, whose comment 1958-1960 expects the tool to "fail loudly"); so does a path
  outside the workspace (1935-1940), if the tool takes it. The end of one stream denies the prompts of an overlapping one, and the history records
  this as the user's denial. `appendRule` is unlocked. The cool-down is recorded only after the proposal is answered.
  `history.ts` speaks of "the same decision N times"; only allows are proposed.

## 6. What the models leave out

Payloads: text of messages, tools' arguments beyond the key a rule looks at, formatting, metrics.
A crash is modelled where something is recovered from disk (daemon, goal record, file write,
conversation) and not where nothing is (subagents, approvals' sessions, the cache).
`SessionCache` has turns and deletions; compaction, rerun and truncation *replace* a
history and so would break what is claimed of turns by intent; `History` has them, with one
session and without the cache. A goal's iterations read and
write the same `.jsonl` with a session of their own, past the cache; a chat session cached for
a goal's conversation can therefore be behind the disk. That joint behaviour is not in the
model. `GoalRounds` has no restart (that is `GoalDaemon`'s), `McpRegistry` no tool calls, `InitProject`
no second run: each part's state is then not touched. Hooks and skill activation are left out of
`History`; only the terminal chat has them. Two server processes on one workspace are modelled only for the approval files.
`ChatClient` has one scope; a change of scope resets everything. It has no liveness property, for nothing
bounds a request of the browser.

## 7. Checking it

    tlc -config GoalRounds.cfg GoalRounds          # and so on for each run
    tlapm GoalDaemon_proofs.tla

## 8. Plan

Done: the modules above, in the order daemon, lock, files, goal record, subagents, questions, approvals,
cache, then goal rounds, compaction and the history, checkpoints, plans, MCP registry, init-project, chat panel. Next, by weight:

1. The safety parts of more liveness properties, as `ChainsMove` and `StreamsMissNothing` are of
   `QueuedCallsRun` and `PlanStreamsComplete`: those of `TailEnds`, `RestartSettles`, `CallsSettle`.
2. `ChatClient` composed with `Conversation`: positions counted on a screen that lags behind the
   history, which reruns and truncations send to the server.
3. `SessionCache` with compaction and with the goal's own session, stating what a conversation
   shared by both still promises.
4. Sub-goals; model fallback; hooks; the effort store.
5. Pure algorithms as operators against reference definitions: profile resolution, layering of settings.
