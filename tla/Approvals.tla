------------------------------ MODULE Approvals ------------------------------
(***************************************************************************)
(* Permission to run a tool: executeWithApproval and its helpers           *)
(* (src/src/core/chat/session.ts), the broker of a conversation            *)
(* (src/src/core/chat/approval-broker.ts), its standing rules, learning    *)
(* history and policy matrix (src/src/core/approval/), and the registry of *)
(* prompts that wait for the user (src/src/server/approval-routes.ts).     *)
(*                                                                         *)
(* A round makes one tool call after the other; rounds of one conversation *)
(* share its broker, and rounds of one conversation may overlap (an answer *)
(* or a rerun does not look for a stream).  All conversations share the    *)
(* rules file and the history file.  A call is abstracted to its tool and  *)
(* the key that derivePrefix gives it: two words of the command, the path, *)
(* or, for a tool with neither argument, its name.  A client that goes     *)
(* away is no step: nothing in the program reacts to it.                   *)
(***************************************************************************)
EXTENDS Integers, Sequences

CONSTANTS
    Rounds, Conversations,
    Conv,          \* the conversation of each round
    Host,          \* who asks the user: "serve", "cli", or "none"
    Tools,
    Risk,          \* riskClass of each tool
    ReadOnly,      \* tools that plan mode lets through
    Subject,       \* the argument its rules look at
    Keys,
    Calls,         \* calls the model may make
    HardRejected,  \* calls the permission profile rejects
    Denylist,      \* calls a denylist entry matches
    AutoApproved,  \* calls an autoApprovePattern matches
    Suspicious,    \* calls that leave the workspace or look dangerous
    Outside,       \* calls whose path is outside the workspace
    NoDiff,        \* calls for which buildWriteProposal may find no diff: an edit
                   \* whose text is absent or ambiguous when the preview reads
                   \* the file, a write-style tool it does not know
    FileRules,     \* content of the rules files at the start
    InlineRules,   \* rules of settings.json
    ProposeAfter,  \* allowed decisions in a row before a rule is proposed
    MaxRetries,    \* MAX_RETRIES
    MaxCalls       \* bound on the calls made

RiskClasses == {"read", "write", "exec", "net"}
Policies == {"never", "on-request", "untrusted", "on-failure"}
Outcomes == {"allow_once", "allow_session", "allow_prefix", "deny", "retry", "abandon"}

Rule == [tool: Tools, by: {"all", "prefix", "path"}, key: Keys,
         action: {"allow", "deny"}, preview: BOOLEAN]

ASSUME ApprovalsAssumption ==
    /\ Conv \in [Rounds -> Conversations]
    /\ Host \in [Conversations -> {"serve", "cli", "none"}]
    /\ Risk \in [Tools -> RiskClasses]
    /\ ReadOnly \subseteq Tools
    /\ Subject \in [Tools -> {"command", "path", "other"}]
    /\ Calls \subseteq [tool: Tools, key: Keys] /\ Calls # {}
    /\ HardRejected \subseteq Calls /\ Denylist \subseteq Calls
    /\ AutoApproved \subseteq {c \in Calls: Subject[c.tool] = "path"}
    /\ Suspicious \subseteq Calls
    /\ Outside \subseteq Calls /\ NoDiff \subseteq Calls
    /\ FileRules \in Seq(Rule) /\ InlineRules \in Seq(Rule)
    /\ ProposeAfter \in Nat \ {0} /\ MaxRetries \in Nat /\ MaxCalls \in Nat

VARIABLES
    policy,    \* of the brokers: they are built from the same settings
    planMode,  \* of each session
    session,   \* session rules of each broker
    file,      \* the rules file
    streak,    \* history: trailing allows of a key, up to ProposeAfter
    cooling,   \* history: a rule was proposed for the key within a day
    pc,        \* where each round is
    call,      \* the call it is about
    tries,     \* how often it has run the tool
    deferred,  \* the tool runs first: on-failure
    parked,    \* rounds whose prompt waits in the registry
    answer,    \* what the user answered, or that there was nothing to show
    held,      \* the rules appendRule has read
    granted,   \* calls allowed for the rest of a session; for properties
    calls      \* calls made so far

sharedVars == <<policy, planMode, session, file, streak, cooling>>
roundVars == <<pc, call, tries, deferred, parked, answer, held>>
vars == <<sharedVars, roundVars, granted, calls>>

PC == {"idle", "ended", "check", "asking", "record", "learn", "proposing", "ruleRead",
       "ruleWrite", "preview", "previewing", "running", "failed"}
Answers == Outcomes \cup {"none", "accept", "undiffable"}

NoCall == CHOOSE c \in Calls: TRUE   \* a call left over from an earlier one

Init ==
    /\ policy \in Policies
    /\ planMode = [v \in Conversations |-> FALSE]
    /\ session = [v \in Conversations |-> <<>>]
    /\ file = FileRules
    /\ streak = [c \in Calls |-> 0]
    /\ cooling = [c \in Calls |-> FALSE]
    /\ pc = [r \in Rounds |-> "idle"]
    /\ call = [r \in Rounds |-> NoCall]
    /\ tries = [r \in Rounds |-> 0]
    /\ deferred = [r \in Rounds |-> FALSE]
    /\ parked = {}
    /\ answer = [r \in Rounds |-> "none"]
    /\ held = [r \in Rounds |-> <<>>]
    /\ granted = {} /\ calls = 0

-----------------------------------------------------------------------------
(* Rules and policy.                                                       *)

\* a prefix is compared with the command and a glob with the path, even when
\* the call has no such argument
Matches(rule, c) ==
    /\ rule.tool = c.tool
    /\ \/ rule.by = "all"
       \/ rule.by = "prefix" /\ Subject[c.tool] = "command" /\ rule.key = c.key
       \/ rule.by = "path" /\ Subject[c.tool] = "path" /\ rule.key = c.key

AllRules(v) == session[v] \o file \o InlineRules

\* the first rule that matches, as a set of at most one
FirstMatch(rules, c) ==
    LET hits == {i \in DOMAIN rules: Matches(rules[i], c)}
    IN  {rules[i]: i \in {h \in hits: \A j \in hits: h <= j}}

evaluatePolicy(p, c) ==
    IF Risk[c.tool] = "read" THEN "pass"
    ELSE CASE p = "never" -> "pass"
           [] p = "on-request" -> "ask"
           [] p = "untrusted" -> IF c \in Suspicious THEN "ask" ELSE "pass"
           [] p = "on-failure" -> "ask-on-failure"

\* bug: an allow rule is looked at before the denylist
Bug_RulesFirst(v, c) ==
    LET action == {rule.action: rule \in FirstMatch(AllRules(v), c)}
        matrix == evaluatePolicy(policy, c)
    IN  IF "allow" \in action \/ c \in AutoApproved THEN "allow"
        ELSE IF "deny" \in action \/ c \in Denylist THEN "deny"
        ELSE IF matrix = "pass" THEN "allow" ELSE matrix

preCheck(v, c) ==
    LET action == {rule.action: rule \in FirstMatch(AllRules(v), c)}
        matrix == evaluatePolicy(policy, c)
    IN  IF c \in Denylist \/ "deny" \in action THEN "deny"
        ELSE IF "allow" \in action \/ c \in AutoApproved \/ matrix = "pass" THEN "allow"
        ELSE matrix

SameRule(a, b) == a.tool = b.tool /\ a.by = b.by /\ a.key = b.key /\ a.action = b.action

AddRule(rules, rule) ==
    IF \E i \in DOMAIN rules: SameRule(rules[i], rule) THEN rules ELSE Append(rules, rule)

\* what the user means: the tool, or calls like this one
Covered(c, outcome) ==
    CASE outcome = "allow_session" -> {d \in Calls: d.tool = c.tool}
      [] outcome = "allow_prefix" -> {c} \ {d \in Calls: Subject[d.tool] = "other"}
      [] OTHER -> {}

\* bug: the whole tool is not allowed, only calls like this one
Bug_GrantedRule(c, outcome) ==
    [tool |-> c.tool, key |-> c.key, action |-> "allow", preview |-> FALSE,
     by |-> IF Subject[c.tool] = "path" THEN "path" ELSE "prefix"]

\* what allow_session and allow_prefix make of a call
GrantedRule(c, outcome) ==
    [tool |-> c.tool, key |-> c.key, action |-> "allow", preview |-> FALSE,
     by |-> IF outcome = "allow_session" THEN "all"
            ELSE IF Subject[c.tool] = "path" THEN "path" ELSE "prefix"]

-----------------------------------------------------------------------------
(* A round.                                                                *)

At(r, from, to) == pc[r] = from /\ pc' = [pc EXCEPT ![r] = to]

\* the call has its result
Settle(r, from) ==
    /\ At(r, from, "idle")
    /\ tries' = [tries EXCEPT ![r] = 0]
    /\ deferred' = [deferred EXCEPT ![r] = FALSE]
    /\ answer' = [answer EXCEPT ![r] = "none"]
    /\ call' = [call EXCEPT ![r] = NoCall]
    /\ UNCHANGED <<parked, held>>

MoveOn(r, from, to) ==
    /\ At(r, from, to)
    /\ UNCHANGED <<call, tries, deferred, parked, answer, held>>

\* enter_plan_mode and complete_plan are themselves read-only calls
TogglePlanMode(r) ==
    /\ pc[r] = "idle" /\ calls < MaxCalls
    /\ calls' = calls + 1
    /\ planMode' = [planMode EXCEPT ![Conv[r]] = ~@]
    /\ UNCHANGED <<policy, session, file, streak, cooling, roundVars, granted>>

\* bug: the profile is not looked at
Bug_NoProfile(r) ==
    /\ pc[r] = "idle" /\ calls < MaxCalls
    /\ calls' = calls + 1
    /\ \E c \in Calls:
          IF planMode[Conv[r]] /\ c.tool \notin ReadOnly
          THEN UNCHANGED roundVars
          ELSE /\ call' = [call EXCEPT ![r] = c]
               /\ At(r, "idle", "check")
               /\ UNCHANGED <<tries, deferred, parked, answer, held>>
    /\ UNCHANGED <<sharedVars, granted>>

\* plan mode and the profile come before the broker
StartCall(r) ==
    /\ pc[r] = "idle" /\ calls < MaxCalls
    /\ calls' = calls + 1
    /\ \E c \in Calls:
          IF (planMode[Conv[r]] /\ c.tool \notin ReadOnly) \/ c \in HardRejected
          THEN UNCHANGED roundVars
          ELSE /\ call' = [call EXCEPT ![r] = c]
               /\ At(r, "idle", "check")
               /\ UNCHANGED <<tries, deferred, parked, answer, held>>
    /\ UNCHANGED <<sharedVars, granted>>

Execute(r, from) ==
    /\ At(r, from, "running")
    /\ tries' = [tries EXCEPT ![r] = @ + 1]

Park(r, from) ==
    /\ At(r, from, "asking")
    /\ parked' = parked \cup {r}
    /\ answer' = [answer EXCEPT ![r] = "none"]

\* without a resolver a prompt is a denial
PreCheck(r) ==
    /\ LET verdict == preCheck(Conv[r], call[r])
       IN  \/ verdict = "deny" /\ Settle(r, "check")
           \/ verdict = "allow" /\ MoveOn(r, "check", "preview")
           \/ /\ verdict = "ask" /\ Host[Conv[r]] = "none"
              /\ Settle(r, "check")
           \/ /\ verdict = "ask" /\ Host[Conv[r]] # "none"
              /\ Park(r, "check")
              /\ UNCHANGED <<call, tries, deferred, held>>
           \/ /\ verdict = "ask-on-failure"
              /\ Execute(r, "check")
              /\ deferred' = [deferred EXCEPT ![r] = TRUE]
              /\ UNCHANGED <<call, parked, answer, held>>
    /\ UNCHANGED <<sharedVars, granted, calls>>

\* POST .../approval/:id, or the prompt on the terminal: any outcome is taken
Answer(r) ==
    /\ r \in parked
    /\ parked' = parked \ {r}
    /\ \E outcome \in Outcomes: answer' = [answer EXCEPT ![r] = outcome]
    /\ UNCHANGED <<sharedVars, pc, call, tries, deferred, held, granted, calls>>

Answered(r) == pc[r] = "asking" /\ answer[r] # "none"

\* everything but a denial permits the call
ApplyDecision(r) ==
    /\ Answered(r) /\ ~deferred[r]
    /\ session' = IF answer[r] \in {"allow_session", "allow_prefix"}
                  THEN [session EXCEPT ![Conv[r]] = AddRule(@, GrantedRule(call[r], answer[r]))]
                  ELSE session
    /\ granted' = granted \cup ({Conv[r]} \X Covered(call[r], answer[r]))
    /\ MoveOn(r, "asking", "record")
    /\ UNCHANGED <<policy, planMode, file, streak, cooling, calls>>

\* the decision is appended to the history; a denial ends the streak
RecordDecision(r) ==
    /\ IF answer[r] = "deny"
       THEN /\ Settle(r, "record")
            /\ streak' = [streak EXCEPT ![call[r]] = 0]
       ELSE /\ MoveOn(r, "record", "learn")
            /\ streak' = [streak EXCEPT ![call[r]] =
                             IF @ < ProposeAfter THEN @ + 1 ELSE @]
    /\ UNCHANGED <<policy, planMode, session, file, cooling, granted, calls>>

\* the history is read back: evaluateProposal
Learn(r) ==
    /\ LET propose == /\ streak[call[r]] >= ProposeAfter /\ ~cooling[call[r]]
                      /\ Host[Conv[r]] = "cli"
       IN  MoveOn(r, "learn", IF propose THEN "proposing" ELSE "preview")
    /\ UNCHANGED <<sharedVars, granted, calls>>

\* the user answers and the proposal is appended to the history
AnswerProposal(r) ==
    /\ \E accepted \in BOOLEAN: MoveOn(r, "proposing", IF accepted THEN "ruleRead" ELSE "preview")
    /\ cooling' = [cooling EXCEPT ![call[r]] = TRUE]
    /\ UNCHANGED <<policy, planMode, session, file, streak, granted, calls>>

ReadRules(r) ==
    /\ At(r, "ruleRead", "ruleWrite")
    /\ held' = [held EXCEPT ![r] = file]
    /\ UNCHANGED <<sharedVars, call, tries, deferred, parked, answer, granted, calls>>

\* a learned rule has a prefix, whatever the tool
WriteRules(r) ==
    /\ At(r, "ruleWrite", "preview")
    /\ file' = AddRule(held[r], [tool |-> call[r].tool, by |-> "prefix", key |-> call[r].key,
                                 action |-> "allow", preview |-> FALSE])
    /\ held' = [held EXCEPT ![r] = <<>>]
    /\ UNCHANGED <<policy, planMode, session, streak, cooling, call, tries, deferred, parked, answer, granted, calls>>

\* bug: only the session's own rules are looked at
Bug_RequiresDiffPreview(v, c) ==
    \E rule \in FirstMatch(session[v], c): rule.action = "allow" /\ rule.preview

requiresDiffPreview(v, c) ==
    /\ c \notin Denylist
    /\ \E rule \in FirstMatch(AllRules(v), c): rule.action = "allow" /\ rule.preview

\* a write-style tool with a path, in serve, which alone can show a diff
Showable(v, c) == Host[v] = "serve" /\ Risk[c.tool] = "write" /\ Subject[c.tool] = "path"

\* maybePreviewThenExecute: a path outside the workspace, and a call for which no
\* diff can be made, are left to the tool, which reads the file once more
Preview(r) ==
    /\ LET wanted == Showable(Conv[r], call[r]) /\ requiresDiffPreview(Conv[r], call[r])
       IN  \/ /\ wanted /\ call[r] \notin Outside
              /\ MoveOn(r, "preview", "previewing")
           \/ /\ wanted /\ call[r] \in Outside \cup NoDiff
              /\ Execute(r, "preview")
              /\ answer' = [answer EXCEPT ![r] = "undiffable"]
              /\ UNCHANGED <<call, deferred, parked, held>>
           \/ /\ ~wanted
              /\ Execute(r, "preview")
              /\ UNCHANGED <<call, deferred, parked, answer, held>>
    /\ UNCHANGED <<sharedVars, granted, calls>>

AnswerPreview(r) ==
    /\ \/ Settle(r, "previewing")
       \/ /\ Execute(r, "previewing")
          /\ answer' = [answer EXCEPT ![r] = "accept"]
          /\ UNCHANGED <<call, deferred, parked, held>>
    /\ UNCHANGED <<sharedVars, granted, calls>>

ToolReturns(r) ==
    /\ \/ Settle(r, "running")
       \/ deferred[r] /\ MoveOn(r, "running", "failed")
    /\ UNCHANGED <<sharedVars, granted, calls>>

\* the loop of runDeferOnFailure: tries - 1 retries so far
AskAfterFailure(r) ==
    /\ \/ (tries[r] > MaxRetries \/ Host[Conv[r]] = "none") /\ Settle(r, "failed")
       \/ /\ tries[r] <= MaxRetries /\ Host[Conv[r]] # "none"
          /\ Park(r, "failed")
          /\ UNCHANGED <<call, tries, deferred, held>>
    /\ UNCHANGED <<sharedVars, granted, calls>>

\* bug: only "abandon" ends the loop
Bug_OnlyAbandon(r) ==
    /\ Answered(r) /\ deferred[r]
    /\ \/ answer[r] = "abandon" /\ Settle(r, "asking")
       \/ /\ answer[r] = "retry"
          /\ Execute(r, "asking")
          /\ UNCHANGED <<call, deferred, parked, answer, held>>
    /\ UNCHANGED <<sharedVars, granted, calls>>

\* everything but retry abandons the call
ApplyFailureDecision(r) ==
    /\ Answered(r) /\ deferred[r]
    /\ \/ answer[r] # "retry" /\ Settle(r, "asking")
       \/ /\ answer[r] = "retry"
          /\ Execute(r, "asking")
          /\ UNCHANGED <<call, deferred, parked, answer, held>>
    /\ UNCHANGED <<sharedVars, granted, calls>>

\* The stream ends, and rejectPending denies what still waits in the
\* conversation's bucket, other rounds' prompts included.
EndRound(r) ==
    /\ Host[Conv[r]] = "serve"
    /\ At(r, "idle", "ended")
    /\ parked' = {s \in parked: Conv[s] # Conv[r]}
    /\ answer' = [s \in Rounds |-> IF s \in parked \ parked' THEN "deny" ELSE answer[s]]
    /\ UNCHANGED <<sharedVars, call, tries, deferred, held, granted, calls>>

\* 24 hours pass: no cool-down is left.
DayPasses ==
    /\ \E c \in Calls: cooling[c]
    /\ cooling' = [c \in Calls |-> FALSE]
    /\ UNCHANGED <<policy, planMode, session, file, streak, roundVars, granted, calls>>

Broker(r) ==
    \/ PreCheck(r) \/ ApplyDecision(r) \/ RecordDecision(r) \/ Learn(r)
    \/ ReadRules(r) \/ WriteRules(r) \/ Preview(r)
    \/ ToolReturns(r) \/ AskAfterFailure(r) \/ ApplyFailureDecision(r)

User(r) == Answer(r) \/ AnswerProposal(r) \/ AnswerPreview(r)

Next ==
    \/ \E r \in Rounds: Broker(r) \/ User(r) \/ StartCall(r) \/ TogglePlanMode(r) \/ EndRound(r)
    \/ DayPasses

Spec == Init /\ [][Next]_vars

\* Continuations run, tools return, and the user answers: the client shows
\* the waiting prompts again whenever it opens the conversation.
FairSpec == Spec /\ WF_vars(\E r \in Rounds: Broker(r) \/ User(r))
-----------------------------------------------------------------------------
TypeOK ==
    /\ policy \in Policies
    /\ planMode \in [Conversations -> BOOLEAN]
    /\ session \in [Conversations -> Seq(Rule)] /\ file \in Seq(Rule)
    /\ streak \in [Calls -> 0..ProposeAfter] /\ cooling \in [Calls -> BOOLEAN]
    /\ pc \in [Rounds -> PC] /\ call \in [Rounds -> Calls]
    /\ tries \in [Rounds -> Nat] /\ deferred \in [Rounds -> BOOLEAN]
    /\ parked \subseteq Rounds
    /\ answer \in [Rounds -> Answers]
    /\ held \in [Rounds -> Seq(Rule)]
    /\ granted \subseteq Conversations \X Calls
    /\ calls \in 0..MaxCalls

Permitted == {"record", "learn", "proposing", "ruleRead", "ruleWrite", "preview",
              "previewing", "running", "failed", "asking"}

(***************************************************************************)
(* "The denylist is the only thing that can veto an explicit allow", and   *)
(* the profile's rejection comes before it: whatever rules were learned or *)
(* configured and whatever the user answers, such a call is never run, nor *)
(* is the user asked about it.                                             *)
(***************************************************************************)
VetoHolds == \A r \in Rounds: pc[r] \in Permitted => call[r] \notin Denylist \cup HardRejected

(***************************************************************************)
(* A prompt that was denied, by the user or by the end of another stream   *)
(* of the conversation, never runs its tool.                               *)
(***************************************************************************)
DeniedNeverRuns ==
    \A r \in Rounds:
        answer[r] = "deny" => pc[r] \in {"asking", "record"}

(***************************************************************************)
(* A tool that keeps failing under on-failure is run once and then at most *)
(* MAX_RETRIES times, whatever the user answers.                           *)
(***************************************************************************)
RetriesBounded == \A r \in Rounds: tries[r] <= MaxRetries + 1

(***************************************************************************)
(* A prompt that waits for an answer can be found by the route that        *)
(* answers it and by the end of the stream: it is in the registry exactly  *)
(* as long as it is unanswered.                                            *)
(***************************************************************************)
PromptsAreParked ==
    \A r \in Rounds: r \in parked <=> pc[r] = "asking" /\ answer[r] = "none"

(***************************************************************************)
(* "BLOCKS until the user accepts / declines / edits it": in the server a  *)
(* write allowed by a rule that requires a preview runs only after the     *)
(* user has accepted its diff, however rules were added meanwhile.  Two    *)
(* kinds of calls run without: a path outside the workspace, and a call    *)
(* for which the preview's read of the file gave no diff; the tool reads   *)
(* the file again, and may then find what the preview did not.             *)
(***************************************************************************)
PreviewedBeforeWrite ==
    \A r \in Rounds:
        /\ pc[r] = "running" /\ ~deferred[r] /\ Showable(Conv[r], call[r])
        /\ \E rule \in FirstMatch(AllRules(Conv[r]), call[r]): rule.action = "allow" /\ rule.preview
        => \/ answer[r] = "accept"
           \/ answer[r] = "undiffable" /\ call[r] \in Outside \cup NoDiff

(***************************************************************************)
(* "the same call is auto-approved for the rest of the session": after     *)
(* allow_session or allow_prefix the user is not asked again about a call  *)
(* it covers.  A prefix of a call that has neither a command nor a path    *)
(* covers nothing: its rule never matches.                                 *)
(***************************************************************************)
GrantsAreRemembered ==
    [][\A r \in Rounds:
          pc[r] = "check" /\ pc'[r] = "asking"
             => <<Conv[r], call[r]>> \notin granted]_vars

(***************************************************************************)
(* Every call gets its result, though a stream of the conversation may end *)
(* and take the prompt out of the registry, and though the user may ask    *)
(* for a retry again and again: once no more calls are made, every round   *)
(* comes to rest.                                                          *)
(***************************************************************************)
CallsSettle == <>[](\A r \in Rounds: pc[r] \in {"idle", "ended"})
=============================================================================
