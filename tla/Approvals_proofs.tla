-------------------------- MODULE Approvals_proofs --------------------------
(***************************************************************************)
(* Permission to run a tool, for any number of rounds, conversations,      *)
(* calls and rules, and for any learning and retry limits.                 *)
(*                                                                         *)
(* A round's own invariant (Sound) says what is known at each of its       *)
(* stages: past the profile and past the broker the call is not vetoed, a  *)
(* denial leads only to the end of the call, and the count of retries      *)
(* belongs to a deferred call.  What other rounds do to it is limited to   *)
(* the answer of its prompt.  That a granted call is not asked about again *)
(* rests on the order of the rules: every session rule allows, and they    *)
(* come before all others (Remembered).                                    *)
(***************************************************************************)
EXTENDS Approvals, WellFoundedInduction, TLAPS

Vetted(r) ==
    /\ pc[r] \notin {"idle", "ended"} => call[r] \notin HardRejected
    /\ pc[r] \in Permitted => call[r] \notin Denylist

Denied(r) == answer[r] = "deny" => pc[r] \in {"asking", "record"}

Waiting(r) == r \in parked <=> pc[r] = "asking" /\ answer[r] = "none"

Tried(r) ==
    /\ pc[r] \notin {"running", "failed", "asking"} => tries[r] = 0 /\ ~deferred[r]
    /\ pc[r] = "running" /\ ~deferred[r] => tries[r] = 1
    /\ pc[r] = "running" /\ deferred[r] => tries[r] <= MaxRetries + 1
    /\ pc[r] = "failed" => deferred[r] /\ tries[r] <= MaxRetries + 1
    /\ pc[r] = "asking" /\ ~deferred[r] => tries[r] = 0
    /\ pc[r] = "asking" /\ deferred[r] => tries[r] <= MaxRetries

Sound == \A r \in Rounds: Vetted(r) /\ Denied(r) /\ Waiting(r) /\ Tried(r)

RoundType ==
    /\ pc \in [Rounds -> PC] /\ call \in [Rounds -> Calls]
    /\ tries \in [Rounds -> Nat] /\ deferred \in [Rounds -> BOOLEAN]
    /\ parked \subseteq Rounds
    /\ answer \in [Rounds -> Answers]
    /\ held \in [Rounds -> Seq(Rule)]

SharedType ==
    /\ policy \in Policies /\ planMode \in [Conversations -> BOOLEAN]
    /\ session \in [Conversations -> Seq(Rule)] /\ file \in Seq(Rule)
    /\ streak \in [Calls -> 0..ProposeAfter] /\ cooling \in [Calls -> BOOLEAN]

\* Every session rule allows, and one of them covers each granted call.
Remembered ==
    /\ \A v \in Conversations: \A i \in DOMAIN session[v]: session[v][i].action = "allow"
    /\ \A v \in Conversations, c \in Calls:
          <<v, c>> \in granted => \E i \in DOMAIN session[v]: Matches(session[v][i], c)

IInv == TypeOK /\ Sound /\ Remembered

-----------------------------------------------------------------------------
LEMMA Facts ==
    /\ \A r \in Rounds: Conv[r] \in Conversations
    /\ \A c \in Calls: c.tool \in Tools /\ c.key \in Keys /\ Subject[c.tool] \in {"command", "path", "other"}
    /\ NoCall \in Calls
    /\ FileRules \in Seq(Rule) /\ InlineRules \in Seq(Rule)
    /\ ProposeAfter \in Nat \ {0} /\ MaxRetries \in Nat /\ MaxCalls \in Nat
<1>1. NoCall \in Calls
    BY ApprovalsAssumption DEF NoCall
<1> QED BY <1>1, ApprovalsAssumption

\* The rule that a grant makes.
LEMMA GrantedRuleType ==
    ASSUME NEW c \in Calls, NEW outcome
    PROVE  GrantedRule(c, outcome) \in Rule /\ GrantedRule(c, outcome).action = "allow"
BY Facts DEF GrantedRule, Rule

\* Adding a rule keeps the others where they are, and one like it is there.
LEMMA AddRuleAdds ==
    ASSUME NEW rules \in Seq(Rule), NEW rule \in Rule
    PROVE  /\ AddRule(rules, rule) \in Seq(Rule)
           /\ \A i \in DOMAIN rules: i \in DOMAIN AddRule(rules, rule) /\ AddRule(rules, rule)[i] = rules[i]
           /\ \E i \in DOMAIN AddRule(rules, rule): SameRule(AddRule(rules, rule)[i], rule)
           /\ \A i \in DOMAIN AddRule(rules, rule): i \in DOMAIN rules \/ AddRule(rules, rule)[i] = rule
<1>1. CASE \E i \in DOMAIN rules: SameRule(rules[i], rule)
    BY <1>1 DEF AddRule
<1>2. CASE ~ \E i \in DOMAIN rules: SameRule(rules[i], rule)
    <2>1. AddRule(rules, rule) = Append(rules, rule)
        BY <1>2 DEF AddRule
    <2>2. Len(rules) + 1 \in DOMAIN Append(rules, rule) /\ Append(rules, rule)[Len(rules) + 1] = rule
        OBVIOUS
    <2>3. SameRule(rule, rule)
        BY DEF SameRule
    <2> QED BY <2>1, <2>2, <2>3
<1> QED BY <1>1, <1>2

\* A grant covers what it says: its rule matches every call it is meant for.
LEMMA GrantMatches ==
    ASSUME NEW c \in Calls, NEW outcome, NEW d \in Covered(c, outcome),
           NEW rule \in Rule, SameRule(rule, GrantedRule(c, outcome))
    PROVE  Matches(rule, d)
<1>1. CASE outcome = "allow_session"
    BY <1>1 DEF Covered, GrantedRule, SameRule, Matches
<1>2. CASE outcome = "allow_prefix"
    <2>1. d = c /\ Subject[c.tool] \in {"command", "path"}
        BY <1>2, Facts DEF Covered
    <2> QED BY <1>2, <2>1 DEF GrantedRule, SameRule, Matches
<1> QED BY <1>1, <1>2 DEF Covered

LEMMA TypeParts ==
    TypeOK <=> /\ RoundType /\ SharedType
               /\ granted \subseteq Conversations \X Calls /\ calls \in 0..MaxCalls
BY DEF TypeOK, RoundType, SharedType

LEMMA TypeJoin ==
    ASSUME RoundType', SharedType', granted' \subseteq Conversations \X Calls,
           calls' \in 0..MaxCalls
    PROVE  TypeOK'
BY DEF TypeOK, RoundType, SharedType

LEMMA TypeKept ==
    ASSUME TypeOK, RoundType', SharedType', UNCHANGED <<granted, calls>>
    PROVE  TypeOK'
BY DEF TypeOK, RoundType, SharedType

LEMMA SharedKept ==
    ASSUME SharedType, UNCHANGED sharedVars PROVE SharedType'
BY DEF SharedType, sharedVars

LEMMA RoundKept ==
    ASSUME RoundType, UNCHANGED roundVars PROVE RoundType'
BY DEF RoundType, roundVars

\* What the parts of an action do to the round's variables.
LEMMA AtType ==
    ASSUME RoundType, NEW r \in Rounds, NEW from, NEW to \in PC, At(r, from, to)
    PROVE  pc' \in [Rounds -> PC]
BY DEF RoundType, At

LEMMA MoveOnType ==
    ASSUME RoundType, NEW r \in Rounds, NEW from, NEW to \in PC, MoveOn(r, from, to)
    PROVE  RoundType'
BY AtType DEF RoundType, MoveOn

LEMMA SettleType ==
    ASSUME RoundType, NEW r \in Rounds, NEW from, Settle(r, from)
    PROVE  RoundType'
<1>1. pc' \in [Rounds -> PC]
    BY AtType DEF Settle, PC
<1>2. deferred' \in [Rounds -> BOOLEAN]
    BY DEF RoundType, Settle
<1>3. /\ call' \in [Rounds -> Calls] /\ tries' \in [Rounds -> Nat]
      /\ answer' \in [Rounds -> Answers]
    BY Facts DEF RoundType, Settle, Answers
<1> QED BY <1>1, <1>2, <1>3 DEF RoundType, Settle

LEMMA ExecuteType ==
    ASSUME RoundType, NEW r \in Rounds, NEW from, Execute(r, from)
    PROVE  pc' \in [Rounds -> PC] /\ tries' \in [Rounds -> Nat]
BY AtType DEF RoundType, Execute, PC

LEMMA ParkType ==
    ASSUME RoundType, NEW r \in Rounds, NEW from, Park(r, from)
    PROVE  pc' \in [Rounds -> PC] /\ parked' \subseteq Rounds /\ answer' \in [Rounds -> Answers]
BY AtType DEF RoundType, Park, PC, Answers

\* What the parts of an action do to what the rounds know.
LEMMA SettleSound ==
    ASSUME TypeOK, Sound, NEW r \in Rounds, NEW from, Settle(r, from), r \notin parked
    PROVE  Sound'
BY DEF TypeOK, Sound, Vetted, Denied, Waiting, Tried, Permitted, Settle, At

LEMMA ParkSound ==
    ASSUME TypeOK, Sound, NEW r \in Rounds, NEW from, Park(r, from),
           UNCHANGED <<call, tries, deferred>>,
           call[r] \notin Denylist \cup HardRejected,
           IF deferred[r] THEN tries[r] <= MaxRetries ELSE tries[r] = 0
    PROVE  Sound'
BY DEF TypeOK, Sound, Vetted, Denied, Waiting, Tried, Permitted, Park, At

LEMMA ExecuteSound ==
    ASSUME TypeOK, Sound, NEW r \in Rounds, NEW from, Execute(r, from),
           from \in {"check", "preview", "previewing", "asking"},
           UNCHANGED <<call, parked>>, r \notin parked,
           call[r] \notin Denylist \cup HardRejected,
           \/ UNCHANGED deferred
           \/ tries[r] = 0 /\ deferred' = [deferred EXCEPT ![r] = TRUE],
           IF deferred[r] THEN tries[r] <= MaxRetries ELSE tries[r] = 0,
           \/ UNCHANGED answer /\ answer[r] # "deny"
           \/ answer' = [answer EXCEPT ![r] = "accept"]
           \/ answer' = [answer EXCEPT ![r] = "undiffable"]
    PROVE  Sound'
<1>1. tries'[r] = tries[r] + 1 /\ pc'[r] = "running" /\ pc[r] = from
    BY DEF TypeOK, Execute, At
<1>2. \A s \in Rounds: s # r => /\ pc'[s] = pc[s] /\ call'[s] = call[s] /\ tries'[s] = tries[s]
                                /\ deferred'[s] = deferred[s] /\ answer'[s] = answer[s]
    BY DEF TypeOK, Execute, At
<1>3. \A s \in Rounds: s # r => Vetted(s)' /\ Denied(s)' /\ Waiting(s)' /\ Tried(s)'
    BY <1>2 DEF Sound, Vetted, Denied, Waiting, Tried
<1>4. Vetted(r)' /\ Denied(r)' /\ Waiting(r)'
    BY <1>1 DEF TypeOK, Sound, Vetted, Denied, Waiting
<1>5. Tried(r)'
    <2>1. tries[r] \in Nat /\ MaxRetries \in Nat
        BY Facts DEF TypeOK
    <2>2. CASE deferred[r] /\ UNCHANGED deferred
        BY <1>1, <2>1, <2>2 DEF Tried
    <2>3. CASE ~deferred[r] /\ UNCHANGED deferred
        BY <1>1, <2>1, <2>3 DEF Tried
    <2>4. CASE tries[r] = 0 /\ deferred' = [deferred EXCEPT ![r] = TRUE]
        <3>1. deferred'[r]
            BY <2>4 DEF TypeOK
        <3> QED BY <1>1, <2>1, <2>4, <3>1 DEF Tried
    <2> QED BY <2>2, <2>3, <2>4
<1> QED BY <1>3, <1>4, <1>5 DEF Sound

\* Nothing that the broker does not deny is on the denylist.
LEMMA PreCheckVetoes ==
    ASSUME NEW v, NEW c, preCheck(v, c) # "deny"
    PROVE  c \notin Denylist
BY DEF preCheck

\* Every step keeps the variables in their types.
LEMMA TypeStep ==
    ASSUME TypeOK, [Next]_vars
    PROVE  TypeOK'
<1>1. ASSUME NEW r \in Rounds, StartCall(r) PROVE TypeOK'
    <2>0. RoundType /\ SharedType
        BY TypeParts
    <2>1. RoundType'
        <3>1. CASE UNCHANGED roundVars
            BY <2>0, <3>1, RoundKept
        <3>2. CASE ~UNCHANGED roundVars
            <4>1. At(r, "idle", "check") /\ UNCHANGED <<tries, deferred, parked, answer, held>>
                BY <1>1, <3>2 DEF StartCall
            <4>2. PICK c \in Calls: call' = [call EXCEPT ![r] = c]
                BY <1>1, <3>2 DEF StartCall
            <4>3. pc' \in [Rounds -> PC]
                BY <2>0, <4>1, AtType DEF PC
            <4> QED BY <2>0, <4>1, <4>2, <4>3 DEF RoundType
        <3> QED BY <3>1, <3>2
    <2>8. SharedType'
        BY <1>1, <2>0, SharedKept DEF StartCall
    <2>2. calls' \in 0..MaxCalls
        BY <1>1, Facts DEF TypeOK, StartCall
    <2> QED BY <1>1, <2>1, <2>2, <2>8, TypeJoin DEF StartCall, TypeOK
<1>2. ASSUME NEW r \in Rounds, TogglePlanMode(r) PROVE TypeOK'
    <2>0. RoundType /\ SharedType
        BY TypeParts
    <2>1. RoundType'
        BY <1>2, <2>0, RoundKept DEF TogglePlanMode
    <2>2. planMode' \in [Conversations -> BOOLEAN]
        BY <1>2, Facts DEF TypeOK, TogglePlanMode
    <2>3. calls' \in 0..MaxCalls
        BY <1>2, Facts DEF TypeOK, TogglePlanMode
    <2>8. SharedType'
        BY <1>2, <2>0, <2>2 DEF TogglePlanMode, SharedType
    <2> QED BY <1>2, <2>1, <2>3, <2>8, TypeJoin DEF TogglePlanMode, TypeOK
<1>3. ASSUME NEW r \in Rounds, PreCheck(r) PROVE TypeOK'
    <2>0. RoundType /\ SharedType
        BY TypeParts
    <2>1. CASE Settle(r, "check")
        <3> QED BY <1>3, <2>0, <2>1, SettleType, SharedKept, TypeKept DEF PreCheck
    <2>2. CASE MoveOn(r, "check", "preview")
        <3> QED BY <1>3, <2>0, <2>2, MoveOnType, SharedKept, TypeKept DEF PreCheck, PC
    <2>3. CASE Park(r, "check") /\ UNCHANGED <<call, tries, deferred, held>>
        <3>1. RoundType'
            BY <2>0, <2>3, ParkType DEF RoundType
        <3> QED BY <1>3, <2>0, <3>1, SharedKept, TypeKept DEF PreCheck
    <2>4. CASE /\ Execute(r, "check") /\ deferred' = [deferred EXCEPT ![r] = TRUE]
               /\ UNCHANGED <<call, parked, answer, held>>
        <3>1. deferred' \in [Rounds -> BOOLEAN]
            BY <2>0, <2>4 DEF RoundType
        <3>2. RoundType'
            BY <2>0, <2>4, <3>1, ExecuteType DEF RoundType
        <3> QED BY <1>3, <2>0, <3>2, SharedKept, TypeKept DEF PreCheck
    <2> QED BY <1>3, <2>1, <2>2, <2>3, <2>4 DEF PreCheck
<1>4. ASSUME NEW r \in Rounds, ApplyDecision(r) PROVE TypeOK'
    <2>0. RoundType /\ SharedType
        BY TypeParts
    <2>1. RoundType'
        BY <1>4, <2>0, MoveOnType DEF ApplyDecision, PC
    <2>2. session' \in [Conversations -> Seq(Rule)]
        BY <1>4, <2>0, Facts, GrantedRuleType, AddRuleAdds DEF ApplyDecision,
            SharedType, RoundType
    <2>3. granted' \subseteq Conversations \X Calls
        BY <1>4, <2>0, Facts DEF ApplyDecision, TypeOK, Covered, RoundType
    <2>8. SharedType'
        BY <1>4, <2>0, <2>2 DEF ApplyDecision, SharedType
    <2> QED BY <1>4, <2>1, <2>3, <2>8, TypeJoin DEF ApplyDecision, TypeOK
<1>5. ASSUME NEW r \in Rounds, RecordDecision(r) PROVE TypeOK'
    <2>0. RoundType /\ SharedType
        BY TypeParts
    <2>1. RoundType'
        BY <1>5, <2>0, MoveOnType, SettleType DEF RecordDecision, PC
    <2>2. streak' \in [Calls -> 0..ProposeAfter]
        <3> DEFINE s == IF streak[call[r]] < ProposeAfter THEN streak[call[r]] + 1
                        ELSE streak[call[r]]
        <3>1. s \in 0..ProposeAfter /\ 0 \in 0..ProposeAfter
            BY <2>0, Facts DEF RoundType, SharedType
        <3>2. \/ streak' = [streak EXCEPT ![call[r]] = 0]
              \/ streak' = [streak EXCEPT ![call[r]] = s]
            BY <1>5 DEF RecordDecision
        <3> HIDE DEF s
        <3> QED BY <2>0, <3>1, <3>2 DEF SharedType
    <2>8. SharedType'
        BY <1>5, <2>0, <2>2 DEF RecordDecision, SharedType
    <2> QED BY <1>5, <2>1, <2>8, TypeKept DEF RecordDecision
<1>6. ASSUME NEW r \in Rounds, Learn(r) PROVE TypeOK'
    <2>0. RoundType /\ SharedType
        BY TypeParts
    <2>1. RoundType'
        BY <1>6, <2>0, MoveOnType DEF Learn, PC
    <2>8. SharedType'
        BY <1>6, <2>0, SharedKept DEF Learn
    <2> QED BY <1>6, <2>1, <2>8, TypeKept DEF Learn
<1>7. ASSUME NEW r \in Rounds, ReadRules(r) PROVE TypeOK'
    <2>0. RoundType /\ SharedType
        BY TypeParts
    <2>1. pc' \in [Rounds -> PC]
        BY <1>7, <2>0, AtType DEF ReadRules, PC
    <2>2. RoundType'
        BY <1>7, <2>0, <2>1 DEF ReadRules, RoundType, SharedType
    <2>8. SharedType'
        BY <1>7, <2>0, SharedKept DEF ReadRules
    <2> QED BY <1>7, <2>2, <2>8, TypeKept DEF ReadRules
<1>8. ASSUME NEW r \in Rounds, WriteRules(r) PROVE TypeOK'
    <2>0. RoundType /\ SharedType
        BY TypeParts
    <2>1. pc' \in [Rounds -> PC]
        BY <1>8, <2>0, AtType DEF WriteRules, PC
    <2>2. RoundType'
        BY <1>8, <2>0, <2>1 DEF WriteRules, RoundType
    <2>3. file' \in Seq(Rule)
        <3> DEFINE rule == [tool |-> call[r].tool, by |-> "prefix", key |-> call[r].key,
                            action |-> "allow", preview |-> FALSE]
        <3>1. rule \in Rule /\ held[r] \in Seq(Rule)
            BY <2>0, Facts DEF RoundType, Rule
        <3>2. AddRule(held[r], rule) \in Seq(Rule)
            BY <3>1, AddRuleAdds
        <3> QED BY <1>8, <3>2 DEF WriteRules
    <2>8. SharedType'
        BY <1>8, <2>0, <2>3 DEF WriteRules, SharedType
    <2> QED BY <1>8, <2>2, <2>8, TypeKept DEF WriteRules
<1>9. ASSUME NEW r \in Rounds, Preview(r) PROVE TypeOK'
    <2>0. RoundType /\ SharedType
        BY TypeParts
    <2>1. RoundType'
        <3>1. CASE MoveOn(r, "preview", "previewing")
            BY <2>0, <3>1, MoveOnType DEF PC
        <3>2. CASE Execute(r, "preview") /\ UNCHANGED <<call, deferred, parked, answer, held>>
            BY <2>0, <3>2, ExecuteType DEF RoundType
        <3>3. CASE /\ Execute(r, "preview") /\ answer' = [answer EXCEPT ![r] = "undiffable"]
                   /\ UNCHANGED <<call, deferred, parked, held>>
            BY <2>0, <3>3, ExecuteType DEF RoundType, Answers
        <3> QED BY <1>9, <3>1, <3>2, <3>3 DEF Preview
    <2>8. SharedType'
        BY <1>9, <2>0, SharedKept DEF Preview
    <2> QED BY <1>9, <2>1, <2>8, TypeKept DEF Preview
<1>10. ASSUME NEW r \in Rounds, ToolReturns(r) PROVE TypeOK'
    <2>0. RoundType /\ SharedType
        BY TypeParts
    <2>1. RoundType'
        BY <1>10, <2>0, SettleType, MoveOnType DEF ToolReturns, PC
    <2>8. SharedType'
        BY <1>10, <2>0, SharedKept DEF ToolReturns
    <2> QED BY <1>10, <2>1, <2>8, TypeKept DEF ToolReturns
<1>11. ASSUME NEW r \in Rounds, AskAfterFailure(r) PROVE TypeOK'
    <2>0. RoundType /\ SharedType
        BY TypeParts
    <2>1. RoundType'
        <3>1. CASE Settle(r, "failed")
            BY <2>0, <3>1, SettleType
        <3>2. CASE Park(r, "failed") /\ UNCHANGED <<call, tries, deferred, held>>
            BY <2>0, <3>2, ParkType DEF RoundType
        <3> QED BY <1>11, <3>1, <3>2 DEF AskAfterFailure
    <2>8. SharedType'
        BY <1>11, <2>0, SharedKept DEF AskAfterFailure
    <2> QED BY <1>11, <2>1, <2>8, TypeKept DEF AskAfterFailure
<1>12. ASSUME NEW r \in Rounds, ApplyFailureDecision(r) PROVE TypeOK'
    <2>0. RoundType /\ SharedType
        BY TypeParts
    <2>1. RoundType'
        <3>1. CASE Settle(r, "asking")
            BY <2>0, <3>1, SettleType
        <3>2. CASE Execute(r, "asking") /\ UNCHANGED <<call, deferred, parked, answer, held>>
            BY <2>0, <3>2, ExecuteType DEF RoundType
        <3> QED BY <1>12, <3>1, <3>2 DEF ApplyFailureDecision
    <2>8. SharedType'
        BY <1>12, <2>0, SharedKept DEF ApplyFailureDecision
    <2> QED BY <1>12, <2>1, <2>8, TypeKept DEF ApplyFailureDecision
<1>13. ASSUME NEW r \in Rounds, Answer(r) PROVE TypeOK'
    BY <1>13, Facts DEF TypeOK, PC, Answers, sharedVars, roundVars, Answer
<1>14. ASSUME NEW r \in Rounds, AnswerProposal(r) PROVE TypeOK'
    <2>0. RoundType /\ SharedType
        BY TypeParts
    <2>1. RoundType'
        BY <1>14, <2>0, MoveOnType DEF AnswerProposal, PC
    <2>2. cooling' \in [Calls -> BOOLEAN]
        BY <1>14, <2>0 DEF AnswerProposal, SharedType
    <2>8. SharedType'
        BY <1>14, <2>0, <2>2 DEF AnswerProposal, SharedType
    <2> QED BY <1>14, <2>1, <2>8, TypeKept DEF AnswerProposal
<1>15. ASSUME NEW r \in Rounds, AnswerPreview(r) PROVE TypeOK'
    <2>0. RoundType /\ SharedType
        BY TypeParts
    <2>1. RoundType'
        <3>1. CASE Settle(r, "previewing")
            BY <2>0, <3>1, SettleType
        <3>2. CASE /\ Execute(r, "previewing") /\ answer' = [answer EXCEPT ![r] = "accept"]
                   /\ UNCHANGED <<call, deferred, parked, held>>
            BY <2>0, <3>2, ExecuteType DEF RoundType, Answers
        <3> QED BY <1>15, <3>1, <3>2 DEF AnswerPreview
    <2>8. SharedType'
        BY <1>15, <2>0, SharedKept DEF AnswerPreview
    <2> QED BY <1>15, <2>1, <2>8, TypeKept DEF AnswerPreview
<1>16. ASSUME NEW r \in Rounds, EndRound(r) PROVE TypeOK'
    <2>0. RoundType /\ SharedType
        BY TypeParts
    <2>1. pc' \in [Rounds -> PC]
        BY <1>16, <2>0, AtType DEF EndRound, PC
    <2>2. parked' \subseteq Rounds /\ answer' \in [Rounds -> Answers]
        BY <1>16, <2>0 DEF EndRound, RoundType, Answers, Outcomes
    <2>3. RoundType'
        BY <1>16, <2>0, <2>1, <2>2 DEF EndRound, RoundType
    <2>8. SharedType'
        BY <1>16, <2>0, SharedKept DEF EndRound
    <2> QED BY <1>16, <2>3, <2>8, TypeKept DEF EndRound
<1>17. ASSUME DayPasses PROVE TypeOK'
    BY <1>17, Facts DEF TypeOK, PC, Answers, sharedVars, roundVars, DayPasses
<1>18. ASSUME UNCHANGED vars PROVE TypeOK'
    BY <1>18 DEF TypeOK, PC, Answers, sharedVars, roundVars, vars, sharedVars, roundVars
<1> QED BY <1>1, <1>2, <1>3, <1>4, <1>5, <1>6, <1>7, <1>8, <1>9, <1>10, <1>11, <1>12,
    <1>13, <1>14, <1>15, <1>16, <1>17, <1>18 DEF Next, Broker, User

\* Every step keeps what a round knows.
LEMMA SoundStep ==
    ASSUME TypeOK, Sound, [Next]_vars
    PROVE  Sound'
<1>1. ASSUME NEW r \in Rounds, StartCall(r) PROVE Sound'
    BY SMTT(30), <1>1, Facts DEF TypeOK, Sound, Vetted, Denied, Waiting, Tried, Permitted,
        sharedVars, roundVars, StartCall, At
<1>2. ASSUME NEW r \in Rounds, TogglePlanMode(r) PROVE Sound'
    BY <1>2, Facts DEF TypeOK, Sound, Vetted, Denied, Waiting, Tried, Permitted,
        sharedVars, roundVars, TogglePlanMode
<1>3. ASSUME NEW r \in Rounds, PreCheck(r) PROVE Sound'
    <2>0. MaxRetries \in Nat /\ Vetted(r) /\ Denied(r) /\ Waiting(r) /\ Tried(r)
        BY Facts DEF Sound
    <2>1. pc[r] = "check"
        BY <1>3 DEF PreCheck, Settle, MoveOn, Park, Execute, At
    <2>2. /\ r \notin parked /\ answer[r] # "deny" /\ tries[r] = 0 /\ ~deferred[r]
          /\ call[r] \notin HardRejected
        BY <2>0, <2>1 DEF Vetted, Denied, Waiting, Tried
    <2>3. CASE Settle(r, "check")
        BY <2>2, <2>3, SettleSound
    <2>4. CASE preCheck(Conv[r], call[r]) # "deny" /\ ~Settle(r, "check")
        <3>1. call[r] \notin Denylist
            BY <2>4, PreCheckVetoes
        <3>2. CASE MoveOn(r, "check", "preview")
            BY <2>2, <3>1, <3>2 DEF TypeOK, Sound, Vetted, Denied,
                Waiting, Tried, Permitted, MoveOn, At
        <3>3. CASE Park(r, "check") /\ UNCHANGED <<call, tries, deferred, held>>
            BY <2>2, <3>1, <3>3, ParkSound
        <3>4. CASE /\ Execute(r, "check") /\ deferred' = [deferred EXCEPT ![r] = TRUE]
                   /\ UNCHANGED <<call, parked, answer, held>>
            BY <2>2, <3>1, <3>4, ExecuteSound
        <3> QED BY <1>3, <2>4, <3>2, <3>3, <3>4 DEF PreCheck
    <2> QED BY <1>3, <2>3, <2>4 DEF PreCheck
<1>4. ASSUME NEW r \in Rounds, ApplyDecision(r) PROVE Sound'
    BY <1>4, Facts DEF TypeOK, Sound, Vetted, Denied, Waiting, Tried, Permitted,
        sharedVars, roundVars, ApplyDecision, Answered, MoveOn, At
<1>5. ASSUME NEW r \in Rounds, RecordDecision(r) PROVE Sound'
    <2>0. MaxRetries \in Nat /\ Vetted(r) /\ Denied(r) /\ Waiting(r) /\ Tried(r)
        BY Facts DEF Sound
    <2>1. CASE Settle(r, "record")
        <3>1. r \notin parked
            BY <2>0, <2>1 DEF Waiting, Settle, At
        <3> QED BY <2>1, <3>1, SettleSound
    <2>2. CASE answer[r] # "deny" /\ MoveOn(r, "record", "learn")
        BY <2>2 DEF TypeOK, Sound, Vetted, Denied, Waiting, Tried, Permitted, MoveOn, At
    <2> QED BY <1>5, <2>1, <2>2 DEF RecordDecision
<1>6. ASSUME NEW r \in Rounds, Learn(r) PROVE Sound'
    BY SMTT(30), <1>6, Facts DEF TypeOK, Sound, Vetted, Denied, Waiting, Tried, Permitted,
        sharedVars, roundVars, Learn, MoveOn, At
<1>7. ASSUME NEW r \in Rounds, ReadRules(r) PROVE Sound'
    BY <1>7, Facts DEF TypeOK, Sound, Vetted, Denied, Waiting, Tried, Permitted,
        sharedVars, roundVars, ReadRules, At
<1>8. ASSUME NEW r \in Rounds, WriteRules(r) PROVE Sound'
    BY <1>8, Facts DEF TypeOK, Sound, Vetted, Denied, Waiting, Tried, Permitted,
        sharedVars, roundVars, WriteRules, At
<1>9. ASSUME NEW r \in Rounds, Preview(r) PROVE Sound'
    <2>0. MaxRetries \in Nat /\ Vetted(r) /\ Denied(r) /\ Waiting(r) /\ Tried(r)
        BY Facts DEF Sound
    <2>1. CASE MoveOn(r, "preview", "previewing")
        BY <2>1 DEF TypeOK, Sound, Vetted, Denied, Waiting, Tried, Permitted, MoveOn, At
    <2>2. CASE /\ Execute(r, "preview") /\ UNCHANGED <<call, deferred, parked, held>>
               /\ UNCHANGED answer \/ answer' = [answer EXCEPT ![r] = "undiffable"]
        <3>1. pc[r] = "preview"
            BY <2>2 DEF Execute, At
        <3>2. /\ r \notin parked /\ answer[r] # "deny" /\ tries[r] = 0 /\ ~deferred[r]
              /\ call[r] \notin Denylist \cup HardRejected
            BY <2>0, <3>1 DEF Vetted, Denied, Waiting, Tried, Permitted
        <3> QED BY <2>2, <3>2, ExecuteSound
    <2> QED BY <1>9, <2>1, <2>2 DEF Preview
<1>10. ASSUME NEW r \in Rounds, ToolReturns(r) PROVE Sound'
    <2>0. MaxRetries \in Nat /\ Vetted(r) /\ Denied(r) /\ Waiting(r) /\ Tried(r)
        BY Facts DEF Sound
    <2>1. CASE Settle(r, "running")
        <3>1. r \notin parked
            BY <2>0, <2>1 DEF Waiting, Settle, At
        <3> QED BY <2>1, <3>1, SettleSound
    <2>2. CASE deferred[r] /\ MoveOn(r, "running", "failed")
        BY <2>2 DEF TypeOK, Sound, Vetted, Denied, Waiting, Tried, Permitted, MoveOn, At
    <2> QED BY <1>10, <2>1, <2>2 DEF ToolReturns
<1>11. ASSUME NEW r \in Rounds, AskAfterFailure(r) PROVE Sound'
    <2>0. MaxRetries \in Nat /\ Vetted(r) /\ Denied(r) /\ Waiting(r) /\ Tried(r)
        BY Facts DEF Sound
    <2>1. pc[r] = "failed"
        BY <1>11 DEF AskAfterFailure, Settle, Park, At
    <2>2. r \notin parked /\ deferred[r] /\ call[r] \notin Denylist \cup HardRejected
        BY <2>0, <2>1 DEF Vetted, Waiting, Tried, Permitted
    <2>3. CASE Settle(r, "failed")
        BY <2>2, <2>3, SettleSound
    <2>4. CASE tries[r] <= MaxRetries /\ Park(r, "failed") /\ UNCHANGED <<call, tries, deferred, held>>
        BY <2>2, <2>4, ParkSound
    <2> QED BY <1>11, <2>3, <2>4 DEF AskAfterFailure
<1>12. ASSUME NEW r \in Rounds, ApplyFailureDecision(r) PROVE Sound'
    <2>0. MaxRetries \in Nat /\ Vetted(r) /\ Denied(r) /\ Waiting(r) /\ Tried(r)
        BY Facts DEF Sound
    <2>1. pc[r] = "asking" /\ answer[r] # "none" /\ deferred[r]
        BY <1>12 DEF ApplyFailureDecision, Answered
    <2>2. /\ r \notin parked /\ tries[r] <= MaxRetries
          /\ call[r] \notin Denylist \cup HardRejected
        BY <2>0, <2>1 DEF Vetted, Waiting, Tried, Permitted
    <2>3. CASE Settle(r, "asking")
        BY <2>2, <2>3, SettleSound
    <2>4. CASE /\ answer[r] = "retry" /\ Execute(r, "asking")
               /\ UNCHANGED <<call, deferred, parked, answer, held>>
        BY <2>1, <2>2, <2>4, ExecuteSound
    <2> QED BY <1>12, <2>3, <2>4 DEF ApplyFailureDecision
<1>13. ASSUME NEW r \in Rounds, Answer(r) PROVE Sound'
    <2>0. MaxRetries \in Nat /\ Vetted(r) /\ Denied(r) /\ Waiting(r) /\ Tried(r)
        BY Facts DEF Sound
    <2>1. pc[r] = "asking"
        BY <1>13, <2>0 DEF Answer, Waiting
    <2>2. PICK outcome \in Outcomes: answer' = [answer EXCEPT ![r] = outcome]
        BY <1>13 DEF Answer
    <2>3. answer'[r] # "none"
        BY <2>2 DEF TypeOK, Outcomes
    <2>4. \A s \in Rounds: s # r => answer'[s] = answer[s]
        BY <2>2 DEF TypeOK
    <2> QED BY <1>13, <2>1, <2>3, <2>4 DEF Answer, Sound, Vetted, Denied, Waiting,
        Tried, Permitted
<1>14. ASSUME NEW r \in Rounds, AnswerProposal(r) PROVE Sound'
    BY <1>14, Facts DEF TypeOK, Sound, Vetted, Denied, Waiting, Tried, Permitted,
        sharedVars, roundVars, AnswerProposal, MoveOn, At
<1>15. ASSUME NEW r \in Rounds, AnswerPreview(r) PROVE Sound'
    <2>0. MaxRetries \in Nat /\ Vetted(r) /\ Denied(r) /\ Waiting(r) /\ Tried(r)
        BY Facts DEF Sound
    <2>1. pc[r] = "previewing"
        BY <1>15 DEF AnswerPreview, Settle, Execute, At
    <2>2. /\ r \notin parked /\ answer[r] # "deny" /\ tries[r] = 0 /\ ~deferred[r]
          /\ call[r] \notin Denylist \cup HardRejected
        BY <2>0, <2>1 DEF Vetted, Denied, Waiting, Tried, Permitted
    <2> QED BY <1>15, <2>2, SettleSound, ExecuteSound DEF AnswerPreview
<1>16. ASSUME NEW r \in Rounds, EndRound(r) PROVE Sound'
    BY <1>16, Facts DEF TypeOK, Sound, Vetted, Denied, Waiting, Tried, Permitted,
        sharedVars, roundVars, EndRound, At
<1>17. ASSUME DayPasses PROVE Sound'
    BY <1>17, Facts DEF TypeOK, Sound, Vetted, Denied, Waiting, Tried, Permitted,
        sharedVars, roundVars, DayPasses
<1>18. ASSUME UNCHANGED vars PROVE Sound'
    BY <1>18 DEF TypeOK, Sound, Vetted, Denied, Waiting, Tried, Permitted,
        sharedVars, roundVars, vars, sharedVars, roundVars
<1> QED BY <1>1, <1>2, <1>3, <1>4, <1>5, <1>6, <1>7, <1>8, <1>9, <1>10, <1>11, <1>12,
    <1>13, <1>14, <1>15, <1>16, <1>17, <1>18 DEF Next, Broker, User

\* Session rules only grow, and only by allowing ones.
LEMMA RememberedStep ==
    ASSUME TypeOK, Remembered, [Next]_vars
    PROVE  Remembered'
<1>1. ASSUME NEW r \in Rounds, StartCall(r) PROVE Remembered'
    BY <1>1, Facts DEF TypeOK, Remembered, sharedVars, roundVars, StartCall, At
<1>2. ASSUME NEW r \in Rounds, TogglePlanMode(r) PROVE Remembered'
    BY <1>2, Facts DEF TypeOK, Remembered, sharedVars, roundVars, TogglePlanMode
<1>3. ASSUME NEW r \in Rounds, PreCheck(r) PROVE Remembered'
    BY <1>3, Facts DEF TypeOK, Remembered, sharedVars, roundVars, PreCheck,
        Settle, MoveOn, Park, Execute, At
<1>4. ASSUME NEW r \in Rounds, ApplyDecision(r) PROVE Remembered'
    <2> DEFINE v == Conv[r]
              rule == GrantedRule(call[r], answer[r])
    <2>0. v \in Conversations /\ call[r] \in Calls /\ session[v] \in Seq(Rule)
          /\ session \in [Conversations -> Seq(Rule)]
        BY Facts DEF TypeOK
    <2>1. rule \in Rule /\ rule.action = "allow"
        BY <2>0, GrantedRuleType
    <2>2. /\ \A i \in DOMAIN session[v]: /\ i \in DOMAIN AddRule(session[v], rule)
                                         /\ AddRule(session[v], rule)[i] = session[v][i]
          /\ \E i \in DOMAIN AddRule(session[v], rule): SameRule(AddRule(session[v], rule)[i], rule)
          /\ \A i \in DOMAIN AddRule(session[v], rule):
                i \in DOMAIN session[v] \/ AddRule(session[v], rule)[i] = rule
          /\ AddRule(session[v], rule) \in Seq(Rule)
        <3> HIDE DEF v, rule
        <3> QED BY <2>0, <2>1, AddRuleAdds, Zenon
    <2>3. CASE answer[r] \in {"allow_session", "allow_prefix"}
        <3>1. session' = [session EXCEPT ![v] = AddRule(session[v], rule)]
            BY <1>4, <2>3 DEF ApplyDecision
        <3>2. \A w \in Conversations: w # v => session'[w] = session[w]
            BY <2>0, <3>1
        <3>3. session'[v] = AddRule(session[v], rule)
            BY <2>0, <3>1
        <3> HIDE DEF rule, v
        <3>4. \A w \in Conversations: \A i \in DOMAIN session'[w]: session'[w][i].action = "allow"
            BY <2>1, <2>2, <3>2, <3>3 DEF Remembered
        <3>5. \A w \in Conversations: \A i \in DOMAIN session[w]:
                  i \in DOMAIN session'[w] /\ session'[w][i] = session[w][i]
            BY <2>2, <3>2, <3>3
        <3>6. PICK i \in DOMAIN session'[v]: SameRule(session'[v][i], rule)
            BY <2>2, <3>3
        <3>7. session'[v][i] \in Rule
            BY <2>0, <2>2, <3>3, <3>6
        <3>8. \A d \in Covered(call[r], answer[r]): Matches(session'[v][i], d)
            BY <2>0, <3>6, <3>7, GrantMatches DEF rule
        <3>9. \A w \in Conversations, c \in Calls: <<w, c>> \in granted' =>
                  \/ <<w, c>> \in granted
                  \/ w = v /\ c \in Covered(call[r], answer[r])
            BY <1>4 DEF ApplyDecision, v
        <3>10. \A w \in Conversations, c \in Calls: <<w, c>> \in granted' =>
                  \E k \in DOMAIN session'[w]: Matches(session'[w][k], c)
            BY <3>5, <3>6, <3>8, <3>9 DEF Remembered
        <3> QED BY <3>4, <3>10 DEF Remembered
    <2>4. CASE answer[r] \notin {"allow_session", "allow_prefix"}
        <3>1. session' = session /\ granted' = granted
            BY <1>4, <2>4 DEF ApplyDecision, Covered
        <3> QED BY <3>1 DEF Remembered
    <2> QED BY <2>3, <2>4
<1>5. ASSUME NEW r \in Rounds, RecordDecision(r) PROVE Remembered'
    BY <1>5, Facts DEF TypeOK, Remembered, sharedVars, roundVars, RecordDecision,
        Settle, MoveOn, At
<1>6. ASSUME NEW r \in Rounds, Learn(r) PROVE Remembered'
    BY <1>6, Facts DEF TypeOK, Remembered, sharedVars, roundVars, Learn, MoveOn, At
<1>7. ASSUME NEW r \in Rounds, ReadRules(r) PROVE Remembered'
    BY <1>7, Facts DEF TypeOK, Remembered, sharedVars, roundVars, ReadRules, At
<1>8. ASSUME NEW r \in Rounds, WriteRules(r) PROVE Remembered'
    BY <1>8, Facts DEF TypeOK, Remembered, sharedVars, roundVars, WriteRules, At
<1>9. ASSUME NEW r \in Rounds, Preview(r) PROVE Remembered'
    BY <1>9, Facts DEF TypeOK, Remembered, sharedVars, roundVars, Preview, MoveOn,
        Execute, At
<1>10. ASSUME NEW r \in Rounds, ToolReturns(r) PROVE Remembered'
    BY <1>10, Facts DEF TypeOK, Remembered, sharedVars, roundVars, ToolReturns,
        Settle, MoveOn, At
<1>11. ASSUME NEW r \in Rounds, AskAfterFailure(r) PROVE Remembered'
    BY <1>11, Facts DEF TypeOK, Remembered, sharedVars, roundVars,
        AskAfterFailure, Settle, Park, At
<1>12. ASSUME NEW r \in Rounds, ApplyFailureDecision(r) PROVE Remembered'
    BY <1>12, Facts DEF TypeOK, Remembered, sharedVars, roundVars,
        ApplyFailureDecision, Answered, Settle, Execute, At
<1>13. ASSUME NEW r \in Rounds, Answer(r) PROVE Remembered'
    BY <1>13, Facts DEF TypeOK, Remembered, sharedVars, roundVars, Answer
<1>14. ASSUME NEW r \in Rounds, AnswerProposal(r) PROVE Remembered'
    BY <1>14, Facts DEF TypeOK, Remembered, sharedVars, roundVars, AnswerProposal,
        MoveOn, At
<1>15. ASSUME NEW r \in Rounds, AnswerPreview(r) PROVE Remembered'
    BY <1>15, Facts DEF TypeOK, Remembered, sharedVars, roundVars, AnswerPreview,
        Settle, Execute, At
<1>16. ASSUME NEW r \in Rounds, EndRound(r) PROVE Remembered'
    BY <1>16, Facts DEF TypeOK, Remembered, sharedVars, roundVars, EndRound, At
<1>17. ASSUME DayPasses PROVE Remembered'
    BY <1>17, Facts DEF TypeOK, Remembered, sharedVars, roundVars, DayPasses
<1>18. ASSUME UNCHANGED vars PROVE Remembered'
    BY <1>18 DEF TypeOK, Remembered, sharedVars, roundVars, vars, sharedVars, roundVars
<1> QED BY <1>1, <1>2, <1>3, <1>4, <1>5, <1>6, <1>7, <1>8, <1>9, <1>10, <1>11, <1>12,
    <1>13, <1>14, <1>15, <1>16, <1>17, <1>18 DEF Next, Broker, User

\* A nonempty set of natural numbers has a least element.
LEMMA LeastNatural ==
    ASSUME NEW S \in SUBSET Nat, S # {}
    PROVE  \E i \in S: \A j \in S: i <= j
<1>1. PICK i \in S: \A j \in S: ~(<<j, i>> \in OpToRel(<, Nat))
    BY WFMin, NatLessThanWellFounded
<1>2. \A j \in S: ~(j < i)
    BY <1>1 DEF OpToRel
<1> QED BY <1>2

\* The rule that decides a granted call is a session rule, and it allows.
LEMMA GrantedAreAllowed ==
    ASSUME TypeOK, Remembered, NEW v \in Conversations, NEW c \in Calls,
           <<v, c>> \in granted
    PROVE  preCheck(v, c) \in {"allow", "deny"}
<1> DEFINE rules == AllRules(v)
           hits == {i \in DOMAIN rules: Matches(rules[i], c)}
<1>1. session[v] \in Seq(Rule) /\ file \in Seq(Rule) /\ InlineRules \in Seq(Rule)
    BY Facts DEF TypeOK
<1>2. \A i \in DOMAIN session[v]: i \in DOMAIN rules /\ rules[i] = session[v][i]
    BY <1>1 DEF AllRules
<1>3. rules \in Seq(Rule)
    BY <1>1 DEF AllRules
<1>4. PICK k \in DOMAIN session[v]: Matches(session[v][k], c)
    BY DEF Remembered
<1>5. k \in hits
    BY <1>2, <1>4
<1>6. hits \subseteq Nat
    BY <1>3
<1>7. PICK i \in hits: \A j \in hits: i <= j
    BY <1>5, <1>6, LeastNatural
<1>8. i \in DOMAIN session[v]
    <2>1. i \in Nat /\ i <= k /\ i \in DOMAIN rules
        BY <1>5, <1>6, <1>7
    <2>2. i >= 1
        BY <1>3, <2>1
    <2> HIDE DEF rules, hits
    <2> QED BY <1>1, <1>4, <2>1, <2>2
<1>9. rules[i].action = "allow"
    BY <1>2, <1>8 DEF Remembered
<1>10. rules[i] \in FirstMatch(rules, c)
    BY <1>7 DEF FirstMatch
<1>11. "allow" \in {rule.action: rule \in FirstMatch(AllRules(v), c)}
    BY <1>9, <1>10
<1> QED BY <1>11 DEF preCheck

LEMMA Start == Init => IInv
<1> SUFFICES ASSUME Init PROVE IInv
    OBVIOUS
<1>1. TypeOK
    BY Facts DEF Init, TypeOK, PC, Answers, RiskClasses
<1>2. Sound
    BY Facts DEF Init, Sound, Vetted, Denied, Waiting, Tried, Permitted
<1>3. Remembered
    BY DEF Init, Remembered
<1> QED BY <1>1, <1>2, <1>3 DEF IInv

THEOREM Invariance == Spec => []IInv
<1>1. IInv /\ [Next]_vars => IInv'
    BY TypeStep, SoundStep, RememberedStep DEF IInv
<1> QED BY Start, <1>1, PTL DEF Spec

-----------------------------------------------------------------------------
(***************************************************************************)
(* What the broker, the loop and the registry promise.                     *)
(***************************************************************************)

\* The variables have their types, whatever is configured, learned or answered.
THEOREM TypeCorrect == Spec => []TypeOK
BY Invariance, PTL DEF IInv

\* No rule, pattern, policy or answer overrides the denylist or the profile.
THEOREM VetoesHold == Spec => []VetoHolds
<1>1. IInv => VetoHolds
    BY DEF IInv, Sound, Vetted, VetoHolds, Permitted
<1> QED BY <1>1, Invariance, PTL

\* A denied prompt never leads to its tool, whoever denied it.
THEOREM DenialsHold == Spec => []DeniedNeverRuns
<1>1. IInv => DeniedNeverRuns
    BY DEF IInv, Sound, Denied, DeniedNeverRuns
<1> QED BY <1>1, Invariance, PTL

\* A tool that keeps failing is run at most MaxRetries times more.
THEOREM RetriesAreBounded == Spec => []RetriesBounded
<1>1. IInv => RetriesBounded
    <2> SUFFICES ASSUME IInv, NEW r \in Rounds PROVE tries[r] <= MaxRetries + 1
        BY DEF RetriesBounded
    <2>1. Tried(r) /\ tries[r] \in Nat /\ MaxRetries \in Nat
        BY Facts DEF IInv, Sound, TypeOK
    <2> QED BY <2>1 DEF Tried
<1> QED BY <1>1, Invariance, PTL

\* A prompt is in the registry exactly as long as it waits.
THEOREM PromptsWait == Spec => []PromptsAreParked
<1>1. IInv => PromptsAreParked
    BY DEF IInv, Sound, Waiting, PromptsAreParked
<1> QED BY <1>1, Invariance, PTL

\* Only PreCheck takes a round from the check to a prompt.
LEMMA AskedByPreCheck ==
    ASSUME TypeOK, Next, NEW r \in Rounds, pc[r] = "check", pc'[r] = "asking"
    PROVE  PreCheck(r) /\ Park(r, "check")
<1>1. ASSUME NEW s \in Rounds, StartCall(s) PROVE FALSE
    BY <1>1 DEF TypeOK, StartCall, At, roundVars
<1>2. ASSUME NEW s \in Rounds, TogglePlanMode(s) PROVE FALSE
    BY <1>2 DEF TypeOK, TogglePlanMode, roundVars
<1>3. ASSUME NEW s \in Rounds, EndRound(s) PROVE FALSE
    BY <1>3 DEF TypeOK, EndRound, At
<1>4. ASSUME DayPasses PROVE FALSE
    BY <1>4 DEF DayPasses, roundVars
<1>5. ASSUME NEW s \in Rounds, User(s) PROVE FALSE
    BY <1>5 DEF TypeOK, User, Answer, AnswerProposal, AnswerPreview, MoveOn,
        Settle, Execute, At
<1>6. ASSUME NEW s \in Rounds, Broker(s), ~PreCheck(s) PROVE FALSE
    BY <1>6 DEF TypeOK, Broker, ApplyDecision, RecordDecision, Learn, ReadRules,
        WriteRules,
        Preview, ToolReturns, AskAfterFailure, ApplyFailureDecision, Answered, MoveOn, Settle,
        Execute, Park, At
<1>7. ASSUME NEW s \in Rounds, PreCheck(s) PROVE PreCheck(r) /\ Park(r, "check")
    BY <1>7 DEF TypeOK, PreCheck, MoveOn, Settle, Execute, Park, At
<1> QED BY <1>1, <1>2, <1>3, <1>4, <1>5, <1>6, <1>7 DEF Next

\* The user is not asked about what was granted for the session.
THEOREM GrantsHold == Spec => GrantsAreRemembered
<1>1. ASSUME IInv, Next, NEW r \in Rounds, pc[r] = "check", pc'[r] = "asking"
      PROVE  <<Conv[r], call[r]>> \notin granted
    <2>1. PreCheck(r) /\ Park(r, "check")
        BY <1>1, AskedByPreCheck DEF IInv
    <2>2. preCheck(Conv[r], call[r]) = "ask"
        BY <1>1, <2>1 DEF IInv, TypeOK, PreCheck, Park, MoveOn, Settle, Execute, At
    <2>3. Conv[r] \in Conversations /\ call[r] \in Calls
        BY <1>1, Facts DEF IInv, TypeOK
    <2> QED BY <1>1, <2>2, <2>3, GrantedAreAllowed DEF IInv
<1>2. IInv /\ [Next]_vars =>
        [\A r \in Rounds: pc[r] = "check" /\ pc'[r] = "asking"
            => <<Conv[r], call[r]>> \notin granted]_vars
    BY <1>1
<1> QED BY <1>2, Invariance, PTL DEF Spec, GrantsAreRemembered

-----------------------------------------------------------------------------
(***************************************************************************)
(* The preview of a write.  Whether a rule asks for one is looked up when  *)
(* the decision is there; rules are added until the tool runs.  But a      *)
(* session rule comes before all others and asks for no preview, and a     *)
(* learned rule has a prefix, which no path matches: for a write the rules *)
(* of the file are always those it had at the start, also when an old copy *)
(* is written back.                                                        *)
(***************************************************************************)
AsksPreview(rule) == rule.action = "allow" /\ rule.preview

Learned(rules) ==
    /\ Len(FileRules) <= Len(rules)
    /\ \A i \in 1..Len(FileRules): rules[i] = FileRules[i]
    /\ \A i \in 1..Len(rules): i > Len(FileRules) => rules[i].by = "prefix"

NoPreview(rules) == \A i \in DOMAIN rules: ~rules[i].preview

RulesSound ==
    /\ \A v \in Conversations: NoPreview(session[v])
    /\ Learned(file)
    /\ \A r \in Rounds: pc[r] = "ruleWrite" => Learned(held[r])

SessionsGrow ==
    \A v \in Conversations: \A i \in DOMAIN session[v]:
        i \in DOMAIN session'[v] /\ session'[v][i] = session[v][i]

IsJoin(A, S, F, I) ==
    /\ A \in Seq(Rule)
    /\ Len(A) = Len(S) + Len(F) + Len(I)
    /\ \A i \in 1..Len(S): A[i] = S[i]
    /\ \A i \in 1..Len(F): A[Len(S) + i] = F[i]
    /\ \A i \in 1..Len(I): A[Len(S) + Len(F) + i] = I[i]

\* Where the rules of joined lists are.
LEMMA JoinedTwo ==
    ASSUME NEW S \in Seq(Rule), NEW F \in Seq(Rule)
    PROVE  /\ S \o F \in Seq(Rule) /\ Len(S \o F) = Len(S) + Len(F)
           /\ \A i \in 1..Len(S): (S \o F)[i] = S[i]
           /\ \A i \in 1..Len(F): (S \o F)[Len(S) + i] = F[i]
OBVIOUS

LEMMA Joined ==
    ASSUME NEW S \in Seq(Rule), NEW F \in Seq(Rule), NEW I \in Seq(Rule)
    PROVE  IsJoin(S \o F \o I, S, F, I)
<1>1. /\ S \o F \in Seq(Rule) /\ Len(S \o F) = Len(S) + Len(F)
      /\ \A i \in 1..Len(S): (S \o F)[i] = S[i]
      /\ \A i \in 1..Len(F): (S \o F)[Len(S) + i] = F[i]
    BY JoinedTwo
<1> DEFINE A == S \o F
<1>2. A \in Seq(Rule) /\ Len(A) = Len(S) + Len(F)
    BY <1>1
<1> HIDE DEF A
<1>3. /\ A \o I \in Seq(Rule) /\ Len(A \o I) = Len(A) + Len(I)
      /\ \A i \in 1..Len(A): (A \o I)[i] = A[i]
      /\ \A i \in 1..Len(I): (A \o I)[Len(A) + i] = I[i]
    BY <1>2, JoinedTwo, Zenon
<1>4. /\ \A i \in 1..Len(S): i \in 1..Len(A)
      /\ \A i \in 1..Len(F): Len(S) + i \in 1..Len(A)
    BY <1>2
<1> QED BY <1>1, <1>2, <1>3, <1>4 DEF A, IsJoin

\* The rule that decides a call comes first among those that match it.
LEMMA FirstIsFirst ==
    ASSUME NEW rules \in Seq(Rule), NEW c
    PROVE  (\E rule \in FirstMatch(rules, c): AsksPreview(rule))
             <=> \E i \in 1..Len(rules):
                    /\ Matches(rules[i], c) /\ AsksPreview(rules[i])
                    /\ \A j \in 1..Len(rules): Matches(rules[j], c) => i <= j
<1>1. DOMAIN rules = 1..Len(rules)
    OBVIOUS
<1> QED BY <1>1, Zenon DEF FirstMatch

\* A write that asks for a preview now did so before the last rules came.
LEMMA NoNewPreview ==
    ASSUME NEW S \in Seq(Rule), NEW T \in Seq(Rule), NEW F \in Seq(Rule), NEW G \in Seq(Rule),
           NEW I \in Seq(Rule), NEW c, Subject[c.tool] = "path",
           \A i \in 1..Len(S): i \in 1..Len(T) /\ T[i] = S[i],
           NoPreview(T), Learned(F), Learned(G),
           \E rule \in FirstMatch(T \o G \o I, c): AsksPreview(rule)
    PROVE  \E rule \in FirstMatch(S \o F \o I, c): AsksPreview(rule)
<1> DEFINE A == S \o F \o I
           B == T \o G \o I
           s == Len(S)
           t == Len(T)
           f == Len(F)
           g == Len(G)
           n == Len(FileRules)
<1>a. /\ A \in Seq(Rule) /\ Len(A) = s + f + Len(I)
      /\ \A i \in 1..s: A[i] = S[i]
      /\ \A i \in 1..f: A[s + i] = F[i]
      /\ \A i \in 1..Len(I): A[s + f + i] = I[i]
    BY SMTT(30), Joined DEF IsJoin
<1>b. /\ B \in Seq(Rule) /\ Len(B) = t + g + Len(I)
      /\ \A i \in 1..t: B[i] = T[i]
      /\ \A i \in 1..g: B[t + i] = G[i]
      /\ \A i \in 1..Len(I): B[t + g + i] = I[i]
    <2>1. IsJoin(T \o G \o I, T, G, I)
        BY Joined
    <2> QED BY <2>1 DEF IsJoin
<1>c. /\ s \in Nat /\ t \in Nat /\ f \in Nat /\ g \in Nat /\ n \in Nat /\ Len(I) \in Nat
      /\ n <= f /\ n <= g
    BY Facts DEF Learned
<1>d. \A i \in 1..f: Matches(F[i], c) => i <= n /\ G[i] = F[i] /\ i \in 1..g
    <2> SUFFICES ASSUME NEW i \in 1..f, Matches(F[i], c) PROVE i <= n /\ G[i] = F[i] /\ i \in 1..g
        OBVIOUS
    <2>1. F[i].by # "prefix"
        BY DEF Matches
    <2>2. i <= n
        BY <1>c, <2>1 DEF Learned
    <2> QED BY <1>c, <2>2 DEF Learned
<1>e. \A i \in 1..g: Matches(G[i], c) => i <= n /\ G[i] = F[i] /\ i \in 1..f
    <2> SUFFICES ASSUME NEW i \in 1..g, Matches(G[i], c) PROVE i <= n /\ G[i] = F[i] /\ i \in 1..f
        OBVIOUS
    <2>1. G[i].by # "prefix"
        BY DEF Matches
    <2>2. i <= n
        BY <1>c, <2>1 DEF Learned
    <2> QED BY <1>c, <2>2 DEF Learned
<1>1. PICK i \in 1..Len(B): /\ Matches(B[i], c) /\ AsksPreview(B[i])
                            /\ \A j \in 1..Len(B): Matches(B[j], c) => i <= j
    <2> HIDE DEF B
    <2> QED BY <1>b, FirstIsFirst DEF B
<1>2. i \notin 1..t
    <2>1. ASSUME i \in 1..t PROVE B[i] = T[i] /\ i \in DOMAIN T
        BY <1>b, <2>1
    <2> QED BY <1>1, <2>1 DEF NoPreview, AsksPreview
<1>f. \A j \in 1..s: ~Matches(S[j], c)
    <2> SUFFICES ASSUME NEW j \in 1..s, Matches(S[j], c) PROVE FALSE
        OBVIOUS
    <2>1. j \in 1..t /\ T[j] = S[j]
        OBVIOUS
    <2>2. j \in 1..Len(B) /\ B[j] = S[j]
        BY <1>b, <1>c, <2>1
    <2>3. i <= j
        BY <1>1, <2>2
    <2> HIDE DEF A, B
    <2> QED BY <1>2, <1>c, <2>1, <2>3
<1> SUFFICES \E k \in 1..Len(A): /\ Matches(A[k], c) /\ AsksPreview(A[k])
                                 /\ \A j \in 1..Len(A): Matches(A[j], c) => k <= j
    <2> HIDE DEF A
    <2> QED BY <1>a, FirstIsFirst DEF A
<1> HIDE DEF A, B, s, t, f, g, n
<1>3. CASE i <= t + g
    <2> DEFINE m == i - t
    <2>1. m \in 1..g /\ i = t + m
        BY <1>b, <1>c, <1>2, <1>3
    <2> HIDE DEF m
    <2>2. B[i] = G[m]
        BY <1>b, <2>1
    <2>3. m \in 1..f /\ F[m] = B[i] /\ m <= n
        BY <1>1, <1>e, <2>1, <2>2
    <2>4. s + m \in 1..Len(A) /\ A[s + m] = B[i]
        BY <1>a, <1>c, <2>3
    <2>5. ASSUME NEW j \in 1..Len(A), Matches(A[j], c), j < s + m PROVE FALSE
        <3>1. j \notin 1..s
            BY <1>a, <1>f, <2>5
        <3> DEFINE l == j - s
        <3>2. l \in 1..f /\ j = s + l /\ l < m
            <4>1. j \in Nat /\ m \in Nat /\ m <= f /\ j < s + m /\ s < j
                BY <1>a, <1>c, <2>3, <2>5, <3>1
            <4> QED BY <1>c, <4>1
        <3> HIDE DEF l
        <3>3. A[j] = F[l]
            BY <1>a, <3>2
        <3>4. l \in 1..g /\ G[l] = A[j]
            BY <1>d, <2>5, <3>2, <3>3
        <3>5. t + l \in 1..Len(B) /\ B[t + l] = A[j]
            BY <1>b, <1>c, <3>4
        <3>6. i <= t + l
            BY <1>1, <2>5, <3>5
        <3> QED BY <1>c, <2>1, <3>2, <3>6
    <2>6. \A j \in 1..Len(A): Matches(A[j], c) => s + m <= j
        BY <1>a, <1>c, <2>3, <2>5
    <2> QED BY <1>1, <2>4, <2>6
<1>4. CASE ~(i <= t + g)
    <2> DEFINE m == i - t - g
    <2>1. m \in 1..Len(I) /\ i = t + g + m
        BY <1>b, <1>c, <1>4
    <2> HIDE DEF m
    <2>2. B[i] = I[m]
        BY <1>b, <2>1
    <2>3. s + f + m \in 1..Len(A) /\ A[s + f + m] = B[i]
        BY <1>a, <1>c, <2>1, <2>2
    <2>4. ASSUME NEW j \in 1..Len(A), Matches(A[j], c), j < s + f + m PROVE FALSE
        <3>1. j \notin 1..s
            BY <1>a, <1>f, <2>4
        <3>2. CASE j <= s + f
            <4> DEFINE l == j - s
            <4>1. l \in 1..f /\ j = s + l
                BY <1>a, <1>c, <3>1, <3>2
            <4> HIDE DEF l
            <4>2. l \in 1..g /\ G[l] = A[j]
                BY <1>a, <1>d, <2>4, <4>1
            <4>3. t + l \in 1..Len(B) /\ B[t + l] = A[j]
                BY <1>b, <1>c, <4>2
            <4>4. i <= t + l
                BY <1>1, <2>4, <4>3
            <4> QED BY <1>c, <2>1, <4>2, <4>4
        <3>3. CASE ~(j <= s + f)
            <4> DEFINE l == j - s - f
            <4>1. l \in 1..Len(I) /\ j = s + f + l /\ l < m
                BY <1>a, <1>c, <2>1, <2>4, <3>3
            <4> HIDE DEF l
            <4>2. t + g + l \in 1..Len(B) /\ B[t + g + l] = A[j]
                BY <1>a, <1>b, <1>c, <4>1
            <4>3. i <= t + g + l
                BY <1>1, <2>4, <4>2
            <4> QED BY <1>c, <2>1, <4>1, <4>3
        <3> QED BY <3>2, <3>3
    <2>5. \A j \in 1..Len(A): Matches(A[j], c) => s + f + m <= j
        BY <1>a, <1>c, <2>1, <2>4
    <2> QED BY <1>1, <2>3, <2>5
<1> QED BY <1>3, <1>4

\* A copy of the file, with a rule more, still has what it had at the start.
LEMMA LearnedGrows ==
    ASSUME NEW rules \in Seq(Rule), NEW rule \in Rule, Learned(rules), rule.by = "prefix"
    PROVE  Learned(AddRule(rules, rule))
<1>1. CASE AddRule(rules, rule) = rules
    BY <1>1
<1>2. CASE AddRule(rules, rule) = Append(rules, rule)
    <2>1. /\ Len(Append(rules, rule)) = Len(rules) + 1
          /\ Len(rules) \in Nat /\ Len(FileRules) \in Nat
          /\ \A i \in 1..Len(rules): Append(rules, rule)[i] = rules[i]
          /\ Append(rules, rule)[Len(rules) + 1] = rule
        BY Facts
    <2>2. \A i \in 1..Len(FileRules): i \in 1..Len(rules)
        BY <2>1 DEF Learned
    <2>3. \A i \in 1..(Len(rules) + 1): i \in 1..Len(rules) \/ i = Len(rules) + 1
        BY <2>1
    <2> QED BY <1>2, <2>1, <2>2, <2>3 DEF Learned
<1> QED BY <1>1, <1>2 DEF AddRule

\* The rules of a session only grow, by rules without a preview, and those of
\* the file only by learned ones.
LEMMA RulesStep ==
    ASSUME TypeOK, RulesSound, [Next]_vars
    PROVE  RulesSound' /\ SessionsGrow
<1>a. /\ session \in [Conversations -> Seq(Rule)] /\ pc \in [Rounds -> PC]
      /\ held \in [Rounds -> Seq(Rule)] /\ file \in Seq(Rule) /\ call \in [Rounds -> Calls]
    BY DEF TypeOK
<1>b. ASSUME UNCHANGED <<session, file>>,
             \A s \in Rounds: pc'[s] = "ruleWrite" => pc[s] = "ruleWrite" /\ held'[s] = held[s]
      PROVE  RulesSound' /\ SessionsGrow
    BY <1>b DEF RulesSound, SessionsGrow
<1>1. ASSUME NEW r \in Rounds, ApplyDecision(r) PROVE RulesSound' /\ SessionsGrow
    <2> DEFINE v == Conv[r]
               rule == GrantedRule(call[r], answer[r])
    <2>0. v \in Conversations /\ call[r] \in Calls /\ session[v] \in Seq(Rule)
        BY <1>a, Facts
    <2>1. rule \in Rule /\ ~rule.preview
        BY <2>0, GrantedRuleType DEF GrantedRule
    <2>2. /\ file' = file /\ held' = held
          /\ \A s \in Rounds: pc'[s] = "ruleWrite" => pc[s] = "ruleWrite"
        BY <1>1, <1>a DEF ApplyDecision, MoveOn, At
    <2>3. CASE session' = session
        BY <2>2, <2>3, <1>b
    <2>4. CASE session' = [session EXCEPT ![v] = AddRule(session[v], rule)]
        <3>1. session'[v] = AddRule(session[v], rule)
            BY <1>a, <2>0, <2>4
        <3>2. \A w \in Conversations: w # v => session'[w] = session[w]
            BY <1>a, <2>0, <2>4
        <3> HIDE DEF v, rule
        <3>3. /\ \A i \in DOMAIN session[v]: /\ i \in DOMAIN AddRule(session[v], rule)
                                             /\ AddRule(session[v], rule)[i] = session[v][i]
              /\ \A i \in DOMAIN AddRule(session[v], rule):
                    i \in DOMAIN session[v] \/ AddRule(session[v], rule)[i] = rule
            BY <2>0, <2>1, AddRuleAdds, Zenon
        <3>4. SessionsGrow
            BY <3>1, <3>2, <3>3 DEF SessionsGrow
        <3>5. NoPreview(session[v])
            BY <2>0 DEF RulesSound
        <3>6. NoPreview(session'[v])
            BY <2>1, <3>1, <3>3, <3>5 DEF NoPreview
        <3>7. \A w \in Conversations: NoPreview(session'[w])
            BY <3>2, <3>6 DEF RulesSound
        <3> QED BY <2>2, <3>4, <3>7 DEF RulesSound
    <2> QED BY <1>1, <2>3, <2>4 DEF ApplyDecision
<1>2. ASSUME NEW r \in Rounds, ReadRules(r) PROVE RulesSound' /\ SessionsGrow
    <2>1. session' = session /\ file' = file
        BY <1>2 DEF ReadRules, sharedVars
    <2>2. held'[r] = file /\ \A s \in Rounds: s # r => held'[s] = held[s] /\ pc'[s] = pc[s]
        BY <1>2, <1>a DEF ReadRules, At
    <2> QED BY <2>1, <2>2 DEF RulesSound, SessionsGrow
<1>3. ASSUME NEW r \in Rounds, WriteRules(r) PROVE RulesSound' /\ SessionsGrow
    <2> DEFINE rule == [tool |-> call[r].tool, by |-> "prefix", key |-> call[r].key,
                        action |-> "allow", preview |-> FALSE]
    <2>1. session' = session /\ file' = AddRule(held[r], rule) /\ pc[r] = "ruleWrite"
        BY <1>3 DEF WriteRules, At
    <2>2. \A s \in Rounds: pc'[s] = "ruleWrite" => pc[s] = "ruleWrite" /\ held'[s] = held[s]
        BY <1>3, <1>a DEF WriteRules, At
    <2>3. rule \in Rule /\ rule.by = "prefix"
        BY <1>a, Facts DEF Rule
    <2>4. held[r] \in Seq(Rule) /\ Learned(held[r])
        BY <1>a, <2>1 DEF RulesSound
    <2> HIDE DEF rule
    <2>5. Learned(file')
        BY <2>1, <2>3, <2>4, LearnedGrows
    <2> QED BY <2>1, <2>2, <2>5 DEF RulesSound, SessionsGrow
<1>4. ASSUME NEW r \in Rounds, StartCall(r) \/ TogglePlanMode(r) \/ PreCheck(r)
                 \/ RecordDecision(r) \/ Learn(r) \/ Preview(r) \/ ToolReturns(r)
      PROVE  RulesSound' /\ SessionsGrow
    <2>1. UNCHANGED <<session, file>>
        BY <1>4 DEF StartCall, TogglePlanMode, PreCheck, RecordDecision, Learn, Preview,
            ToolReturns, sharedVars
    <2>2. \A s \in Rounds: pc'[s] = "ruleWrite" => pc[s] = "ruleWrite" /\ held'[s] = held[s]
        BY <1>4, <1>a DEF StartCall, TogglePlanMode, PreCheck, RecordDecision, Learn, Preview,
            ToolReturns, roundVars, Settle, MoveOn, Execute, Park, At
    <2> QED BY <2>1, <2>2, <1>b
<1>5. ASSUME NEW r \in Rounds, AskAfterFailure(r) \/ ApplyFailureDecision(r) \/ Answer(r)
                 \/ AnswerProposal(r) \/ AnswerPreview(r) \/ EndRound(r)
      PROVE  RulesSound' /\ SessionsGrow
    <2>1. UNCHANGED <<session, file>>
        BY <1>5 DEF AskAfterFailure, ApplyFailureDecision, Answer, AnswerProposal, AnswerPreview,
            EndRound, sharedVars
    <2>2. \A s \in Rounds: pc'[s] = "ruleWrite" => pc[s] = "ruleWrite" /\ held'[s] = held[s]
        BY <1>5, <1>a DEF AskAfterFailure, ApplyFailureDecision, Answer, AnswerProposal,
            AnswerPreview, EndRound, roundVars, Settle, MoveOn, Execute, Park, At
    <2> QED BY <2>1, <2>2, <1>b
<1>6. ASSUME DayPasses \/ UNCHANGED vars PROVE RulesSound' /\ SessionsGrow
    BY <1>6, <1>b DEF DayPasses, vars, sharedVars, roundVars
<1> QED BY <1>1, <1>2, <1>3, <1>4, <1>5, <1>6 DEF Next, Broker, User

NeedsPreview(v, c) == \E rule \in FirstMatch(AllRules(v), c): AsksPreview(rule)

\* A round that runs a write of which the user has accepted no diff, though one
\* could be shown.
Blind(r) ==
    ~(answer[r] = "accept" \/ (answer[r] = "undiffable" /\ call[r] \in Outside \cup NoDiff))
Writing(r) == pc[r] = "running" /\ ~deferred[r] /\ Showable(Conv[r], call[r]) /\ Blind(r)

LEMMA PreviewMeans ==
    PreviewedBeforeWrite <=> \A r \in Rounds: Writing(r) => ~NeedsPreview(Conv[r], call[r])
BY DEF PreviewedBeforeWrite, Writing, Blind, NeedsPreview, AsksPreview

\* Nothing that happens meanwhile makes a rule ask for a preview.
LEMMA StillUnneeded ==
    ASSUME TypeOK, TypeOK', RulesSound, RulesSound', SessionsGrow,
           NEW v \in Conversations, NEW c \in Calls, Subject[c.tool] = "path",
           NeedsPreview(v, c)'
    PROVE  NeedsPreview(v, c)
<1>1. /\ session[v] \in Seq(Rule) /\ session'[v] \in Seq(Rule)
      /\ file \in Seq(Rule) /\ file' \in Seq(Rule) /\ InlineRules \in Seq(Rule)
    BY Facts DEF TypeOK
<1>2. NoPreview(session'[v]) /\ Learned(file) /\ Learned(file')
    BY DEF RulesSound
<1>3. \A i \in 1..Len(session[v]): i \in 1..Len(session'[v]) /\ session'[v][i] = session[v][i]
    BY <1>1 DEF SessionsGrow
<1>4. \E rule \in FirstMatch(session'[v] \o file' \o InlineRules, c): AsksPreview(rule)
    BY DEF NeedsPreview, AllRules
<1>5. \E rule \in FirstMatch(session[v] \o file \o InlineRules, c): AsksPreview(rule)
    BY <1>1, <1>2, <1>3, <1>4, NoNewPreview
<1> QED BY <1>5 DEF NeedsPreview, AllRules

\* A write begins with its preview accepted, or with no rule that asks for one.
LEMMA WritingBegins ==
    ASSUME TypeOK, Sound, [Next]_vars, NEW r \in Rounds, Writing(r)'
    PROVE  /\ call'[r] = call[r]
           /\ \/ Writing(r)
              \/ ~NeedsPreview(Conv[r], call[r]) /\ UNCHANGED <<session, file>>
<1>a. /\ pc \in [Rounds -> PC] /\ call \in [Rounds -> Calls]
      /\ deferred \in [Rounds -> BOOLEAN] /\ answer \in [Rounds -> Answers]
    BY DEF TypeOK
<1>b. Waiting(r) /\ Vetted(r)
    BY DEF Sound
<1>c. /\ pc'[r] = "running" /\ ~deferred'[r] /\ answer'[r] # "accept"
      /\ answer'[r] = "undiffable" => call'[r] \notin Outside \cup NoDiff
      /\ Host[Conv[r]] = "serve" /\ Risk[call'[r].tool] = "write"
      /\ Subject[call'[r].tool] = "path"
    BY DEF Writing, Blind, Showable
<1> DEFINE Goal == /\ call'[r] = call[r]
                   /\ \/ Writing(r)
                      \/ ~NeedsPreview(Conv[r], call[r]) /\ UNCHANGED <<session, file>>
<1>d. ASSUME pc[r] = "running", UNCHANGED <<call, deferred>>, answer'[r] = answer[r]
      PROVE  Goal
    BY <1>c, <1>d DEF Writing, Blind, Showable
<1>1. ASSUME NEW s \in Rounds, Preview(s) PROVE Goal
    <2>1. CASE s = r
        <3>1. ~requiresDiffPreview(Conv[r], call[r])
              /\ pc[r] = "preview" /\ UNCHANGED <<call, session, file>>
            BY <1>1, <1>a, <1>c, <2>1 DEF Preview, Showable, MoveOn, Execute, At, sharedVars
        <3>2. call[r] \notin Denylist
            BY <1>b, <3>1 DEF Vetted, Permitted
        <3> QED BY <1>c, <3>1, <3>2 DEF requiresDiffPreview, NeedsPreview, AsksPreview
    <2>2. CASE s # r
        BY <1>1, <1>a, <1>c, <1>d, <2>2 DEF Preview, MoveOn, Execute, At
    <2> QED BY <2>1, <2>2
<1>2. ASSUME NEW s \in Rounds, AnswerPreview(s) PROVE Goal
    <2>1. s # r
        BY <1>2, <1>a, <1>c DEF AnswerPreview, Settle, Execute, At
    <2>2. pc[r] = "running" /\ call'[r] = call[r] /\ deferred'[r] = deferred[r]
          /\ answer'[r] = answer[r]
        BY <1>2, <1>a, <1>c, <2>1 DEF AnswerPreview, Settle, Execute, At
    <2> QED BY <1>c, <2>2 DEF Writing, Blind, Showable
<1>3. ASSUME NEW s \in Rounds, ApplyFailureDecision(s) PROVE Goal
    <2>1. s # r
        BY <1>3, <1>a, <1>c DEF ApplyFailureDecision, Settle, Execute, At
    <2>2. pc[r] = "running" /\ call'[r] = call[r] /\ deferred'[r] = deferred[r]
          /\ answer'[r] = answer[r]
        BY <1>3, <1>a, <1>c, <2>1 DEF ApplyFailureDecision, Settle, Execute, At
    <2> QED BY <1>c, <2>2 DEF Writing, Blind, Showable
<1>4. ASSUME NEW s \in Rounds, PreCheck(s) PROVE Goal
    <2>1. s # r
        BY <1>4, <1>a, <1>c DEF PreCheck, Settle, MoveOn, Park, Execute, At
    <2>2. pc[r] = "running" /\ call'[r] = call[r] /\ deferred'[r] = deferred[r]
          /\ answer'[r] = answer[r]
        BY <1>4, <1>a, <1>c, <2>1 DEF PreCheck, Settle, MoveOn, Park, Execute, At
    <2> QED BY <1>c, <2>2 DEF Writing, Blind, Showable
<1>5. ASSUME NEW s \in Rounds, StartCall(s) \/ TogglePlanMode(s) \/ ApplyDecision(s)
                 \/ RecordDecision(s) \/ Learn(s) \/ AnswerProposal(s)
      PROVE  Goal
    <2>1. pc[r] = "running" /\ call'[r] = call[r] /\ deferred'[r] = deferred[r]
          /\ answer'[r] = answer[r]
        BY <1>5, <1>a, <1>c DEF StartCall, TogglePlanMode, ApplyDecision, RecordDecision, Learn,
            AnswerProposal, roundVars, Settle, MoveOn, At
    <2> QED BY <1>c, <2>1 DEF Writing, Blind, Showable
<1>6. ASSUME NEW s \in Rounds, ReadRules(s) \/ WriteRules(s) \/ ToolReturns(s)
                 \/ AskAfterFailure(s)
      PROVE  Goal
    <2>1. pc[r] = "running" /\ call'[r] = call[r] /\ deferred'[r] = deferred[r]
          /\ answer'[r] = answer[r]
        BY <1>6, <1>a, <1>c DEF ReadRules, WriteRules, ToolReturns, AskAfterFailure,
            Settle, MoveOn, Park, At
    <2> QED BY <1>c, <2>1 DEF Writing, Blind, Showable
<1>7. ASSUME NEW s \in Rounds, Answer(s) PROVE Goal
    <2>1. pc[r] = "running" /\ r \notin parked /\ UNCHANGED <<call, deferred>>
        BY <1>7, <1>b, <1>c DEF Answer, Waiting
    <2>2. answer'[r] = answer[r]
        BY <1>7, <1>a, <2>1 DEF Answer
    <2> QED BY <1>d, <2>1, <2>2
<1>8. ASSUME NEW s \in Rounds, EndRound(s) PROVE Goal
    <2>1. pc[r] = "running" /\ UNCHANGED <<call, deferred>>
        BY <1>8, <1>a, <1>c DEF EndRound, At
    <2>2. answer'[r] = answer[r]
        BY <1>8, <1>b, <2>1 DEF EndRound, Waiting
    <2> QED BY <1>d, <2>1, <2>2
<1>9. ASSUME DayPasses \/ UNCHANGED vars PROVE Goal
    BY <1>9, <1>c, <1>d DEF DayPasses, vars, roundVars
<1> HIDE DEF Goal
<1>10. Goal
    BY <1>1, <1>2, <1>3, <1>4, <1>5, <1>6, <1>7, <1>8, <1>9 DEF Next, Broker, User
<1> QED BY <1>10 DEF Goal

\* In the server a write that a rule wants to be previewed runs only after its
\* diff was accepted, whatever rules are granted, learned and lost meanwhile.
THEOREM WritesArePreviewed == Spec => []PreviewedBeforeWrite
<1>1. Init => RulesSound /\ PreviewedBeforeWrite
    <2> SUFFICES ASSUME Init PROVE RulesSound /\ PreviewedBeforeWrite
        OBVIOUS
    <2>1. RulesSound
        BY Facts DEF Init, RulesSound, NoPreview, Learned
    <2> QED BY <2>1 DEF Init, PreviewedBeforeWrite
<1>2. ASSUME IInv, IInv', RulesSound, PreviewedBeforeWrite, [Next]_vars
      PROVE  RulesSound' /\ PreviewedBeforeWrite'
    <2>1. RulesSound' /\ SessionsGrow
        BY <1>2, RulesStep DEF IInv
    <2>2. ASSUME NEW r \in Rounds, Writing(r)' PROVE ~NeedsPreview(Conv[r], call[r])'
        <3>1. /\ call'[r] = call[r]
              /\ \/ Writing(r)
                 \/ ~NeedsPreview(Conv[r], call[r]) /\ UNCHANGED <<session, file>>
            BY <1>2, <2>2, WritingBegins DEF IInv
        <3>2. Conv[r] \in Conversations /\ call[r] \in Calls /\ Subject[call[r].tool] = "path"
            BY <1>2, <2>2, <3>1, Facts DEF IInv, TypeOK, Writing, Showable
        <3>3. ~NeedsPreview(Conv[r], call[r])
            BY <1>2, <3>1, PreviewMeans
        <3>4. PICK v \in Conversations, c \in Calls: v = Conv[r] /\ c = call[r]
            BY <3>2
        <3>5. ~NeedsPreview(v, c)'
            BY <1>2, <2>1, <3>2, <3>3, <3>4, StillUnneeded DEF IInv
        <3> QED BY <3>1, <3>4, <3>5 DEF NeedsPreview, AllRules
    <2>3. PreviewedBeforeWrite'
        BY <2>2 DEF PreviewedBeforeWrite, Writing, Blind, NeedsPreview, AsksPreview
    <2> QED BY <2>1, <2>3
<1> QED BY <1>1, <1>2, Invariance, PTL DEF Spec
=============================================================================
