----------------------------- MODULE GoalRecord -----------------------------
(***************************************************************************)
(* The goal record of src/src/core/goal/store.ts as far as its status, its *)
(* abort flag, its budget and its completion gates go, and what each       *)
(* operation makes of the record it has read.                              *)
(*                                                                         *)
(* The audit log (steps) is abstracted to the `to` of its last status      *)
(* step, and endedAt with endReason to one bit.                            *)
(***************************************************************************)
EXTENDS Integers

CONSTANTS
    TokensMax,      \* budget.tokensMax, or Unlimited
    RoundsMax,      \* budget.roundsMax, or Unlimited
    Unlimited,      \* null
    IsSubGoal,      \* parentGoalId is set
    RejectCap,      \* MARK_DONE_REJECT_CAP
    HardCap,        \* BUDGET_CONTINUATION_HARD_CAP
    Diminishing,    \* DIMINISHING_THRESHOLD
    DiminishingFrom \* continuations before diminishing returns count

ASSUME GoalRecordAssumption ==
    /\ Unlimited \notin Nat
    /\ TokensMax \in Nat \cup {Unlimited}
    /\ RoundsMax \in Nat \cup {Unlimited}
    /\ IsSubGoal \in BOOLEAN
    /\ RejectCap \in Nat /\ HardCap \in Nat
    /\ Diminishing \in Nat /\ DiminishingFrom \in Nat

Terminal == {"complete", "failed", "cancelled", "exhausted"}
Status == {"active", "paused"} \cup Terminal

Goal == [status: Status, logged: Status, ended: BOOLEAN, abort: BOOLEAN,
         attached: BOOLEAN, rounds: Nat, tokens: Nat,
         continuations: Nat, lastDelta: Nat, lastCheck: Nat, rejections: Nat]

NewGoal == [status |-> "active", logged |-> "active", ended |-> FALSE,
            abort |-> FALSE, attached |-> FALSE, rounds |-> 0, tokens |-> 0,
            continuations |-> 0, lastDelta |-> 0, lastCheck |-> 0, rejections |-> 0]

WithinBudget(g) ==
    /\ TokensMax # Unlimited => g.tokens < TokensMax
    /\ RoundsMax # Unlimited => g.rounds < RoundsMax

\* bug: endedAt is written, but the status step is forgotten
Bug_EndUnlogged(g, status) == [g EXCEPT !.status = status, !.ended = TRUE]

EndGoal(g, status) ==
    [g EXCEPT !.status = status, !.logged = status, !.ended = TRUE]

Pause(g) == [g EXCEPT !.status = "paused", !.logged = "paused"]

Resume(g) == [g EXCEPT !.status = "active", !.logged = "active"]

Resurrect(g) ==
    [g EXCEPT !.status = "active", !.logged = "active", !.ended = FALSE]

\* goal_send_message writes the revived goal first and its status step later
Revive(g) == [g EXCEPT !.status = "active", !.ended = FALSE]

LogActive(g) == [g EXCEPT !.logged = "active"]

RequestAbort(g) == [g EXCEPT !.abort = TRUE]

ClearAbort(g) == [g EXCEPT !.abort = FALSE]

AttachConversation(g) == [g EXCEPT !.attached = TRUE]

AddStats(g, tokens) == [g EXCEPT !.rounds = @ + 1, !.tokens = @ + tokens]

-----------------------------------------------------------------------------
(* The gates of mark_done.                                                 *)

Rejected(g) == [g EXCEPT !.rejections = @ + 1]

IsDiminishing(g) ==
    /\ g.continuations >= DiminishingFrom
    /\ g.tokens < g.lastCheck + Diminishing
    /\ g.lastDelta < Diminishing

\* checkGoalBudget: less than nine tenths of the budget is spent
KeepWorking(g) ==
    /\ ~IsSubGoal /\ TokensMax # Unlimited /\ TokensMax # 0
    /\ ~IsDiminishing(g)
    /\ 10 * g.tokens < 9 * TokensMax

\* maybeContinueByBudget
MustContinue(g) == g.continuations < HardCap /\ KeepWorking(g)

Continued(g) ==
    [g EXCEPT !.continuations = @ + 1,
              !.lastDelta = g.tokens - g.lastCheck,
              !.lastCheck = g.tokens]
=============================================================================
