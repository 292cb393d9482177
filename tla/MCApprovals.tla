---------------------------- MODULE MCApprovals ----------------------------
(***************************************************************************)
(* Approvals with two rounds of a browser conversation, which may overlap, *)
(* and one in a terminal.                                                  *)
(***************************************************************************)
EXTENDS Approvals

CONSTANTS r1, r2, r3, browser, terminal

MCRounds == {r1, r2, r3}
MCConversations == {browser, terminal}
MCConv == [r \in MCRounds |-> IF r = r3 THEN terminal ELSE browser]
MCHost == [v \in MCConversations |-> IF v = terminal THEN "cli" ELSE "serve"]

MCTools == {"bash", "write_file", "edit_file", "lean_check", "search"}
MCRisk == [t \in MCTools |-> CASE t \in {"write_file", "edit_file"} -> "write"
                               [] t = "search" -> "read"
                               [] OTHER -> "exec"]
MCSubject == [t \in MCTools |-> CASE t \in {"write_file", "edit_file"} -> "path"
                                  [] t = "bash" -> "command"
                                  [] OTHER -> "other"]

CallOf(t, k) == [tool |-> t, key |-> k]
RuleOf(t, k, preview) ==
    [tool |-> t, by |-> "path", key |-> k, action |-> "allow", preview |-> preview]

EditRule == [tool |-> "edit_file", by |-> "all", key |-> 1, action |-> "allow", preview |-> TRUE]

MCCalls == {CallOf("bash", 1), CallOf("bash", 2), CallOf("write_file", 1),
            CallOf("write_file", 2), CallOf("edit_file", 1), CallOf("edit_file", 2), CallOf("lean_check", 1),
            CallOf("search", 1)}
MCHardRejected == {CallOf("lean_check", 1)}
MCDenylist == {CallOf("write_file", 2)}
MCSuspicious == {CallOf("bash", 2), CallOf("edit_file", 2)}
MCOutside == {CallOf("edit_file", 2)}
MCNoDiff == {CallOf("edit_file", 1)}
MCFileRules == <<RuleOf("write_file", 1, TRUE), EditRule>>
MCInlineRules == <<RuleOf("write_file", 2, FALSE)>>
=============================================================================
