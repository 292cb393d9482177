----------------------------- MODULE AtomicStore -----------------------------
(***************************************************************************)
(* What callers of withFileLock are promised: each call is one atomic      *)
(* read-modify-write of its file, or fails and changes nothing.            *)
(*                                                                         *)
(* A file is abstracted to the sequence of calls whose updates its content *)
(* incorporates.                                                           *)
(***************************************************************************)
EXTENDS Sequences

CONSTANTS Calls, Keys, Key

VARIABLES value, result

Init ==
    /\ value = [k \in Keys |-> <<>>]
    /\ result = [c \in Calls |-> "pending"]

Update(c) ==
    /\ result[c] = "pending"
    /\ value' = [value EXCEPT ![Key[c]] = Append(@, c)]
    /\ result' = [result EXCEPT ![c] = "ok"]

Fail(c) ==
    /\ result[c] = "pending"
    /\ result' = [result EXCEPT ![c] = "threw"]
    /\ UNCHANGED value

Next == \E c \in Calls: Update(c) \/ Fail(c)

Spec == Init /\ [][Next]_<<value, result>>
=============================================================================
