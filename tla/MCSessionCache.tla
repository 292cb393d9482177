--------------------------- MODULE MCSessionCache ---------------------------
(***************************************************************************)
(* Three turns and one deletion over two conversations, in a cache with    *)
(* room for one.  Turns are interchangeable, and so are conversations: the *)
(* constraint keeps the behaviours in which the turns arrive in the order  *)
(* of their numbers, the first of them in the first conversation.  Every   *)
(* other behaviour is one of these with the names exchanged.               *)
(***************************************************************************)
EXTENDS SessionCache

ASSUME MCAssumption == Turns = 1 .. Cardinality(Turns)

ArrivalsInOrder ==
    \A r \in Turns :
        pc[r] = "idle" /\ pc'[r] # "idle" =>
            /\ \A s \in 1 .. r - 1 : pc[s] # "idle"
            /\ r = 1 => conv'[1] = CHOOSE k \in Conversations : TRUE
=============================================================================
