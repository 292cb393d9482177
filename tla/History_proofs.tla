---------------------------- MODULE History_proofs ---------------------------
(***************************************************************************)
(* The messages of a conversation: what the turn at hand has added is      *)
(* never touched, and what is sent to the provider is well formed; for any *)
(* number of requests, turns, rounds and calls, and for every KeepRounds.  *)
(*                                                                         *)
(* TurnIsKept: the history ends with what the turn has added, and that     *)
(* begins with its only user message (TurnKept).  A compaction splits a    *)
(* history into leading system messages, what it drops, and a kept tail    *)
(* that begins with a user message, and puts its summary in front of a     *)
(* user message of the tail.                                               *)
(*                                                                         *)
(* RequestsAreValid: the messages, with the results that are still to come *)
(* of the open batch, are Valid (Requests): every call is followed by its  *)
(* results, every result belongs to such a call.  Valid histories may be   *)
(* joined, and split in front of any message that is no result, which is   *)
(* where compactions and cuts split them.  What a restart finds on disk    *)
(* may end within a batch, and may come from two writers; that a repair    *)
(* makes it Valid needs of every copy of the history, also after two       *)
(* writers have met, that no call or result is in it twice and that a      *)
(* number is given to one call only (Sane).                                *)
(***************************************************************************)
EXTENDS History, FiniteSetTheorems, SequenceTheorems, WellFoundedInduction, TLAPS

-----------------------------------------------------------------------------
(* Sequences of messages.                                                  *)

LEMMA Typed ==
    ASSUME NEW h \in Histories
    PROVE  /\ Len(h) \in Nat /\ DOMAIN h = 1..Len(h)
           /\ \A i \in 1..Len(h): /\ h[i] \in Message /\ h[i].n \in Nat /\ h[i].calls \in Nat
                                  /\ h[i].role \in {"system", "user", "assistant", "tool"}
<1>1. Len(h) \in Nat /\ DOMAIN h = 1..Len(h) /\ \A i \in 1..Len(h): h[i] \in Message
    BY DEF Histories
<1> QED
    BY <1>1 DEF Message

\* \o under a name of its own: the solver takes an equality of two sequences
\* s \o t apart element by element, one of two Cat(s, t) it does not.
Cat(s, t) == s \o t

LEMMA Joined ==
    ASSUME NEW s \in Histories, NEW t \in Histories
    PROVE  /\ Len(Cat(s, t)) = Len(s) + Len(t)
           /\ Len(s) \in Nat /\ Len(t) \in Nat
           /\ \A i \in 1..Len(s): Cat(s, t)[i] = s[i]
           /\ \A i \in 1..Len(t): Cat(s, t)[Len(s) + i] = t[i]
<1>1. s \o t \in Seq(Message) /\ Len(s \o t) = Len(s) + Len(t)
      /\ \A i \in 1..Len(s) + Len(t):
            (s \o t)[i] = IF i <= Len(s) THEN s[i] ELSE t[i - Len(s)]
    BY ConcatProperties DEF Histories
<1>2. Len(s) \in Nat /\ Len(t) \in Nat
    BY DEF Histories
<1> QED
    BY <1>1, <1>2 DEF Histories, Cat

LEMMA Closed == \A s, t \in Histories: Cat(s, t) \in Histories
BY ConcatProperties DEF Histories, Cat

LEMMA Assoc == \A s, t, u \in Histories: Cat(Cat(s, t), u) = Cat(s, Cat(t, u))
BY ConcatAssociative DEF Histories, Cat

LEMMA Unit == \A s \in Histories: Cat(s, <<>>) = s /\ Cat(<<>>, s) = s
BY ConcatEmptySeq DEF Histories, Cat

LEMMA NoneTyped == <<>> \in Histories
BY DEF Histories

-----------------------------------------------------------------------------
(* Positions, and what a compaction keeps.                                 *)

LEMMA LeastNatural ==
    ASSUME NEW S \in SUBSET Nat, S # {}
    PROVE  \E i \in S: \A j \in S: i <= j
<1>1. PICK i \in S: \A j \in S: ~(<<j, i>> \in OpToRel(<, Nat))
    BY WFMin, NatLessThanWellFounded
<1>2. \A j \in S: ~(j < i)
    BY <1>1 DEF OpToRel
<1> QED
    BY <1>2

LEMMA GreatestNatural ==
    ASSUME NEW n \in Nat, NEW S \in SUBSET (1..n), S # {}
    PROVE  \E i \in S: \A j \in S: i >= j
<1> DEFINE T == {n - i: i \in S}
<1>0. \A i \in S: i \in Int /\ n - i \in Nat
    OBVIOUS
<1>1. T \in SUBSET Nat /\ T # {}
    BY <1>0
<1>2. PICK x \in T: \A y \in T: x <= y
    BY <1>1, LeastNatural
<1>3. PICK i \in S: x = n - i
    BY <1>2
<1>4. ASSUME NEW j \in S PROVE i >= j
  <2>1. n - i <= n - j
      BY <1>2, <1>3
  <2> HIDE DEF T
  <2>2. i \in 1..n /\ j \in 1..n
      OBVIOUS
  <2> QED
      BY <2>1, <2>2
<1> QED
    BY <1>4

\* The leading system messages end somewhere.
LEMMA LeadIs ==
    ASSUME NEW h \in Histories
    PROVE  /\ Lead(h) \in 0..Len(h)
           /\ \A j \in 1..Lead(h): h[j].role = "system"
           /\ Lead(h) = Len(h) \/ h[Lead(h) + 1].role # "system"
<1> DEFINE P(i) == /\ \A j \in 1..i: h[j].role = "system"
                   /\ i = Len(h) \/ h[i + 1].role # "system"
           ends == {i \in 0..Len(h): i = Len(h) \/ h[i + 1].role # "system"}
<1>1. Len(h) \in Nat
    BY Typed
<1>2. Len(h) \in ends /\ ends \in SUBSET Nat
    BY <1>1
<1>3. PICK i \in ends: \A j \in ends: i <= j
    BY <1>2, LeastNatural
<1>4. i \in 0..Len(h) /\ (i = Len(h) \/ h[i + 1].role # "system")
    OBVIOUS
<1>5. ASSUME NEW j \in 1..i PROVE h[j].role = "system"
  <2>1. j - 1 \in 0..Len(h) /\ j - 1 # Len(h) /\ (j - 1) + 1 = j /\ ~(i <= j - 1)
      BY <1>1, <1>4
  <2>2. j - 1 \notin ends
      BY <1>3, <2>1
  <2> QED
      BY <2>1, <2>2
<1>6. \E k \in 0..Len(h): P(k)
    BY <1>4, <1>5
<1>7. Lead(h) = CHOOSE k \in 0..Len(h): P(k)
    BY DEF Lead
<1> HIDE DEF P
<1>8. Lead(h) \in 0..Len(h) /\ P(Lead(h))
    BY <1>6, <1>7
<1> QED
    BY <1>8 DEF P

\* What is kept starts with a user message behind the leading ones.
LEMMA KeepStartIs ==
    ASSUME NEW h \in Histories, KeepStart(h) # Lead(h) + 1
    PROVE  /\ KeepStart(h) \in 1..Len(h) /\ KeepStart(h) > Lead(h)
           /\ h[KeepStart(h)].role = "user"
<1> DEFINE starts == {i \in Users(h): Cardinality({j \in Users(h): j >= i}) = KeepRounds}
<1>1. starts # {} /\ KeepStart(h) = CHOOSE i \in starts: TRUE
    BY DEF KeepStart
<1>2. KeepStart(h) \in Users(h)
    BY <1>1
<1>3. KeepStart(h) \in 1..Len(h) /\ h[KeepStart(h)].role = "user" /\ Len(h) \in Nat
    BY <1>2, Typed DEF Users
<1>4. Lead(h) \in Nat /\ \A j \in 1..Lead(h): h[j].role = "system"
    BY <1>3, LeadIs
<1>5. ~(KeepStart(h) \in 1..Lead(h))
    BY <1>3, <1>4
<1> QED
    BY <1>3, <1>4, <1>5

\* In a tail that begins with a user message, the summary goes above one.
LEMMA SummaryPlaceIs ==
    ASSUME NEW t \in Histories, t # <<>>, t[1].role = "user"
    PROVE  SummaryPlace(t) \in 1..Len(t) /\ t[SummaryPlace(t)].role = "user"
<1> DEFINE R == {i \in 1..Len(t): t[i].role = "user" /\ t[i].calls = 0}
           U == {i \in 1..Len(t): t[i].role = "user"}
           real == SelectLastInSeq(t, LAMBDA m: m.role = "user" /\ m.calls = 0)
           any == SelectLastInSeq(t, LAMBDA m: m.role = "user")
<1>1. Len(t) \in Nat /\ 1 \in 1..Len(t)
    BY Typed, EmptySeq DEF Histories
<1>2. real = IF R # {} THEN Max(R) ELSE 0
    BY DEF SelectLastInSeq
<1>3. any = IF U # {} THEN Max(U) ELSE 0
    BY DEF SelectLastInSeq
<1>4. ASSUME R # {} PROVE Max(R) \in R
    BY <1>1, <1>4, GreatestNatural DEF Max
<1>5. U # {} /\ Max(U) \in U
  <2>1. 1 \in U
      BY <1>1
  <2>2. U \in SUBSET (1..Len(t))
      OBVIOUS
  <2> HIDE DEF U
  <2> QED
      BY <1>1, <2>1, <2>2, GreatestNatural DEF Max
<1>6. SummaryPlace(t) = IF real # 0 THEN real ELSE any
  <2>1. any # 0
      BY <1>1, <1>3, <1>5
  <2> QED
      BY <2>1 DEF SummaryPlace
<1>7. SummaryPlace(t) \in R \cup U
    BY <1>2, <1>3, <1>4, <1>5, <1>6
<1> QED
    BY <1>7

LEMMA PrefixIs ==
    ASSUME NEW h \in Histories, NEW n \in 0..Len(h)
    PROVE  /\ SubSeq(h, 1, n) \in Histories /\ Len(SubSeq(h, 1, n)) = n
           /\ \A j \in 1..n: SubSeq(h, 1, n)[j] = h[j]
<1>1. n \in Int /\ n \in Nat /\ n - 1 + 1 = n /\ \A i \in 1..n: h[i] \in Message
    BY Typed
<1>2. /\ SubSeq(h, 1, n) \in Seq(Message)
      /\ Len(SubSeq(h, 1, n)) = IF 1 <= n THEN n - 1 + 1 ELSE 0
      /\ \A j \in 1..n - 1 + 1: SubSeq(h, 1, n)[j] = h[1 + j - 1]
    BY <1>1, SubSeqProperties
<1>3. \A j \in 1..n: 1 + j - 1 = j
    BY <1>1
<1> QED
    BY <1>1, <1>2, <1>3 DEF Histories

LEMMA Parts ==
    ASSUME NEW h \in Histories, NEW i \in 1..Len(h) + 1
    PROVE  /\ SubSeq(h, 1, i - 1) \in Histories /\ SubSeq(h, i, Len(h)) \in Histories
           /\ h = Cat(SubSeq(h, 1, i - 1), SubSeq(h, i, Len(h)))
           /\ Len(SubSeq(h, 1, i - 1)) = i - 1
           /\ Len(SubSeq(h, i, Len(h))) = Len(h) - i + 1
           /\ \A j \in 1..i - 1: SubSeq(h, 1, i - 1)[j] = h[j]
           /\ \A j \in 1..Len(h) - i + 1: SubSeq(h, i, Len(h))[j] = h[i + j - 1]
<1>1. Len(h) \in Nat /\ h \in Seq(Message) /\ i \in Int /\ i >= 1 /\ i <= Len(h) + 1
      /\ \A k \in 1..Len(h): h[k] \in Message
    BY Typed DEF Histories
<1>2. /\ SubSeq(h, 1, i - 1) \in Seq(Message)
      /\ Len(SubSeq(h, 1, i - 1)) = i - 1
      /\ \A j \in 1..i - 1: SubSeq(h, 1, i - 1)[j] = h[j]
    BY <1>1, SubSeqProperties
<1>3. /\ SubSeq(h, i, Len(h)) \in Seq(Message)
      /\ Len(SubSeq(h, i, Len(h))) = Len(h) - i + 1
      /\ \A j \in 1..Len(h) - i + 1: SubSeq(h, i, Len(h))[j] = h[i + j - 1]
    BY <1>1, SubSeqProperties
<1>4. SubSeq(h, 1, i - 1) \o SubSeq(h, (i - 1) + 1, Len(h)) = SubSeq(h, 1, Len(h))
  <2>1. 1 \in 1..Len(h) + 1 /\ i - 1 \in 1 - 1..Len(h) /\ Len(h) \in i - 1..Len(h)
      BY <1>1
  <2> QED
      BY <1>1, <2>1, ConcatAdjacentSubSeq
<1>5. SubSeq(h, 1, Len(h)) = h /\ (i - 1) + 1 = i
    BY <1>1, SubSeqFull
<1> QED
    BY <1>2, <1>3, <1>4, <1>5 DEF Histories, Cat

Policies == {"do_not_inject", "before_last_user_message"}

\* A compaction that changes anything keeps the leading system messages S,
\* drops X, and puts its summary above a user message of what it keeps.
LEMMA CompactedSplits ==
    ASSUME NEW h \in Histories, NEW policy \in Policies, Compacted(h, policy) # h
    PROVE  \E S, X, A, B \in Histories:
              /\ h = Cat(Cat(S, X), Cat(A, B))
              /\ Compacted(h, policy) = Cat(Cat(S, A), Cat(<<Summary>>, B))
              /\ \A i \in 1..Len(S): S[i].role = "system"
              /\ A # <<>> => A[1].role = "user"
              /\ B # <<>> /\ B[1].role = "user"
<1> DEFINE l == Lead(h)
           k == KeepStart(h)
           S == SubSeq(h, 1, l)
           X == SubSeq(h, l + 1, k - 1)
           tail == SubSeq(h, k, Len(h))
           at == IF policy = "do_not_inject" THEN 1 ELSE SummaryPlace(tail)
           A == SubSeq(tail, 1, at - 1)
           B == SubSeq(tail, at, Len(tail))
<1>1. k # l + 1 /\ Compacted(h, policy) = Cat(S, InsertAt(tail, at, Summary))
    BY DEF Compacted, Cat
<1>2. k \in 1..Len(h) /\ k > l /\ h[k].role = "user" /\ Len(h) \in Nat
    BY <1>1, KeepStartIs, Typed
<1>3. l \in 0..Len(h) /\ \A j \in 1..l: h[j].role = "system"
    BY LeadIs
<1>4. InsertAt(tail, at, Summary) = Cat(Cat(A, <<Summary>>), B)
    BY DEF InsertAt, Cat
<1> HIDE DEF l, k, at
<1>5. /\ SubSeq(h, 1, k - 1) \in Histories /\ tail \in Histories
      /\ h = Cat(SubSeq(h, 1, k - 1), tail) /\ Len(tail) = Len(h) - k + 1
      /\ \A j \in 1..Len(h) - k + 1: tail[j] = h[k + j - 1]
  <2>1. k \in 1..Len(h) + 1
      BY <1>2
  <2> QED
      BY <2>1, Parts
<1>6. 1 \in 1..Len(h) - k + 1 /\ k + 1 - 1 = k /\ Len(tail) > 0
    BY <1>2, <1>5
<1> HIDE DEF tail
<1>7. tail[1].role = "user" /\ tail # <<>>
  <2>1. tail[1] = h[k]
      BY <1>5, <1>6
  <2>2. tail # <<>>
      BY <1>5, <1>6 DEF Histories
  <2> QED
      BY <1>2, <2>1, <2>2
<1>8. at \in 1..Len(tail) /\ tail[at].role = "user"
    BY <1>5, <1>6, <1>7, SummaryPlaceIs DEF at
<1>9. S \in Histories /\ Len(S) = l /\ \A j \in 1..l: S[j] = h[j]
  <2>1. l \in Nat /\ l + 1 \in 1..Len(h) + 1 /\ (l + 1) - 1 = l
      BY <1>2, <1>3
  <2>2. /\ SubSeq(h, 1, (l + 1) - 1) \in Histories
        /\ Len(SubSeq(h, 1, (l + 1) - 1)) = (l + 1) - 1
        /\ \A j \in 1..(l + 1) - 1: SubSeq(h, 1, (l + 1) - 1)[j] = h[j]
      BY <2>1, Parts
  <2> QED
      BY <2>1, <2>2
<1>10. X \in Histories /\ SubSeq(h, 1, k - 1) = Cat(S, X)
  <2>1. h \in Seq(Message) /\ l \in Int /\ k - 1 \in Int /\ l + 1 \in Int
        /\ \A i \in l + 1..k - 1: h[i] \in Message
      BY <1>2, <1>3, Typed DEF Histories
  <2>2. X \in Seq(Message)
      BY <2>1, SubSeqProperties
  <2>3. 1 \in 1..Len(h) + 1 /\ l \in 1 - 1..Len(h) /\ k - 1 \in l..Len(h)
      BY <1>2, <1>3
  <2>4. SubSeq(h, 1, k - 1) = S \o X
      BY <2>1, <2>3, ConcatAdjacentSubSeq
  <2> QED
      BY <2>2, <2>4 DEF Histories, Cat
<1>11. /\ A \in Histories /\ B \in Histories /\ tail = Cat(A, B)
       /\ Len(A) = at - 1 /\ Len(B) = Len(tail) - at + 1
       /\ \A j \in 1..at - 1: A[j] = tail[j]
       /\ \A j \in 1..Len(tail) - at + 1: B[j] = tail[at + j - 1]
  <2>1. at \in 1..Len(tail) + 1
      BY <1>5, <1>2, <1>8
  <2> QED
      BY <1>5, <2>1, Parts
<1> HIDE DEF S, X, A, B
<1>12. A # <<>> => A[1].role = "user"
  <2>1. A # <<>> => Len(A) \in Nat \ {0}
      BY <1>11, EmptySeq DEF Histories
  <2>2. A # <<>> => 1 \in 1..at - 1
      BY <1>8, <1>11, <2>1
  <2> QED
      BY <1>7, <1>11, <2>2
<1>13. B # <<>> /\ B[1].role = "user"
  <2>1. 1 \in 1..Len(tail) - at + 1 /\ at + 1 - 1 = at /\ Len(B) > 0
      BY <1>2, <1>5, <1>8, <1>11
  <2>2. B[1] = tail[at]
      BY <1>11, <2>1
  <2>3. B # <<>>
      BY <1>11, <2>1 DEF Histories
  <2> QED
      BY <1>8, <2>2, <2>3
<1>14. <<Summary>> \in Histories
    BY DEF Histories, Summary, Message
<1>15. h = Cat(Cat(S, X), Cat(A, B))
    BY <1>5, <1>10, <1>11
<1>16. Compacted(h, policy) = Cat(Cat(S, A), Cat(<<Summary>>, B))
  <2>1. PICK M \in Histories: M = <<Summary>>
      BY <1>14
  <2>2. Cat(S, Cat(Cat(A, M), B)) = Cat(Cat(S, A), Cat(M, B))
      BY <1>9, <1>11, Assoc, Closed
  <2> QED
      BY <1>1, <1>4, <2>1, <2>2
<1>17. \A i \in 1..Len(S): S[i].role = "system"
    BY <1>3, <1>9
<1> S \in Histories /\ X \in Histories /\ A \in Histories /\ B \in Histories
    BY <1>9, <1>10, <1>11
<1> WITNESS S \in Histories, X \in Histories, A \in Histories, B \in Histories
<1> QED
    BY <1>12, <1>13, <1>15, <1>16, <1>17

-----------------------------------------------------------------------------
(* What a turn has added stays at the end.                                 *)

EndsWith(s, h) == \E p \in Histories: h = Cat(p, s)

LEMMA EndIsSuffix ==
    ASSUME NEW s \in Histories, NEW h \in Histories, EndsWith(s, h)
    PROVE  IsSuffix(s, h)
<1>1. PICK p \in Histories: h = Cat(p, s)
    BY DEF EndsWith
<1>2. /\ Len(h) = Len(p) + Len(s) /\ Len(p) \in Nat /\ Len(s) \in Nat
      /\ \A i \in 1..Len(s): h[Len(p) + i] = s[i]
    BY <1>1, Joined
<1> DEFINE rs == Reverse(s)
           rh == Reverse(h)
           n == Len(s)
<1>3. rs \in Seq(Message) /\ Len(rs) = n /\ \A i \in 1..n: rs[i] = s[(n - i) + 1]
    BY <1>2, Typed DEF Reverse
<1>4. rh \in Seq(Message) /\ Len(rh) = Len(h)
      /\ \A i \in 1..Len(h): rh[i] = h[(Len(h) - i) + 1]
    BY <1>2, Typed DEF Reverse
<1>5. ASSUME NEW i \in 1..n PROVE rs[i] = rh[i]
  <2>1. i \in 1..Len(h) /\ (n - i) + 1 \in 1..n
        /\ (Len(h) - i) + 1 = Len(p) + ((n - i) + 1)
      BY <1>2
  <2>2. rh[i] = h[Len(p) + ((n - i) + 1)]
      BY <1>4, <2>1
  <2> QED
      BY <1>2, <1>3, <2>1, <2>2
<1> HIDE DEF rs, rh
<1>6. SubSeq(rs, 1, n) = SubSeq(rh, 1, n)
  <2>1. n \in 0..Len(rs) /\ n \in 0..Len(rh) /\ rs \in Histories /\ rh \in Histories
      BY <1>2, <1>3, <1>4 DEF Histories
  <2> HIDE DEF n
  <2>2. /\ SubSeq(rs, 1, n) \in Histories /\ Len(SubSeq(rs, 1, n)) = n
        /\ \A i \in 1..n: SubSeq(rs, 1, n)[i] = rs[i]
      BY <2>1, PrefixIs
  <2>3. /\ SubSeq(rh, 1, n) \in Histories /\ Len(SubSeq(rh, 1, n)) = n
        /\ \A i \in 1..n: SubSeq(rh, 1, n)[i] = rh[i]
      BY <2>1, PrefixIs
  <2>4. \A i \in 1..n: SubSeq(rs, 1, n)[i] = SubSeq(rh, 1, n)[i]
      BY <1>5, <2>2, <2>3
  <2> QED
      BY <2>2, <2>3, <2>4, SeqEqual DEF Histories
<1>7. IsPrefix(rs, rh)
    BY <1>2, <1>3, <1>4, <1>6 DEF IsPrefix
<1> QED
    BY <1>7 DEF IsSuffix, rs, rh

\* The turn at hand: a user message and no other user message.
OneTurn(s) ==
    s # <<>> => /\ s[1].role = "user"
                /\ \A i \in 2..Len(s): s[i].role # "user"

\* What begins with a user message holds all of the turn it ends with.
LEMMA KeptBehind ==
    ASSUME NEW front \in Histories, NEW kept \in Histories, NEW B \in Histories,
           NEW s \in Histories, EndsWith(s, Cat(front, B)), OneTurn(s),
           B # <<>>, B[1].role = "user"
    PROVE  Cat(kept, B) \in Histories /\ EndsWith(s, Cat(kept, B))
<1> DEFINE h == Cat(front, B)
<1>6. PICK p \in Histories: h = Cat(p, s)
    BY DEF EndsWith
<1> HIDE DEF h
<1>7. /\ Len(h) = Len(front) + Len(B) /\ Len(h) = Len(p) + Len(s)
      /\ Len(front) \in Nat /\ Len(B) \in Nat /\ Len(p) \in Nat /\ Len(s) \in Nat
      /\ \A i \in 1..Len(B): h[Len(front) + i] = B[i]
      /\ \A i \in 1..Len(s): h[Len(p) + i] = s[i]
  <2>1. /\ Len(h) = Len(front) + Len(B) /\ Len(front) \in Nat /\ Len(B) \in Nat
        /\ \A i \in 1..Len(B): h[Len(front) + i] = B[i]
      BY Joined DEF h
  <2>2. /\ Len(h) = Len(p) + Len(s) /\ Len(p) \in Nat /\ Len(s) \in Nat
        /\ \A i \in 1..Len(s): h[Len(p) + i] = s[i]
      BY <1>6, Joined
  <2> QED
      BY <2>1, <2>2
<1>15. /\ Len(front) + Len(B) = Len(p) + Len(s)
       /\ Len(front) \in Nat /\ Len(B) \in Nat /\ Len(p) \in Nat /\ Len(s) \in Nat
    BY <1>7
<1>8. Len(B) # 0
    BY DEF Histories
\* the user message B begins with is not behind the one of the turn
<1>9. Len(s) <= Len(B)
  <2>1. SUFFICES ASSUME Len(B) < Len(s) PROVE FALSE
      BY <1>15
  <2> DEFINE x == Len(s) - Len(B) + 1
  <2>2. x \in 2..Len(s)
      BY <1>15, <1>8, <2>1
  <2>3. Len(p) + x = Len(front) + 1 /\ x \in 1..Len(s) /\ 1 \in 1..Len(B)
      BY <1>15, <1>8, <2>1
  <2> HIDE DEF x
  <2>5. s[x] = B[1]
    <3>1. s[x] = h[Len(p) + x] /\ B[1] = h[Len(front) + 1]
        BY <1>7, <2>3
    <3> QED
        BY <2>3, <3>1
  <2>4. s # <<>>
      BY <1>15, <2>1 DEF Histories
  <2> QED
      BY <2>2, <2>4, <2>5 DEF OneTurn
<1> DEFINE k == Len(B) - Len(s) + 1
           C == SubSeq(B, 1, k - 1)
           D == SubSeq(B, k, Len(B))
<1>10. k \in 1..Len(B) + 1 /\ Len(B) - k + 1 = Len(s) /\ Len(p) = Len(front) + k - 1 /\ k \in Nat
    BY <1>15, <1>9
<1> HIDE DEF k
<1>11. /\ C \in Histories /\ D \in Histories /\ B = Cat(C, D) /\ Len(D) = Len(B) - k + 1
       /\ \A j \in 1..Len(B) - k + 1: D[j] = B[k + j - 1]
    BY <1>10, Parts
<1> HIDE DEF C, D
<1>12. D = s
  <2>1. Len(D) = Len(s)
      BY <1>10, <1>11
  <2>2. ASSUME NEW j \in 1..Len(s) PROVE D[j] = s[j]
    <3>1. k + j - 1 \in 1..Len(B) /\ Len(front) + (k + j - 1) = Len(p) + j
        BY <1>15, <1>10
    <3>2. D[j] = B[k + j - 1]
        BY <1>10, <1>11
    <3> QED
        BY <1>7, <3>1, <3>2
  <2> QED
      BY <1>11, <2>1, <2>2, SeqEqual DEF Histories
<1>13. /\ Cat(kept, B) = Cat(Cat(kept, C), s) /\ Cat(kept, C) \in Histories
       /\ Cat(kept, B) \in Histories
    BY <1>11, <1>12, Assoc, Closed
<1> QED
    BY <1>13 DEF EndsWith

LEMMA Regroup ==
    ASSUME NEW s \in Histories, NEW t \in Histories, NEW u \in Histories
    PROVE  Cat(s, Cat(t, u)) = Cat(Cat(s, t), u) /\ Cat(s, t) \in Histories
BY Assoc, Closed

\* A compaction puts its summary above some user message, so above the turn.
LEMMA CompactedKeepsTurn ==
    ASSUME NEW h \in Histories, NEW s \in Histories, NEW policy \in Policies,
           EndsWith(s, h), OneTurn(s)
    PROVE  Compacted(h, policy) \in Histories /\ EndsWith(s, Compacted(h, policy))
<1>1. CASE Compacted(h, policy) = h
    BY <1>1
<1>2. CASE Compacted(h, policy) # h
  <2>1. PICK S \in Histories, X \in Histories, A \in Histories, B \in Histories:
             /\ h = Cat(Cat(S, X), Cat(A, B))
             /\ Compacted(h, policy) = Cat(Cat(S, A), Cat(<<Summary>>, B))
             /\ \A i \in 1..Len(S): S[i].role = "system"
             /\ A # <<>> => A[1].role = "user"
             /\ B # <<>> /\ B[1].role = "user"
      BY <1>2, CompactedSplits
  <2>2. PICK M \in Histories: M = <<Summary>>
    <3>1. <<Summary>> \in Histories
        BY DEF Histories, Summary, Message
    <3> QED
        BY <3>1
  <2>3. PICK P \in Histories, Q \in Histories: P = Cat(S, X) /\ Q = Cat(S, A)
      BY Closed
  <2>4. h = Cat(Cat(P, A), B) /\ Cat(P, A) \in Histories
      BY <2>1, <2>3, Regroup
  <2>7. Compacted(h, policy) = Cat(Cat(Q, M), B) /\ Cat(Q, M) \in Histories
      BY <2>1, <2>2, <2>3, Regroup
  <2>5. EndsWith(s, Cat(Cat(P, A), B))
      BY <2>4
  <2>6. B # <<>> /\ B[1].role = "user"
      BY <2>1
  <2> QED
      BY <2>4, <2>7, <2>5, <2>6, KeptBehind
<1> QED
    BY <1>1, <1>2

-----------------------------------------------------------------------------
(* Types.                                                                  *)

LEMMA MessagesTyped ==
    /\ Prompt \in Message /\ Summary \in Message
    /\ \A n \in Nat: User(n) \in Message /\ Daemon(n) \in Message
    /\ \A n \in Nat, c \in Nat: Assistant(n, c) \in Message /\ Result(n, c) \in Message
BY DEF Prompt, Summary, User, Daemon, Assistant, Result, Message

LEMMA OneTyped == \A m \in Message: <<m>> \in Histories
BY DEF Histories

LEMMA CompactedTyped ==
    ASSUME NEW h \in Histories, NEW policy \in Policies
    PROVE  Compacted(h, policy) \in Histories
<1>1. <<>> \in Histories /\ OneTurn(<<>>) /\ Cat(h, <<>>) = h
    BY Unit DEF Histories, OneTurn
<1>2. EndsWith(<<>>, h)
    BY <1>1 DEF EndsWith
<1> QED
    BY <1>1, <1>2, CompactedKeepsTurn

Tally == [pushed: Nat, turns: Nat, steers: Nat, compacts: Nat, crashes: Nat]

LEMMA HistoryFacts ==
    HistoryTypeOK =>
        /\ mode \in {"chat", "goal"} /\ mixed \in BOOLEAN
        /\ messages \in Histories /\ jsonl \in Histories /\ recent \in Histories
        /\ turn \in [TurnRequests -> TurnRecord]
        /\ compact \in [pc: {"idle", "summarizing", "flushing"}, snap: Histories]
        /\ count \in Tally /\ count.pushed \in Nat
        /\ compact.snap \in Histories
        /\ \A r \in TurnRequests: turn[r] \in TurnRecord /\ turn[r].cut \in Histories
              /\ turn[r].n \in Nat /\ turn[r].calls \in Nat /\ turn[r].next \in Nat
              /\ turn[r].round \in Nat
BY DEF HistoryTypeOK, TurnRecord, Tally

LEMMA NoTurnTyped == NoTurn \in TurnRecord
BY NoneTyped DEF NoTurn, TurnRecord

\* The results of the open batch.
LEMMA ResultsTyped ==
    ASSUME HistoryTypeOK, NEW r \in TurnRequests, NEW c \in 0..turn[r].calls + 1
    PROVE  /\ Results(r, c) \in Histories
           /\ Len(Results(r, c)) = turn[r].calls - c + 1
           /\ \A i \in 1..turn[r].calls - c + 1: Results(r, c)[i] = Result(turn[r].n, c + i - 1)
<1> DEFINE k == turn[r].calls
           n == turn[r].n
<1>1. k \in Nat /\ n \in Nat
    BY HistoryFacts
<1> HIDE DEF k, n
<1>2. k - c + 1 \in Nat /\ c \in Nat /\ \A i \in 1..k - c + 1: c + i - 1 \in Nat
    BY <1>1 DEF k
<1>3. \A i \in 1..k - c + 1: Result(n, c + i - 1) \in Message
    BY <1>1, <1>2, MessagesTyped
<1>4. Results(r, c) = [i \in 1..k - c + 1 |-> Result(n, c + i - 1)]
    BY DEF Results, k, n
<1> QED
    BY <1>2, <1>3, <1>4 DEF Histories, k, n

LEMMA BatchTyped ==
    ASSUME HistoryTypeOK, NEW r \in TurnRequests, NEW c \in Nat
    PROVE  Results(r, c) \in Histories
<1>1. turn[r].calls \in Nat /\ turn[r].n \in Nat
    BY HistoryFacts
<1>2. CASE c <= turn[r].calls
  <2>1. c \in 0..turn[r].calls + 1
      BY <1>1, <1>2
  <2> QED
      BY <2>1, ResultsTyped
<1>3. CASE c > turn[r].calls
  <2>1. 1..turn[r].calls - c + 1 = {}
      BY <1>1, <1>3
  <2>2. Results(r, c) = <<>>
      BY <2>1 DEF Results
  <2> QED
      BY <2>2, NoneTyped
<1> QED
    BY <1>1, <1>2, <1>3

\* What the fields of a turn's record become.
LEMMA TurnsTyped ==
    ASSUME NEW t \in TurnRecord, NEW n \in Nat, NEW c \in Nat
    PROVE  /\ \A p \in {"idle", "captured", "passed", "round", "steered", "answered", "tool",
                        "closing"}: [t EXCEPT !.pc = p] \in TurnRecord
           /\ [t EXCEPT !.pc = "answered", !.n = n, !.calls = c, !.next = 1] \in TurnRecord
           /\ \A p \in {"round", "tool", "closing"}, k \in Nat:
                 [t EXCEPT !.next = n, !.round = k, !.pc = p] \in TurnRecord
           /\ \A o \in {"send", "rerun", "truncate"}, h \in Histories:
                 /\ [NoTurn EXCEPT !.pc = "captured", !.op = o, !.cut = h] \in TurnRecord
                 /\ [NoTurn EXCEPT !.pc = "passed", !.op = o] \in TurnRecord
BY NoTurnTyped, NoneTyped DEF TurnRecord, NoTurn

LEMMA SetTyped ==
    ASSUME turn \in [TurnRequests -> TurnRecord], NEW r \in TurnRequests, NEW t \in TurnRecord,
           Set(r, t)
    PROVE  turn' \in [TurnRequests -> TurnRecord]
BY DEF Set

LEMMA TallyTyped ==
    ASSUME count \in Tally
    PROVE  /\ [count EXCEPT !["pushed"] = @ + 1] \in Tally
           /\ [count EXCEPT !["turns"] = @ + 1] \in Tally
           /\ [count EXCEPT !["compacts"] = @ + 1] \in Tally
           /\ [count EXCEPT !["crashes"] = @ + 1] \in Tally
           /\ [count EXCEPT !.pushed = @ + 1, !.turns = @ + 1] \in Tally
           /\ [count EXCEPT !.pushed = @ + 1, !.steers = @ + 1] \in Tally
<1>1. [count EXCEPT !["pushed"] = @ + 1] \in Tally
    BY DEF Tally
<1>2. [count EXCEPT !["turns"] = @ + 1] \in Tally
    BY DEF Tally
<1>3. [count EXCEPT !["compacts"] = @ + 1] \in Tally
    BY DEF Tally
<1>4. [count EXCEPT !["crashes"] = @ + 1] \in Tally
    BY DEF Tally
<1>5. PICK c \in Tally: c = [count EXCEPT !.pushed = @ + 1]
    BY <1>1
<1>6. /\ [c EXCEPT !.turns = count.turns + 1] \in Tally
      /\ [c EXCEPT !.steers = count.steers + 1] \in Tally
    BY DEF Tally
<1>7. /\ [count EXCEPT !.pushed = @ + 1, !.turns = @ + 1] = [c EXCEPT !.turns = count.turns + 1]
      /\ [count EXCEPT !.pushed = @ + 1, !.steers = @ + 1] = [c EXCEPT !.steers = count.steers + 1]
    BY <1>5
<1> QED
    BY <1>1, <1>2, <1>3, <1>4, <1>6, <1>7

LEMMA AppendTyped ==
    \A h \in Histories, m \in Message:
       Append(h, m) \in Histories /\ Append(h, m) = Cat(h, <<m>>)
BY AppendIsConcat, AppendProperties DEF Histories, Cat

LEMMA CutsTyped ==
    ASSUME NEW h \in Histories, NEW after \in BOOLEAN, NEW cut \in Cuts(h, after)
    PROVE  \E i \in 1..Len(h): /\ h[i].role = "user"
                               /\ cut = SubSeq(h, 1, IF after THEN i ELSE i - 1)
                               /\ cut \in Histories
<1>1. PICK i \in Users(h): cut = SubSeq(h, 1, IF after THEN i ELSE i - 1)
    BY DEF Cuts
<1>2. i \in 1..Len(h) /\ h[i].role = "user" /\ Len(h) \in Nat
    BY Typed DEF Users
<1>3. PICK k \in 0..Len(h): k = IF after THEN i ELSE i - 1
    BY <1>2
<1>4. cut \in Histories
    BY <1>1, <1>3, PrefixIs
<1> QED
    BY <1>1, <1>2, <1>4

-----------------------------------------------------------------------------
(* The repair of a history.                                                *)

\* FlattenSeq joins the parts one after the other.  (Its recursive function
\* exists: the least length for which it did not would follow one for which
\* it does.)
LEMMA FlattenIs ==
    ASSUME NEW n \in Nat \ {0}, NEW s \in Seq(Histories), Len(s) = n
    PROVE  \E f: /\ \A i \in 1..n: f[i] \in Histories
                 /\ f[1] = s[1]
                 /\ \A i \in 2..n: f[i] = Cat(f[i - 1], s[i])
                 /\ FlattenSeq(s) = f[n]
<1> DEFINE Rec(g, m) == g = [i \in 1..m |-> IF i = 1 THEN s[i] ELSE Cat(g[i - 1], s[i])]
           f == CHOOSE g: g = [i \in 1..Len(s) |-> IF i = 1 THEN s[i] ELSE Cat(g[i - 1], s[i])]
           bad == {m \in 1..n: ~\E g: Rec(g, m)}
<1>1. \A i \in 1..n: s[i] \in Histories
    OBVIOUS
<1>2. FlattenSeq(s) = f[n]
    BY DEF FlattenSeq, Cat
<1> HIDE DEF Rec
<1>3. bad = {}
  <2>1. SUFFICES ASSUME bad # {} PROVE FALSE
      OBVIOUS
  <2>2. bad \in SUBSET Nat
      OBVIOUS
  <2>3. PICK m \in bad: \A k \in bad: m <= k
      BY <2>1, <2>2, LeastNatural
  <2>4. m \in 1..n /\ ~\E g: Rec(g, m)
      OBVIOUS
  <2>5. CASE m = 1
    <3> DEFINE g == [i \in 1..1 |-> s[1]]
    <3>1. Rec(g, 1)
        BY DEF Rec
    <3> QED
        BY <2>4, <2>5, <3>1
  <2>6. CASE m # 1
    <3>1. m - 1 \in 1..n /\ ~(m <= m - 1)
        BY <2>4, <2>6
    <3>2. m - 1 \notin bad
        BY <2>3, <3>1
    <3>3. PICK g: Rec(g, m - 1)
        BY <3>1, <3>2
    <3> DEFINE new == [i \in 1..m |-> IF i = m THEN Cat(g[m - 1], s[m]) ELSE g[i]]
    <3>4. ASSUME NEW i \in 1..m
          PROVE  new[i] = IF i = 1 THEN s[i] ELSE Cat(new[i - 1], s[i])
      <4>1. CASE i = m
        <5>1. i # 1 /\ m - 1 \in 1..m /\ m - 1 # m
            BY <2>4, <2>6, <4>1
        <5>2. new[i] = Cat(g[m - 1], s[m]) /\ new[m - 1] = g[m - 1]
            BY <4>1, <5>1
        <5> HIDE DEF new
        <5> QED
            BY <4>1, <5>1, <5>2
      <4>2. CASE i # m
        <5>1. i \in 1..m - 1
            BY <2>4, <4>2
        <5>2. g[i] = IF i = 1 THEN s[i] ELSE Cat(g[i - 1], s[i])
            BY <3>3, <5>1 DEF Rec
        <5>3. new[i] = g[i]
            BY <4>2
        <5>4. i # 1 => new[i - 1] = g[i - 1]
            BY <2>4, <5>1
        <5> HIDE DEF new
        <5> QED
            BY <5>2, <5>3, <5>4
      <4> QED
          BY <4>1, <4>2
    <3>5. new = [i \in 1..m |-> IF i = 1 THEN s[i] ELSE Cat(new[i - 1], s[i])]
      <4>1. new = [i \in 1..m |-> new[i]]
          OBVIOUS
      <4> HIDE DEF new
      <4> QED
          BY <3>4, <4>1
    <3>6. Rec(new, m)
      <4> HIDE DEF new
      <4> QED
          BY <3>5 DEF Rec
    <3> QED
        BY <2>4, <3>6
  <2> QED
      BY <2>5, <2>6
<1>4. \E g: Rec(g, n)
    BY <1>3
<1>5. Rec(f, n)
  <2>1. f = CHOOSE g: Rec(g, n)
      BY DEF Rec
  <2> HIDE DEF f
  <2> QED
      BY <1>4, <2>1
<1> HIDE DEF f
<1>6. f[1] = s[1] /\ \A i \in 2..n: f[i] = Cat(f[i - 1], s[i])
  <2>1. \A i \in 1..n: f[i] = IF i = 1 THEN s[i] ELSE Cat(f[i - 1], s[i])
      BY <1>5 DEF Rec
  <2> QED
      BY <2>1
<1>7. \A i \in 1..n: f[i] \in Histories
  <2> DEFINE odd == {i \in 1..n: f[i] \notin Histories}
  <2>1. SUFFICES ASSUME odd # {} PROVE FALSE
      OBVIOUS
  <2>2. odd \in SUBSET Nat
      OBVIOUS
  <2>3. PICK i \in odd: \A k \in odd: i <= k
      BY <2>1, <2>2, LeastNatural
  <2>4. i # 1
      BY <1>1, <1>6
  <2>5. i \in 2..n /\ i - 1 \in 1..n /\ ~(i <= i - 1)
      BY <2>4
  <2>6. f[i - 1] \in Histories
      BY <2>3, <2>5
  <2>7. f[i] = Cat(f[i - 1], s[i])
      BY <1>6, <2>5
  <2> QED
      BY <1>1, <2>5, <2>6, <2>7, Closed
<1> QED
    BY <1>2, <1>6, <1>7

\* A sequence of a finite set has each of its elements, once.
LEMMA SeqOfSet ==
    ASSUME NEW S \in SUBSET Message, IsFiniteSet(S)
    PROVE  /\ SetToSeq(S) \in Histories
           /\ \A i \in 1..Len(SetToSeq(S)): SetToSeq(S)[i] \in S
           /\ \A i, j \in 1..Len(SetToSeq(S)): SetToSeq(S)[i] = SetToSeq(S)[j] => i = j
           /\ \A x \in S: \E i \in 1..Len(SetToSeq(S)): SetToSeq(S)[i] = x
<1> DEFINE n == Cardinality(S)
           q == SetToSeq(S)
<1>1. n \in Nat /\ ExistsBijection(1..n, S)
    BY FS_CardinalityType
<1> HIDE DEF n
<1>2. \E f \in [1..n -> S]: IsInjective(f)
    BY <1>1 DEF ExistsBijection, Bijection, Injection
<1>3. q \in [1..n -> S] /\ IsInjective(q)
    BY <1>2 DEF SetToSeq, n
<1> HIDE DEF q
<1>4. q \in Histories /\ Len(q) = n
    BY <1>1, <1>3 DEF Histories
<1>5. \A i, j \in 1..n: q[i] = q[j] => i = j
    BY <1>3 DEF IsInjective
<1>6. q \in Surjection(1..n, S)
  <2>1. q \in Injection(1..n, S)
      BY <1>3 DEF Injection
  <2>2. 1 \in Int /\ n \in Int
      BY <1>1
  <2>3. Cardinality(1..n) = n
      BY <1>1, <2>2, FS_Interval
  <2>4. Cardinality(1..n) = Cardinality(S)
      BY <2>3 DEF n
  <2> QED
      BY <2>1, <2>4, FS_Injection
<1>7. \A x \in S: \E i \in 1..n: q[i] = x
    BY <1>6 DEF Surjection
<1> QED
    BY <1>3, <1>4, <1>5, <1>7 DEF q

\* The results that a repair adds behind m.
Missing(h, m) == {Result(m.n, c): c \in (1..m.calls) \ Answered(h, m)}

LEMMA MissingIsFinite ==
    ASSUME NEW h \in Histories, NEW m \in Message
    PROVE  Missing(h, m) \in SUBSET Message /\ IsFiniteSet(Missing(h, m))
<1> DEFINE K == (1..m.calls) \ Answered(h, m)
           f == [c \in K |-> Result(m.n, c)]
<1>1. m.n \in Nat /\ m.calls \in Nat
    BY DEF Message
<1>2. IsFiniteSet(1..m.calls) /\ K \in SUBSET (1..m.calls)
  <2>1. 1 \in Int /\ m.calls \in Int
      BY <1>1
  <2> QED
      BY <2>1, FS_Interval
<1>3. IsFiniteSet(K)
    BY <1>2, FS_Subset
<1>4. \A c \in K: c \in Nat
    OBVIOUS
<1>5. Missing(h, m) = {Result(m.n, c): c \in K}
    BY DEF Missing
<1> HIDE DEF K
<1>6. f \in Surjection(K, Missing(h, m))
    BY <1>5 DEF Surjection
<1>7. IsFiniteSet(Missing(h, m))
    BY <1>3, <1>6, FS_Surjection
<1>8. Missing(h, m) \in SUBSET Message
    BY <1>1, <1>4, <1>5, MessagesTyped
<1> QED
    BY <1>7, <1>8

LEMMA MendedIs ==
    ASSUME NEW h \in Histories, NEW m \in Message
    PROVE  /\ Mended(h, m) \in Histories
           /\ m.role # "assistant" => Mended(h, m) = <<m>>
           /\ m.role = "assistant" =>
                 /\ SetToSeq(Missing(h, m)) \in Histories
                 /\ Mended(h, m) = Cat(<<m>>, SetToSeq(Missing(h, m)))
<1>1. SetToSeq(Missing(h, m)) \in Histories
    BY MissingIsFinite, SeqOfSet
<1>2. <<m>> \in Histories
    BY OneTyped
<1>3. m.role = "assistant" => Mended(h, m) = Cat(<<m>>, SetToSeq(Missing(h, m)))
    BY DEF Mended, Missing, Cat
<1>4. m.role # "assistant" => Mended(h, m) = <<m>>
    BY DEF Mended
<1> QED
    BY <1>1, <1>2, <1>3, <1>4, Closed

LEMMA RepairedIs ==
    ASSUME NEW h \in Histories, h # <<>>
    PROVE  \E f: /\ \A i \in 1..Len(h): f[i] \in Histories
                 /\ f[1] = Mended(h, h[1])
                 /\ \A i \in 2..Len(h): f[i] = Cat(f[i - 1], Mended(h, h[i]))
                 /\ Repaired(h) = f[Len(h)]
<1> DEFINE n == Len(h)
           s == [i \in 1..n |-> Mended(h, h[i])]
<1>1. n \in Nat \ {0} /\ DOMAIN h = 1..n /\ \A i \in 1..n: h[i] \in Message
    BY Typed DEF Histories
<1> HIDE DEF n
<1>2. \A i \in 1..n: Mended(h, h[i]) \in Histories
    BY <1>1, MendedIs
<1>3. s \in Seq(Histories) /\ Len(s) = n
    BY <1>1, <1>2
<1>4. Repaired(h) = FlattenSeq(s)
    BY <1>1 DEF Repaired
<1>5. \A i \in 1..n: s[i] = Mended(h, h[i])
    OBVIOUS
<1> HIDE DEF s
<1>6. PICK f: /\ \A i \in 1..n: f[i] \in Histories
              /\ f[1] = s[1]
              /\ \A i \in 2..n: f[i] = Cat(f[i - 1], s[i])
              /\ FlattenSeq(s) = f[n]
    BY <1>1, <1>3, FlattenIs
<1>7. f[1] = Mended(h, h[1]) /\ \A i \in 2..n: f[i] = Cat(f[i - 1], Mended(h, h[i]))
  <2>1. 1 \in 1..n /\ \A i \in 2..n: i \in 1..n
      BY <1>1
  <2> QED
      BY <1>5, <1>6, <2>1
<1> QED
    BY <1>4, <1>6, <1>7 DEF n

LEMMA RepairedNone == Repaired(<<>>) = <<>>
<1>1. Repaired(<<>>) = [i \in DOMAIN <<>> |-> Mended(<<>>, <<>>[i])]
  <2>1. Len([i \in DOMAIN <<>> |-> Mended(<<>>, <<>>[i])]) = 0
      OBVIOUS
  <2> QED
      BY <2>1 DEF Repaired, FlattenSeq
<1>2. [i \in DOMAIN <<>> |-> Mended(<<>>, <<>>[i])] = <<>>
    OBVIOUS
<1> QED
    BY <1>1, <1>2

LEMMA RepairedTyped ==
    ASSUME NEW h \in Histories
    PROVE  Repaired(h) \in Histories
<1>1. CASE h = <<>>
    BY <1>1, RepairedNone, NoneTyped
<1>2. CASE h # <<>>
  <2>1. Len(h) \in 1..Len(h)
      BY <1>2, Typed DEF Histories
  <2> QED
      BY <1>2, <2>1, RepairedIs
<1> QED
    BY <1>1, <1>2

-----------------------------------------------------------------------------
(* The type invariant.                                                     *)

LEMMA StartTyped ==
    ASSUME HistoryTypeOK, NEW r \in TurnRequests, StartTurn(r)
    PROVE  HistoryTypeOK'
<1> DEFINE user == User(count.pushed)
           base == IF turn[r].op = "rerun" THEN turn[r].cut ELSE messages
<1>1. user \in Message /\ base \in Histories /\ turn[r] \in TurnRecord
    BY HistoryFacts, MessagesTyped
<1>2. messages' = Append(base, user) /\ recent' = <<user>>
    BY DEF StartTurn
<1> HIDE DEF user, base
<1>3. messages' \in Histories /\ recent' \in Histories
    BY <1>1, <1>2, AppendTyped, OneTyped
<1>4. [turn[r] EXCEPT !.pc = "round"] \in TurnRecord
    BY <1>1, TurnsTyped, NoneTyped
<1>5. turn' \in [TurnRequests -> TurnRecord]
    BY <1>4, HistoryFacts DEF StartTurn, Goes, Set
<1>6. count' \in Tally
    BY HistoryFacts, TallyTyped DEF StartTurn, Counts
<1>7. mode' = mode /\ jsonl' = jsonl /\ compact' = compact /\ mixed' \in BOOLEAN
    BY DEF StartTurn
<1> QED
    BY <1>3, <1>5, <1>6, <1>7 DEF HistoryTypeOK, Tally

LEMMA CaptureTyped ==
    ASSUME HistoryTypeOK, NEW r \in TurnRequests, Capture(r)
    PROVE  HistoryTypeOK'
<1>0. PICK op \in {"rerun", "truncate"}, after \in BOOLEAN:
           \E cut \in Cuts(messages, after):
              Set(r, [NoTurn EXCEPT !.pc = "captured", !.op = op, !.cut = cut])
    BY DEF Capture
<1>1. PICK cut \in Cuts(messages, after):
           Set(r, [NoTurn EXCEPT !.pc = "captured", !.op = op, !.cut = cut])
    BY <1>0
<1>2. cut \in Histories
    BY CutsTyped, HistoryFacts
<1>3. [NoTurn EXCEPT !.pc = "captured", !.op = op, !.cut = cut] \in TurnRecord
    BY <1>2, TurnsTyped, NoTurnTyped, NoneTyped
<1>4. turn' \in [TurnRequests -> TurnRecord]
    BY <1>1, <1>3, HistoryFacts DEF Set
<1>5. count' \in Tally
    BY HistoryFacts, TallyTyped DEF Capture, Counts
<1> QED
    BY <1>4, <1>5 DEF HistoryTypeOK, Tally, Capture

LEMMA PassTyped ==
    ASSUME HistoryTypeOK, NEW r \in TurnRequests, Pass(r)
    PROVE  HistoryTypeOK'
<1>1. [turn[r] EXCEPT !.pc = "passed"] \in TurnRecord
    BY TurnsTyped, NoneTyped, HistoryFacts
<1>2. [NoTurn EXCEPT !.pc = "passed", !.op = "send"] \in TurnRecord
    BY TurnsTyped, NoTurnTyped, NoneTyped
<1>3. turn' \in [TurnRequests -> TurnRecord]
    BY <1>1, <1>2, HistoryFacts DEF Pass, Goes, Set
<1>4. count' \in Tally
    BY HistoryFacts, TallyTyped DEF Pass, Counts
<1> QED
    BY <1>3, <1>4 DEF HistoryTypeOK, Tally, Pass

LEMMA TruncateTyped ==
    ASSUME HistoryTypeOK, NEW r \in TurnRequests, TruncateHistory(r)
    PROVE  HistoryTypeOK'
<1>1. turn' \in [TurnRequests -> TurnRecord]
    BY NoTurnTyped, HistoryFacts DEF TruncateHistory, Set
<1>2. messages' \in Histories /\ jsonl' \in Histories /\ recent' \in Histories
    BY HistoryFacts, NoneTyped DEF TruncateHistory
<1> QED
    BY <1>1, <1>2 DEF HistoryTypeOK, TruncateHistory

LEMMA IterationTyped ==
    ASSUME HistoryTypeOK, NEW r \in TurnRequests, StartIteration(r)
    PROVE  HistoryTypeOK'
<1>1. PICK base \in {jsonl, Compacted(jsonl, "do_not_inject")},
           user \in {User(count.pushed), Daemon(count.pushed)}:
           messages' = Append(base, user) /\ recent' = <<user>>
    BY DEF StartIteration
<1>2. base \in Histories /\ user \in Message
    BY CompactedTyped, HistoryFacts, MessagesTyped DEF Policies
<1>3. messages' \in Histories /\ recent' \in Histories
    BY <1>1, <1>2, AppendTyped, OneTyped
<1>4. [turn[r] EXCEPT !.pc = "round"] \in TurnRecord
    BY TurnsTyped, NoneTyped, HistoryFacts
<1>5. turn' \in [TurnRequests -> TurnRecord]
    BY <1>4, HistoryFacts DEF StartIteration, Goes, Set
<1>6. count' \in Tally
    BY HistoryFacts, TallyTyped DEF StartIteration
<1> QED
    BY <1>3, <1>5, <1>6 DEF HistoryTypeOK, Tally, StartIteration

\* What is pushed is a history, and is pushed to both.
LEMMA PushTyped ==
    ASSUME HistoryTypeOK, NEW new \in Histories, Push(new)
    PROVE  /\ messages' \in Histories /\ recent' \in Histories
           /\ messages' = Cat(messages, new) /\ recent' = Cat(recent, new)
<1>1. messages' = Cat(messages, new) /\ recent' = Cat(recent, new)
    BY DEF Push, Cat
<1> QED
    BY <1>1, Closed, HistoryFacts

LEMMA SteerTyped ==
    ASSUME HistoryTypeOK, NEW r \in TurnRequests, SteerTurn(r)
    PROVE  HistoryTypeOK'
<1>1. User(count.pushed) \in Message
    BY HistoryFacts, MessagesTyped
<1>2. messages' \in Histories /\ recent' \in Histories
    BY <1>1, AppendTyped, OneTyped, HistoryFacts DEF SteerTurn
<1>3. [turn[r] EXCEPT !.pc = "steered"] \in TurnRecord
    BY TurnsTyped, NoneTyped, HistoryFacts
<1>4. turn' \in [TurnRequests -> TurnRecord]
    BY <1>3, HistoryFacts DEF SteerTurn, Goes, Set
<1>5. count' \in Tally
    BY HistoryFacts, TallyTyped DEF SteerTurn
<1> QED
    BY <1>2, <1>4, <1>5 DEF HistoryTypeOK, Tally, SteerTurn

LEMMA AnswersTyped ==
    ASSUME HistoryTypeOK, NEW r \in TurnRequests, ModelAnswers(r)
    PROVE  HistoryTypeOK'
<1>1. PICK calls \in 0..MaxBatch:
           /\ Push(<<Assistant(count.pushed, calls)>>)
           /\ Set(r, [turn[r] EXCEPT !.pc = "answered", !.n = count.pushed,
                                     !.calls = calls, !.next = 1])
    BY DEF ModelAnswers
<1>2. calls \in Nat /\ count.pushed \in Nat
    BY HistoryFacts, HistoryAssumption
<1>3. <<Assistant(count.pushed, calls)>> \in Histories
    BY <1>2, MessagesTyped, OneTyped
<1>4. messages' \in Histories /\ recent' \in Histories
    BY <1>1, <1>3, PushTyped
<1>5. [turn[r] EXCEPT !.pc = "answered", !.n = count.pushed, !.calls = calls, !.next = 1]
         \in TurnRecord
    BY <1>2, TurnsTyped, HistoryFacts
<1>6. turn' \in [TurnRequests -> TurnRecord]
    BY <1>1, <1>5, HistoryFacts DEF Set
<1>7. count' \in Tally
    BY HistoryFacts, TallyTyped DEF ModelAnswers, Counts
<1> QED
    BY <1>4, <1>6, <1>7 DEF HistoryTypeOK, Tally, ModelAnswers

LEMMA ProceedTyped ==
    ASSUME HistoryTypeOK, NEW r \in TurnRequests, Proceed(r)
    PROVE  HistoryTypeOK'
<1>1. messages' \in Histories
    BY CompactedTyped, HistoryFacts DEF Policies, Proceed
<1>2. \A p \in {"closing", "tool"}: [turn[r] EXCEPT !.pc = p] \in TurnRecord
    BY TurnsTyped, NoneTyped, HistoryFacts
<1>3. turn' \in [TurnRequests -> TurnRecord]
    BY <1>2, HistoryFacts DEF Proceed, Goes, Set
<1> QED
    BY <1>1, <1>3 DEF HistoryTypeOK, Proceed

\* A call that is run pushes its result and moves the turn on.
LEMMA RunIs ==
    ASSUME HistoryTypeOK, NEW r \in TurnRequests, RunCall(r)
    PROVE  \E p \in {"round", "tool", "closing"}, k \in Nat:
              /\ turn' = [turn EXCEPT ![r] = [turn[r] EXCEPT !.next = turn[r].next + 1,
                                                           !.round = k, !.pc = p]]
              /\ [turn[r] EXCEPT !.next = turn[r].next + 1, !.round = k, !.pc = p] \in TurnRecord
              /\ p = "tool" <=> turn[r].next # turn[r].calls
<1> DEFINE t == turn[r]
           last == t.next = t.calls
           k == IF last THEN t.round + 1 ELSE t.round
           p == CASE ~last -> "tool" [] last /\ t.round < MaxRounds -> "round" [] OTHER -> "closing"
<1>1. t \in TurnRecord /\ t.next \in Nat /\ t.round \in Nat
    BY HistoryFacts
<1>2. turn' = [turn EXCEPT ![r] = [t EXCEPT !.next = t.next + 1, !.round = k, !.pc = p]]
    BY DEF RunCall, Set
<1>3. k \in Nat /\ p \in {"round", "tool", "closing"} /\ (p = "tool" <=> ~last)
    BY <1>1
<1> HIDE DEF k, p
<1>4. [t EXCEPT !.next = t.next + 1, !.round = k, !.pc = p] \in TurnRecord
  <2>1. t.next + 1 \in Nat /\ 0 \in Nat
      BY <1>1
  <2> QED
      BY <1>1, <1>3, <2>1, TurnsTyped
<1> QED
    BY <1>2, <1>3, <1>4

LEMMA RunTyped ==
    ASSUME HistoryTypeOK, NEW r \in TurnRequests, RunCall(r)
    PROVE  HistoryTypeOK'
<1>1. <<Result(turn[r].n, turn[r].next)>> \in Histories
    BY HistoryFacts, MessagesTyped, OneTyped
<1>2. messages' \in Histories /\ recent' \in Histories
    BY <1>1, PushTyped DEF RunCall
<1>3. turn' \in [TurnRequests -> TurnRecord]
    BY RunIs, HistoryFacts
<1> QED
    BY <1>2, <1>3 DEF HistoryTypeOK, RunCall

LEMMA AbortTyped ==
    ASSUME HistoryTypeOK, NEW r \in TurnRequests, Abort(r)
    PROVE  HistoryTypeOK'
<1>1. <<Assistant(count.pushed, 0)>> \in Histories
    BY HistoryFacts, MessagesTyped, OneTyped
<1>2. messages' \in Histories /\ recent' \in Histories
    BY <1>1, PushTyped, HistoryFacts DEF Abort
<1>3. [turn[r] EXCEPT !.pc = "closing"] \in TurnRecord
    BY TurnsTyped, NoneTyped, HistoryFacts
<1>4. turn' \in [TurnRequests -> TurnRecord]
    BY <1>3, HistoryFacts DEF Abort, Goes, Set
<1>5. count' \in Tally
    BY HistoryFacts, TallyTyped DEF Abort, Counts
<1> QED
    BY <1>2, <1>4, <1>5 DEF HistoryTypeOK, Tally, Abort

LEMMA CloseTyped ==
    ASSUME HistoryTypeOK, NEW r \in TurnRequests, Close(r)
    PROVE  HistoryTypeOK'
<1>1. turn' \in [TurnRequests -> TurnRecord]
    BY NoTurnTyped, HistoryFacts DEF Close, Set
<1>2. count' \in Tally
    BY HistoryFacts, TallyTyped DEF Close, Counts
<1>3. User(count.pushed) \in Message
    BY HistoryFacts, MessagesTyped
<1>4. jsonl' \in Histories
    BY <1>3, AppendTyped, HistoryFacts DEF Close
<1> QED
    BY <1>1, <1>2, <1>4 DEF HistoryTypeOK, Tally, Close

LEMMA SwapTyped ==
    ASSUME HistoryTypeOK, CompactSwaps
    PROVE  HistoryTypeOK'
<1>1. Compacted(compact.snap, "do_not_inject") \in Histories
    BY CompactedTyped, HistoryFacts DEF Policies
<1>2. messages' \in Histories
    BY <1>1, HistoryFacts DEF CompactSwaps
<1>3. compact' \in [pc: {"idle", "summarizing", "flushing"}, snap: Histories]
    BY NoneTyped DEF CompactSwaps, NoCompact
<1>4. mixed' \in BOOLEAN
    BY DEF CompactSwaps
<1> QED
    BY <1>2, <1>3, <1>4 DEF HistoryTypeOK, CompactSwaps

LEMMA RestartTyped ==
    ASSUME HistoryTypeOK, ServerRestarts
    PROVE  HistoryTypeOK'
<1>1. jsonl' \in Histories /\ messages' = jsonl'
    BY RepairedTyped, HistoryFacts DEF ServerRestarts
<1>2. turn' \in [TurnRequests -> TurnRecord]
    BY NoTurnTyped DEF ServerRestarts
<1>3. compact' \in [pc: {"idle", "summarizing", "flushing"}, snap: Histories]
    BY NoneTyped DEF ServerRestarts, NoCompact
<1>4. mixed' \in BOOLEAN /\ recent' \in Histories
    BY NoneTyped DEF ServerRestarts
<1>5. count' \in Tally
    BY HistoryFacts, TallyTyped DEF ServerRestarts, Counts
<1> QED
    BY <1>1, <1>2, <1>3, <1>4, <1>5 DEF HistoryTypeOK, Tally, ServerRestarts

LEMMA HistoryStepTyped ==
    ASSUME HistoryTypeOK, [HistoryNext]_historyVars
    PROVE  HistoryTypeOK'
<1>1. ASSUME NEW r \in TurnRequests, Fails(r) PROVE HistoryTypeOK'
  <2>1. turn' \in [TurnRequests -> TurnRecord]
      BY <1>1, NoTurnTyped, HistoryFacts DEF Fails, Set
  <2> QED
      BY <1>1, <2>1 DEF HistoryTypeOK, Fails
<1>2. ASSUME NEW r \in TurnRequests, CloseBatch(r) PROVE HistoryTypeOK'
  <2>1. Results(r, turn[r].next) \in Histories
      BY BatchTyped, HistoryFacts
  <2>2. messages' \in Histories /\ recent' \in Histories
      BY <1>2, <2>1, PushTyped DEF CloseBatch
  <2>3. [turn[r] EXCEPT !.pc = "closing"] \in TurnRecord
      BY TurnsTyped, NoneTyped, HistoryFacts
  <2>4. turn' \in [TurnRequests -> TurnRecord]
      BY <1>2, <2>3, HistoryFacts DEF CloseBatch, Goes, Set
  <2> QED
      BY <1>2, <2>2, <2>4 DEF HistoryTypeOK, CloseBatch
<1>3. ASSUME CompactBegins PROVE HistoryTypeOK'
  <2>1. count' \in Tally
      BY <1>3, HistoryFacts, TallyTyped DEF CompactBegins, Counts
  <2>2. compact' \in [pc: {"idle", "summarizing", "flushing"}, snap: Histories]
      BY <1>3, HistoryFacts DEF CompactBegins
  <2> QED
      BY <1>3, <2>1, <2>2 DEF HistoryTypeOK, Tally, CompactBegins
<1>4. ASSUME CompactFlushes PROVE HistoryTypeOK'
  <2>1. compact' \in [pc: {"idle", "summarizing", "flushing"}, snap: Histories]
      BY <1>4, NoneTyped DEF CompactFlushes, NoCompact
  <2> QED
      BY <1>4, <2>1 DEF HistoryTypeOK, CompactFlushes
<1>5. ASSUME UNCHANGED historyVars PROVE HistoryTypeOK'
    BY <1>5 DEF HistoryTypeOK, historyVars
<1> QED
    BY <1>1, <1>2, <1>3, <1>4, <1>5, StartTyped, CaptureTyped, PassTyped, TruncateTyped,
        IterationTyped, SteerTyped, AnswersTyped, ProceedTyped, RunTyped, AbortTyped,
        CloseTyped, SwapTyped, RestartTyped
    DEF HistoryNext

-----------------------------------------------------------------------------
(* A turn is kept.                                                         *)

TurnKept ==
    mixed \/ /\ EndsWith(recent, messages) /\ OneTurn(recent)
             /\ RunningTurns # {} => recent # <<>>

LEMMA BeginKeeps ==
    ASSUME NEW base \in Histories, NEW user \in Message, user.role = "user"
    PROVE  EndsWith(<<user>>, Append(base, user)) /\ OneTurn(<<user>>) /\ <<user>> # <<>>
<1>1. Append(base, user) = Cat(base, <<user>>)
    BY AppendTyped
<1>2. OneTurn(<<user>>) /\ <<user>> # <<>>
    BY DEF OneTurn
<1> QED
    BY <1>1, <1>2 DEF EndsWith

LEMMA PushKeeps ==
    ASSUME NEW s \in Histories, NEW h \in Histories, NEW new \in Histories,
           EndsWith(s, h), OneTurn(s), s # <<>>,
           \A i \in 1..Len(new): new[i].role # "user"
    PROVE  EndsWith(Cat(s, new), Cat(h, new)) /\ OneTurn(Cat(s, new)) /\ Cat(s, new) # <<>>
<1>1. PICK p \in Histories: h = Cat(p, s)
    BY DEF EndsWith
<1>2. EndsWith(Cat(s, new), Cat(h, new))
    BY <1>1, Assoc DEF EndsWith
<1> DEFINE u == Cat(s, new)
<1>3. /\ u \in Histories /\ Len(u) = Len(s) + Len(new) /\ Len(s) \in Nat /\ Len(new) \in Nat
      /\ \A i \in 1..Len(s): u[i] = s[i]
      /\ \A i \in 1..Len(new): u[Len(s) + i] = new[i]
    BY Joined, Closed
<1>4. Len(s) > 0
    BY <1>3 DEF Histories
<1> HIDE DEF u
<1>5. u[1].role = "user" /\ u # <<>>
  <2>1. 1 \in 1..Len(s) /\ Len(u) > 0
      BY <1>3, <1>4
  <2>2. u # <<>>
      BY <1>3, <2>1 DEF Histories
  <2> QED
      BY <1>3, <2>1, <2>2 DEF OneTurn
<1>6. ASSUME NEW i \in 2..Len(u) PROVE u[i].role # "user"
  <2>1. CASE i <= Len(s)
    <3>1. i \in 2..Len(s) /\ i \in 1..Len(s)
        BY <1>3, <2>1
    <3> QED
        BY <1>3, <3>1 DEF OneTurn
  <2>2. CASE i > Len(s)
    <3>1. i - Len(s) \in 1..Len(new) /\ i = Len(s) + (i - Len(s))
        BY <1>3, <2>2
    <3>2. u[i] = new[i - Len(s)]
        BY <1>3, <3>1
    <3> QED
        BY <3>1, <3>2
  <2> QED
      BY <1>3, <2>1, <2>2
<1> QED
    BY <1>2, <1>5, <1>6 DEF OneTurn, u

\* A step that pushes no user message.
LEMMA PushStepKeeps ==
    ASSUME HistoryTypeOK, TurnKept, NEW r \in RunningTurns, NEW new \in Histories, Push(new),
           \A i \in 1..Len(new): new[i].role # "user", mixed' = mixed
    PROVE  TurnKept'
<1>1. messages' = Cat(messages, new) /\ recent' = Cat(recent, new)
    BY PushTyped
<1>2. CASE ~mixed
  <2>1. EndsWith(recent, messages) /\ OneTurn(recent) /\ recent # <<>>
      BY <1>2 DEF TurnKept
  <2>2. EndsWith(Cat(recent, new), Cat(messages, new)) /\ OneTurn(Cat(recent, new))
        /\ Cat(recent, new) # <<>>
      BY <2>1, PushKeeps, HistoryFacts
  <2> QED
      BY <1>1, <2>2 DEF TurnKept, EndsWith, OneTurn
<1> QED
    BY <1>2 DEF TurnKept, HistoryTypeOK

\* A step of turns that are not running leaves the running ones alone.
LEMMA IdleStepKeeps ==
    ASSUME HistoryTypeOK, TurnKept, RunningTurns' \subseteq RunningTurns,
           UNCHANGED <<messages, recent, mixed>>
    PROVE  TurnKept'
BY DEF TurnKept, EndsWith, OneTurn

LEMMA RunningIs ==
    HistoryTypeOK =>
       \A r \in TurnRequests: r \in RunningTurns
          <=> turn[r].pc \in {"round", "steered", "answered", "tool", "closing"}
BY HistoryFacts DEF RunningTurns, TurnRecord

LEMMA TurnKeptStep ==
    ASSUME HistoryTypeOK, HistoryTypeOK', TurnKept, [HistoryNext]_historyVars
    PROVE  TurnKept'
<1>1. ASSUME NEW r \in TurnRequests, Capture(r) PROVE TurnKept'
  <2>1. PICK t \in TurnRecord: turn' = [turn EXCEPT ![r] = t] /\ t.pc = "captured"
    <3>1. PICK op \in {"rerun", "truncate"}, after \in BOOLEAN:
             \E cut \in Cuts(messages, after):
                Set(r, [NoTurn EXCEPT !.pc = "captured", !.op = op, !.cut = cut])
        BY <1>1 DEF Capture
    <3>2. PICK cut \in Cuts(messages, after):
             Set(r, [NoTurn EXCEPT !.pc = "captured", !.op = op, !.cut = cut])
        BY <3>1
    <3>3. cut \in Histories
        BY CutsTyped, HistoryFacts
    <3>4. [NoTurn EXCEPT !.pc = "captured", !.op = op, !.cut = cut] \in TurnRecord
        BY <3>3, TurnsTyped, NoTurnTyped, NoneTyped
    <3>5. [NoTurn EXCEPT !.pc = "captured", !.op = op, !.cut = cut].pc = "captured"
        BY DEF NoTurn
    <3> QED
        BY <3>2, <3>4, <3>5 DEF Set
  <2>2. RunningTurns' \subseteq RunningTurns
      BY <2>1, HistoryFacts DEF RunningTurns
  <2> QED
      BY <1>1, <2>2, IdleStepKeeps DEF Capture
<1>2. ASSUME NEW r \in TurnRequests, Pass(r) PROVE TurnKept'
  <2>1. turn'[r].pc = "passed" /\ \A q \in TurnRequests: q # r => turn'[q] = turn[q]
    <3>1. turn \in [TurnRequests -> TurnRecord] /\ turn[r] \in TurnRecord
        BY HistoryFacts
    <3>2. PICK t: /\ turn' = [turn EXCEPT ![r] = t]
                  /\ \/ t = [turn[r] EXCEPT !.pc = "passed"]
                     \/ t = [NoTurn EXCEPT !.pc = "passed", !.op = "send"]
        BY <1>2 DEF Pass, Goes, Set
    <3>3. /\ [turn[r] EXCEPT !.pc = "passed"].pc = "passed"
          /\ [NoTurn EXCEPT !.pc = "passed", !.op = "send"].pc = "passed"
        BY <3>1 DEF NoTurn, TurnRecord
    <3>4. t.pc = "passed"
        BY <3>2, <3>3
    <3> QED
        BY <3>1, <3>2, <3>4
  <2>2. RunningTurns' \subseteq RunningTurns
      BY <2>1 DEF RunningTurns
  <2> QED
      BY <1>2, <2>2, IdleStepKeeps DEF Pass
<1>3. ASSUME NEW r \in TurnRequests, Fails(r) \/ Close(r) PROVE TurnKept'
  <2>1. turn'[r].pc = "idle" /\ \A q \in TurnRequests: q # r => turn'[q] = turn[q]
      BY <1>3, HistoryFacts DEF Fails, Close, Set, NoTurn
  <2>2. RunningTurns' \subseteq RunningTurns
      BY <2>1 DEF RunningTurns
  <2> QED
      BY <1>3, <2>2, IdleStepKeeps DEF Fails, Close
<1>4. ASSUME NEW r \in TurnRequests, TruncateHistory(r) PROVE TurnKept'
  <2>1. mixed' = (mixed \/ RunningTurns # {}) /\ recent' = <<>> /\ messages' = turn[r].cut
      BY <1>4 DEF TruncateHistory
  <2>2. turn'[r].pc = "idle" /\ \A q \in TurnRequests: q # r => turn'[q] = turn[q]
      BY <1>4, HistoryFacts DEF TruncateHistory, Set, NoTurn
  <2>3. RunningTurns' \subseteq RunningTurns
      BY <2>2 DEF RunningTurns
  <2>4. EndsWith(<<>>, turn[r].cut) /\ OneTurn(<<>>)
    <3>1. turn[r].cut \in Histories
        BY HistoryFacts
    <3> QED
        BY <3>1, Unit DEF EndsWith, OneTurn
  <2> QED
      BY <2>1, <2>3, <2>4 DEF TurnKept, EndsWith, OneTurn
<1>5. ASSUME NEW r \in TurnRequests, StartTurn(r) \/ StartIteration(r) \/ SteerTurn(r)
      PROVE  TurnKept'
  <2>1. PICK base \in Histories, user \in Message:
             user.role = "user" /\ messages' = Append(base, user) /\ recent' = <<user>>
    <3>1. /\ User(count.pushed) \in Message /\ Daemon(count.pushed) \in Message
          /\ User(count.pushed).role = "user" /\ Daemon(count.pushed).role = "user"
        BY HistoryFacts, MessagesTyped DEF User, Daemon
    <3>2. /\ messages \in Histories /\ jsonl \in Histories /\ turn[r].cut \in Histories
          /\ Compacted(jsonl, "do_not_inject") \in Histories
        BY HistoryFacts, CompactedTyped DEF Policies
    <3>3. CASE StartTurn(r)
        BY <3>1, <3>2, <3>3 DEF StartTurn
    <3>4. CASE StartIteration(r)
        BY <3>1, <3>2, <3>4 DEF StartIteration
    <3>5. CASE SteerTurn(r)
        BY <3>1, <3>2, <3>5 DEF SteerTurn
    <3> QED
        BY <1>5, <3>3, <3>4, <3>5
  <2>2. EndsWith(<<user>>, Append(base, user)) /\ OneTurn(<<user>>) /\ <<user>> # <<>>
      BY <2>1, BeginKeeps
  <2> QED
      BY <2>1, <2>2 DEF TurnKept, EndsWith, OneTurn
<1>6. ASSUME NEW r \in TurnRequests, ModelAnswers(r) PROVE TurnKept'
  <2>1. PICK calls \in 0..MaxBatch: Push(<<Assistant(count.pushed, calls)>>)
      BY <1>6 DEF ModelAnswers
  <2>2. calls \in Nat /\ count.pushed \in Nat
      BY HistoryFacts, HistoryAssumption
  <2>3. PICK new \in Histories: /\ new = <<Assistant(count.pushed, calls)>>
                                /\ \A i \in 1..Len(new): new[i].role # "user"
    <3>1. <<Assistant(count.pushed, calls)>> \in Histories
        BY <2>2, MessagesTyped, OneTyped
    <3>2. \A i \in 1..1: <<Assistant(count.pushed, calls)>>[i].role # "user"
        BY DEF Assistant
    <3> QED
        BY <3>1, <3>2
  <2>4. r \in RunningTurns /\ mixed' = mixed
      BY <1>6, RunningIs DEF ModelAnswers
  <2> QED
      BY <2>1, <2>3, <2>4, PushStepKeeps
<1>7. ASSUME NEW r \in TurnRequests, Proceed(r) PROVE TurnKept'
  <2>1. r \in RunningTurns
      BY <1>7, RunningIs DEF Proceed
  <2>2. messages' \in {messages, Compacted(messages, "before_last_user_message")}
        /\ recent' = recent /\ mixed' = mixed
      BY <1>7 DEF Proceed
  <2>3. CASE ~mixed
    <3>1. EndsWith(recent, messages) /\ OneTurn(recent) /\ recent # <<>>
        BY <2>1, <2>3 DEF TurnKept
    <3>2. EndsWith(recent, Compacted(messages, "before_last_user_message"))
        BY <3>1, CompactedKeepsTurn, HistoryFacts DEF Policies
    <3>3. EndsWith(recent, messages')
        BY <2>2, <3>1, <3>2
    <3> QED
        BY <2>2, <3>1, <3>3 DEF TurnKept, EndsWith, OneTurn
  <2> QED
      BY <2>2, <2>3 DEF TurnKept, HistoryTypeOK
<1>8. ASSUME NEW r \in TurnRequests, RunCall(r) PROVE TurnKept'
  <2>1. PICK new \in Histories: /\ new = <<Result(turn[r].n, turn[r].next)>>
                                /\ \A i \in 1..Len(new): new[i].role # "user"
    <3>1. <<Result(turn[r].n, turn[r].next)>> \in Histories
        BY HistoryFacts, MessagesTyped, OneTyped
    <3>2. \A i \in 1..1: <<Result(turn[r].n, turn[r].next)>>[i].role # "user"
        BY DEF Result
    <3> QED
        BY <3>1, <3>2
  <2>2. r \in RunningTurns /\ mixed' = mixed /\ Push(<<Result(turn[r].n, turn[r].next)>>)
      BY <1>8, RunningIs DEF RunCall
  <2> QED
      BY <2>1, <2>2, PushStepKeeps
<1>9. ASSUME NEW r \in TurnRequests, CloseBatch(r) PROVE TurnKept'
  <2>1. PICK new \in Histories: /\ new = Results(r, turn[r].next)
                                /\ \A i \in 1..Len(new): new[i].role # "user"
    <3>1. Results(r, turn[r].next) \in Histories
        BY BatchTyped, HistoryFacts
    <3>2. \A i \in 1..Len(Results(r, turn[r].next)): Results(r, turn[r].next)[i].role = "tool"
      <4>1. DOMAIN Results(r, turn[r].next) = 1..Len(Results(r, turn[r].next))
          BY <3>1, Typed
      <4>2. DOMAIN Results(r, turn[r].next) = 1..turn[r].calls - turn[r].next + 1
          BY DEF Results
      <4> QED
          BY <4>1, <4>2 DEF Results, Result
    <3> QED
        BY <3>1, <3>2
  <2>2. r \in RunningTurns /\ mixed' = mixed /\ Push(Results(r, turn[r].next))
      BY <1>9, RunningIs DEF CloseBatch
  <2> QED
      BY <2>1, <2>2, PushStepKeeps
<1>10. ASSUME NEW r \in TurnRequests, Abort(r) PROVE TurnKept'
  <2>1. r \in RunningTurns /\ mixed' = mixed
      BY <1>10, RunningIs DEF Abort
  <2>2. CASE Push(<<Assistant(count.pushed, 0)>>)
    <3>1. PICK new \in Histories: /\ new = <<Assistant(count.pushed, 0)>>
                                  /\ \A i \in 1..Len(new): new[i].role # "user"
      <4>1. <<Assistant(count.pushed, 0)>> \in Histories
          BY HistoryFacts, MessagesTyped, OneTyped
      <4>2. \A i \in 1..1: <<Assistant(count.pushed, 0)>>[i].role # "user"
          BY DEF Assistant
      <4> QED
          BY <4>1, <4>2
    <3> QED
        BY <2>1, <2>2, <3>1, PushStepKeeps
  <2>3. CASE UNCHANGED <<messages, recent>>
    <3>1. RunningTurns' \subseteq RunningTurns
      <4>1. \A q \in TurnRequests: q # r => turn'[q] = turn[q]
          BY <1>10, HistoryFacts DEF Abort, Goes, Set
      <4> QED
          BY <2>1, <4>1 DEF RunningTurns
    <3> QED
        BY <2>1, <2>3, <3>1, IdleStepKeeps
  <2> QED
      BY <1>10, <2>2, <2>3 DEF Abort
<1>11. ASSUME CompactSwaps PROVE TurnKept'
  <2> DEFINE new == Compacted(compact.snap, "do_not_inject")
  <2>1. /\ messages' = IF new = compact.snap THEN messages ELSE new
        /\ mixed' = (mixed \/ (new # compact.snap /\ messages # compact.snap))
        /\ recent' = recent /\ turn' = turn
      BY <1>11 DEF CompactSwaps
  <2>2. RunningTurns' = RunningTurns
      BY <2>1 DEF RunningTurns
  <2>3. CASE ~mixed'
    <3>1. EndsWith(recent, messages) /\ OneTurn(recent) /\ (RunningTurns # {} => recent # <<>>)
        BY <2>1, <2>3 DEF TurnKept
    <3>2. EndsWith(recent, Compacted(messages, "do_not_inject"))
        BY <3>1, CompactedKeepsTurn, HistoryFacts DEF Policies
    <3>3. messages' = messages \/ messages' = Compacted(messages, "do_not_inject")
        BY <2>1, <2>3
    <3>4. EndsWith(recent, messages')
        BY <3>1, <3>2, <3>3
    <3> HIDE DEF new
    <3> QED
        BY <2>1, <2>2, <3>1, <3>4 DEF TurnKept, EndsWith, OneTurn
  <2> QED
      BY <2>3 DEF TurnKept
<1>12. ASSUME ServerRestarts PROVE TurnKept'
  <2>1. recent' = <<>> /\ messages' \in Histories
      BY <1>12 DEF ServerRestarts, HistoryTypeOK
  <2>2. RunningTurns' = {}
      BY <1>12 DEF ServerRestarts, RunningTurns, NoTurn
  <2>3. Cat(messages', <<>>) = messages' /\ OneTurn(<<>>)
      BY <2>1, Unit DEF OneTurn
  <2> QED
      BY <2>1, <2>2, <2>3 DEF TurnKept, EndsWith, OneTurn
<1>13. ASSUME CompactBegins \/ CompactFlushes \/ UNCHANGED historyVars PROVE TurnKept'
  <2>1. UNCHANGED <<messages, recent, mixed, turn>>
      BY <1>13 DEF CompactBegins, CompactFlushes, historyVars
  <2> QED
      BY <2>1, IdleStepKeeps DEF RunningTurns
<1> QED
    BY <1>1, <1>2, <1>3, <1>4, <1>5, <1>6, <1>7, <1>8, <1>9, <1>10, <1>11, <1>12, <1>13
    DEF HistoryNext

LEMMA HistoryBegins == HistoryInit => HistoryTypeOK /\ TurnKept
<1> SUFFICES ASSUME HistoryInit PROVE HistoryTypeOK /\ TurnKept
    OBVIOUS
<1>1. Prompt \in Message
    BY DEF Prompt, Message
<1>2. messages \in Histories /\ jsonl \in Histories
    BY <1>1, OneTyped DEF HistoryInit
<1>3. turn \in [TurnRequests -> TurnRecord] /\ recent \in Histories
    BY NoTurnTyped, NoneTyped DEF HistoryInit
<1>4. compact \in [pc: {"idle", "summarizing", "flushing"}, snap: Histories]
    BY NoneTyped DEF HistoryInit, NoCompact
<1>5. HistoryTypeOK
    BY <1>2, <1>3, <1>4 DEF HistoryInit, HistoryTypeOK
<1>6. RunningTurns = {} /\ recent = <<>>
    BY DEF HistoryInit, RunningTurns, NoTurn
<1>7. Cat(messages, <<>>) = messages
    BY <1>2, Unit
<1> QED
    BY <1>2, <1>5, <1>6, <1>7 DEF TurnKept, EndsWith, OneTurn

\* Each record of a conversation is a history: sequences of messages, also
\* what compactions, cuts and repairs leave of them.
THEOREM HistoryTypeInvariance == HistorySpec => []HistoryTypeOK
<1>1. HistoryInit => HistoryTypeOK
    BY HistoryBegins
<1>2. HistoryTypeOK /\ [HistoryNext]_historyVars => HistoryTypeOK'
    BY HistoryStepTyped
<1> QED
    BY <1>1, <1>2, PTL DEF HistorySpec

\* A compaction never touches what the turn at hand has added since its last
\* user message, that message included, however many rounds are kept: the
\* tail that stays begins at a user message (KeepStart), so at or before the
\* turn's, and the summary goes in front of the last one (SummaryPlace).
THEOREM TurnStaysKept == HistorySpec => []TurnIsKept
<1>1. HistoryInit => TurnKept
    BY HistoryBegins
<1>2. HistoryTypeOK /\ HistoryTypeOK' /\ TurnKept /\ [HistoryNext]_historyVars => TurnKept'
    BY TurnKeptStep
<1>3. HistoryTypeOK /\ TurnKept => TurnIsKept
    BY EndIsSuffix, HistoryFacts DEF TurnKept, TurnIsKept
<1> QED
    BY <1>1, <1>2, <1>3, HistoryTypeInvariance, PTL DEF HistorySpec

-----------------------------------------------------------------------------
(* What follows a call, and how validity composes.                         *)

\* right behind i are the results of n's k calls, in any order
Batch(h, i, n, k) ==
    /\ i + k <= Len(h)
    /\ \A j \in (i + 1)..(i + k): \E c \in 1..k: h[j] = Result(n, c)
    /\ \A c \in 1..k: \E j \in (i + 1)..(i + k): h[j] = Result(n, c)

\* the i-th message is one of the results of the call at j
Follows(h, j, i) ==
    h[j].role = "assistant" /\ h[j].n = h[i].n /\ i <= j + h[j].calls

Valid(h) ==
    \A i \in 1..Len(h):
       /\ h[i].role = "assistant" => Batch(h, i, h[i].n, h[i].calls)
       /\ h[i].role = "tool" => \E j \in 1..(i - 1): Follows(h, j, i)

LEMMA NoneValid == Valid(<<>>)
BY DEF Valid

LEMMA BatchLeft ==
    ASSUME NEW s \in Histories, NEW t \in Histories, NEW i \in 1..Len(s), NEW n \in Nat,
           NEW k \in Nat, i + k <= Len(s)
    PROVE  Batch(s, i, n, k) <=> Batch(Cat(s, t), i, n, k)
<1> DEFINE h == Cat(s, t)
<1>1. /\ Len(h) = Len(s) + Len(t) /\ Len(s) \in Nat /\ Len(t) \in Nat
      /\ \A j \in 1..Len(s): h[j] = s[j]
    BY Joined
<1> HIDE DEF h
<1>2. i + k <= Len(h)
    BY <1>1
<1>3. \A j \in (i + 1)..(i + k): h[j] = s[j]
  <2>1. \A j \in (i + 1)..(i + k): j \in 1..Len(s)
      BY <1>1
  <2> QED
      BY <1>1, <2>1
<1> QED
    BY <1>2, <1>3 DEF Batch, h

LEMMA BatchRight ==
    ASSUME NEW s \in Histories, NEW t \in Histories, NEW x \in 1..Len(t), NEW n \in Nat,
           NEW k \in Nat
    PROVE  Batch(t, x, n, k) <=> Batch(Cat(s, t), Len(s) + x, n, k)
<1> DEFINE h == Cat(s, t)
           i == Len(s) + x
<1>1. /\ Len(h) = Len(s) + Len(t) /\ Len(s) \in Nat /\ Len(t) \in Nat
      /\ \A j \in 1..Len(t): h[Len(s) + j] = t[j]
    BY Joined
<1> HIDE DEF h
<1>2. x + k <= Len(t) <=> i + k <= Len(h)
    BY <1>1
<1>3. ASSUME x + k <= Len(t), NEW j \in (i + 1)..(i + k)
      PROVE  j - Len(s) \in (x + 1)..(x + k) /\ h[j] = t[j - Len(s)]
  <2>1. j - Len(s) \in (x + 1)..(x + k) /\ j - Len(s) \in 1..Len(t)
        /\ j = Len(s) + (j - Len(s))
      BY <1>1, <1>3
  <2> QED
      BY <1>1, <2>1
<1>4. ASSUME x + k <= Len(t), NEW y \in (x + 1)..(x + k)
      PROVE  Len(s) + y \in (i + 1)..(i + k) /\ h[Len(s) + y] = t[y]
  <2>1. Len(s) + y \in (i + 1)..(i + k) /\ y \in 1..Len(t)
      BY <1>1, <1>4
  <2> QED
      BY <1>1, <2>1
<1> HIDE DEF i
<1>5. ASSUME Batch(t, x, n, k) PROVE Batch(h, i, n, k)
  <2>1. \A j \in (i + 1)..(i + k): \E c \in 1..k: h[j] = Result(n, c)
      BY <1>3, <1>5 DEF Batch
  <2>2. \A c \in 1..k: \E j \in (i + 1)..(i + k): h[j] = Result(n, c)
      BY <1>4, <1>5 DEF Batch
  <2> QED
      BY <1>2, <1>5, <2>1, <2>2 DEF Batch
<1>6. ASSUME Batch(h, i, n, k) PROVE Batch(t, x, n, k)
  <2>0. x + k <= Len(t)
      BY <1>2, <1>6 DEF Batch
  <2>1. \A y \in (x + 1)..(x + k): \E c \in 1..k: t[y] = Result(n, c)
      BY <1>4, <1>6, <2>0 DEF Batch
  <2>2. \A c \in 1..k: \E y \in (x + 1)..(x + k): t[y] = Result(n, c)
      BY <1>3, <1>6, <2>0 DEF Batch
  <2> QED
      BY <2>0, <2>1, <2>2 DEF Batch
<1> QED
    BY <1>5, <1>6 DEF h, i

LEMMA FollowsLeft ==
    ASSUME NEW s \in Histories, NEW t \in Histories, NEW i \in 1..Len(s), NEW j \in 1..Len(s)
    PROVE  Follows(s, j, i) <=> Follows(Cat(s, t), j, i)
BY Joined DEF Follows

LEMMA FollowsRight ==
    ASSUME NEW s \in Histories, NEW t \in Histories, NEW i \in 1..Len(t), NEW j \in 1..Len(t)
    PROVE  Follows(t, j, i) <=> Follows(Cat(s, t), Len(s) + j, Len(s) + i)
<1>1. /\ Cat(s, t)[Len(s) + i] = t[i] /\ Cat(s, t)[Len(s) + j] = t[j]
      /\ Len(s) \in Nat /\ Len(t) \in Nat /\ t[j].calls \in Nat
    BY Joined, Typed
<1> HIDE DEF Cat
<1>2. i <= j + t[j].calls <=> Len(s) + i <= (Len(s) + j) + t[j].calls
    BY <1>1
<1> QED
    BY <1>1, <1>2 DEF Follows

\* An index of a joined history is one of its left or of its right part.
LEMMA Sides ==
    ASSUME NEW s \in Histories, NEW t \in Histories, NEW i \in 1..Len(Cat(s, t))
    PROVE  i \in 1..Len(s) \/ \E x \in 1..Len(t): i = Len(s) + x
<1>1. Len(Cat(s, t)) = Len(s) + Len(t) /\ Len(s) \in Nat /\ Len(t) \in Nat
    BY Joined
<1>2. CASE i > Len(s)
  <2>1. i - Len(s) \in 1..Len(t) /\ i = Len(s) + (i - Len(s))
      BY <1>1, <1>2
  <2> QED
      BY <2>1
<1> QED
    BY <1>1, <1>2

LEMMA ValidJoin ==
    ASSUME NEW s \in Histories, NEW t \in Histories, Valid(s), Valid(t)
    PROVE  Valid(Cat(s, t))
<1> DEFINE h == Cat(s, t)
<1>1. /\ Len(s) \in Nat /\ Len(t) \in Nat
      /\ \A i \in 1..Len(s): h[i] = s[i]
      /\ \A i \in 1..Len(t): h[Len(s) + i] = t[i]
    BY Joined
<1>2. /\ \A i \in 1..Len(s): s[i].calls \in Nat /\ s[i].n \in Nat
      /\ \A i \in 1..Len(t): t[i].calls \in Nat /\ t[i].n \in Nat
    BY Typed
<1>3. ASSUME NEW i \in 1..Len(s)
      PROVE  /\ h[i].role = "assistant" => Batch(h, i, h[i].n, h[i].calls)
             /\ h[i].role = "tool" => \E j \in 1..(i - 1): Follows(h, j, i)
  <2>1. CASE s[i].role = "assistant"
    <3>1. Batch(s, i, s[i].n, s[i].calls)
        BY <2>1 DEF Valid
    <3>2. i + s[i].calls <= Len(s)
        BY <3>1 DEF Batch
    <3> QED
        BY <1>1, <1>2, <2>1, <3>1, <3>2, BatchLeft
  <2>2. CASE s[i].role = "tool"
    <3>1. PICK j \in 1..(i - 1): Follows(s, j, i)
        BY <2>2 DEF Valid
    <3>2. j \in 1..Len(s)
        BY <1>1
    <3> QED
        BY <1>1, <2>2, <3>1, <3>2, FollowsLeft
  <2> QED
      BY <1>1, <2>1, <2>2
<1>4. ASSUME NEW x \in 1..Len(t), NEW i \in Nat, i = Len(s) + x
      PROVE  /\ h[i].role = "assistant" => Batch(h, i, h[i].n, h[i].calls)
             /\ h[i].role = "tool" => \E j \in 1..(i - 1): Follows(h, j, i)
  <2>0. h[i] = t[x]
      BY <1>1, <1>4
  <2>1. CASE t[x].role = "assistant"
    <3>1. Batch(t, x, t[x].n, t[x].calls)
        BY <2>1 DEF Valid
    <3> QED
        BY <1>2, <1>4, <2>0, <2>1, <3>1, BatchRight
  <2>2. CASE t[x].role = "tool"
    <3>1. PICK j \in 1..(x - 1): Follows(t, j, x)
        BY <2>2 DEF Valid
    <3>2. j \in 1..Len(t) /\ Len(s) + j \in 1..(i - 1)
        BY <1>1, <1>4
    <3>3. Follows(h, Len(s) + j, i)
        BY <1>4, <3>1, <3>2, FollowsRight
    <3> QED
        BY <2>0, <2>2, <3>2, <3>3
  <2> QED
      BY <2>0, <2>1, <2>2
<1>5. \A i \in 1..Len(h): i \in 1..Len(s) \/ \E x \in 1..Len(t): i = Len(s) + x
    BY Sides
<1> HIDE DEF h
<1>6. ASSUME NEW i \in 1..Len(h)
      PROVE  /\ h[i].role = "assistant" => Batch(h, i, h[i].n, h[i].calls)
             /\ h[i].role = "tool" => \E j \in 1..(i - 1): Follows(h, j, i)
  <2>1. CASE i \in 1..Len(s)
      BY <1>3, <2>1
  <2>2. CASE i \notin 1..Len(s)
    <3>1. PICK x \in 1..Len(t): i = Len(s) + x
        BY <1>5, <2>2
    <3>2. i \in Nat
        OBVIOUS
    <3> QED
        BY <1>4, <3>1, <3>2
  <2> QED
      BY <2>1, <2>2
<1>7. Valid(h)
    BY <1>6 DEF Valid
<1> QED
    BY <1>7 DEF h

\* A history can be cut before any message that is not a result.
LEMMA ValidSplit ==
    ASSUME NEW s \in Histories, NEW t \in Histories, Valid(Cat(s, t)),
           t # <<>> => t[1].role # "tool"
    PROVE  Valid(s) /\ Valid(t)
<1> DEFINE h == Cat(s, t)
<1>1. /\ Len(h) = Len(s) + Len(t) /\ Len(s) \in Nat /\ Len(t) \in Nat
      /\ \A i \in 1..Len(s): h[i] = s[i]
      /\ \A i \in 1..Len(t): h[Len(s) + i] = t[i]
      /\ h \in Histories
    BY Joined, Closed
<1>2. /\ \A i \in 1..Len(s): s[i].calls \in Nat /\ s[i].n \in Nat
      /\ \A i \in 1..Len(t): t[i].calls \in Nat /\ t[i].n \in Nat
    BY Typed
<1>3. /\ \A i \in 1..Len(h): h[i].role = "assistant" => Batch(h, i, h[i].n, h[i].calls)
      /\ \A i \in 1..Len(h): h[i].role = "tool" => \E j \in 1..(i - 1): Follows(h, j, i)
    BY DEF Valid
<1>4. Len(t) > 0 => h[Len(s) + 1].role # "tool"
  <2>1. Len(t) > 0 => t # <<>> /\ 1 \in 1..Len(t)
      BY <1>1 DEF Histories
  <2> QED
      BY <1>1, <2>1
\* no batch crosses the cut
<1>5. ASSUME NEW i \in 1..Len(s), s[i].role = "assistant"
      PROVE  i + s[i].calls <= Len(s) /\ Batch(s, i, s[i].n, s[i].calls)
  <2> DEFINE k == s[i].calls
             n == s[i].n
  <2>1. i \in 1..Len(h) /\ h[i] = s[i] /\ k \in Nat /\ n \in Nat
      BY <1>1, <1>2
  <2>2. Batch(h, i, n, k)
      BY <1>3, <1>5, <2>1
  <2> HIDE DEF h, k, n
  <2>3. /\ i + k <= Len(h)
        /\ \A j \in (i + 1)..(i + k): \E c \in 1..k: h[j] = Result(n, c)
      BY <2>2 DEF Batch
  <2>4. ASSUME i + k > Len(s) PROVE FALSE
    <3>1. Len(s) + 1 \in (i + 1)..(i + k) /\ Len(t) > 0
        BY <1>1, <2>1, <2>3, <2>4
    <3>2. PICK c \in 1..k: h[Len(s) + 1] = Result(n, c)
        BY <2>3, <3>1
    <3>3. Result(n, c).role = "tool"
        BY DEF Result
    <3> QED
        BY <1>4, <3>1, <3>2, <3>3
  <2>5. i + k <= Len(s)
      BY <1>1, <2>1, <2>4
  <2> QED
      BY <2>1, <2>2, <2>5, BatchLeft DEF h, k, n
<1>6. ASSUME NEW i \in 1..Len(s), s[i].role = "tool"
      PROVE  \E j \in 1..(i - 1): Follows(s, j, i)
  <2>1. PICK j \in 1..(i - 1): Follows(h, j, i)
      BY <1>1, <1>3, <1>6
  <2>2. j \in 1..Len(s)
      BY <1>1
  <2> QED
      BY <2>1, <2>2, FollowsLeft
<1>7. ASSUME NEW x \in 1..Len(t), t[x].role = "assistant"
      PROVE  Batch(t, x, t[x].n, t[x].calls)
  <2>1. Len(s) + x \in 1..Len(h) /\ h[Len(s) + x] = t[x]
      BY <1>1
  <2>2. Batch(h, Len(s) + x, t[x].n, t[x].calls)
      BY <1>3, <1>7, <2>1
  <2> QED
      BY <1>2, <2>2, BatchRight
<1>8. ASSUME NEW x \in 1..Len(t), t[x].role = "tool"
      PROVE  \E y \in 1..(x - 1): Follows(t, y, x)
  <2> DEFINE i == Len(s) + x
  <2>1. i \in 1..Len(h) /\ h[i] = t[x]
      BY <1>1
  <2>2. PICK j \in 1..(i - 1): Follows(h, j, i)
      BY <1>3, <1>8, <2>1
  <2>3. ASSUME j <= Len(s) PROVE FALSE
    <3>1. j \in 1..Len(s) /\ h[j] = s[j]
        BY <1>1, <2>3
    <3>2. s[j].role = "assistant" /\ i <= j + s[j].calls
        BY <2>2, <3>1 DEF Follows
    <3>3. j + s[j].calls <= Len(s) /\ s[j].calls \in Nat
        BY <1>2, <1>5, <3>1, <3>2
    <3> QED
        BY <1>1, <3>2, <3>3
  <2>4. j - Len(s) \in 1..Len(t) /\ j - Len(s) \in 1..(x - 1) /\ j = Len(s) + (j - Len(s))
      BY <1>1, <2>3
  <2>5. Follows(t, j - Len(s), x)
      BY <2>2, <2>4, FollowsRight
  <2> QED
      BY <2>4, <2>5
<1> QED
    BY <1>5, <1>6, <1>7, <1>8 DEF Valid

LEMMA PlainValid ==
    ASSUME NEW s \in Histories, \A i \in 1..Len(s): s[i].role \in {"system", "user"}
    PROVE  Valid(s)
BY DEF Valid

LEMMA Starts ==
    ASSUME NEW s \in Histories, NEW t \in Histories, s # <<>>
    PROVE  Cat(s, t) # <<>> /\ Cat(s, t)[1] = s[1]
<1>1. /\ Len(Cat(s, t)) = Len(s) + Len(t) /\ Len(s) \in Nat /\ Len(t) \in Nat
      /\ \A i \in 1..Len(s): Cat(s, t)[i] = s[i]
    BY Joined
<1>2. Len(s) > 0
    BY <1>1 DEF Histories
<1>3. 1 \in 1..Len(s) /\ Len(Cat(s, t)) # 0
    BY <1>1, <1>2
<1> QED
    BY <1>1, <1>3

\* A compaction drops and inserts between whole batches; T is what is still to
\* come of the turn at hand.
LEMMA CompactedValid ==
    ASSUME NEW h \in Histories, NEW T \in Histories, NEW policy \in Policies, Valid(Cat(h, T))
    PROVE  Valid(Cat(Compacted(h, policy), T))
<1>1. CASE Compacted(h, policy) = h
    BY <1>1
<1>2. CASE Compacted(h, policy) # h
  <2>1. PICK S \in Histories, X \in Histories, A \in Histories, B \in Histories:
              /\ h = Cat(Cat(S, X), Cat(A, B))
              /\ Compacted(h, policy) = Cat(Cat(S, A), Cat(<<Summary>>, B))
              /\ \A i \in 1..Len(S): S[i].role = "system"
              /\ A # <<>> => A[1].role = "user"
              /\ B # <<>> /\ B[1].role = "user"
      BY <1>2, CompactedSplits
  <2> DEFINE C == Cat(B, T)
             D == Cat(A, C)
             N == <<Summary>>
  <2>2. /\ N \in Histories /\ C \in Histories /\ D \in Histories /\ Cat(S, X) \in Histories
        /\ Cat(S, A) \in Histories /\ Cat(A, B) \in Histories /\ Cat(N, B) \in Histories
      BY Closed, OneTyped, MessagesTyped
  <2>3. C # <<>> /\ C[1].role = "user"
      BY <2>1, Starts
  <2> HIDE DEF N
  <2>4. Cat(h, T) = Cat(Cat(S, X), D)
    <3>1. Cat(h, T) = Cat(Cat(S, X), Cat(Cat(A, B), T))
        BY <2>1, <2>2, Assoc
    <3>2. Cat(Cat(A, B), T) = D
        BY Assoc
    <3> QED
        BY <3>1, <3>2
  <2>5. Cat(Compacted(h, policy), T) = Cat(Cat(S, A), Cat(N, C))
    <3>1. Cat(Compacted(h, policy), T) = Cat(Cat(S, A), Cat(Cat(N, B), T))
        BY <2>1, <2>2, Assoc DEF N
    <3>2. Cat(Cat(N, B), T) = Cat(N, C)
        BY <2>2, Assoc
    <3> QED
        BY <3>1, <3>2
  <2> HIDE DEF C
  <2>6. D # <<>> /\ D[1].role = "user"
    <3>1. CASE A = <<>>
      <4>1. D = C
          BY <2>2, <3>1, Unit
      <4> QED
          BY <2>3, <4>1
    <3>2. CASE A # <<>>
        BY <2>1, <2>2, <3>2, Starts
    <3> QED
        BY <3>1, <3>2
  <2> HIDE DEF D
  <2>7. Valid(D)
    <3>1. Valid(Cat(Cat(S, X), D)) /\ D[1].role # "tool"
        BY <2>4, <2>6
    <3> QED
        BY <2>2, <3>1, ValidSplit
  <2>8. Valid(A) /\ Valid(C)
    <3>1. Valid(Cat(A, C)) /\ C[1].role # "tool"
        BY <2>3, <2>7 DEF D
    <3> QED
        BY <2>2, <3>1, ValidSplit
  <2>9. Valid(S) /\ Valid(N)
    <3>1. \A i \in 1..Len(S): S[i].role \in {"system", "user"}
        BY <2>1
    <3>2. \A i \in 1..Len(N): N[i].role \in {"system", "user"}
        BY DEF N, Summary
    <3> QED
        BY <2>2, <3>1, <3>2, PlainValid
  <2>10. Cat(N, C) \in Histories
      BY <2>2, Closed
  <2>11. Valid(Cat(S, A)) /\ Valid(Cat(N, C))
      BY <2>2, <2>8, <2>9, ValidJoin
  <2> QED
      BY <2>2, <2>5, <2>10, <2>11, ValidJoin
<1> QED
    BY <1>1, <1>2

LEMMA UserValid ==
    ASSUME NEW h \in Histories, Valid(h), NEW m \in Message, m.role = "user"
    PROVE  Valid(Append(h, m))
<1>1. <<m>> \in Histories /\ Append(h, m) = Cat(h, <<m>>)
    BY OneTyped, AppendTyped
<1>2. \A i \in 1..Len(<<m>>): <<m>>[i].role \in {"system", "user"}
    OBVIOUS
<1>3. Valid(<<m>>)
    BY <1>1, <1>2, PlainValid
<1> QED
    BY <1>1, <1>3, ValidJoin

\* A cut before or behind a user message.
LEMMA CutsValid ==
    ASSUME NEW h \in Histories, NEW T \in Histories, NEW after \in BOOLEAN,
           NEW cut \in Cuts(h, after), Valid(Cat(h, T))
    PROVE  Valid(cut)
<1>1. PICK i \in 1..Len(h): /\ h[i].role = "user"
                            /\ cut = SubSeq(h, 1, IF after THEN i ELSE i - 1)
                            /\ cut \in Histories
    BY CutsTyped
<1> DEFINE P == SubSeq(h, 1, i - 1)
           Q == SubSeq(h, i, Len(h))
<1>2. /\ Len(h) \in Nat /\ h[i] \in Message /\ i \in 1..Len(h) + 1
      /\ 1 \in 1..Len(h) - i + 1 /\ i + 1 - 1 = i
    BY Typed
<1>3. /\ P \in Histories /\ Q \in Histories /\ h = Cat(P, Q) /\ Len(P) = i - 1
      /\ Len(Q) = Len(h) - i + 1
      /\ \A j \in 1..i - 1: P[j] = h[j]
      /\ \A j \in 1..Len(h) - i + 1: Q[j] = h[i + j - 1]
    BY <1>2, Parts
<1> HIDE DEF P, Q
<1>4. Q # <<>> /\ Q[1].role = "user"
  <2>1. Len(Q) # 0
      BY <1>2, <1>3
  <2> QED
      BY <1>1, <1>2, <1>3, <2>1
<1>5. Cat(Q, T) \in Histories /\ Cat(Q, T)[1].role # "tool"
    BY <1>3, <1>4, Starts, Closed
<1>6. Valid(Cat(P, Cat(Q, T)))
    BY <1>3, Assoc
<1>7. Valid(P)
    BY <1>3, <1>5, <1>6, ValidSplit
<1>8. CASE ~after
    BY <1>1, <1>7, <1>8 DEF P
<1>9. CASE after
  <2> DEFINE R == Append(P, h[i])
  <2>1. cut = SubSeq(h, 1, i) /\ i \in 0..Len(h)
      BY <1>1, <1>2, <1>9
  <2>2. Len(cut) = i /\ \A j \in 1..i: cut[j] = h[j]
      BY <2>1, PrefixIs
  <2>3. R \in Histories /\ Len(R) = i /\ \A j \in 1..i: R[j] = h[j]
    <3>1. /\ R \in Seq(Message) /\ Len(R) = Len(P) + 1
          /\ \A j \in 1..Len(P): R[j] = P[j]
          /\ R[Len(P) + 1] = h[i]
        BY <1>2, <1>3, AppendProperties DEF Histories
    <3> HIDE DEF R
    <3>2. Len(P) + 1 = i /\ \A j \in 1..i: j \in 1..Len(P) \/ j = i
        BY <1>2, <1>3
    <3> QED
        BY <1>3, <3>1, <3>2 DEF Histories
  <2> HIDE DEF R
  <2>4. cut = R
      BY <1>1, <2>2, <2>3, SeqEqual DEF Histories
  <2>5. Valid(R)
      BY <1>1, <1>2, <1>3, <1>7, UserValid DEF R
  <2> QED
      BY <2>4, <2>5
<1> QED
    BY <1>8, <1>9

\* A call and its results.
LEMMA CallValid ==
    ASSUME NEW m \in Message, m.role = "assistant", NEW R \in Histories, Len(R) = m.calls,
           \A j \in 1..Len(R): \E c \in 1..m.calls: R[j] = Result(m.n, c),
           \A c \in 1..m.calls: \E j \in 1..Len(R): R[j] = Result(m.n, c)
    PROVE  Valid(Cat(<<m>>, R)) /\ Cat(<<m>>, R) \in Histories
<1> DEFINE h == Cat(<<m>>, R)
           k == m.calls
           n == m.n
<1>1. k \in Nat /\ n \in Nat /\ <<m>> \in Histories
    BY OneTyped DEF Message
<1>2. /\ h \in Histories /\ Len(h) = Len(<<m>>) + Len(R)
      /\ \A i \in 1..Len(<<m>>): h[i] = <<m>>[i]
      /\ \A i \in 1..Len(R): h[Len(<<m>>) + i] = R[i]
    BY <1>1, Joined, Closed
<1>0. Len(<<m>>) = 1 /\ <<m>>[1] = m /\ 1 \in 1..1
    OBVIOUS
<1>3. Len(h) = 1 + k /\ h[1] = m /\ \A i \in 1..k: h[1 + i] = R[i]
  <2> HIDE DEF h
  <2>1. Len(h) = 1 + Len(R) /\ h[1] = <<m>>[1] /\ \A i \in 1..Len(R): h[1 + i] = R[i]
      BY <1>0, <1>2
  <2> QED
      BY <1>0, <2>1
<1> HIDE DEF h, k, n
<1>4. ASSUME NEW j \in (1 + 1)..(1 + k) PROVE \E c \in 1..k: h[j] = Result(n, c)
  <2>1. j - 1 \in 1..k /\ j = 1 + (j - 1)
      BY <1>1
  <2>2. h[j] = R[j - 1] /\ j - 1 \in 1..Len(R)
      BY <1>3, <2>1 DEF k
  <2> QED
      BY <2>2 DEF k, n
<1>5. ASSUME NEW c \in 1..k PROVE \E j \in (1 + 1)..(1 + k): h[j] = Result(n, c)
  <2>1. PICK j \in 1..k: R[j] = Result(n, c)
      BY DEF k, n
  <2>2. 1 + j \in (1 + 1)..(1 + k) /\ h[1 + j] = R[j]
      BY <1>1, <1>3
  <2> QED
      BY <2>1, <2>2
<1>6. Batch(h, 1, n, k)
    BY <1>1, <1>3, <1>4, <1>5 DEF Batch
<1>7. ASSUME NEW i \in 1..Len(h), i # 1
      PROVE  h[i].role = "tool" /\ Follows(h, 1, i) /\ 1 \in 1..(i - 1)
  <2>1. i \in (1 + 1)..(1 + k)
      BY <1>1, <1>3, <1>7
  <2>2. PICK c \in 1..k: h[i] = Result(n, c)
      BY <1>4, <2>1
  <2>3. h[i].role = "tool" /\ h[i].n = n
      BY <2>2 DEF Result
  <2>4. h[1].role = "assistant" /\ h[1].n = n /\ h[1].calls = k
      BY <1>3 DEF n, k
  <2>5. i <= 1 + k /\ 1 \in 1..(i - 1)
      BY <1>1, <2>1
  <2> QED
      BY <2>3, <2>4, <2>5 DEF Follows
<1>8. h[1].role = "assistant" /\ h[1].n = n /\ h[1].calls = k
    BY <1>3 DEF n, k
<1>9. Valid(h)
    BY <1>6, <1>7, <1>8 DEF Valid
<1> QED
    BY <1>2, <1>9 DEF h

LEMMA SmallestIs ==
    ASSUME NEW a \in Nat, NEW b \in Nat
    PROVE  Min({a, b}) = IF a <= b THEN a ELSE b
<1> DEFINE m == IF a <= b THEN a ELSE b
           Least(x) == x \in {a, b} /\ \A y \in {a, b}: x <= y
<1>1. Least(m) /\ \A x: Least(x) => x = m
    OBVIOUS
<1>2. Min({a, b}) = CHOOSE x: Least(x)
    BY DEF Min
<1> HIDE DEF Least, m
<1>3. Least(CHOOSE x: Least(x))
    BY <1>1
<1>4. Min({a, b}) = m
    BY <1>1, <1>2, <1>3
<1> QED
    BY <1>4 DEF m

\* The property of the requests, in the terms of the lemmas: as many messages
\* as calls are needed for each call to have its result.
LEMMA WellFormedIs ==
    ASSUME NEW h \in Histories
    PROVE  WellFormed(h) <=> Valid(h)
<1>1. /\ Len(h) \in Nat /\ DOMAIN h = 1..Len(h)
      /\ \A i \in 1..Len(h): h[i].n \in Nat /\ h[i].calls \in Nat
    BY Typed
<1> DEFINE Window(i) == {h[j]: j \in (i + 1)..Min({i + h[i].calls, Len(h)})}
           Wanted(i) == {Result(h[i].n, c): c \in 1..h[i].calls}
<1>2. ASSUME NEW i \in 1..Len(h), Window(i) = Wanted(i)
      PROVE  Batch(h, i, h[i].n, h[i].calls)
  <2> DEFINE k == h[i].calls
             n == h[i].n
  <2>1. k \in Nat /\ n \in Nat
      BY <1>1
  <2>2. {h[j]: j \in (i + 1)..Min({i + k, Len(h)})} = {Result(n, c): c \in 1..k}
      BY <1>2
  <2> HIDE DEF k, n, Window, Wanted
  <2>3. ASSUME i + k > Len(h) PROVE FALSE
    <3> DEFINE W == (i + 1)..Len(h)
               g == [j \in W |-> h[j].calls]
    <3>1. Min({i + k, Len(h)}) = Len(h)
      <4>1. i + k \in Nat /\ ~(i + k <= Len(h))
          BY <1>1, <2>1, <2>3
      <4> QED
          BY <1>1, <4>1, SmallestIs
    <3>2. {h[j]: j \in W} = {Result(n, c): c \in 1..k}
        BY <2>2, <3>1
    <3>3. IsFiniteSet(W) /\ Cardinality(W) < k
      <4>1. i + 1 \in Int /\ Len(h) \in Int
          BY <1>1
      <4>2. IsFiniteSet(W) /\ Cardinality(W) = IF i + 1 > Len(h) THEN 0 ELSE Len(h) - (i + 1) + 1
          BY <4>1, FS_Interval
      <4>3. (IF i + 1 > Len(h) THEN 0 ELSE Len(h) - (i + 1) + 1) < k
          BY <1>1, <2>1, <2>3
      <4> QED
          BY <4>2, <4>3
    <3>4. Cardinality(1..k) = k
      <4>1. 1 \in Int /\ k \in Int /\ ((IF 1 > k THEN 0 ELSE k - 1 + 1) = k)
          BY <2>1
      <4> QED
          BY <4>1, FS_Interval
    <3> HIDE DEF W
    <3>5. ASSUME NEW j \in W PROVE g[j] \in 1..k
      <4>1. PICK c \in 1..k: h[j] = Result(n, c)
          BY <3>2, <3>5
      <4> QED
          BY <4>1 DEF Result
    <3>6. ASSUME NEW c \in 1..k PROVE \E j \in W: g[j] = c
      <4>1. PICK j \in W: h[j] = Result(n, c)
          BY <3>2, <3>6
      <4> QED
          BY <4>1 DEF Result
    <3>7. g \in Surjection(W, 1..k)
        BY <3>5, <3>6 DEF Surjection
    <3>8. Cardinality(1..k) <= Cardinality(W) /\ Cardinality(W) \in Nat
        BY <3>3, <3>7, FS_Surjection, FS_CardinalityType
    <3> QED
        BY <2>1, <3>3, <3>4, <3>8
  <2>4. i + k <= Len(h) /\ Min({i + k, Len(h)}) = i + k
    <3>1. i + k \in Nat /\ i + k <= Len(h)
        BY <1>1, <2>1, <2>3
    <3> QED
        BY <1>1, <3>1, SmallestIs
  <2>5. {h[j]: j \in (i + 1)..(i + k)} = {Result(n, c): c \in 1..k}
      BY <2>2, <2>4
  <2>6. Batch(h, i, n, k)
      BY <2>4, <2>5 DEF Batch
  <2> QED
      BY <2>6 DEF k, n
<1>3. ASSUME NEW i \in 1..Len(h), Batch(h, i, h[i].n, h[i].calls)
      PROVE  Window(i) = Wanted(i)
  <2> DEFINE k == h[i].calls
             n == h[i].n
  <2>1. i + k <= Len(h) /\ k \in Nat
      BY <1>1, <1>3 DEF Batch
  <2>2. Batch(h, i, n, k)
      BY <1>3
  <2> HIDE DEF k, n
  <2>3. Min({i + k, Len(h)}) = i + k
    <3>1. i + k \in Nat
        BY <2>1
    <3> QED
        BY <1>1, <2>1, <3>1, SmallestIs
  <2>4. {h[j]: j \in (i + 1)..(i + k)} = {Result(n, c): c \in 1..k}
      BY <2>2 DEF Batch
  <2> QED
      BY <2>3, <2>4 DEF k, n
<1> HIDE DEF Window, Wanted
<1>4. WellFormed(h) <=>
        /\ \A i \in 1..Len(h): h[i].role = "assistant" => Window(i) = Wanted(i)
        /\ \A i \in 1..Len(h): h[i].role = "tool" => \E j \in 1..(i - 1): Follows(h, j, i)
    BY <1>1 DEF WellFormed, Follows, Window, Wanted
<1> QED
    BY <1>2, <1>3, <1>4 DEF Valid

-----------------------------------------------------------------------------
(* What a repair makes of a history.                                       *)

Special == {"assistant", "tool"}

\* No call and no result is there twice.
Unique(h) ==
    \A i, j \in 1..Len(h): h[i] = h[j] /\ h[i].role \in Special => i = j

\* Calls have one size each, which their results respect.
Coherent(M) ==
    /\ M \subseteq Message
    /\ \A x, y \in M: /\ x.role = "assistant" /\ y.role = "assistant" /\ x.n = y.n => x = y
                      /\ x.role = "assistant" /\ y.role = "tool" /\ x.n = y.n
                            => y.calls \in 1..x.calls
    /\ \A x \in M: x.role = "assistant" => \A c \in 1..x.calls: Result(x.n, c) \in M

Sound(M) == {h \in Histories: Unique(h) /\ \A i \in 1..Len(h): h[i] \in M}

\* The repaired history has x because of the j-th message.
From(h, x, j) == x = h[j] \/ (h[j].role = "assistant" /\ x \in Missing(h, h[j]))

LEMMA ResultIs ==
    /\ \A n, c \in Nat: Result(n, c).role = "tool" /\ Result(n, c).n = n
                        /\ Result(n, c).calls = c
    /\ \A m \in Message: m.role = "tool" => m = Result(m.n, m.calls)
BY DEF Result, Message

LEMMA MissingIs ==
    ASSUME NEW h \in Histories, NEW m \in Message, NEW x \in Missing(h, m)
    PROVE  /\ x.role = "tool" /\ x.n = m.n /\ x.calls \in 1..m.calls
           /\ \A j \in 1..Len(h): ~(h[j].role = "tool" /\ h[j].n = m.n /\ h[j].calls = x.calls)
<1>1. PICK c \in (1..m.calls) \ Answered(h, m): x = Result(m.n, c)
    BY DEF Missing
<1>2. x.role = "tool" /\ x.n = m.n /\ x.calls = c
    BY <1>1 DEF Result
<1>3. \A j \in 1..Len(h): ~(h[j].role = "tool" /\ h[j].n = m.n /\ h[j].calls = c)
    BY <1>1, Typed DEF Answered
<1> QED
    BY <1>1, <1>2, <1>3

LEMMA FromOne ==
    ASSUME NEW M, Coherent(M), NEW h \in Sound(M), NEW j \in 1..Len(h), NEW k \in 1..Len(h),
           NEW x, x.role \in Special, From(h, x, j), From(h, x, k)
    PROVE  j = k
<1>1. h \in Histories /\ Unique(h) /\ \A i \in 1..Len(h): h[i] \in M /\ h[i] \in Message
    BY DEF Sound, Coherent
<1>2. CASE x = h[j] /\ x = h[k]
    BY <1>1, <1>2 DEF Unique
<1>3. ASSUME NEW a \in 1..Len(h), NEW b \in 1..Len(h), x = h[a], x \in Missing(h, h[b])
      PROVE  FALSE
  <2>1. x.role = "tool" /\ x.n = h[b].n
        /\ ~(h[a].role = "tool" /\ h[a].n = h[b].n /\ h[a].calls = x.calls)
      BY <1>1, <1>3, MissingIs
  <2> QED
      BY <1>3, <2>1
<1>4. CASE /\ h[j].role = "assistant" /\ x \in Missing(h, h[j])
           /\ h[k].role = "assistant" /\ x \in Missing(h, h[k])
  <2>1. x.n = h[j].n /\ x.n = h[k].n
      BY <1>1, <1>4, MissingIs
  <2>2. h[j] = h[k]
      BY <1>1, <1>4, <2>1 DEF Coherent
  <2> QED
      BY <1>1, <1>4, <2>2 DEF Unique, Special
<1> QED
    BY <1>2, <1>3, <1>4 DEF From

LEMMA UniqueJoin ==
    ASSUME NEW s \in Histories, NEW t \in Histories, Unique(s), Unique(t),
           \A i \in 1..Len(s), j \in 1..Len(t): s[i] = t[j] => s[i].role \notin Special
    PROVE  Unique(Cat(s, t))
<1> DEFINE h == Cat(s, t)
<1>1. /\ \A i \in 1..Len(s): h[i] = s[i]
      /\ \A i \in 1..Len(t): h[Len(s) + i] = t[i]
    BY Joined
<1>2. \A i \in 1..Len(h): i \in 1..Len(s) \/ \E x \in 1..Len(t): i = Len(s) + x
    BY Sides
<1> HIDE DEF h
<1>3. ASSUME NEW i \in 1..Len(h), NEW j \in 1..Len(h), h[i] = h[j], h[i].role \in Special
      PROVE  i = j
  <2>1. CASE i \in 1..Len(s) /\ j \in 1..Len(s)
      BY <1>1, <1>3, <2>1 DEF Unique
  <2>2. CASE i \in 1..Len(s) /\ \E x \in 1..Len(t): j = Len(s) + x
      BY <1>1, <1>3, <2>2
  <2>3. CASE j \in 1..Len(s) /\ \E x \in 1..Len(t): i = Len(s) + x
      BY <1>1, <1>3, <2>3
  <2>4. ASSUME NEW x \in 1..Len(t), NEW y \in 1..Len(t), i = Len(s) + x, j = Len(s) + y
        PROVE  i = j
    <3>1. t[x] = t[y] /\ t[x].role \in Special
        BY <1>1, <1>3, <2>4
    <3>2. x = y
        BY <3>1 DEF Unique
    <3> QED
        BY <2>4, <3>2
  <2> QED
      BY <1>2, <2>1, <2>2, <2>3, <2>4
<1> QED
    BY <1>3 DEF Unique, h

LEMMA MendedParts ==
    ASSUME NEW h \in Histories, NEW j \in 1..Len(h)
    PROVE  /\ Mended(h, h[j]) \in Histories /\ Unique(Mended(h, h[j]))
           /\ \A i \in 1..Len(Mended(h, h[j])): From(h, Mended(h, h[j])[i], j)
<1> DEFINE m == h[j]
           b == Mended(h, m)
           F == SetToSeq(Missing(h, m))
<1>1. m \in Message /\ <<m>> \in Histories
    BY Typed, OneTyped
<1>2. /\ b \in Histories
      /\ m.role # "assistant" => b = <<m>>
      /\ m.role = "assistant" => F \in Histories /\ b = Cat(<<m>>, F)
    BY <1>1, MendedIs
<1>3. Unique(<<m>>) /\ Len(<<m>>) = 1 /\ <<m>>[1] = m
    BY DEF Unique
<1>4. /\ \A i \in 1..Len(F): F[i] \in Missing(h, m)
      /\ \A a, i \in 1..Len(F): F[a] = F[i] => a = i
    BY <1>1, MissingIsFinite, SeqOfSet
<1> HIDE DEF F, b
<1>5. CASE m.role # "assistant"
  <2>1. \A i \in 1..Len(b): From(h, b[i], j)
      BY <1>2, <1>3, <1>5 DEF From
  <2> QED
      BY <1>2, <1>3, <1>5, <2>1 DEF b
<1>6. CASE m.role = "assistant"
  <2>1. b = Cat(<<m>>, F) /\ F \in Histories
      BY <1>2, <1>6
  <2>2. Unique(F)
      BY <1>4 DEF Unique
  <2>3. \A i \in 1..Len(F): F[i].role = "tool"
      BY <1>1, <1>4, MissingIs
  <2>4. \A a \in 1..Len(<<m>>), i \in 1..Len(F): <<m>>[a] = F[i] => <<m>>[a].role \notin Special
      BY <1>3, <1>6, <2>3
  <2>5. Unique(b)
      BY <1>1, <1>3, <2>1, <2>2, <2>4, UniqueJoin
  <2>6. ASSUME NEW i \in 1..Len(b) PROVE From(h, b[i], j)
    <3>1. i \in 1..Len(<<m>>) \/ \E x \in 1..Len(F): i = Len(<<m>>) + x
        BY <1>1, <2>1, Sides
    <3>2. CASE i \in 1..Len(<<m>>)
      <4>1. Cat(<<m>>, F)[i] = <<m>>[i]
          BY <1>1, <2>1, <3>2, Joined
      <4>2. b[i] = m
          BY <1>3, <2>1, <3>2, <4>1
      <4> QED
          BY <4>2 DEF From
    <3>3. ASSUME NEW x \in 1..Len(F), i = Len(<<m>>) + x PROVE From(h, b[i], j)
      <4>1. Cat(<<m>>, F)[Len(<<m>>) + x] = F[x]
          BY <1>1, <2>1, Joined
      <4>2. b[i] \in Missing(h, m)
          BY <1>4, <2>1, <3>3, <4>1
      <4> QED
          BY <1>6, <4>2 DEF From
    <3> QED
        BY <3>1, <3>2, <3>3
  <2> QED
      BY <1>2, <2>5, <2>6 DEF b
<1> QED
    BY <1>5, <1>6

LEMMA RepairedSound ==
    ASSUME NEW M, Coherent(M), NEW h \in Sound(M)
    PROVE  Repaired(h) \in Sound(M)
<1>1. h \in Histories /\ \A i \in 1..Len(h): h[i] \in M /\ h[i] \in Message
    BY DEF Sound, Coherent
<1>2. Repaired(h) \in Histories
    BY <1>1, RepairedTyped
<1>3. CASE h = <<>>
  <2>1. Repaired(h) = <<>>
      BY <1>3, RepairedNone
  <2> QED
      BY <1>2, <2>1 DEF Sound, Unique
<1>4. CASE h # <<>>
  <2> DEFINE n == Len(h)
             Good(s, i) == Unique(s) /\ \A a \in 1..Len(s): \E j \in 1..i: From(h, s[a], j)
  <2>1. PICK f: /\ \A i \in 1..n: f[i] \in Histories
                /\ f[1] = Mended(h, h[1])
                /\ \A i \in 2..n: f[i] = Cat(f[i - 1], Mended(h, h[i]))
                /\ Repaired(h) = f[n]
      BY <1>1, <1>4, RepairedIs
  <2> DEFINE bad == {i \in 1..n: ~Good(f[i], i)}
  <2>2. n \in Nat /\ n > 0
      BY <1>1, <1>4, Typed DEF Histories
  <2>3. Good(f[1], 1)
    <3>1. 1 \in 1..Len(h)
        BY <2>2
    <3> QED
        BY <1>1, <2>1, <3>1, MendedParts
  <2>4. ASSUME NEW i \in 2..n, Good(f[i - 1], i - 1) PROVE Good(f[i], i)
    <3> DEFINE s == f[i - 1]
               b == Mended(h, h[i])
    <3>1. /\ i \in 1..Len(h) /\ i - 1 \in 1..n /\ 1..(i - 1) \subseteq 1..i /\ i \in 1..i
          /\ i \notin 1..(i - 1) /\ 1..(i - 1) \subseteq 1..Len(h)
        BY <2>2
    <3>2. s \in Histories /\ f[i] = Cat(s, b)
        BY <2>1, <3>1
    <3>3. b \in Histories /\ Unique(b) /\ \A a \in 1..Len(b): From(h, b[a], i)
        BY <1>1, <3>1, MendedParts
    <3> HIDE DEF s, b, n
    <3>4. Unique(s) /\ \A a \in 1..Len(s): \E j \in 1..(i - 1): From(h, s[a], j)
        BY <2>4 DEF s
    <3>5. ASSUME NEW a \in 1..Len(s), NEW x \in 1..Len(b), s[a] = b[x], s[a].role \in Special
          PROVE  FALSE
      <4>1. PICK j \in 1..(i - 1): From(h, s[a], j)
          BY <3>4
      <4>2. From(h, s[a], i) /\ j \in 1..Len(h) /\ i # j
          BY <3>1, <3>3, <3>5
      <4> QED
          BY <3>1, <3>5, <4>1, <4>2, FromOne
    <3>6. Unique(Cat(s, b))
        BY <3>2, <3>3, <3>4, <3>5, UniqueJoin
    <3>7. ASSUME NEW a \in 1..Len(Cat(s, b)) PROVE \E j \in 1..i: From(h, Cat(s, b)[a], j)
      <4>1. a \in 1..Len(s) \/ \E x \in 1..Len(b): a = Len(s) + x
          BY <3>2, <3>3, Sides
      <4>2. CASE a \in 1..Len(s)
        <5>1. Cat(s, b)[a] = s[a]
            BY <3>2, <3>3, <4>2, Joined
        <5> QED
            BY <3>1, <3>4, <4>2, <5>1
      <4>3. ASSUME NEW x \in 1..Len(b), a = Len(s) + x PROVE From(h, Cat(s, b)[a], i)
        <5>1. Cat(s, b)[a] = b[x]
            BY <3>2, <3>3, <4>3, Joined
        <5> QED
            BY <3>3, <5>1
      <4> QED
          BY <3>1, <4>1, <4>2, <4>3
    <3> QED
        BY <3>2, <3>6, <3>7
  <2> HIDE DEF Good
  <2>5. bad = {}
    <3>1. SUFFICES ASSUME bad # {} PROVE FALSE
        OBVIOUS
    <3>2. PICK i \in bad: \A j \in bad: i <= j
      <4>1. bad \in SUBSET Nat
          OBVIOUS
      <4> QED
          BY <3>1, <4>1, LeastNatural
    <3>3. i # 1
        BY <2>3, <3>2
    <3>4. i \in 2..n /\ i - 1 \in 1..n /\ ~(i <= i - 1)
        BY <2>2, <3>2, <3>3
    <3>5. Good(f[i - 1], i - 1)
        BY <3>2, <3>4
    <3> QED
        BY <2>4, <3>2, <3>4, <3>5
  <2>6. Good(Repaired(h), n)
      BY <2>1, <2>2, <2>5
  <2>7. ASSUME NEW a \in 1..Len(Repaired(h)) PROVE Repaired(h)[a] \in M
    <3>1. PICK j \in 1..Len(h): From(h, Repaired(h)[a], j)
        BY <2>6 DEF Good
    <3>2. CASE h[j].role = "assistant" /\ Repaired(h)[a] \in Missing(h, h[j])
      <4>1. PICK c \in 1..h[j].calls: Repaired(h)[a] = Result(h[j].n, c)
          BY <3>2 DEF Missing
      <4> QED
          BY <1>1, <3>2, <4>1 DEF Coherent
    <3> QED
        BY <1>1, <3>1, <3>2 DEF From
  <2> QED
      BY <1>2, <2>6, <2>7 DEF Sound, Good
<1> QED
    BY <1>3, <1>4

LEMMA MidIs ==
    ASSUME NEW h \in Histories, NEW i \in 1..Len(h), NEW e \in i..Len(h)
    PROVE  /\ SubSeq(h, i + 1, e) \in Histories /\ Len(SubSeq(h, i + 1, e)) = e - i
           /\ \A j \in 1..(e - i): SubSeq(h, i + 1, e)[j] = h[i + j]
<1>1. /\ h \in Seq(Message) /\ Len(h) \in Nat /\ i + 1 \in Int /\ e \in Int /\ i \in Nat
      /\ \A j \in (i + 1)..e: j \in 1..Len(h)
    BY Typed DEF Histories
<1>2. \A j \in (i + 1)..e: h[j] \in Message
    BY <1>1
<1>3. /\ SubSeq(h, i + 1, e) \in Seq(Message)
      /\ Len(SubSeq(h, i + 1, e)) = IF i + 1 <= e THEN e - (i + 1) + 1 ELSE 0
      /\ \A j \in 1..(e - (i + 1) + 1): SubSeq(h, i + 1, e)[j] = h[(i + 1) + j - 1]
    BY <1>1, <1>2, SubSeqProperties
<1>4. (IF i + 1 <= e THEN e - (i + 1) + 1 ELSE 0) = e - i /\ e - (i + 1) + 1 = e - i
      /\ \A j \in 1..(e - i): (i + 1) + j - 1 = i + j
    BY <1>1
<1> QED
    BY <1>3, <1>4 DEF Histories

LEMMA MidSplits ==
    ASSUME NEW h \in Histories, NEW i \in 2..Len(h), NEW e \in i..Len(h)
    PROVE  SubSeq(h, i, e) = Cat(<<h[i]>>, SubSeq(h, i + 1, e))
<1> DEFINE s == SubSeq(h, (i - 1) + 1, e)
           t == SubSeq(h, i + 1, e)
           m == <<h[i]>>
           u == Cat(m, t)
<1>1. /\ i - 1 \in 1..Len(h) /\ e \in (i - 1)..Len(h) /\ i \in 1..Len(h) /\ (i - 1) + 1 = i
      /\ Len(h) \in Nat
    BY Typed
<1>2. s \in Histories /\ Len(s) = e - (i - 1) /\ \A j \in 1..(e - (i - 1)): s[j] = h[(i - 1) + j]
    BY <1>1, MidIs
<1>3. t \in Histories /\ Len(t) = e - i /\ \A j \in 1..(e - i): t[j] = h[i + j]
    BY <1>1, MidIs
<1>4. m \in Histories /\ Len(m) = 1 /\ m[1] = h[i] /\ 1 \in 1..1
    BY <1>1, Typed, OneTyped
<1> HIDE DEF s, t, m
<1>5. /\ u \in Histories /\ Len(u) = Len(m) + Len(t)
      /\ \A j \in 1..Len(m): u[j] = m[j]
      /\ \A j \in 1..Len(t): u[Len(m) + j] = t[j]
    BY <1>3, <1>4, Joined, Closed
<1> HIDE DEF u
<1>6. Len(u) = Len(s)
    BY <1>1, <1>2, <1>3, <1>4, <1>5
<1>7. ASSUME NEW j \in 1..Len(s) PROVE s[j] = u[j]
  <2>1. CASE j = 1
    <3>1. s[1] = h[(i - 1) + 1]
        BY <1>2, <1>7, <2>1
    <3> QED
        BY <1>1, <1>4, <1>5, <2>1, <3>1
  <2>2. CASE j # 1
    <3>1. j - 1 \in 1..(e - i) /\ j = 1 + (j - 1) /\ (i - 1) + j = i + (j - 1)
        BY <1>1, <1>2, <1>7, <2>2
    <3>2. u[j] = t[j - 1]
        BY <1>3, <1>4, <1>5, <3>1
    <3>3. s[j] = h[(i - 1) + j]
        BY <1>2, <1>7
    <3> QED
        BY <1>3, <3>1, <3>2, <3>3
  <2> QED
      BY <2>1, <2>2
<1>8. s = u
    BY <1>2, <1>5, <1>6, <1>7, SeqEqual DEF Histories
<1> QED
    BY <1>1, <1>8 DEF s, t, u, m

\* from i + 1 to e are results, and no further
RunEnds(h, i, e) ==
    /\ \A k \in (i + 1)..e: h[k].role = "tool"
    /\ e = Len(h) \/ h[e + 1].role # "tool"

LEMMA RunEndIs ==
    ASSUME NEW h \in Histories, NEW i \in 1..Len(h)
    PROVE  \E e \in i..Len(h): RunEnds(h, i, e)
<1> DEFINE n == Len(h)
           S == {e \in i..n: e = n \/ h[e + 1].role # "tool"}
<1>1. n \in Nat /\ i \in Nat /\ n \in i..n
    BY Typed
<1>2. n \in S /\ S \in SUBSET Nat
    BY <1>1
<1> HIDE DEF n
<1>3. PICK e \in S: \A x \in S: e <= x
    BY <1>2, LeastNatural
<1>4. ASSUME NEW k \in (i + 1)..e PROVE h[k].role = "tool"
  <2>1. k - 1 \in i..n /\ ~(e <= k - 1) /\ (k - 1) + 1 = k
      BY <1>1, <1>3
  <2>2. k - 1 \notin S
      BY <1>3, <2>1
  <2> QED
      BY <2>1, <2>2
<1>5. e \in i..n /\ (e = n \/ h[e + 1].role # "tool")
    BY <1>3
<1> QED
    BY <1>4, <1>5 DEF RunEnds, n

\* Without strays, results are behind their call with only results between.
LEMMA NoStrays ==
    ASSUME NEW h \in Histories, Strays(h) = {}, NEW i \in 1..Len(h), h[i].role = "tool"
    PROVE  \E j \in 1..(i - 1): /\ h[j].role = "assistant" /\ h[j].n = h[i].n
                                /\ \A k \in (j + 1)..i: h[k].role = "tool"
BY Typed DEF Strays

\* The results behind the call at i are the ones it has.
LEMMA RunIsHis ==
    ASSUME NEW M, Coherent(M), NEW h \in Sound(M), Strays(h) = {}, NEW i \in 1..Len(h),
           h[i].role = "assistant", NEW e \in i..Len(h), RunEnds(h, i, e),
           NEW k \in 1..Len(h), h[k].role = "tool"
    PROVE  /\ k \in (i + 1)..e <=> h[k].n = h[i].n
           /\ h[k].n = h[i].n => h[k].calls \in 1..h[i].calls
<1>1. h \in Histories /\ Unique(h) /\ \A x \in 1..Len(h): h[x] \in M
    BY DEF Sound
<1>2. Len(h) \in Nat
    BY <1>1, Typed
<1>3. PICK j \in 1..(k - 1): /\ h[j].role = "assistant" /\ h[j].n = h[k].n
                             /\ \A x \in (j + 1)..k: h[x].role = "tool"
    BY <1>1, NoStrays
<1>4. j \in 1..Len(h)
    BY <1>2
<1>5. ASSUME k \in (i + 1)..e PROVE j = i
  <2>1. CASE j < i
    <3>1. i \in (j + 1)..k
        BY <1>2, <1>5, <2>1
    <3> QED
        BY <1>3, <3>1
  <2>2. CASE j > i
    <3>1. j \in (i + 1)..e
        BY <1>2, <1>5, <2>2
    <3> QED
        BY <1>3, <3>1 DEF RunEnds
  <2> QED
      BY <1>2, <2>1, <2>2
<1>6. ASSUME h[k].n = h[i].n PROVE k \in (i + 1)..e
  <2>1. h[j] = h[i]
      BY <1>1, <1>3, <1>4, <1>6 DEF Coherent
  <2>2. j = i
      BY <1>1, <1>3, <1>4, <2>1 DEF Unique, Special
  <2>3. ASSUME k > e PROVE FALSE
    <3>1. e + 1 \in (j + 1)..k /\ e # Len(h)
        BY <1>2, <2>2, <2>3
    <3> QED
        BY <1>3, <3>1 DEF RunEnds
  <2> QED
      BY <1>2, <2>2, <2>3
<1>7. h[k].n = h[i].n => h[k].calls \in 1..h[i].calls
    BY <1>1 DEF Coherent
<1> QED
    BY <1>3, <1>5, <1>6, <1>7

\* What a repair adds behind a call, together with the results that are there.
LEMMA MendedValid ==
    ASSUME NEW M, Coherent(M), NEW h \in Sound(M), Strays(h) = {}, NEW i \in 1..Len(h),
           h[i].role = "assistant", NEW e \in i..Len(h), RunEnds(h, i, e)
    PROVE  Valid(Cat(Mended(h, h[i]), SubSeq(h, i + 1, e)))
<1> DEFINE m == h[i]
           R == SubSeq(h, i + 1, e)
           F == SetToSeq(Missing(h, m))
           T == Cat(F, R)
<1>1. h \in Histories /\ Unique(h) /\ Len(h) \in Nat
      /\ \A x \in 1..Len(h): h[x] \in M /\ h[x] \in Message
    BY Typed DEF Sound, Coherent
<1>2. m \in Message /\ m.n \in Nat /\ m.calls \in Nat /\ <<m>> \in Histories
    BY <1>1, OneTyped DEF Message
<1>3. F \in Histories /\ Mended(h, m) = Cat(<<m>>, F)
    BY <1>1, <1>2, MendedIs
<1>4. /\ \A x \in 1..Len(F): F[x] \in Missing(h, m)
      /\ \A a, x \in 1..Len(F): F[a] = F[x] => a = x
      /\ \A x \in Missing(h, m): \E a \in 1..Len(F): F[a] = x
  <2> DEFINE S == Missing(h, m)
  <2>1. S \in SUBSET Message /\ IsFiniteSet(S)
      BY <1>1, <1>2, MissingIsFinite
  <2> HIDE DEF S
  <2>2. /\ \A x \in 1..Len(SetToSeq(S)): SetToSeq(S)[x] \in S
        /\ \A a, x \in 1..Len(SetToSeq(S)): SetToSeq(S)[a] = SetToSeq(S)[x] => a = x
        /\ \A x \in S: \E a \in 1..Len(SetToSeq(S)): SetToSeq(S)[a] = x
      BY <2>1, SeqOfSet
  <2> QED
      BY <2>2 DEF S
<1>5. R \in Histories /\ Len(R) = e - i /\ \A j \in 1..(e - i): R[j] = h[i + j]
    BY <1>1, MidIs
<1> HIDE DEF F, R
<1>6. /\ T \in Histories /\ Len(T) = Len(F) + Len(R)
      /\ \A x \in 1..Len(F): T[x] = F[x]
      /\ \A x \in 1..Len(R): T[Len(F) + x] = R[x]
      /\ \A x \in 1..Len(T): x \in 1..Len(F) \/ \E y \in 1..Len(R): x = Len(F) + y
      /\ Len(F) \in Nat /\ Len(R) \in Nat
    BY <1>3, <1>5, Joined, Closed, Sides
<1> HIDE DEF T
\* a result of the run, one that was missing
<1>7. ASSUME NEW x \in 1..Len(R)
      PROVE  /\ i + x \in 1..Len(h) /\ R[x] = h[i + x] /\ h[i + x].role = "tool"
             /\ h[i + x].n = m.n /\ h[i + x].calls \in 1..m.calls
             /\ R[x] = Result(m.n, h[i + x].calls)
  <2>1. /\ i + x \in 1..Len(h) /\ i + x \in (i + 1)..e /\ x \in 1..(e - i)
      BY <1>1, <1>5
  <2>2. h[i + x].role = "tool" /\ R[x] = h[i + x]
      BY <1>5, <2>1 DEF RunEnds
  <2>3. h[i + x].n = m.n /\ h[i + x].calls \in 1..m.calls
      BY <2>1, <2>2, RunIsHis
  <2>4. h[i + x] = Result(h[i + x].n, h[i + x].calls)
      BY <1>1, <2>1, <2>2, ResultIs
  <2> QED
      BY <2>1, <2>2, <2>3, <2>4
<1>8. ASSUME NEW x \in 1..Len(F)
      PROVE  \E c \in (1..m.calls) \ Answered(h, m): F[x] = Result(m.n, c)
    BY <1>4 DEF Missing
<1>9. ASSUME NEW x \in 1..Len(T) PROVE \E c \in 1..m.calls: T[x] = Result(m.n, c)
  <2>1. CASE x \in 1..Len(F)
      BY <1>6, <1>8, <2>1
  <2>2. ASSUME NEW y \in 1..Len(R), x = Len(F) + y
        PROVE  \E c \in 1..m.calls: T[x] = Result(m.n, c)
    <3>1. T[x] = R[y]
        BY <1>6, <2>2
    <3> QED
        BY <1>7, <3>1
  <2> QED
      BY <1>6, <2>1, <2>2
<1>10. ASSUME NEW c \in 1..m.calls PROVE \E x \in 1..Len(T): T[x] = Result(m.n, c)
  <2>1. CASE c \in Answered(h, m)
    <3>1. PICK k \in 1..Len(h): h[k].role = "tool" /\ h[k].n = m.n /\ h[k].calls = c
        BY <1>1, <2>1, Typed DEF Answered
    <3>2. k \in (i + 1)..e
        BY <3>1, RunIsHis
    <3>3. k - i \in 1..Len(R) /\ Len(F) + (k - i) \in 1..Len(T) /\ i + (k - i) = k
        BY <1>1, <1>5, <1>6, <3>2
    <3>4. R[k - i] = Result(m.n, c)
        BY <1>7, <3>1, <3>3
    <3>5. T[Len(F) + (k - i)] = R[k - i]
        BY <1>6, <3>3
    <3> QED
        BY <3>3, <3>4, <3>5
  <2>2. CASE c \notin Answered(h, m)
    <3>1. Result(m.n, c) \in Missing(h, m)
        BY <2>2 DEF Missing
    <3>2. PICK a \in 1..Len(F): F[a] = Result(m.n, c)
        BY <1>4, <3>1
    <3>3. a \in 1..Len(T) /\ T[a] = F[a]
        BY <1>6, <3>2
    <3> QED
        BY <3>2, <3>3
  <2> QED
      BY <2>1, <2>2
<1>11. ASSUME NEW a \in 1..Len(T), NEW x \in 1..Len(T), T[a] = T[x] PROVE a = x
  <2>1. ASSUME NEW y \in 1..Len(F), NEW z \in 1..Len(R) PROVE F[y] # R[z]
    <3>1. PICK c \in (1..m.calls) \ Answered(h, m): F[y] = Result(m.n, c)
        BY <1>8
    <3>2. h[i + z].calls \in Answered(h, m) /\ R[z] = Result(m.n, h[i + z].calls)
      <4>1. i + z \in DOMAIN h
          BY <1>1, <1>7, Typed
      <4> QED
          BY <1>7, <4>1 DEF Answered
    <3>3. c # h[i + z].calls
        BY <3>1, <3>2
    <3> QED
        BY <3>1, <3>2, <3>3 DEF Result
  <2>2. ASSUME NEW y \in 1..Len(R), NEW z \in 1..Len(R), R[y] = R[z] PROVE y = z
    <3>1. h[i + y] = h[i + z] /\ h[i + y].role \in Special /\ i + y \in 1..Len(h)
          /\ i + z \in 1..Len(h)
        BY <1>7, <2>2 DEF Special
    <3>2. i + y = i + z
        BY <1>1, <3>1 DEF Unique
    <3> QED
        BY <1>6, <3>2
  <2>3. CASE a \in 1..Len(F) /\ x \in 1..Len(F)
      BY <1>4, <1>6, <1>11, <2>3
  <2>4. ASSUME NEW z \in 1..Len(R), a \in 1..Len(F), x = Len(F) + z PROVE FALSE
      BY <1>6, <1>11, <2>1, <2>4
  <2>5. ASSUME NEW z \in 1..Len(R), x \in 1..Len(F), a = Len(F) + z PROVE FALSE
      BY <1>6, <1>11, <2>1, <2>5
  <2>6. ASSUME NEW y \in 1..Len(R), NEW z \in 1..Len(R), a = Len(F) + y, x = Len(F) + z
        PROVE  a = x
    <3>1. R[y] = R[z]
        BY <1>6, <1>11, <2>6
    <3> QED
        BY <2>2, <2>6, <3>1
  <2> QED
      BY <1>6, <2>3, <2>4, <2>5, <2>6
<1>12. Len(T) = m.calls
  <2> DEFINE L == Len(T)
             K == m.calls
             g == [x \in 1..L |-> T[x].calls]
  <2>1. L \in Nat /\ K \in Nat
      BY <1>2, <1>6
  <2>2. ASSUME NEW x \in 1..L PROVE g[x] \in 1..K /\ T[x] = Result(m.n, g[x])
    <3>1. PICK c \in 1..K: T[x] = Result(m.n, c)
        BY <1>9
    <3>2. T[x].calls = c
        BY <3>1 DEF Result
    <3> QED
        BY <3>1, <3>2
  <2>3. ASSUME NEW c \in 1..K PROVE \E x \in 1..L: g[x] = c
    <3>1. PICK x \in 1..L: T[x] = Result(m.n, c)
        BY <1>10
    <3>2. T[x].calls = c
        BY <3>1 DEF Result
    <3> QED
        BY <3>2
  <2>4. ASSUME NEW x \in 1..L, NEW y \in 1..L, g[x] = g[y] PROVE x = y
    <3>1. T[x] = T[y]
        BY <2>2, <2>4
    <3> QED
        BY <1>11, <3>1
  <2> HIDE DEF L, K
  <2>5. g \in Bijection(1..L, 1..K)
    <3>1. g \in [1..L -> 1..K]
        BY <2>2
    <3>2. \A x, y \in 1..L: g[x] = g[y] => x = y
        BY <2>4
    <3>3. \A c \in 1..K: \E x \in 1..L: g[x] = c
        BY <2>3
    <3> HIDE DEF g
    <3>4. g \in Surjection(1..L, 1..K)
        BY <3>1, <3>3 DEF Surjection
    <3>5. g \in Injection(1..L, 1..K)
        BY <3>1, <3>2 DEF Injection, IsInjective
    <3> QED
        BY <3>4, <3>5 DEF Bijection
  <2>6. IsFiniteSet(1..L) /\ Cardinality(1..L) = L /\ Cardinality(1..K) = K
    <3>1. /\ 1 \in Int /\ K \in Int /\ L \in Int /\ ((IF 1 > K THEN 0 ELSE K - 1 + 1) = K)
          /\ ((IF 1 > L THEN 0 ELSE L - 1 + 1) = L)
        BY <2>1
    <3> QED
        BY <3>1, FS_Interval
  <2>7. Cardinality(1..K) = Cardinality(1..L)
      BY <2>5, <2>6, FS_Bijection DEF ExistsBijection
  <2> QED
      BY <2>6, <2>7 DEF L, K
<1>13. Valid(Cat(<<m>>, T))
    BY <1>2, <1>6, <1>9, <1>10, <1>12, CallValid
<1>14. Cat(Cat(<<m>>, F), R) = Cat(<<m>>, T)
    BY <1>2, <1>3, <1>5, Assoc DEF T
<1> QED
    BY <1>3, <1>13, <1>14 DEF R

LEMMA RepairedValid ==
    ASSUME NEW M, Coherent(M), NEW h \in Sound(M), Strays(h) = {}
    PROVE  Valid(Repaired(h))
<1>1. h \in Histories /\ \A i \in 1..Len(h): h[i] \in M /\ h[i] \in Message
    BY DEF Sound, Coherent
<1>2. CASE h = <<>>
    BY <1>2, RepairedNone, NoneValid
<1>3. CASE h # <<>>
  <2> DEFINE n == Len(h)
  <2>1. PICK f: /\ \A i \in 1..n: f[i] \in Histories
                /\ f[1] = Mended(h, h[1])
                /\ \A i \in 2..n: f[i] = Cat(f[i - 1], Mended(h, h[i]))
                /\ Repaired(h) = f[n]
      BY <1>1, <1>3, RepairedIs
  <2>2. n \in Nat /\ n > 0
      BY <1>1, <1>3, Typed DEF Histories
\* with the rest of the results at hand, what is repaired so far is valid
  <2> DEFINE Good(i) == \E e \in i..n: RunEnds(h, i, e) /\ Valid(Cat(f[i], SubSeq(h, i + 1, e)))
             before(i) == IF i = 1 THEN <<>> ELSE f[i - 1]
  <2>3. ASSUME NEW i \in 1..n
        PROVE  /\ before(i) \in Histories /\ f[i] = Cat(before(i), Mended(h, h[i]))
               /\ Mended(h, h[i]) \in Histories /\ h[i] \in Message
    <3>1. h[i] \in Message /\ Mended(h, h[i]) \in Histories
        BY <1>1, MendedIs
    <3>2. CASE i = 1
        BY <2>1, <3>1, <3>2, NoneTyped, Unit
    <3>3. CASE i # 1
      <4>1. i \in 2..n /\ i - 1 \in 1..n
          BY <2>2, <3>3
      <4> QED
          BY <2>1, <3>1, <3>3, <4>1
    <3> QED
        BY <3>2, <3>3
  <2>4. ASSUME NEW i \in 1..n, i # 1 => Good(i - 1), h[i].role # "tool"
        PROVE  Valid(before(i))
    <3>1. CASE i = 1
        BY <3>1, NoneValid
    <3>2. CASE i # 1
      <4>1. i \in 2..n /\ i - 1 \in 1..n /\ i - 1 \in 0..n
          BY <2>2, <3>2
      <4>2. PICK e \in (i - 1)..n:
               RunEnds(h, i - 1, e) /\ Valid(Cat(f[i - 1], SubSeq(h, (i - 1) + 1, e)))
          BY <2>4, <3>2
      <4>3. e = i - 1
        <5>1. SUFFICES ASSUME e > i - 1 PROVE FALSE
            BY <4>1
        <5>2. i \in ((i - 1) + 1)..e
            BY <4>1, <5>1
        <5> QED
            BY <2>4, <4>2, <5>2 DEF RunEnds
      <4>4. SubSeq(h, (i - 1) + 1, e) = <<>>
        <5>1. /\ SubSeq(h, (i - 1) + 1, i - 1) \in Histories
              /\ Len(SubSeq(h, (i - 1) + 1, i - 1)) = (i - 1) - (i - 1)
          <6>1. i - 1 \in (i - 1)..Len(h)
              BY <4>1
          <6> QED
              BY <1>1, <4>1, <6>1, MidIs
        <5> QED
            BY <4>1, <4>3, <5>1 DEF Histories
      <4>5. f[i - 1] \in Histories
          BY <2>1, <4>1
      <4> QED
          BY <3>2, <4>2, <4>4, <4>5, Unit
    <3> QED
        BY <3>1, <3>2
  <2>5. ASSUME NEW i \in 1..n, i # 1 => Good(i - 1), h[i].role # "tool"
        PROVE  Good(i)
    <3> DEFINE b == Mended(h, h[i])
               p == before(i)
    <3>1. PICK e \in i..n: RunEnds(h, i, e)
        BY <1>1, RunEndIs
    <3> DEFINE R == SubSeq(h, i + 1, e)
    <3>2. R \in Histories /\ Len(R) = e - i
        BY <1>1, MidIs
    <3>3. /\ p \in Histories /\ f[i] = Cat(p, b) /\ b \in Histories /\ h[i] \in Message
          /\ Valid(p)
        BY <2>3, <2>4, <2>5
    <3>4. Valid(Cat(b, R))
      <4>1. CASE h[i].role = "assistant"
          BY <3>1, <4>1, MendedValid
      <4>2. CASE h[i].role # "assistant"
        <5>1. b = <<h[i]>> /\ <<h[i]>> \in Histories
            BY <1>1, <3>3, <4>2, MendedIs, OneTyped
        <5>2. e = i
          <6>1. SUFFICES ASSUME e > i PROVE FALSE
              BY <2>2, <3>1
          <6>2. i + 1 \in (i + 1)..e /\ i + 1 \in 1..n
              BY <2>2, <6>1
          <6>3. h[i + 1].role = "tool"
              BY <3>1, <6>2 DEF RunEnds
          <6>4. PICK j \in 1..((i + 1) - 1):
                   h[j].role = "assistant" /\ \A k \in (j + 1)..(i + 1): h[k].role = "tool"
              BY <1>1, <6>2, <6>3, NoStrays
          <6>5. j < i
              BY <4>2, <6>4
          <6>6. i \in (j + 1)..(i + 1)
              BY <6>5
          <6> QED
              BY <2>5, <6>4, <6>6
        <5>3. R = <<>>
            BY <3>2, <5>2 DEF Histories
        <5>4. Valid(<<h[i]>>)
          <6>1. h[i].role \in {"system", "user"}
              BY <2>5, <3>3, <4>2 DEF Message
          <6>2. \A j \in 1..Len(<<h[i]>>): <<h[i]>>[j].role \in {"system", "user"}
              BY <6>1
          <6> QED
              BY <5>1, <6>2, PlainValid
        <5> QED
            BY <5>1, <5>3, <5>4, Unit
      <4> QED
          BY <4>1, <4>2
    <3> HIDE DEF b, p, R
    <3>5. Cat(f[i], R) = Cat(p, Cat(b, R)) /\ Cat(b, R) \in Histories
        BY <3>2, <3>3, Assoc, Closed
    <3>6. Valid(Cat(f[i], R))
        BY <3>3, <3>4, <3>5, ValidJoin
    <3> QED
        BY <3>1, <3>6 DEF R
  <2>6. ASSUME NEW i \in 1..n, i # 1 => Good(i - 1), h[i].role = "tool"
        PROVE  Good(i)
    <3>1. PICK j \in 1..(i - 1): h[j].role = "assistant"
        BY <1>1, <2>6, NoStrays
    <3>2. i # 1 /\ i \in 2..n /\ i - 1 \in 1..n
        BY <2>2, <3>1
    <3>3. PICK e \in (i - 1)..n:
             RunEnds(h, i - 1, e) /\ Valid(Cat(f[i - 1], SubSeq(h, (i - 1) + 1, e)))
        BY <2>6, <3>2
    <3>4. e \in i..n
      <4>1. SUFFICES ASSUME e = i - 1 PROVE FALSE
          BY <2>2, <3>2
      <4>2. e # n /\ e + 1 = i
          BY <2>2, <3>2, <4>1
      <4> QED
          BY <2>6, <3>3, <4>2 DEF RunEnds
    <3> DEFINE R == SubSeq(h, i + 1, e)
    <3>5. R \in Histories
        BY <1>1, <3>4, MidIs
    <3>6. SubSeq(h, (i - 1) + 1, e) = Cat(<<h[i]>>, R)
      <4>1. (i - 1) + 1 = i
          BY <3>2
      <4> QED
          BY <1>1, <3>2, <3>4, <4>1, MidSplits
    <3>7. f[i - 1] \in Histories /\ f[i] = Cat(f[i - 1], <<h[i]>>) /\ <<h[i]>> \in Histories
      <4>1. h[i] \in Message /\ h[i].role # "assistant"
          BY <1>1, <2>6
      <4>2. Mended(h, h[i]) = <<h[i]>> /\ <<h[i]>> \in Histories
          BY <1>1, <4>1, MendedIs, OneTyped
      <4> QED
          BY <2>1, <3>2, <4>2
    <3>8. Cat(f[i], R) = Cat(f[i - 1], Cat(<<h[i]>>, R))
        BY <3>5, <3>7, Assoc
    <3>9. RunEnds(h, i, e)
      <4>1. \A k \in (i + 1)..e: k \in ((i - 1) + 1)..e
          BY <3>2
      <4> QED
          BY <3>3, <4>1 DEF RunEnds
    <3>10. Valid(Cat(f[i], R))
        BY <3>3, <3>6, <3>8
    <3> QED
        BY <3>4, <3>9, <3>10
  <2> HIDE DEF Good, before, n
  <2>7. \A i \in 1..n: Good(i)
    <3> DEFINE bad == {i \in 1..n: ~Good(i)}
    <3>1. SUFFICES ASSUME bad # {} PROVE FALSE
        OBVIOUS
    <3>2. PICK i \in bad: \A j \in bad: i <= j
      <4>1. bad \in SUBSET Nat
          OBVIOUS
      <4> QED
          BY <3>1, <4>1, LeastNatural
    <3>3. ASSUME i # 1 PROVE Good(i - 1)
      <4>1. i - 1 \in 1..n /\ ~(i <= i - 1)
          BY <2>2, <3>2, <3>3
      <4> QED
          BY <3>2, <4>1
    <3> QED
        BY <2>5, <2>6, <3>2, <3>3
  <2>8. PICK e \in n..n: Valid(Cat(f[n], SubSeq(h, n + 1, e)))
      BY <2>2, <2>7 DEF Good
  <2>9. SubSeq(h, n + 1, e) = <<>>
    <3>1. SubSeq(h, n + 1, e) \in Histories /\ Len(SubSeq(h, n + 1, e)) = e - n
      <4>1. n \in 1..Len(h) /\ e \in n..Len(h)
          BY <2>2 DEF n
      <4> QED
          BY <1>1, <4>1, MidIs
    <3>2. e - n = 0
        BY <2>2
    <3> QED
        BY <3>1, <3>2 DEF Histories
  <2>10. f[n] \in Histories
      BY <2>1, <2>2 DEF n
  <2> QED
      BY <2>1, <2>8, <2>9, <2>10, Unit DEF n
<1> QED
    BY <1>2, <1>3

LEMMA SoundIs ==
    ASSUME NEW M, NEW h \in Sound(M)
    PROVE  h \in Histories /\ Unique(h) /\ \A i \in 1..Len(h): h[i] \in M
BY DEF Sound

LEMMA SoundGrows ==
    ASSUME NEW M, NEW N, M \subseteq N, NEW h \in Sound(M)
    PROVE  h \in Sound(N)
BY DEF Sound

LEMMA NoneSound == \A M: <<>> \in Sound(M)
BY NoneTyped DEF Sound, Unique

LEMMA OneSound ==
    ASSUME NEW N, NEW m \in N, m \in Message
    PROVE  <<m>> \in Sound(N)
BY OneTyped DEF Sound, Unique

\* Two histories have no call and no result in common.
Apart(s, t) == \A i \in 1..Len(s), j \in 1..Len(t): s[i] = t[j] => s[i].role \notin Special

LEMMA SoundJoin ==
    ASSUME NEW M, NEW s \in Sound(M), NEW t \in Sound(M), Apart(s, t)
    PROVE  Cat(s, t) \in Sound(M)
<1>1. /\ s \in Histories /\ Unique(s) /\ \A i \in 1..Len(s): s[i] \in M
      /\ t \in Histories /\ Unique(t) /\ \A i \in 1..Len(t): t[i] \in M
    BY SoundIs
<1>2. Cat(s, t) \in Histories /\ Unique(Cat(s, t))
    BY <1>1, Closed, UniqueJoin DEF Apart
<1>3. ASSUME NEW i \in 1..Len(Cat(s, t)) PROVE Cat(s, t)[i] \in M
  <2>1. i \in 1..Len(s) \/ \E x \in 1..Len(t): i = Len(s) + x
      BY <1>1, Sides
  <2>2. CASE i \in 1..Len(s)
    <3>1. Cat(s, t)[i] = s[i]
        BY <1>1, <2>2, Joined
    <3> QED
        BY <1>1, <2>2, <3>1
  <2>3. ASSUME NEW x \in 1..Len(t), i = Len(s) + x PROVE Cat(s, t)[i] \in M
    <3>1. Cat(s, t)[i] = t[x]
        BY <1>1, <2>3, Joined
    <3> QED
        BY <1>1, <3>1
  <2> QED
      BY <2>1, <2>2, <2>3
<1> QED
    BY <1>2, <1>3 DEF Sound

LEMMA SoundSplit ==
    ASSUME NEW M, NEW s \in Histories, NEW t \in Histories, Cat(s, t) \in Sound(M)
    PROVE  s \in Sound(M) /\ t \in Sound(M) /\ Apart(s, t)
<1> DEFINE h == Cat(s, t)
<1>1. /\ Len(h) = Len(s) + Len(t) /\ Len(s) \in Nat /\ Len(t) \in Nat
      /\ \A i \in 1..Len(s): h[i] = s[i]
      /\ \A i \in 1..Len(t): h[Len(s) + i] = t[i]
    BY Joined
<1>2. Unique(h) /\ \A i \in 1..Len(h): h[i] \in M
    BY SoundIs
<1> HIDE DEF h
<1>3. /\ \A i \in 1..Len(s): i \in 1..Len(h)
      /\ \A i \in 1..Len(t): Len(s) + i \in 1..Len(h)
      /\ \A i \in 1..Len(s), j \in 1..Len(t): i # Len(s) + j
      /\ \A i, j \in 1..Len(t): Len(s) + i = Len(s) + j => i = j
    BY <1>1
<1>4. (\A i \in 1..Len(s): s[i] \in M) /\ \A i \in 1..Len(t): t[i] \in M
    BY <1>1, <1>2, <1>3
<1>5. Unique(s)
    BY <1>1, <1>2, <1>3 DEF Unique
<1>6. ASSUME NEW i \in 1..Len(t), NEW j \in 1..Len(t), t[i] = t[j], t[i].role \in Special
      PROVE  i = j
  <2>1. h[Len(s) + i] = h[Len(s) + j] /\ h[Len(s) + i].role \in Special
      BY <1>1, <1>6
  <2>2. Len(s) + i = Len(s) + j
      BY <1>2, <1>3, <2>1 DEF Unique
  <2> QED
      BY <1>3, <2>2
<1>7. ASSUME NEW i \in 1..Len(s), NEW j \in 1..Len(t), s[i] = t[j], s[i].role \in Special
      PROVE  FALSE
  <2>1. h[i] = h[Len(s) + j] /\ h[i].role \in Special
      BY <1>1, <1>7
  <2>2. i = Len(s) + j
      BY <1>2, <1>3, <2>1 DEF Unique
  <2> QED
      BY <1>3, <2>2
<1> QED
    BY <1>4, <1>5, <1>6, <1>7 DEF Sound, Unique, Apart

LEMMA PlainApart ==
    ASSUME NEW s \in Histories, NEW t, \A i \in 1..Len(s): s[i].role \notin Special
    PROVE  Apart(s, t) /\ Apart(t, s)
BY DEF Apart

LEMMA ApartJoin ==
    ASSUME NEW s \in Histories, NEW t \in Histories, NEW u, Apart(s, u), Apart(t, u)
    PROVE  Apart(Cat(s, t), u) /\ Apart(u, Cat(s, t))
<1>1. ASSUME NEW i \in 1..Len(Cat(s, t)), NEW j \in 1..Len(u), Cat(s, t)[i] = u[j]
      PROVE  u[j].role \notin Special
  <2>1. i \in 1..Len(s) \/ \E x \in 1..Len(t): i = Len(s) + x
      BY Sides
  <2>2. CASE i \in 1..Len(s)
    <3>1. Cat(s, t)[i] = s[i]
        BY <2>2, Joined
    <3> QED
        BY <1>1, <2>2, <3>1 DEF Apart
  <2>3. ASSUME NEW x \in 1..Len(t), i = Len(s) + x PROVE u[j].role \notin Special
    <3>1. Cat(s, t)[i] = t[x]
        BY <2>3, Joined
    <3> QED
        BY <1>1, <3>1 DEF Apart
  <2> QED
      BY <2>1, <2>2, <2>3
<1> QED
    BY <1>1 DEF Apart

LEMMA SoundCompacted ==
    ASSUME NEW M, NEW h \in Sound(M), NEW policy \in Policies, Summary \in M
    PROVE  Compacted(h, policy) \in Sound(M)
<1>1. CASE Compacted(h, policy) = h
    BY <1>1
<1>2. CASE Compacted(h, policy) # h
  <2>1. PICK S \in Histories, X \in Histories, A \in Histories, B \in Histories:
              /\ h = Cat(Cat(S, X), Cat(A, B))
              /\ Compacted(h, policy) = Cat(Cat(S, A), Cat(<<Summary>>, B))
              /\ \A i \in 1..Len(S): S[i].role = "system"
      BY <1>2, CompactedSplits, SoundIs
  <2> DEFINE N == <<Summary>>
  <2>2. N \in Histories /\ N \in Sound(M) /\ \A i \in 1..Len(N): N[i].role \notin Special
    <3>1. N \in Histories
        BY OneTyped, MessagesTyped
    <3>2. Len(N) = 1 /\ N[1] = Summary /\ Summary.role = "system"
        BY DEF Summary
    <3>3. N \in Sound(M)
        BY MessagesTyped, OneSound
    <3> HIDE DEF N
    <3>4. \A i \in 1..Len(N): i = 1
        BY <3>2
    <3> QED
        BY <3>1, <3>2, <3>3, <3>4 DEF Special
  <2> HIDE DEF N
  <2>3. Cat(S, X) \in Histories /\ Cat(A, B) \in Histories
      BY Closed
  <2>4. Cat(S, X) \in Sound(M) /\ Cat(A, B) \in Sound(M)
      BY <2>1, <2>3, SoundSplit
  <2>5. S \in Sound(M) /\ A \in Sound(M) /\ B \in Sound(M) /\ Apart(A, B)
      BY <2>4, SoundSplit
  <2>6. /\ Apart(S, A) /\ Apart(S, B) /\ Apart(S, N) /\ Apart(N, B) /\ Apart(A, N)
    <3>1. \A i \in 1..Len(S): S[i].role \notin Special
        BY <2>1 DEF Special
    <3> QED
        BY <2>2, <3>1, PlainApart
  <2>7. Cat(S, A) \in Sound(M) /\ Cat(N, B) \in Sound(M)
      BY <2>2, <2>5, <2>6, SoundJoin
  <2>8. Apart(Cat(S, A), N) /\ Apart(Cat(S, A), B)
      BY <2>5, <2>6, ApartJoin
  <2>9. Apart(N, Cat(S, A)) /\ Apart(B, Cat(S, A))
      BY <2>5, <2>6, ApartJoin
  <2>10. Apart(Cat(S, A), Cat(N, B))
      BY <2>2, <2>9, ApartJoin
  <2> QED
      BY <2>1, <2>7, <2>10, SoundJoin DEF N
<1> QED
    BY <1>1, <1>2

LEMMA SoundCut ==
    ASSUME NEW M, NEW h \in Sound(M), NEW after \in BOOLEAN, NEW cut \in Cuts(h, after)
    PROVE  cut \in Sound(M)
<1>1. h \in Histories /\ Unique(h) /\ (\A i \in 1..Len(h): h[i] \in M) /\ Len(h) \in Nat
    BY SoundIs, Typed
<1>2. PICK i \in 1..Len(h): cut = SubSeq(h, 1, IF after THEN i ELSE i - 1) /\ cut \in Histories
    BY <1>1, CutsTyped
<1>3. PICK k \in 0..Len(h): k = IF after THEN i ELSE i - 1
    BY <1>1
<1>4. Len(cut) = k /\ \A j \in 1..k: cut[j] = h[j] /\ j \in 1..Len(h)
    BY <1>1, <1>2, <1>3, PrefixIs
<1>5. \A j \in 1..Len(cut): cut[j] = h[j] /\ j \in 1..Len(h)
    BY <1>4
<1>6. Unique(cut)
    BY <1>1, <1>5 DEF Unique
<1>7. \A j \in 1..Len(cut): cut[j] \in M
    BY <1>1, <1>5
<1> QED
    BY <1>2, <1>6, <1>7 DEF Sound

LEMMA SoundAppend ==
    ASSUME NEW M, NEW h \in Sound(M), NEW m \in M, m \in Message, m.role \notin Special
    PROVE  Append(h, m) \in Sound(M)
<1> DEFINE N == <<m>>
<1>1. N \in Histories /\ h \in Histories
    BY OneTyped, SoundIs
<1>2. Len(N) = 1 /\ N[1] = m
    OBVIOUS
<1>3. Append(h, m) = Cat(h, N)
    BY <1>1, AppendTyped
<1> HIDE DEF N
<1>4. N \in Sound(M) /\ \A i \in 1..Len(N): N[i].role \notin Special
  <2>1. N \in Sound(M)
      BY OneSound DEF N
  <2>2. \A i \in 1..Len(N): i = 1
      BY <1>2
  <2> QED
      BY <1>2, <2>1, <2>2
<1>5. Apart(h, N)
    BY <1>1, <1>4, PlainApart
<1> QED
    BY <1>3, <1>4, <1>5, SoundJoin

\* What is pushed is new to every copy.
LEMMA SoundPush ==
    ASSUME NEW M, NEW N, M \subseteq N, NEW h \in Sound(M), NEW t \in Sound(N),
           \A i \in 1..Len(t): t[i] \notin M
    PROVE  Cat(h, t) \in Sound(N)
<1>1. h \in Sound(N) /\ \A i \in 1..Len(h): h[i] \in M
    BY SoundGrows, SoundIs
<1>2. Apart(h, t)
    BY <1>1 DEF Apart
<1> QED
    BY <1>1, <1>2, SoundJoin

-----------------------------------------------------------------------------
(* Every copy is sound, also after two writers have met.                   *)

Busy == {r \in TurnRequests: turn[r].pc \in {"answered", "tool"}}

\* The messages a copy may hold: numbers are spent, a call has its size, and of
\* an open batch there is no result that the loop has not come to.
Fitting(sizes) ==
    {m \in Message:
       /\ m.role \in Special => m.n < count.pushed
       /\ m.role = "assistant" => m.calls = sizes[m.n]
       /\ m.role = "tool" =>
             /\ m.calls \in 1..sizes[m.n]
             /\ \A r \in Busy: m.n = turn[r].n => m.calls < turn[r].next}

TurnsFit(sizes) ==
    /\ \A r \in Busy: turn[r].n < count.pushed /\ turn[r].calls = sizes[turn[r].n]
    /\ \A r, q \in Busy: turn[r].n = turn[q].n => r = q

Sane(sizes) ==
    /\ TurnsFit(sizes)
    /\ messages \in Sound(Fitting(sizes)) /\ jsonl \in Sound(Fitting(sizes))
    /\ compact.snap \in Sound(Fitting(sizes))
    /\ \A r \in TurnRequests: turn[r].cut \in Sound(Fitting(sizes))

Sizes == [Nat -> Nat]

\* A step that opens no batch.
Steady ==
    /\ count'.pushed >= count.pushed
    /\ \A r \in Busy': /\ r \in Busy /\ turn'[r].n = turn[r].n
                       /\ turn'[r].calls = turn[r].calls /\ turn'[r].next >= turn[r].next

CutsStay == \A r \in TurnRequests: turn'[r].cut \in {turn[r].cut, <<>>}

LEMMA SteadyFits ==
    ASSUME HistoryTypeOK, HistoryTypeOK', NEW sizes \in Sizes, TurnsFit(sizes), Steady
    PROVE  Fitting(sizes) \subseteq Fitting(sizes)' /\ TurnsFit(sizes)'
<1>1. /\ count.pushed \in Nat /\ count'.pushed \in Nat
      /\ \A r \in TurnRequests: turn[r].n \in Nat /\ turn[r].next \in Nat
                                /\ turn'[r].n \in Nat /\ turn'[r].next \in Nat
      /\ Busy \subseteq TurnRequests /\ Busy' \subseteq TurnRequests
    BY DEF HistoryTypeOK, TurnRecord, Busy
<1>2. /\ count'.pushed >= count.pushed
      /\ \A r \in Busy': /\ r \in Busy /\ turn'[r].n = turn[r].n
                         /\ turn'[r].calls = turn[r].calls /\ turn'[r].next >= turn[r].next
    BY DEF Steady
<1>3. ASSUME NEW m \in Fitting(sizes) PROVE m \in Fitting(sizes)'
  <2>1. m \in Message /\ m.n \in Nat /\ m.calls \in Nat
      BY DEF Fitting, Message
  <2>2. m.role \in Special => m.n < count'.pushed
      BY <1>1, <1>2, <2>1 DEF Fitting
  <2>3. ASSUME m.role = "tool", NEW r \in Busy', m.n = turn'[r].n PROVE m.calls < turn'[r].next
    <3>1. r \in Busy /\ m.n = turn[r].n
        BY <1>2, <2>3
    <3>2. m.calls < turn[r].next
        BY <2>3, <3>1 DEF Fitting
    <3> QED
        BY <1>1, <1>2, <2>1, <2>3, <3>1, <3>2
  <2> QED
      BY <2>1, <2>2, <2>3 DEF Fitting
<1>4. ASSUME NEW r \in Busy'
      PROVE  turn'[r].n < count'.pushed /\ turn'[r].calls = sizes[turn'[r].n]
  <2>1. turn[r].n < count.pushed /\ turn[r].calls = sizes[turn[r].n]
      BY <1>2 DEF TurnsFit
  <2> QED
      BY <1>1, <1>2, <2>1
<1>5. \A r, q \in Busy': turn'[r].n = turn'[q].n => r = q
    BY <1>2 DEF TurnsFit
<1> QED
    BY <1>3, <1>4, <1>5 DEF TurnsFit

\* What is known after a steady step, of the copies there were.
LEMMA OldCopies ==
    ASSUME HistoryTypeOK, HistoryTypeOK', NEW sizes \in Sizes, Sane(sizes), Steady, CutsStay
    PROVE  /\ TurnsFit(sizes)'
           /\ \A r \in TurnRequests: turn'[r].cut \in Sound(Fitting(sizes)')
           /\ messages \in Sound(Fitting(sizes)') /\ jsonl \in Sound(Fitting(sizes)')
           /\ compact.snap \in Sound(Fitting(sizes)') /\ <<>> \in Sound(Fitting(sizes)')
<1> DEFINE M == Fitting(sizes)
           N == Fitting(sizes)'
<1>1. M \subseteq N /\ TurnsFit(sizes)'
    BY SteadyFits DEF Sane
<1>2. /\ messages \in Sound(M) /\ jsonl \in Sound(M) /\ compact.snap \in Sound(M)
      /\ \A r \in TurnRequests: turn[r].cut \in Sound(M)
    BY DEF Sane
<1> HIDE DEF M, N
<1>3. /\ messages \in Sound(N) /\ jsonl \in Sound(N) /\ compact.snap \in Sound(N)
      /\ <<>> \in Sound(N)
    BY <1>1, <1>2, SoundGrows, NoneSound
<1>4. ASSUME NEW r \in TurnRequests PROVE turn'[r].cut \in Sound(N)
  <2>1. turn[r].cut \in Sound(N)
      BY <1>1, <1>2, SoundGrows
  <2> QED
      BY <1>3, <2>1 DEF CutsStay
<1> QED
    BY <1>1, <1>3, <1>4 DEF N

\* Messages that are neither calls nor results are in every such set.
LEMMA PlainFits ==
    ASSUME NEW sizes, count.pushed \in Nat
    PROVE  /\ Summary \in Fitting(sizes) /\ Prompt \in Fitting(sizes)
           /\ \A n \in Nat: User(n) \in Fitting(sizes) /\ Daemon(n) \in Fitting(sizes)
BY MessagesTyped DEF Fitting, Special, Summary, Prompt, User, Daemon

LEMMA PlainFitsNext ==
    ASSUME NEW sizes, count'.pushed \in Nat
    PROVE  /\ Summary \in Fitting(sizes)'
           /\ \A n \in Nat: User(n) \in Fitting(sizes)' /\ Daemon(n) \in Fitting(sizes)'
BY MessagesTyped DEF Fitting, Special, Summary, User, Daemon

LEMMA UserSound ==
    ASSUME NEW M, NEW h \in Sound(M), NEW m \in M, m \in Message, m.role = "user"
    PROVE  Append(h, m) \in Sound(M)
BY SoundAppend DEF Special

\* What the actions do to the turns.
LEMMA GoesIs ==
    ASSUME HistoryTypeOK, NEW r \in TurnRequests, NEW p, Goes(r, p)
    PROVE  /\ \A q \in TurnRequests: q # r => turn'[q] = turn[q]
           /\ turn'[r].pc = p /\ turn'[r].cut = turn[r].cut /\ turn'[r].n = turn[r].n
           /\ turn'[r].calls = turn[r].calls /\ turn'[r].next = turn[r].next
<1>1. turn \in [TurnRequests -> TurnRecord] /\ turn[r] \in TurnRecord
    BY HistoryFacts
<1>2. turn' = [turn EXCEPT ![r] = [turn[r] EXCEPT !.pc = p]]
    BY DEF Goes, Set
<1>3. turn'[r] = [turn[r] EXCEPT !.pc = p] /\ \A q \in TurnRequests: q # r => turn'[q] = turn[q]
    BY <1>1, <1>2
<1> QED
    BY <1>1, <1>3 DEF TurnRecord

LEMMA SetIs ==
    ASSUME HistoryTypeOK, NEW r \in TurnRequests, NEW t, Set(r, t)
    PROVE  turn'[r] = t /\ \A q \in TurnRequests: q # r => turn'[q] = turn[q]
BY HistoryFacts DEF Set

LEMMA CountsIs ==
    ASSUME HistoryTypeOK, NEW f \in {"pushed", "turns", "compacts", "crashes"}, Counts(f)
    PROVE  count'.pushed = IF f = "pushed" THEN count.pushed + 1 ELSE count.pushed
<1>1. count \in Tally
    BY HistoryFacts
<1> QED
    BY <1>1 DEF Counts, Tally

\* A step of r that leaves it out of a batch, or where it was in one.
LEMMA SteadyIs ==
    ASSUME HistoryTypeOK, HistoryTypeOK', NEW r \in TurnRequests,
           count'.pushed \in {count.pushed, count.pushed + 1},
           \A q \in TurnRequests: q # r => turn'[q] = turn[q],
           turn'[r].cut \in {turn[r].cut, <<>>},
           turn'[r].pc \in {"answered", "tool"} =>
              /\ turn[r].pc \in {"answered", "tool"} /\ turn'[r].n = turn[r].n
              /\ turn'[r].calls = turn[r].calls /\ turn'[r].next >= turn[r].next
    PROVE  Steady /\ CutsStay
<1>1. /\ count.pushed \in Nat /\ \A q \in TurnRequests: turn[q].next \in Nat
    BY HistoryFacts
<1> QED
    BY <1>1 DEF Steady, CutsStay, Busy

LEMMA StillSteady ==
    ASSUME HistoryTypeOK, HistoryTypeOK', turn' = turn,
           count'.pushed = count.pushed
    PROVE  Steady /\ CutsStay
<1>1. /\ count.pushed \in Nat /\ \A q \in TurnRequests: turn[q].next \in Nat
    BY HistoryFacts
<1> QED
    BY <1>1 DEF Steady, CutsStay, Busy

\* How far a batch is.
Counted ==
    \A r \in TurnRequests:
       /\ turn[r].pc = "answered" => turn[r].next = 1
       /\ turn[r].pc = "tool" => turn[r].next \in 1..turn[r].calls

Opening(r, k) ==
    \A q \in Busy': \/ q \in Busy /\ turn'[q].n = turn[q].n /\ turn'[q].calls = turn[q].calls
                       /\ turn'[q].next >= turn[q].next
                    \/ q = r /\ turn'[q].n = count.pushed /\ turn'[q].calls = k

LEMMA OpeningFits ==
    ASSUME HistoryTypeOK, HistoryTypeOK', NEW sizes \in Sizes, TurnsFit(sizes),
           NEW r \in TurnRequests, NEW k \in Nat, Opening(r, k), r \notin Busy,
           count'.pushed = count.pushed + 1,
           NEW z \in Sizes, z[count.pushed] = k,
           \A n \in Nat: n # count.pushed => z[n] = sizes[n]
    PROVE  /\ Fitting(sizes) \subseteq Fitting(z)' /\ TurnsFit(z)'
           /\ Assistant(count.pushed, k) \in Fitting(z)'
           /\ Assistant(count.pushed, k) \notin Fitting(sizes)
<1>1. /\ count.pushed \in Nat
      /\ \A q \in TurnRequests: turn[q].n \in Nat /\ turn[q].next \in Nat
                                /\ turn'[q].n \in Nat /\ turn'[q].next \in Nat
      /\ Busy \subseteq TurnRequests /\ Busy' \subseteq TurnRequests
    BY DEF HistoryTypeOK, TurnRecord, Busy
<1>2. \A q \in Busy': \/ q \in Busy /\ turn'[q].n = turn[q].n /\ turn'[q].calls = turn[q].calls
                         /\ turn'[q].next >= turn[q].next
                      \/ q = r /\ turn'[q].n = count.pushed /\ turn'[q].calls = k
    BY DEF Opening
<1>3. \A q \in Busy: turn[q].n < count.pushed /\ turn[q].calls = sizes[turn[q].n]
    BY DEF TurnsFit
<1>4. ASSUME NEW m \in Fitting(sizes) PROVE m \in Fitting(z)'
  <2>1. m \in Message /\ m.n \in Nat /\ m.calls \in Nat
      BY DEF Fitting, Message
  <2>2. m.role \in Special => m.n < count.pushed
      BY DEF Fitting
  <2>3. m.role \in Special => m.n < count'.pushed /\ z[m.n] = sizes[m.n]
      BY <1>1, <2>1, <2>2
  <2>4. ASSUME m.role = "tool", NEW q \in Busy', m.n = turn'[q].n PROVE m.calls < turn'[q].next
    <3>1. m.n < count.pushed
        BY <2>2, <2>4 DEF Special
    <3>2. turn'[q].n # count.pushed
        BY <1>1, <2>1, <2>4, <3>1
    <3>3. q \in Busy /\ m.n = turn[q].n /\ turn'[q].next >= turn[q].next
        BY <1>2, <2>4, <3>2
    <3>4. m.calls < turn[q].next
        BY <2>4, <3>3 DEF Fitting
    <3> QED
        BY <1>1, <2>1, <3>3, <3>4
  <2>5. m.role = "assistant" => m.calls = z[m.n]
      BY <2>3 DEF Fitting, Special
  <2>6. m.role = "tool" => m.calls \in 1..z[m.n]
      BY <2>3 DEF Fitting, Special
  <2> QED
      BY <2>1, <2>3, <2>4, <2>5, <2>6 DEF Fitting
<1>5. ASSUME NEW q \in Busy'
      PROVE  turn'[q].n < count'.pushed /\ turn'[q].calls = z[turn'[q].n]
  <2>1. CASE /\ q \in Busy /\ turn'[q].n = turn[q].n /\ turn'[q].calls = turn[q].calls
    <3>1. turn[q].n < count.pushed /\ turn[q].calls = sizes[turn[q].n] /\ turn[q].n \in Nat
        BY <1>1, <1>3, <2>1
    <3>2. turn[q].n # count.pushed /\ turn[q].n < count'.pushed
        BY <1>1, <3>1
    <3>3. z[turn[q].n] = sizes[turn[q].n]
        BY <3>1, <3>2
    <3> QED
        BY <2>1, <3>1, <3>2, <3>3
  <2>2. CASE q = r /\ turn'[q].n = count.pushed /\ turn'[q].calls = k
      BY <1>1, <2>2
  <2> QED
      BY <1>2, <2>1, <2>2
<1>6. ASSUME NEW p \in Busy', NEW q \in Busy', turn'[p].n = turn'[q].n PROVE p = q
  <2>1. \A x \in Busy: turn[x].n # count.pushed
      BY <1>1, <1>3
  <2> QED
      BY <1>2, <1>6, <2>1 DEF TurnsFit
<1>7. TurnsFit(z)'
    BY <1>5, <1>6 DEF TurnsFit
<1>8. Assistant(count.pushed, k) \in Fitting(z)'
  <2>1. /\ Assistant(count.pushed, k) \in Message
        /\ Assistant(count.pushed, k).role = "assistant"
        /\ Assistant(count.pushed, k).n = count.pushed
        /\ Assistant(count.pushed, k).calls = k
      BY <1>1, MessagesTyped DEF Assistant
  <2>2. count.pushed < count'.pushed
      BY <1>1
  <2> QED
      BY <2>1, <2>2 DEF Fitting
<1>9. Assistant(count.pushed, k) \notin Fitting(sizes)
  <2>1. ~(count.pushed < count.pushed)
      BY <1>1
  <2> QED
      BY <2>1 DEF Fitting, Assistant, Special
<1> QED
    BY <1>4, <1>7, <1>8, <1>9

LEMMA OpeningSane ==
    ASSUME HistoryTypeOK, HistoryTypeOK', NEW sizes \in Sizes, Sane(sizes),
           NEW r \in TurnRequests, NEW k \in Nat, Opening(r, k), r \notin Busy, CutsStay,
           count'.pushed = count.pushed + 1,
           messages' = Cat(messages, <<Assistant(count.pushed, k)>>),
           jsonl' = jsonl, compact' = compact
    PROVE  \E z \in Sizes: Sane(z)'
<1>1. count.pushed \in Nat /\ Assistant(count.pushed, k) \in Message
    BY HistoryFacts, MessagesTyped
<1>2. PICK z \in Sizes: /\ z[count.pushed] = k
                       /\ \A n \in Nat: n # count.pushed => z[n] = sizes[n]
  <2>1. [sizes EXCEPT ![count.pushed] = k] \in Sizes
      BY DEF Sizes
  <2>2. [sizes EXCEPT ![count.pushed] = k][count.pushed] = k
      BY <1>1 DEF Sizes
  <2>3. \A n \in Nat: n # count.pushed => [sizes EXCEPT ![count.pushed] = k][n] = sizes[n]
      BY DEF Sizes
  <2> QED
      BY <2>1, <2>2, <2>3
<1> DEFINE M == Fitting(sizes)
           N == Fitting(z)'
           m == Assistant(count.pushed, k)
<1>3. M \subseteq N /\ TurnsFit(z)' /\ m \in N /\ m \notin M
    BY <1>2, OpeningFits DEF Sane
<1>4. /\ messages \in Sound(M) /\ jsonl \in Sound(M) /\ compact.snap \in Sound(M)
      /\ \A q \in TurnRequests: turn[q].cut \in Sound(M)
    BY DEF Sane
<1>m. m \in Message
    BY <1>1
<1> HIDE DEF M, N, m
<1>5. <<m>> \in Sound(N) /\ \A i \in 1..Len(<<m>>): <<m>>[i] \notin M
  <2>1. <<m>> \in Sound(N)
      BY <1>m, <1>3, OneSound
  <2>2. Len(<<m>>) = 1 /\ <<m>>[1] = m /\ \A i \in 1..1: i = 1
      OBVIOUS
  <2> QED
      BY <1>3, <2>1, <2>2
<1>6. messages' \in Sound(N)
  <2>1. messages' = Cat(messages, <<m>>)
      BY DEF m
  <2> QED
      BY <1>3, <1>4, <1>5, <2>1, SoundPush
<1>7. jsonl' \in Sound(N) /\ compact'.snap \in Sound(N)
    BY <1>3, <1>4, SoundGrows
<1>8. ASSUME NEW q \in TurnRequests PROVE turn'[q].cut \in Sound(N)
  <2>1. turn[q].cut \in Sound(N)
      BY <1>3, <1>4, SoundGrows
  <2> QED
      BY <2>1, NoneSound DEF CutsStay
<1> QED
    BY <1>2, <1>3, <1>6, <1>7, <1>8 DEF Sane, N

LEMMA CaptureSane ==
    ASSUME HistoryTypeOK, HistoryTypeOK', NEW sizes \in Sizes, Sane(sizes),
           NEW r \in TurnRequests, Capture(r)
    PROVE  Sane(sizes)'
<1>1. PICK op \in {"rerun", "truncate"}, after \in BOOLEAN:
           \E cut \in Cuts(messages, after):
              Set(r, [NoTurn EXCEPT !.pc = "captured", !.op = op, !.cut = cut])
    BY DEF Capture
<1>2. PICK cut \in Cuts(messages, after):
           Set(r, [NoTurn EXCEPT !.pc = "captured", !.op = op, !.cut = cut])
    BY <1>1
<1>3. turn'[r].pc = "captured" /\ turn'[r].cut = cut
      /\ \A q \in TurnRequests: q # r => turn'[q] = turn[q]
  <2> DEFINE t == [NoTurn EXCEPT !.pc = "captured", !.op = op, !.cut = cut]
  <2>1. t.pc = "captured" /\ t.cut = cut
      BY DEF NoTurn
  <2> HIDE DEF t
  <2>2. Set(r, t)
      BY <1>2 DEF t
  <2> QED
      BY <2>1, <2>2, SetIs
<1>4. Steady
  <2>1. count'.pushed = count.pushed /\ count.pushed \in Nat
        /\ \A q \in TurnRequests: turn[q].next \in Nat
      BY CountsIs, HistoryFacts DEF Capture
  <2> QED
      BY <1>3, <2>1 DEF Steady, Busy
<1> DEFINE M == Fitting(sizes)
           N == Fitting(sizes)'
<1>5. M \subseteq N /\ TurnsFit(sizes)'
    BY <1>4, SteadyFits DEF Sane
<1>6. /\ messages \in Sound(M) /\ jsonl \in Sound(M) /\ compact.snap \in Sound(M)
      /\ \A q \in TurnRequests: turn[q].cut \in Sound(M)
    BY DEF Sane
<1> HIDE DEF M, N
<1>7. cut \in Sound(M)
    BY <1>6, SoundCut
<1>8. /\ messages \in Sound(N) /\ jsonl \in Sound(N) /\ compact.snap \in Sound(N)
      /\ cut \in Sound(N) /\ \A q \in TurnRequests: turn[q].cut \in Sound(N)
    BY <1>5, <1>6, <1>7, SoundGrows
<1>9. \A q \in TurnRequests: turn'[q].cut \in Sound(N)
    BY <1>3, <1>8
<1>10. messages' = messages /\ jsonl' = jsonl /\ compact' = compact
    BY DEF Capture
<1> QED
    BY <1>5, <1>8, <1>9, <1>10 DEF Sane, N

LEMMA ResultFits ==
    ASSUME HistoryTypeOK, NEW sizes \in Sizes, Sane(sizes), NEW r \in Busy,
           NEW c \in turn[r].next..turn[r].calls
    PROVE  Result(turn[r].n, c) \notin Fitting(sizes)
<1>1. c \in Nat /\ turn[r].next \in Nat /\ ~(c < turn[r].next)
    BY HistoryFacts DEF Busy
<1> QED
    BY <1>1 DEF Fitting, Result

LEMMA ResultFitsNext ==
    ASSUME HistoryTypeOK, HistoryTypeOK', NEW sizes \in Sizes, Sane(sizes), NEW r \in Busy,
           NEW c \in turn[r].next..turn[r].calls, c >= 1, Steady,
           r \in Busy' => turn'[r].next > c
    PROVE  Result(turn[r].n, c) \in Fitting(sizes)'
<1>1. /\ count.pushed \in Nat /\ count'.pushed \in Nat /\ c \in Nat /\ turn[r].n \in Nat
      /\ Busy' \subseteq Busy /\ turn[r].calls \in Nat
    BY HistoryFacts DEF HistoryTypeOK, Busy, Steady
<1>2. turn[r].n < count.pushed /\ turn[r].calls = sizes[turn[r].n]
    BY DEF Sane, TurnsFit
<1>3. turn[r].n < count'.pushed
    BY <1>1, <1>2 DEF Steady
<1>4. c \in 1..sizes[turn[r].n]
    BY <1>1, <1>2
<1>5. ASSUME NEW q \in Busy', turn[r].n = turn'[q].n PROVE c < turn'[q].next
  <2>1. q \in Busy /\ turn'[q].n = turn[q].n
      BY <1>5 DEF Steady
  <2>2. q = r
      BY <1>5, <2>1 DEF Sane, TurnsFit
  <2>3. turn'[r].next > c /\ turn'[r].next \in Nat
      BY <1>5, <2>2 DEF HistoryTypeOK, TurnRecord, Busy
  <2> QED
      BY <1>1, <2>2, <2>3
<1>6. /\ Result(turn[r].n, c) \in Message /\ Result(turn[r].n, c).role = "tool"
      /\ Result(turn[r].n, c).n = turn[r].n /\ Result(turn[r].n, c).calls = c
    BY <1>1, MessagesTyped, ResultIs
<1> QED
    BY <1>3, <1>4, <1>5, <1>6 DEF Fitting

\* The steps that begin or cut a history, or close a turn.
LEMMA TurnsSane ==
    ASSUME HistoryTypeOK, HistoryTypeOK', NEW sizes \in Sizes, Sane(sizes),
           NEW r \in TurnRequests,
           \/ Pass(r) \/ StartTurn(r) \/ TruncateHistory(r) \/ StartIteration(r)
           \/ SteerTurn(r) \/ Fails(r) \/ Close(r)
    PROVE  Sane(sizes)'
<1> DEFINE N == Fitting(sizes)'
<1>1. /\ \A q \in TurnRequests: q # r => turn'[q] = turn[q]
      /\ turn'[r].cut \in {turn[r].cut, <<>>} /\ turn'[r].pc \notin {"answered", "tool"}
  <2>1. \A p: Goes(r, p) /\ p \notin {"answered", "tool"}
              => /\ \A q \in TurnRequests: q # r => turn'[q] = turn[q]
                 /\ turn'[r].cut \in {turn[r].cut, <<>>} /\ turn'[r].pc \notin {"answered", "tool"}
      BY GoesIs
  <2>2. ASSUME NEW t, Set(r, t), t.cut = <<>>, t.pc \notin {"answered", "tool"}
        PROVE  /\ \A q \in TurnRequests: q # r => turn'[q] = turn[q]
               /\ turn'[r].cut \in {turn[r].cut, <<>>}
               /\ turn'[r].pc \notin {"answered", "tool"}
      BY <2>2, SetIs
  <2>3. Goes(r, "passed") \/ Goes(r, "round") \/ Goes(r, "steered") \/ Set(r, NoTurn)
        \/ Set(r, [NoTurn EXCEPT !.pc = "passed", !.op = "send"])
      BY DEF Pass, StartTurn, TruncateHistory, StartIteration, SteerTurn, Fails, Close
  <2>4. /\ NoTurn.cut = <<>> /\ NoTurn.pc = "idle"
        /\ [NoTurn EXCEPT !.pc = "passed", !.op = "send"].cut = <<>>
        /\ [NoTurn EXCEPT !.pc = "passed", !.op = "send"].pc = "passed"
      BY DEF NoTurn
  <2>5. CASE Goes(r, "passed") \/ Goes(r, "round") \/ Goes(r, "steered")
      BY <2>1, <2>5
  <2>6. CASE Set(r, NoTurn)
      BY <2>2, <2>4, <2>6
  <2>7. CASE Set(r, [NoTurn EXCEPT !.pc = "passed", !.op = "send"])
      BY <2>2, <2>4, <2>7
  <2> QED
      BY <2>3, <2>5, <2>6, <2>7
<1>2. count'.pushed \in {count.pushed, count.pushed + 1}
  <2>1. count \in Tally
      BY HistoryFacts
  <2>2. /\ \A f \in {"pushed", "turns"}:
              Counts(f) => count'.pushed \in {count.pushed, count.pushed + 1}
        /\ count' = count => count'.pushed = count.pushed
      BY CountsIs
  <2>3. CASE StartIteration(r)
      BY <2>1, <2>3 DEF StartIteration, Tally
  <2>4. CASE SteerTurn(r)
      BY <2>1, <2>4 DEF SteerTurn, Tally
  <2>5. CASE Pass(r) \/ StartTurn(r) \/ TruncateHistory(r) \/ Fails(r) \/ Close(r)
      BY <2>2, <2>5 DEF Pass, StartTurn, TruncateHistory, Fails, Close
  <2> QED
      BY <2>3, <2>4, <2>5
<1>3. Steady /\ CutsStay
    BY <1>1, <1>2, SteadyIs
<1>4. /\ TurnsFit(sizes)'
      /\ \A q \in TurnRequests: turn'[q].cut \in Sound(N)
      /\ messages \in Sound(N) /\ jsonl \in Sound(N) /\ compact.snap \in Sound(N)
      /\ <<>> \in Sound(N)
    BY <1>3, OldCopies
<1>5. turn[r].cut \in Sound(N)
  <2>1. turn[r].cut \in Sound(Fitting(sizes)) /\ Fitting(sizes) \subseteq N
      BY <1>3, SteadyFits DEF Sane
  <2> QED
      BY <2>1, SoundGrows
<1>6. /\ Summary \in N
      /\ User(count.pushed) \in N /\ User(count.pushed) \in Message
      /\ User(count.pushed).role = "user"
      /\ Daemon(count.pushed) \in N /\ Daemon(count.pushed) \in Message
      /\ Daemon(count.pushed).role = "user"
  <2>1. count.pushed \in Nat /\ count'.pushed \in Nat
      BY HistoryFacts DEF HistoryTypeOK
  <2> QED
      BY <2>1, PlainFitsNext, MessagesTyped DEF User, Daemon
<1> HIDE DEF N
<1>7. messages' \in Sound(N)
  <2>1. CASE Pass(r) \/ Fails(r) \/ Close(r)
      BY <1>4, <2>1 DEF Pass, Fails, Close
  <2>2. CASE StartTurn(r)
      BY <1>4, <1>5, <1>6, <2>2, UserSound DEF StartTurn
  <2>3. CASE TruncateHistory(r)
      BY <1>5, <2>3 DEF TruncateHistory
  <2>4. CASE StartIteration(r)
    <3>1. Compacted(jsonl, "do_not_inject") \in Sound(N)
        BY <1>4, <1>6, SoundCompacted DEF Policies
    <3>2. PICK base \in {jsonl, Compacted(jsonl, "do_not_inject")},
               user \in {User(count.pushed), Daemon(count.pushed)}:
               messages' = Append(base, user)
        BY <2>4 DEF StartIteration
    <3> QED
        BY <1>4, <1>6, <3>1, <3>2, UserSound
  <2>5. CASE SteerTurn(r)
      BY <1>4, <1>6, <2>5, UserSound DEF SteerTurn
  <2> QED
      BY <2>1, <2>2, <2>3, <2>4, <2>5
<1>8. jsonl' \in Sound(N)
  <2>1. CASE Pass(r) \/ Fails(r) \/ StartTurn(r) \/ StartIteration(r) \/ SteerTurn(r)
      BY <1>4, <2>1 DEF Pass, Fails, StartTurn, StartIteration, SteerTurn
  <2>2. CASE TruncateHistory(r)
      BY <1>5, <2>2 DEF TruncateHistory
  <2>3. CASE Close(r)
      BY <1>4, <1>6, <2>3, UserSound DEF Close
  <2> QED
      BY <2>1, <2>2, <2>3
<1>9. compact'.snap \in Sound(N)
  <2>1. compact' = compact
      BY DEF Pass, StartTurn, TruncateHistory, StartIteration, SteerTurn, Fails, Close
  <2> QED
      BY <1>4, <2>1
<1> QED
    BY <1>4, <1>7, <1>8, <1>9 DEF Sane, N

LEMMA ProceedSane ==
    ASSUME HistoryTypeOK, HistoryTypeOK', NEW sizes \in Sizes, Sane(sizes),
           NEW r \in TurnRequests, Proceed(r)
    PROVE  Sane(sizes)'
<1> DEFINE N == Fitting(sizes)'
<1>1. PICK p \in {"tool", "closing"}: Goes(r, p)
    BY DEF Proceed
<1>2. /\ turn[r].pc = "answered" /\ count' = count /\ jsonl' = jsonl /\ compact' = compact
      /\ messages' \in {messages, Compacted(messages, "before_last_user_message")}
    BY DEF Proceed
<1>3. /\ \A q \in TurnRequests: q # r => turn'[q] = turn[q]
      /\ turn'[r].pc = p /\ turn'[r].cut = turn[r].cut /\ turn'[r].n = turn[r].n
      /\ turn'[r].calls = turn[r].calls /\ turn'[r].next = turn[r].next
    BY <1>1, GoesIs
<1>4. Steady /\ CutsStay
  <2>1. turn[r].next \in Nat
      BY HistoryFacts
  <2> QED
      BY <1>2, <1>3, <2>1, SteadyIs
<1>5. /\ TurnsFit(sizes)'
      /\ \A q \in TurnRequests: turn'[q].cut \in Sound(N)
      /\ messages \in Sound(N) /\ jsonl \in Sound(N) /\ compact.snap \in Sound(N)
    BY <1>4, OldCopies
<1>6. Summary \in N
    BY PlainFitsNext DEF HistoryTypeOK
<1> HIDE DEF N
<1>7. Compacted(messages, "before_last_user_message") \in Sound(N)
    BY <1>5, <1>6, SoundCompacted DEF Policies
<1> QED
    BY <1>2, <1>5, <1>7 DEF Sane, N

LEMMA RunSane ==
    ASSUME HistoryTypeOK, HistoryTypeOK', NEW sizes \in Sizes, Sane(sizes), Counted,
           NEW r \in TurnRequests, RunCall(r)
    PROVE  Sane(sizes)'
<1> DEFINE M == Fitting(sizes)
           N == Fitting(sizes)'
           m == Result(turn[r].n, turn[r].next)
<1>1. /\ turn[r].pc = "tool" /\ r \in Busy /\ turn[r].next \in 1..turn[r].calls
      /\ turn[r].next \in Nat /\ turn[r].calls \in Nat /\ turn[r].n \in Nat
    BY HistoryFacts DEF RunCall, Busy, Counted
<1>2. /\ Push(<<m>>) /\ count' = count /\ jsonl' = jsonl /\ compact' = compact
    BY DEF RunCall
<1>3. /\ \A q \in TurnRequests: q # r => turn'[q] = turn[q]
      /\ turn'[r].cut = turn[r].cut /\ turn'[r].n = turn[r].n
      /\ turn'[r].calls = turn[r].calls /\ turn'[r].next = turn[r].next + 1
  <2>1. PICK p \in {"round", "tool", "closing"}, k \in Nat:
              turn' = [turn EXCEPT ![r] = [turn[r] EXCEPT !.next = turn[r].next + 1,
                                                          !.round = k, !.pc = p]]
      BY RunIs
  <2>2. turn \in [TurnRequests -> TurnRecord] /\ turn[r] \in TurnRecord
      BY HistoryFacts
  <2>3. turn'[r] = [turn[r] EXCEPT !.next = turn[r].next + 1, !.round = k, !.pc = p]
        /\ \A q \in TurnRequests: q # r => turn'[q] = turn[q]
      BY <2>1, <2>2
  <2> QED
      BY <2>2, <2>3 DEF TurnRecord
<1>4. Steady /\ CutsStay
    BY <1>1, <1>2, <1>3, SteadyIs
<1>5. /\ TurnsFit(sizes)'
      /\ \A q \in TurnRequests: turn'[q].cut \in Sound(N)
      /\ jsonl \in Sound(N) /\ compact.snap \in Sound(N)
    BY <1>4, OldCopies
<1>6. messages \in Sound(M) /\ M \subseteq N
    BY <1>4, SteadyFits DEF Sane
<1>7. m \in N /\ m \notin M /\ m \in Message
  <2>1. turn[r].next \in turn[r].next..turn[r].calls /\ turn[r].next >= 1
        /\ turn'[r].next > turn[r].next
      BY <1>1, <1>3
  <2> QED
      BY <1>1, <1>4, <2>1, ResultFits, ResultFitsNext, MessagesTyped
<1> HIDE DEF M, N, m
<1>8. messages' = Cat(messages, <<m>>)
    BY <1>2, <1>7, OneTyped, PushTyped
<1>9. <<m>> \in Sound(N) /\ \A i \in 1..Len(<<m>>): <<m>>[i] \notin M
  <2>1. \A i \in 1..1: i = 1
      OBVIOUS
  <2> QED
      BY <1>7, <2>1, OneSound
<1>10. messages' \in Sound(N)
    BY <1>6, <1>8, <1>9, SoundPush
<1> QED
    BY <1>2, <1>5, <1>10 DEF Sane, N

LEMMA CloseBatchSane ==
    ASSUME HistoryTypeOK, HistoryTypeOK', NEW sizes \in Sizes, Sane(sizes), Counted,
           NEW r \in TurnRequests, CloseBatch(r)
    PROVE  Sane(sizes)'
<1> DEFINE M == Fitting(sizes)
           N == Fitting(sizes)'
           c == turn[r].next
           k == turn[r].calls
           R == Results(r, c)
<1>1. /\ turn[r].pc = "tool" /\ r \in Busy /\ c \in 1..k /\ c \in Nat /\ k \in Nat
    BY HistoryFacts DEF CloseBatch, Busy, Counted
<1>2. /\ Push(R) /\ count' = count /\ jsonl' = jsonl /\ compact' = compact
      /\ Goes(r, "closing")
    BY DEF CloseBatch
<1>3. /\ \A q \in TurnRequests: q # r => turn'[q] = turn[q]
      /\ turn'[r].cut = turn[r].cut /\ turn'[r].pc = "closing"
    BY <1>2, GoesIs
<1>4. Steady /\ CutsStay
    BY <1>2, <1>3, SteadyIs
<1>5. /\ TurnsFit(sizes)'
      /\ \A q \in TurnRequests: turn'[q].cut \in Sound(N)
      /\ jsonl \in Sound(N) /\ compact.snap \in Sound(N)
    BY <1>4, OldCopies
<1>6. messages \in Sound(M) /\ M \subseteq N
    BY <1>4, SteadyFits DEF Sane
<1>7. /\ R \in Histories /\ Len(R) = k - c + 1
      /\ \A i \in 1..k - c + 1: R[i] = Result(turn[r].n, c + i - 1)
  <2>1. c \in 0..k + 1
      BY <1>1
  <2> QED
      BY <2>1, ResultsTyped
<1>8. r \notin Busy'
    BY <1>3 DEF Busy
<1>9. ASSUME NEW d \in c..k
      PROVE  /\ Result(turn[r].n, d) \in N /\ Result(turn[r].n, d) \notin M
             /\ Result(turn[r].n, d).calls = d
  <2>1. d >= 1
      BY <1>1
  <2> QED
      BY <1>1, <1>4, <1>8, <2>1, ResultFits, ResultFitsNext DEF Result
<1> HIDE DEF M, N, R, c, k
<1>10. ASSUME NEW i \in 1..Len(R)
       PROVE  R[i] \in N /\ R[i] \notin M /\ R[i].calls = c + i - 1
  <2>1. i \in 1..k - c + 1 /\ c + i - 1 \in c..k
      BY <1>1, <1>7
  <2> QED
      BY <1>7, <1>9, <2>1
<1>11. Unique(R)
  <2>1. \A i, j \in 1..Len(R): c + i - 1 = c + j - 1 => i = j
      BY <1>1, <1>7
  <2> QED
      BY <1>10, <2>1 DEF Unique
<1>12. R \in Sound(N)
    BY <1>7, <1>10, <1>11 DEF Sound
<1>13. messages' = Cat(messages, R)
    BY <1>2, <1>7, PushTyped
<1>14. messages' \in Sound(N)
    BY <1>6, <1>10, <1>12, <1>13, SoundPush
<1> QED
    BY <1>2, <1>5, <1>14 DEF Sane, N

LEMMA AnswersIs ==
    ASSUME HistoryTypeOK, NEW r \in TurnRequests, ModelAnswers(r)
    PROVE  \E k \in Nat:
              /\ messages' = Cat(messages, <<Assistant(count.pushed, k)>>)
              /\ count'.pushed = count.pushed + 1
              /\ \A q \in TurnRequests: q # r => turn'[q] = turn[q]
              /\ turn'[r].pc = "answered" /\ turn'[r].cut = turn[r].cut
              /\ turn'[r].n = count.pushed /\ turn'[r].calls = k /\ turn'[r].next = 1
<1>1. PICK k \in 0..MaxBatch:
           /\ Push(<<Assistant(count.pushed, k)>>)
           /\ Set(r, [turn[r] EXCEPT !.pc = "answered", !.n = count.pushed,
                                     !.calls = k, !.next = 1])
    BY DEF ModelAnswers
<1>2. k \in Nat /\ count.pushed \in Nat
    BY HistoryFacts, HistoryAssumption
<1>3. <<Assistant(count.pushed, k)>> \in Histories
    BY <1>2, MessagesTyped, OneTyped
<1>4. messages' = Cat(messages, <<Assistant(count.pushed, k)>>)
    BY <1>1, <1>3, PushTyped
<1>5. turn'[r] = [turn[r] EXCEPT !.pc = "answered", !.n = count.pushed, !.calls = k, !.next = 1]
      /\ \A q \in TurnRequests: q # r => turn'[q] = turn[q]
    BY <1>1, SetIs
<1>6. turn[r] \in TurnRecord
    BY HistoryFacts
<1>7. /\ turn'[r].pc = "answered" /\ turn'[r].cut = turn[r].cut
      /\ turn'[r].n = count.pushed /\ turn'[r].calls = k /\ turn'[r].next = 1
    BY <1>5, <1>6 DEF TurnRecord
<1>8. count'.pushed = count.pushed + 1
    BY CountsIs DEF ModelAnswers
<1> QED
    BY <1>2, <1>4, <1>5, <1>7, <1>8

LEMMA AnswersSane ==
    ASSUME HistoryTypeOK, HistoryTypeOK', NEW sizes \in Sizes, Sane(sizes),
           NEW r \in TurnRequests, ModelAnswers(r)
    PROVE  \E z \in Sizes: Sane(z)'
<1>1. PICK k \in Nat:
              /\ messages' = Cat(messages, <<Assistant(count.pushed, k)>>)
              /\ count'.pushed = count.pushed + 1
              /\ \A q \in TurnRequests: q # r => turn'[q] = turn[q]
              /\ turn'[r].pc = "answered" /\ turn'[r].cut = turn[r].cut
              /\ turn'[r].n = count.pushed /\ turn'[r].calls = k /\ turn'[r].next = 1
    BY AnswersIs
<1>2. r \notin Busy /\ jsonl' = jsonl /\ compact' = compact
    BY DEF ModelAnswers, Busy
<1>3. \A q \in TurnRequests: turn[q].next \in Nat
    BY HistoryFacts
<1>4. Opening(r, k)
    BY <1>1, <1>3 DEF Opening, Busy
<1>5. CutsStay
    BY <1>1 DEF CutsStay
<1> QED
    BY <1>1, <1>2, <1>4, <1>5, OpeningSane

LEMMA AbortIs ==
    ASSUME HistoryTypeOK, NEW r \in TurnRequests, Abort(r)
    PROVE  /\ \A q \in TurnRequests: q # r => turn'[q] = turn[q]
           /\ turn'[r].pc = "closing" /\ turn'[r].cut = turn[r].cut
           /\ \/ /\ messages' = Cat(messages, <<Assistant(count.pushed, 0)>>)
                 /\ count'.pushed = count.pushed + 1
              \/ messages' = messages /\ count' = count
<1>1. <<Assistant(count.pushed, 0)>> \in Histories
    BY HistoryFacts, MessagesTyped, OneTyped
<1>2. \/ Push(<<Assistant(count.pushed, 0)>>) /\ Counts("pushed")
      \/ messages' = messages /\ count' = count
    BY DEF Abort
<1>3. \/ /\ messages' = Cat(messages, <<Assistant(count.pushed, 0)>>)
         /\ count'.pushed = count.pushed + 1
      \/ messages' = messages /\ count' = count
    BY <1>1, <1>2, PushTyped, CountsIs
<1>4. Goes(r, "closing")
    BY DEF Abort
<1> QED
    BY <1>3, <1>4, GoesIs

LEMMA AbortSane ==
    ASSUME HistoryTypeOK, HistoryTypeOK', NEW sizes \in Sizes, Sane(sizes),
           NEW r \in TurnRequests, Abort(r)
    PROVE  \E z \in Sizes: Sane(z)'
<1>1. /\ \A q \in TurnRequests: q # r => turn'[q] = turn[q]
      /\ turn'[r].pc = "closing" /\ turn'[r].cut = turn[r].cut
    BY AbortIs
<1>2. r \notin Busy /\ jsonl' = jsonl /\ compact' = compact
    BY DEF Abort, Busy
<1>3. \A q \in TurnRequests: turn[q].next \in Nat
    BY HistoryFacts
<1>4. CASE /\ messages' = Cat(messages, <<Assistant(count.pushed, 0)>>)
           /\ count'.pushed = count.pushed + 1
  <2>1. Opening(r, 0)
      BY <1>1, <1>3 DEF Opening, Busy
  <2>2. CutsStay
      BY <1>1 DEF CutsStay
  <2> QED
      BY <1>2, <1>4, <2>1, <2>2, OpeningSane
<1>5. CASE messages' = messages /\ count' = count
  <2>1. Steady /\ CutsStay
      BY <1>1, <1>5, SteadyIs
  <2>2. Sane(sizes)'
    <3> DEFINE N == Fitting(sizes)'
    <3>1. /\ TurnsFit(sizes)'
          /\ \A q \in TurnRequests: turn'[q].cut \in Sound(N)
          /\ messages \in Sound(N) /\ jsonl \in Sound(N) /\ compact.snap \in Sound(N)
        BY <2>1, OldCopies
    <3> HIDE DEF N
    <3> QED
        BY <1>2, <1>5, <3>1 DEF Sane, N
  <2> QED
      BY <2>2
<1> QED
    BY <1>4, <1>5, AbortIs

\* The steps of a compaction on request, and those that change nothing here.
LEMMA CompactSane ==
    ASSUME HistoryTypeOK, HistoryTypeOK', NEW sizes \in Sizes, Sane(sizes),
           CompactBegins \/ CompactSwaps \/ CompactFlushes \/ UNCHANGED historyVars
    PROVE  Sane(sizes)'
<1> DEFINE N == Fitting(sizes)'
           new == Compacted(compact.snap, "do_not_inject")
<1>1. turn' = turn /\ count'.pushed = count.pushed
  <2>1. CASE CompactBegins
      BY <2>1, CountsIs DEF CompactBegins
  <2>2. CASE CompactSwaps \/ CompactFlushes \/ UNCHANGED historyVars
      BY <2>2 DEF CompactSwaps, CompactFlushes, historyVars
  <2> QED
      BY <2>1, <2>2
<1>2. /\ messages' \in {messages, new} /\ jsonl' \in {jsonl, messages}
      /\ compact'.snap \in {compact.snap, messages, <<>>}
    BY DEF CompactBegins, CompactSwaps, CompactFlushes, historyVars, NoCompact
<1>3. Steady /\ CutsStay
    BY <1>1, StillSteady
<1>4. /\ TurnsFit(sizes)'
      /\ \A q \in TurnRequests: turn'[q].cut \in Sound(N)
      /\ messages \in Sound(N) /\ jsonl \in Sound(N) /\ compact.snap \in Sound(N)
      /\ <<>> \in Sound(N)
    BY <1>3, OldCopies
<1>5. Summary \in N
    BY PlainFitsNext DEF HistoryTypeOK
<1> HIDE DEF N
<1>6. new \in Sound(N)
    BY <1>4, <1>5, SoundCompacted DEF Policies
<1> HIDE DEF new
<1> QED
    BY <1>2, <1>4, <1>6 DEF Sane, N

LEMMA SizesCohere ==
    ASSUME NEW sizes \in Sizes, Busy' = {}
    PROVE  Coherent(Fitting(sizes)')
<1> DEFINE M == Fitting(sizes)'
<1>1. M \subseteq Message
    BY DEF Fitting
<1>2. ASSUME NEW x \in M, NEW y \in M, x.role = "assistant", y.role = "assistant", x.n = y.n
      PROVE  x = y
    BY <1>2 DEF Fitting, Message
<1>3. ASSUME NEW x \in M, NEW y \in M, x.role = "assistant", y.role = "tool", x.n = y.n
      PROVE  y.calls \in 1..x.calls
    BY <1>3 DEF Fitting
<1>4. ASSUME NEW x \in M, x.role = "assistant", NEW c \in 1..x.calls
      PROVE  Result(x.n, c) \in M
  <2>1. x.n \in Nat /\ x.calls \in Nat /\ x.calls = sizes[x.n] /\ x.n < count'.pushed
      BY <1>4 DEF Fitting, Message, Special
  <2>2. c \in Nat /\ c \in 1..sizes[x.n]
      BY <2>1
  <2>3. /\ Result(x.n, c) \in Message /\ Result(x.n, c).role = "tool"
        /\ Result(x.n, c).n = x.n /\ Result(x.n, c).calls = c
      BY <2>1, <2>2, MessagesTyped, ResultIs
  <2> QED
      BY <2>1, <2>2, <2>3 DEF Fitting
<1> QED
    BY <1>1, <1>2, <1>3, <1>4 DEF Coherent

\* What the next server makes of the file it finds, in the terms of its state.
LEMMA RestartFinds ==
    ASSUME HistoryTypeOK, HistoryTypeOK', NEW sizes \in Sizes, Sane(sizes), ServerRestarts
    PROVE  /\ Coherent(Fitting(sizes)') /\ TurnsFit(sizes)'
           /\ jsonl \in Sound(Fitting(sizes)') /\ <<>> \in Sound(Fitting(sizes)')
           /\ \A q \in TurnRequests: turn'[q] = NoTurn
<1>1. \A q \in TurnRequests: turn'[q] = NoTurn
    BY DEF ServerRestarts
<1>2. Busy' = {}
    BY <1>1 DEF Busy, NoTurn
<1>3. Coherent(Fitting(sizes)')
    BY <1>2, SizesCohere
<1>4. Steady /\ CutsStay
  <2>1. count'.pushed = count.pushed /\ count.pushed \in Nat
      BY CountsIs, HistoryFacts DEF ServerRestarts
  <2> QED
      BY <1>1, <1>2, <2>1 DEF Steady, CutsStay, NoTurn
<1> QED
    BY <1>1, <1>3, <1>4, OldCopies

LEMMA RestartSane ==
    ASSUME HistoryTypeOK, HistoryTypeOK', NEW sizes \in Sizes, Sane(sizes), ServerRestarts
    PROVE  Sane(sizes)'
<1> DEFINE N == Fitting(sizes)'
<1>1. /\ Coherent(N) /\ TurnsFit(sizes)' /\ jsonl \in Sound(N) /\ <<>> \in Sound(N)
      /\ \A q \in TurnRequests: turn'[q] = NoTurn
    BY RestartFinds
<1> HIDE DEF N
<1>2. Repaired(jsonl) \in Sound(N)
    BY <1>1, RepairedSound
<1>3. jsonl' \in Sound(N) /\ messages' = jsonl' /\ compact' = NoCompact
    BY <1>1, <1>2 DEF ServerRestarts
<1> QED
    BY <1>1, <1>3 DEF Sane, N, NoTurn, NoCompact

LEMMA SaneStep ==
    ASSUME HistoryTypeOK, HistoryTypeOK', NEW sizes \in Sizes, Sane(sizes), Counted,
           [HistoryNext]_historyVars
    PROVE  \E z \in Sizes: Sane(z)'
<1>1. ASSUME NEW r \in TurnRequests,
             \/ Capture(r) \/ Pass(r) \/ StartTurn(r) \/ TruncateHistory(r) \/ StartIteration(r)
             \/ SteerTurn(r) \/ Proceed(r) \/ RunCall(r) \/ CloseBatch(r)
             \/ Fails(r) \/ Close(r)
      PROVE  Sane(sizes)'
    BY <1>1, CaptureSane, TurnsSane, ProceedSane, RunSane, CloseBatchSane
<1>2. ASSUME NEW r \in TurnRequests, ModelAnswers(r) \/ Abort(r)
      PROVE  \E z \in Sizes: Sane(z)'
    BY <1>2, AnswersSane, AbortSane
<1>3. ASSUME CompactBegins \/ CompactSwaps \/ CompactFlushes \/ ServerRestarts
             \/ UNCHANGED historyVars
      PROVE  Sane(sizes)'
    BY <1>3, CompactSane, RestartSane
<1> QED
    BY <1>1, <1>2, <1>3 DEF HistoryNext

LEMMA RunGoes ==
    ASSUME HistoryTypeOK, NEW r \in TurnRequests, RunCall(r)
    PROVE  /\ \A q \in TurnRequests: q # r => turn'[q] = turn[q]
           /\ turn'[r].pc \in {"round", "tool", "closing"}
           /\ turn'[r].pc = "tool" <=> turn[r].next # turn[r].calls
           /\ turn'[r].cut = turn[r].cut /\ turn'[r].n = turn[r].n
           /\ turn'[r].calls = turn[r].calls /\ turn'[r].next = turn[r].next + 1
<1>1. PICK p \in {"round", "tool", "closing"}, k \in Nat:
            /\ turn' = [turn EXCEPT ![r] = [turn[r] EXCEPT !.next = turn[r].next + 1,
                                                           !.round = k, !.pc = p]]
            /\ p = "tool" <=> turn[r].next # turn[r].calls
    BY RunIs
<1>2. turn \in [TurnRequests -> TurnRecord] /\ turn[r] \in TurnRecord
    BY HistoryFacts
<1>3. turn'[r] = [turn[r] EXCEPT !.next = turn[r].next + 1, !.round = k, !.pc = p]
      /\ \A q \in TurnRequests: q # r => turn'[q] = turn[q]
    BY <1>1, <1>2
<1> QED
    BY <1>1, <1>2, <1>3 DEF TurnRecord

\* The steps that are no part of a batch.
LEMMA PlainGoes ==
    ASSUME HistoryTypeOK, NEW r \in TurnRequests,
           \/ Pass(r) \/ StartTurn(r) \/ TruncateHistory(r) \/ StartIteration(r)
           \/ SteerTurn(r) \/ Fails(r) \/ Close(r)
    PROVE  /\ \A q \in TurnRequests: q # r => turn'[q] = turn[q]
           /\ turn'[r].pc = IF Pass(r) THEN "passed" ELSE IF SteerTurn(r) THEN "steered"
                            ELSE IF StartTurn(r) \/ StartIteration(r) THEN "round" ELSE "idle"
           /\ turn'[r].cut \in {turn[r].cut, <<>>}
<1>1. \A p: Goes(r, p) => /\ \A q \in TurnRequests: q # r => turn'[q] = turn[q]
                          /\ turn'[r].pc = p /\ turn'[r].cut = turn[r].cut
    BY GoesIs
<1>2. \A t: Set(r, t) => /\ \A q \in TurnRequests: q # r => turn'[q] = turn[q]
                         /\ turn'[r] = t
    BY SetIs
<1>3. /\ NoTurn.cut = <<>> /\ NoTurn.pc = "idle"
      /\ [NoTurn EXCEPT !.pc = "passed", !.op = "send"].cut = <<>>
      /\ [NoTurn EXCEPT !.pc = "passed", !.op = "send"].pc = "passed"
    BY DEF NoTurn
<1>4. CASE Pass(r)
    BY <1>1, <1>2, <1>3, <1>4 DEF Pass
<1>5. CASE SteerTurn(r)
  <2>1. ~Pass(r)
      BY <1>5 DEF Pass, SteerTurn
  <2> QED
      BY <1>1, <1>5, <2>1 DEF SteerTurn
<1>6. CASE StartTurn(r) \/ StartIteration(r)
  <2>1. Goes(r, "round") /\ turn'[r].pc = "round"
      BY <1>1, <1>6 DEF StartTurn, StartIteration
  <2>2. ~Pass(r) /\ ~SteerTurn(r)
    <3>1. Pass(r) => turn'[r].pc = "passed"
        BY <1>1, <1>2, <1>3 DEF Pass
    <3>2. SteerTurn(r) => turn'[r].pc = "steered"
        BY <1>1 DEF SteerTurn
    <3> QED
        BY <2>1, <3>1, <3>2
  <2> QED
      BY <1>1, <1>6, <2>1, <2>2
<1>7. CASE TruncateHistory(r) \/ Fails(r) \/ Close(r)
  <2>1. Set(r, NoTurn)
      BY <1>7 DEF TruncateHistory, Fails, Close
  <2>2. turn'[r] = NoTurn /\ \A q \in TurnRequests: q # r => turn'[q] = turn[q]
      BY <1>2, <2>1
  <2>3. ~Pass(r) /\ ~SteerTurn(r) /\ ~StartTurn(r) /\ ~StartIteration(r)
    <3>1. /\ Pass(r) => turn'[r].pc = "passed"
          /\ SteerTurn(r) => turn'[r].pc = "steered"
          /\ StartTurn(r) \/ StartIteration(r) => turn'[r].pc = "round"
        BY <1>1, <1>2, <1>3 DEF Pass, SteerTurn, StartTurn, StartIteration
    <3> QED
        BY <1>3, <2>2, <3>1
  <2> QED
      BY <1>3, <2>2, <2>3
<1> QED
    BY <1>4, <1>5, <1>6, <1>7

LEMMA CaptureIs ==
    ASSUME HistoryTypeOK, NEW r \in TurnRequests, Capture(r)
    PROVE  /\ \A q \in TurnRequests: q # r => turn'[q] = turn[q]
           /\ turn'[r].pc = "captured"
           /\ \E after \in BOOLEAN: turn'[r].cut \in Cuts(messages, after)
<1>1. PICK op \in {"rerun", "truncate"}, after \in BOOLEAN:
           \E cut \in Cuts(messages, after):
              Set(r, [NoTurn EXCEPT !.pc = "captured", !.op = op, !.cut = cut])
    BY DEF Capture
<1>2. PICK cut \in Cuts(messages, after):
           Set(r, [NoTurn EXCEPT !.pc = "captured", !.op = op, !.cut = cut])
    BY <1>1
<1> DEFINE t == [NoTurn EXCEPT !.pc = "captured", !.op = op, !.cut = cut]
<1>3. t.pc = "captured" /\ t.cut = cut
    BY DEF NoTurn
<1>4. Set(r, t)
    BY <1>2
<1> HIDE DEF t
<1>5. turn'[r] = t /\ \A q \in TurnRequests: q # r => turn'[q] = turn[q]
    BY <1>4, SetIs
<1> QED
    BY <1>3, <1>5

LEMMA CountedStep ==
    ASSUME HistoryTypeOK, HistoryTypeOK', Counted, [HistoryNext]_historyVars
    PROVE  Counted'
<1>1. ASSUME NEW r \in TurnRequests, \A q \in TurnRequests: q # r => turn'[q] = turn[q],
             turn'[r].pc = "answered" => turn'[r].next = 1,
             turn'[r].pc = "tool" => turn'[r].next \in 1..turn'[r].calls
      PROVE  Counted'
    BY <1>1 DEF Counted
<1>2. ASSUME NEW r \in TurnRequests,
             \/ Pass(r) \/ StartTurn(r) \/ TruncateHistory(r) \/ StartIteration(r)
             \/ SteerTurn(r) \/ Fails(r) \/ Close(r)
      PROVE  Counted'
  <2>1. /\ \A q \in TurnRequests: q # r => turn'[q] = turn[q]
        /\ turn'[r].pc \notin {"answered", "tool"}
      BY <1>2, PlainGoes
  <2> QED
      BY <1>1, <2>1
<1>3. ASSUME NEW r \in TurnRequests, Capture(r) PROVE Counted'
    BY <1>1, <1>3, CaptureIs
<1>4. ASSUME NEW r \in TurnRequests, Abort(r) PROVE Counted'
    BY <1>1, <1>4, AbortIs
<1>5. ASSUME NEW r \in TurnRequests, ModelAnswers(r) PROVE Counted'
    BY <1>1, <1>5, AnswersIs
<1>6. ASSUME NEW r \in TurnRequests, Proceed(r) PROVE Counted'
  <2>1. Goes(r, IF turn[r].calls = 0 THEN "closing" ELSE "tool") /\ turn[r].next = 1
      BY <1>6 DEF Proceed, Counted
  <2>2. /\ \A q \in TurnRequests: q # r => turn'[q] = turn[q]
        /\ turn'[r].pc = (IF turn[r].calls = 0 THEN "closing" ELSE "tool")
        /\ turn'[r].calls = turn[r].calls /\ turn'[r].next = 1
      BY <2>1, GoesIs
  <2>3. turn[r].calls \in Nat
      BY HistoryFacts
  <2>4. turn'[r].pc = "tool" => turn'[r].next \in 1..turn'[r].calls
      BY <2>2, <2>3
  <2> QED
      BY <1>1, <2>2, <2>4
<1>7. ASSUME NEW r \in TurnRequests, RunCall(r) PROVE Counted'
  <2>1. turn[r].next \in 1..turn[r].calls /\ turn[r].calls \in Nat /\ turn[r].next \in Nat
      BY <1>7, HistoryFacts DEF RunCall, Counted
  <2>2. /\ \A q \in TurnRequests: q # r => turn'[q] = turn[q]
        /\ turn'[r].pc \in {"round", "tool", "closing"}
        /\ turn'[r].pc = "tool" <=> turn[r].next # turn[r].calls
        /\ turn'[r].calls = turn[r].calls /\ turn'[r].next = turn[r].next + 1
      BY <1>7, RunGoes
  <2>3. turn'[r].pc = "tool" => turn'[r].next \in 1..turn'[r].calls
      BY <2>1, <2>2
  <2> QED
      BY <1>1, <2>2, <2>3
<1>8. ASSUME NEW r \in TurnRequests, CloseBatch(r) PROVE Counted'
  <2>1. Goes(r, "closing")
      BY <1>8 DEF CloseBatch
  <2> QED
      BY <1>1, <2>1, GoesIs
<1>9. ASSUME CompactBegins \/ CompactSwaps \/ CompactFlushes \/ UNCHANGED historyVars
      PROVE  Counted'
  <2>1. turn' = turn
      BY <1>9 DEF CompactBegins, CompactSwaps, CompactFlushes, historyVars
  <2> QED
      BY <2>1 DEF Counted
<1>10. ASSUME ServerRestarts PROVE Counted'
  <2>1. \A q \in TurnRequests: turn'[q] = NoTurn
      BY <1>10 DEF ServerRestarts
  <2> QED
      BY <2>1 DEF Counted, NoTurn
<1> QED
    BY <1>2, <1>3, <1>4, <1>5, <1>6, <1>7, <1>8, <1>9, <1>10 DEF HistoryNext

-----------------------------------------------------------------------------
(* What is sent is well formed.                                            *)

Pending(r) == IF r \in Busy THEN Results(r, turn[r].next) ELSE <<>>

\* One turn at most is running; its messages with the results that are still to
\* come, the cuts that wait to be applied, and a goal's file are all valid.
Requests ==
    /\ \A r, q \in RunningTurns: r = q
    /\ \A r \in TurnRequests: RunningTurns \subseteq {r} => Valid(Cat(messages, Pending(r)))
    /\ \A r \in TurnRequests: turn[r].pc \in {"captured", "passed"} => Valid(turn[r].cut)
    /\ mode = "goal" => Valid(jsonl)

RequestsInv == mixed \/ Requests

LEMMA PendingTyped ==
    ASSUME HistoryTypeOK, NEW r \in TurnRequests
    PROVE  Pending(r) \in Histories /\ (r \notin Busy => Cat(messages, Pending(r)) = messages)
BY BatchTyped, HistoryFacts, NoneTyped, Unit DEF Pending

LEMMA PendingTypedNext ==
    ASSUME HistoryTypeOK', NEW r \in TurnRequests
    PROVE  r \notin Busy' => Cat(messages', Pending(r)') = messages'
<1>1. messages' \in Histories
    BY DEF HistoryTypeOK
<1> QED
    BY <1>1, Unit DEF Pending

LEMMA PendingSame ==
    ASSUME HistoryTypeOK, NEW r \in TurnRequests,
           \/ turn'[r] = turn[r]
           \/ /\ r \in Busy /\ r \in Busy' /\ turn'[r].n = turn[r].n
              /\ turn'[r].calls = turn[r].calls /\ turn'[r].next = turn[r].next
           \/ r \notin Busy /\ r \notin Busy'
    PROVE  Pending(r)' = Pending(r)
BY DEF Pending, Results, Busy

LEMMA BusyRuns ==
    /\ \A r \in TurnRequests: r \in Busy => r \in RunningTurns
    /\ \A r \in TurnRequests: r \in Busy' => r \in RunningTurns'
    /\ RunningTurns \subseteq TurnRequests
BY DEF Busy, RunningTurns

\* The first of the results that are to come, and the others.
LEMMA ResultsSplit ==
    ASSUME HistoryTypeOK, NEW r \in TurnRequests, NEW c \in 1..turn[r].calls
    PROVE  /\ Results(r, c) = Cat(<<Result(turn[r].n, c)>>, Results(r, c + 1))
           /\ Results(r, c + 1) \in Histories
           /\ c = turn[r].calls => Results(r, c + 1) = <<>>
<1> DEFINE k == turn[r].calls
           n == turn[r].n
           s == Results(r, c)
           t == Results(r, c + 1)
           m == <<Result(n, c)>>
           u == Cat(m, t)
<1>1. k \in Nat /\ n \in Nat /\ c \in Nat /\ c >= 1 /\ c <= k /\ c \in 0..k + 1
      /\ c + 1 \in 0..k + 1
    BY HistoryFacts
<1>2. s \in Histories /\ Len(s) = k - c + 1 /\ \A i \in 1..k - c + 1: s[i] = Result(n, c + i - 1)
    BY <1>1, ResultsTyped
<1>3. /\ t \in Histories /\ Len(t) = k - (c + 1) + 1
      /\ \A i \in 1..k - (c + 1) + 1: t[i] = Result(n, c + 1 + i - 1)
    BY <1>1, ResultsTyped
<1>4. m \in Histories /\ Len(m) = 1 /\ m[1] = Result(n, c) /\ 1 \in 1..1
    BY <1>1, MessagesTyped, OneTyped
<1> HIDE DEF s, t, m, k, n
<1>5. /\ u \in Histories /\ Len(u) = Len(m) + Len(t)
      /\ \A j \in 1..Len(m): u[j] = m[j]
      /\ \A j \in 1..Len(t): u[Len(m) + j] = t[j]
    BY <1>3, <1>4, Joined, Closed
<1> HIDE DEF u
<1>6. Len(u) = Len(s)
    BY <1>1, <1>2, <1>3, <1>4, <1>5
<1>7. ASSUME NEW j \in 1..Len(s) PROVE s[j] = u[j]
  <2>1. CASE j = 1
    <3>1. s[1] = Result(n, c + 1 - 1) /\ c + 1 - 1 = c
        BY <1>1, <1>2, <1>7, <2>1
    <3> QED
        BY <1>4, <1>5, <2>1, <3>1
  <2>2. CASE j # 1
    <3>1. /\ j - 1 \in 1..k - (c + 1) + 1 /\ j = 1 + (j - 1)
          /\ c + j - 1 = c + 1 + (j - 1) - 1
        BY <1>1, <1>2, <1>7, <2>2
    <3>2. u[j] = t[j - 1]
        BY <1>3, <1>4, <1>5, <3>1
    <3>3. s[j] = Result(n, c + j - 1)
        BY <1>2, <1>7
    <3> QED
        BY <1>3, <3>1, <3>2, <3>3
  <2> QED
      BY <2>1, <2>2
<1>8. s = u
    BY <1>2, <1>5, <1>6, <1>7, SeqEqual DEF Histories
<1>9. c = k => t = <<>>
    BY <1>1, <1>3 DEF Histories
<1> QED
    BY <1>3, <1>8, <1>9 DEF s, t, u, m, k, n

\* A step of the one turn that is running, or of one while none is.
LEMMA TurnStep ==
    ASSUME HistoryTypeOK, HistoryTypeOK', Requests, NEW r \in TurnRequests,
           RunningTurns \subseteq {r}, \A q \in TurnRequests: q # r => turn'[q] = turn[q],
           mode' = mode, Valid(Cat(messages', Pending(r)')),
           turn'[r].pc \in {"captured", "passed"} => Valid(turn'[r].cut),
           mode = "goal" => Valid(jsonl')
    PROVE  Requests'
<1>1. RunningTurns' \subseteq {r}
    BY DEF RunningTurns
<1>2. ASSUME NEW q \in TurnRequests, RunningTurns' \subseteq {q}
      PROVE  Valid(Cat(messages', Pending(q)'))
  <2>1. CASE q # r
    <3>1. q \notin Busy' /\ r \notin Busy'
        BY <1>1, <1>2, <2>1, BusyRuns
    <3>2. Pending(q)' = Pending(r)'
        BY <3>1 DEF Pending
    <3> QED
        BY <3>2
  <2> QED
      BY <2>1
<1> QED
    BY <1>1, <1>2 DEF Requests

\* A step of a request that is not running, or of a compaction.
LEMMA OtherStep ==
    ASSUME HistoryTypeOK, HistoryTypeOK', Requests, RunningTurns' = RunningTurns,
           \A q \in TurnRequests: Pending(q)' = Pending(q),
           \A T \in Histories: Valid(Cat(messages, T)) => Valid(Cat(messages', T)),
           mode' = mode,
           \A q \in TurnRequests: turn'[q].pc \in {"captured", "passed"} => Valid(turn'[q].cut),
           mode = "goal" => Valid(jsonl')
    PROVE  Requests'
<1>1. ASSUME NEW q \in TurnRequests, RunningTurns' \subseteq {q}
      PROVE  Valid(Cat(messages', Pending(q)'))
    BY <1>1, PendingTyped DEF Requests
<1> QED
    BY <1>1 DEF Requests

\* A turn that is running is the only one.
LEMMA RunningAlone ==
    ASSUME HistoryTypeOK, Requests, NEW r \in TurnRequests,
           r \in RunningTurns \/ RunningTurns = {}
    PROVE  /\ RunningTurns \subseteq {r} /\ Valid(Cat(messages, Pending(r)))
           /\ r \notin Busy => Valid(messages)
<1>1. RunningTurns \subseteq {r}
    BY DEF Requests
<1>2. Valid(Cat(messages, Pending(r)))
    BY <1>1 DEF Requests
<1> QED
    BY <1>1, <1>2, PendingTyped

\* The steps that begin or cut a history, push a user message or end a turn.
LEMMA PlainRequests ==
    ASSUME HistoryTypeOK, HistoryTypeOK', Requests, ~mixed', NEW r \in TurnRequests,
           \/ StartTurn(r) \/ TruncateHistory(r) \/ StartIteration(r)
           \/ SteerTurn(r) \/ Fails(r) \/ Close(r)
    PROVE  Requests'
<1>1. /\ \A q \in TurnRequests: q # r => turn'[q] = turn[q]
      /\ turn'[r].pc \in {"steered", "round", "idle"}
  <2>1. Pass(r) => FALSE
    <3>1. Pass(r) => turn[r].pc \in {"captured", "idle"} /\ RunningTurns = {} /\ mode = "chat"
        BY DEF Pass
    <3>2. Pass(r) => turn'[r].pc = "passed"
        BY PlainGoes
    <3>3. /\ \A p: Goes(r, p) => turn'[r].pc = p
          /\ \A t: Set(r, t) => turn'[r] = t
        BY GoesIs, SetIs
    <3>4. turn'[r].pc # "passed"
        BY <3>3 DEF StartTurn, TruncateHistory, StartIteration, SteerTurn, Fails, Close, NoTurn
    <3> QED
        BY <3>2, <3>4
  <2> QED
      BY <2>1, PlainGoes
<1>2. r \in RunningTurns \/ RunningTurns = {}
  <2>1. CASE StartTurn(r) \/ TruncateHistory(r)
      BY <2>1 DEF StartTurn, TruncateHistory
  <2>2. CASE StartIteration(r)
      BY <2>2 DEF StartIteration, RunningTurns, NoTurn
  <2>3. CASE SteerTurn(r) \/ Fails(r) \/ Close(r)
      BY <2>3, RunningIs DEF SteerTurn, Fails, Close
  <2> QED
      BY <2>1, <2>2, <2>3
<1>3. r \notin Busy
    BY DEF StartTurn, TruncateHistory, StartIteration, SteerTurn, Fails, Close, Busy, NoTurn
<1>4. RunningTurns \subseteq {r} /\ Valid(messages)
    BY <1>2, <1>3, RunningAlone
<1>5. /\ User(count.pushed) \in Message /\ Daemon(count.pushed) \in Message
      /\ User(count.pushed).role = "user" /\ Daemon(count.pushed).role = "user"
      /\ messages \in Histories /\ jsonl \in Histories /\ turn[r].cut \in Histories
    BY HistoryFacts, MessagesTyped DEF User, Daemon
<1>6. Valid(messages') /\ (mode = "goal" => Valid(jsonl')) /\ mode' = mode
  <2>1. CASE StartTurn(r)
    <3>1. Valid(turn[r].cut) /\ (mode = "goal" => Valid(jsonl))
        BY <2>1 DEF StartTurn, Requests
    <3> QED
        BY <1>4, <1>5, <2>1, <3>1, UserValid DEF StartTurn
  <2>2. CASE TruncateHistory(r)
    <3>1. Valid(turn[r].cut)
        BY <2>2 DEF TruncateHistory, Requests
    <3> QED
        BY <2>2, <3>1 DEF TruncateHistory
  <2>3. CASE StartIteration(r)
    <3>1. mode = "goal" /\ Valid(jsonl) /\ jsonl' = jsonl /\ mode' = mode
        BY <2>3 DEF StartIteration, Requests
    <3>2. Compacted(jsonl, "do_not_inject") \in Histories
        BY <1>5, CompactedTyped DEF Policies
    <3>3. Valid(Compacted(jsonl, "do_not_inject"))
      <4>1. Cat(jsonl, <<>>) = jsonl
            /\ Cat(Compacted(jsonl, "do_not_inject"), <<>>) = Compacted(jsonl, "do_not_inject")
          BY <1>5, <3>2, Unit
      <4>2. <<>> \in Histories /\ "do_not_inject" \in Policies
          BY NoneTyped DEF Policies
      <4>3. Valid(Cat(jsonl, <<>>))
          BY <3>1, <4>1
      <4>4. Valid(Cat(Compacted(jsonl, "do_not_inject"), <<>>))
          BY <1>5, <4>2, <4>3, CompactedValid
      <4> QED
          BY <4>1, <4>4
    <3>4. PICK base \in {jsonl, Compacted(jsonl, "do_not_inject")},
               user \in {User(count.pushed), Daemon(count.pushed)}:
               messages' = Append(base, user)
        BY <2>3 DEF StartIteration
    <3> QED
        BY <1>5, <3>1, <3>2, <3>3, <3>4, UserValid
  <2>4. CASE SteerTurn(r)
    <3>1. mode = "goal" => Valid(jsonl)
        BY DEF Requests
    <3> QED
        BY <1>4, <1>5, <2>4, <3>1, UserValid DEF SteerTurn
  <2>5. CASE Fails(r)
    <3>1. mode = "goal" => Valid(jsonl)
        BY DEF Requests
    <3> QED
        BY <1>4, <2>5, <3>1 DEF Fails
  <2>6. CASE Close(r)
      BY <1>4, <1>5, <2>6, UserValid DEF Close
  <2> QED
      BY <2>1, <2>2, <2>3, <2>4, <2>5, <2>6
<1>7. Valid(Cat(messages', Pending(r)'))
  <2>1. r \notin Busy'
      BY <1>1 DEF Busy
  <2> QED
      BY <1>6, <2>1, PendingTypedNext
<1> QED
    BY <1>1, <1>4, <1>6, <1>7, TurnStep

\* A request that is not streaming reads what it may leave, or finds the way
\* clear.
LEMMA GuardRequests ==
    ASSUME HistoryTypeOK, HistoryTypeOK', Requests, NEW r \in TurnRequests,
           Capture(r) \/ Pass(r)
    PROVE  Requests'
<1>1. /\ turn[r].pc \in {"idle", "captured"} /\ messages' = messages /\ jsonl' = jsonl
      /\ mode' = mode
    BY DEF Capture, Pass
<1>2. /\ \A q \in TurnRequests: q # r => turn'[q] = turn[q]
      /\ turn'[r].pc \in {"captured", "passed"}
    BY PlainGoes, CaptureIs
<1>3. RunningTurns' = RunningTurns
    BY <1>1, <1>2 DEF RunningTurns
<1>4. ASSUME NEW q \in TurnRequests PROVE Pending(q)' = Pending(q)
  <2>1. r \notin Busy /\ r \notin Busy'
      BY <1>1, <1>2 DEF Busy
  <2> QED
      BY <1>2, <2>1, PendingSame
<1>5. Valid(turn'[r].cut)
  <2>1. CASE Capture(r)
    <3>1. PICK after \in BOOLEAN: turn'[r].cut \in Cuts(messages, after)
        BY <2>1, CaptureIs
    <3>2. \E q \in TurnRequests: RunningTurns \subseteq {q}
      <4>1. CASE RunningTurns = {}
          BY <4>1
      <4>2. CASE RunningTurns # {}
        <5>1. PICK q \in RunningTurns: TRUE
            BY <4>2
        <5>2. RunningTurns \subseteq {q} /\ q \in TurnRequests
            BY <5>1, BusyRuns DEF Requests
        <5> QED
            BY <5>2
      <4> QED
          BY <4>1, <4>2
    <3>3. PICK q \in TurnRequests: RunningTurns \subseteq {q}
        BY <3>2
    <3>4. Valid(Cat(messages, Pending(q))) /\ Pending(q) \in Histories /\ messages \in Histories
        BY <3>3, PendingTyped, HistoryFacts DEF Requests
    <3> HIDE DEF Pending
    <3> QED
        BY <3>1, <3>4, CutsValid
  <2>2. CASE Pass(r)
    <3>1. turn'[r].cut \in {turn[r].cut, <<>>} /\ (turn[r].pc = "idle" => turn'[r].cut = <<>>)
      <4>1. \A t: Set(r, t) => turn'[r] = t
          BY SetIs
      <4>2. [NoTurn EXCEPT !.pc = "passed", !.op = "send"].cut = <<>>
          BY DEF NoTurn
      <4>3. turn[r].pc = "idle" => turn'[r].cut = <<>>
          BY <2>2, <4>1, <4>2 DEF Pass
      <4> QED
          BY <2>2, <4>3, PlainGoes
    <3>2. turn[r].pc = "captured" => Valid(turn[r].cut)
        BY DEF Requests
    <3> QED
        BY <1>1, <3>1, <3>2, NoneValid
  <2> QED
      BY <2>1, <2>2
<1>6. /\ \A q \in TurnRequests: turn'[q].pc \in {"captured", "passed"} => Valid(turn'[q].cut)
      /\ mode = "goal" => Valid(jsonl')
    BY <1>1, <1>2, <1>5 DEF Requests
<1> QED
    BY <1>1, <1>3, <1>4, <1>6, OtherStep

\* The answer, with the results of its calls still to come.
LEMMA AnswerRequests ==
    ASSUME HistoryTypeOK, HistoryTypeOK', Requests, NEW r \in TurnRequests,
           ModelAnswers(r) \/ Abort(r)
    PROVE  Requests'
<1>1. /\ r \in RunningTurns /\ r \notin Busy /\ jsonl' = jsonl /\ mode' = mode
      /\ \A q \in TurnRequests: q # r => turn'[q] = turn[q]
      /\ turn'[r].pc \in {"answered", "closing"}
    BY RunningIs, AnswersIs, AbortIs DEF ModelAnswers, Abort, Busy
<1>2. RunningTurns \subseteq {r} /\ Valid(messages) /\ messages \in Histories
    BY <1>1, RunningAlone, HistoryFacts
<1>3. ASSUME NEW k \in Nat, messages' = Cat(messages, <<Assistant(count.pushed, k)>>),
             Pending(r)' \in Histories, Len(Pending(r)') = k,
             \A c \in 1..k: Pending(r)'[c] = Result(count.pushed, c)
      PROVE  Valid(Cat(messages', Pending(r)'))
  <2>1. PICK R \in Histories: R = Pending(r)'
      BY <1>3
  <2>2. PICK m \in Message: m = Assistant(count.pushed, k)
      BY HistoryFacts, MessagesTyped
  <2>3. m.role = "assistant" /\ m.n = count.pushed /\ m.calls = k
      BY <2>2 DEF Assistant
  <2>4. /\ Len(R) = m.calls /\ \A j \in 1..Len(R): \E c \in 1..m.calls: R[j] = Result(m.n, c)
        /\ \A c \in 1..m.calls: \E j \in 1..Len(R): R[j] = Result(m.n, c)
      BY <1>3, <2>1, <2>3
  <2>5. Valid(Cat(<<m>>, R)) /\ Cat(<<m>>, R) \in Histories
      BY <2>3, <2>4, CallValid
  <2>6. Valid(Cat(messages, Cat(<<m>>, R)))
      BY <1>2, <2>5, ValidJoin
  <2>7. Cat(Cat(messages, <<m>>), R) = Cat(messages, Cat(<<m>>, R))
      BY <1>2, OneTyped, Assoc
  <2> QED
      BY <1>3, <2>1, <2>2, <2>6, <2>7
<1>4. CASE ModelAnswers(r)
  <2>1. PICK k \in Nat:
              /\ messages' = Cat(messages, <<Assistant(count.pushed, k)>>)
              /\ turn'[r].pc = "answered"
              /\ turn'[r].n = count.pushed /\ turn'[r].calls = k /\ turn'[r].next = 1
      BY <1>4, AnswersIs
  <2>2. Pending(r)' = [i \in 1..k |-> Result(count.pushed, i)]
    <3>1. Pending(r)' = [i \in 1..(k - 1 + 1) |-> Result(count.pushed, 1 + i - 1)]
        BY <2>1 DEF Pending, Busy, Results
    <3>2. k - 1 + 1 = k /\ \A i \in 1..k: 1 + i - 1 = i
        OBVIOUS
    <3> QED
        BY <3>1, <3>2
  <2>3. \A i \in 1..k: Result(count.pushed, i) \in Message
      BY HistoryFacts, MessagesTyped
  <2>4. /\ Pending(r)' \in Histories /\ Len(Pending(r)') = k
        /\ \A c \in 1..k: Pending(r)'[c] = Result(count.pushed, c)
      BY <2>2, <2>3 DEF Histories
  <2>5. Valid(Cat(messages', Pending(r)'))
      BY <1>3, <2>1, <2>4
  <2>6. mode = "goal" => Valid(jsonl')
      BY <1>1 DEF Requests
  <2> QED
      BY <1>1, <1>2, <2>1, <2>5, <2>6, TurnStep
<1>5. CASE Abort(r)
  <2>1. turn'[r].pc = "closing" /\ r \notin Busy'
      BY <1>5, AbortIs DEF Busy
  <2>2. Pending(r)' = <<>>
      BY <2>1 DEF Pending
  <2>3. Valid(Cat(messages', Pending(r)'))
    <3>1. CASE messages' = Cat(messages, <<Assistant(count.pushed, 0)>>)
      <4>1. /\ Pending(r)' \in Histories /\ Len(Pending(r)') = 0
            /\ \A c \in 1..0: Pending(r)'[c] = Result(count.pushed, c)
          BY <2>2, NoneTyped
      <4> QED
          BY <1>3, <3>1, <4>1
    <3>2. CASE messages' = messages
        BY <1>2, <2>1, <3>2, PendingTypedNext
    <3> QED
        BY <1>5, <3>1, <3>2, AbortIs
  <2>4. mode = "goal" => Valid(jsonl')
      BY <1>1 DEF Requests
  <2> QED
      BY <1>1, <1>2, <2>1, <2>3, <2>4, TurnStep
<1> QED
    BY <1>4, <1>5

\* A compaction within the turn, before the calls are run.
LEMMA ProceedRequests ==
    ASSUME HistoryTypeOK, HistoryTypeOK', Requests, Counted, NEW r \in TurnRequests, Proceed(r)
    PROVE  Requests'
<1>1. /\ turn[r].pc = "answered" /\ turn[r].next = 1 /\ r \in Busy /\ r \in RunningTurns
      /\ jsonl' = jsonl /\ mode' = mode /\ turn[r].calls \in Nat
      /\ messages' \in {messages, Compacted(messages, "before_last_user_message")}
    BY HistoryFacts, RunningIs DEF Proceed, Counted, Busy
<1>2. /\ \A q \in TurnRequests: q # r => turn'[q] = turn[q]
      /\ turn'[r].pc = (IF turn[r].calls = 0 THEN "closing" ELSE "tool")
      /\ turn'[r].n = turn[r].n /\ turn'[r].calls = turn[r].calls
      /\ turn'[r].next = turn[r].next
  <2>1. Goes(r, IF turn[r].calls = 0 THEN "closing" ELSE "tool")
      BY DEF Proceed
  <2> QED
      BY <2>1, GoesIs
<1>3. RunningTurns \subseteq {r} /\ Valid(Cat(messages, Pending(r)))
    BY <1>1, RunningAlone
<1>4. Pending(r)' = Pending(r)
  <2>1. CASE turn[r].calls # 0
    <3>1. r \in Busy'
        BY <1>2, <2>1 DEF Busy
    <3> QED
        BY <1>1, <1>2, <3>1, PendingSame
  <2>2. CASE turn[r].calls = 0
    <3>1. r \notin Busy'
        BY <1>2, <2>2 DEF Busy
    <3>2. Results(r, 1) \in Histories /\ Len(Results(r, 1)) = 0
        BY <1>1, <2>2, ResultsTyped
    <3>3. Results(r, 1) = <<>>
        BY <3>2 DEF Histories
    <3> QED
        BY <1>1, <3>1, <3>3 DEF Pending
  <2> QED
      BY <2>1, <2>2
<1>5. Valid(Cat(messages', Pending(r)'))
  <2>1. PICK T \in Histories: T = Pending(r)
      BY PendingTyped
  <2>2. messages \in Histories /\ "before_last_user_message" \in Policies
        /\ Valid(Cat(messages, T))
      BY <1>3, <2>1, HistoryFacts DEF Policies
  <2>3. Valid(Cat(Compacted(messages, "before_last_user_message"), T))
      BY <2>2, CompactedValid
  <2> QED
      BY <1>1, <1>4, <2>1, <2>2, <2>3
<1>6. /\ turn'[r].pc \notin {"captured", "passed"} /\ (mode = "goal" => Valid(jsonl'))
    BY <1>1, <1>2 DEF Requests
<1> QED
    BY <1>1, <1>2, <1>3, <1>5, <1>6, TurnStep

\* A result that is pushed was to come; so are the others.
LEMMA RunRequests ==
    ASSUME HistoryTypeOK, HistoryTypeOK', Requests, Counted, NEW r \in TurnRequests,
           RunCall(r) \/ CloseBatch(r)
    PROVE  Requests'
<1> DEFINE c == turn[r].next
           k == turn[r].calls
           x == <<Result(turn[r].n, c)>>
           s == Results(r, c)
           t == Results(r, c + 1)
<1>1. /\ turn[r].pc = "tool" /\ c \in 1..k /\ r \in Busy /\ r \in RunningTurns
      /\ jsonl' = jsonl /\ mode' = mode /\ c \in Nat /\ turn[r].n \in Nat
    BY HistoryFacts, RunningIs DEF RunCall, CloseBatch, Counted, Busy
<1>2. RunningTurns \subseteq {r} /\ Valid(Cat(messages, s)) /\ messages \in Histories
    BY <1>1, RunningAlone, HistoryFacts DEF Pending
<1>3. s = Cat(x, t) /\ t \in Histories /\ (c = k => t = <<>>)
    BY <1>1, ResultsSplit
<1>4. x \in Histories /\ s \in Histories
    BY <1>1, MessagesTyped, OneTyped, BatchTyped
<1>5. mode = "goal" => Valid(jsonl')
    BY <1>1 DEF Requests
<1>6. CASE RunCall(r)
  <2>1. /\ \A q \in TurnRequests: q # r => turn'[q] = turn[q]
        /\ turn'[r].pc \in {"round", "tool", "closing"}
        /\ turn'[r].pc = "tool" <=> c # k
        /\ turn'[r].n = turn[r].n /\ turn'[r].calls = k /\ turn'[r].next = c + 1
      BY <1>6, RunGoes
  <2>2. messages' = Cat(messages, x)
    <3>1. Push(x)
        BY <1>6 DEF RunCall
    <3> QED
        BY <1>4, <3>1, PushTyped
  <2>3. Pending(r)' = t
    <3>1. CASE c # k
        BY <2>1, <3>1 DEF Pending, Busy, Results
    <3>2. CASE c = k
      <4>1. r \notin Busy'
          BY <2>1, <3>2 DEF Busy
      <4> QED
          BY <1>3, <3>2, <4>1 DEF Pending
    <3> QED
        BY <3>1, <3>2
  <2> HIDE DEF c, k, x, s, t
  <2>4. Cat(Cat(messages, x), t) = Cat(messages, s)
      BY <1>2, <1>3, <1>4, Assoc
  <2>5. Valid(Cat(messages', Pending(r)'))
      BY <1>2, <2>2, <2>3, <2>4
  <2> QED
      BY <1>1, <1>2, <1>5, <2>1, <2>5, TurnStep
<1>7. CASE CloseBatch(r)
  <2>1. Push(s) /\ Goes(r, "closing")
      BY <1>7 DEF CloseBatch
  <2>2. messages' = Cat(messages, s)
      BY <1>4, <2>1, PushTyped
  <2>3. turn'[r].pc = "closing" /\ \A q \in TurnRequests: q # r => turn'[q] = turn[q]
      BY <2>1, GoesIs
  <2> HIDE DEF c, k, x, s, t
  <2>4. Valid(Cat(messages', Pending(r)'))
    <3>1. r \notin Busy'
        BY <2>3 DEF Busy
    <3> QED
        BY <1>2, <2>2, <3>1, PendingTypedNext
  <2> QED
      BY <1>1, <1>2, <1>5, <2>3, <2>4, TurnStep
<1> QED
    BY <1>6, <1>7

\* A compaction on request; the iterations of a goal have none.
NoGoalCompact == mode = "goal" => compact.pc = "idle"

LEMMA CompactRequests ==
    ASSUME HistoryTypeOK, HistoryTypeOK', Requests, NoGoalCompact, ~mixed',
           CompactBegins \/ CompactSwaps \/ CompactFlushes \/ UNCHANGED historyVars
    PROVE  Requests'
<1>1. /\ turn' = turn /\ mode' = mode
      /\ messages' \in {messages, Compacted(messages, "do_not_inject")}
    BY DEF CompactBegins, CompactSwaps, CompactFlushes, historyVars
<1>2. mode = "goal" => Valid(jsonl')
  <2>1. mode = "goal" => jsonl' = jsonl
      BY DEF CompactBegins, CompactSwaps, CompactFlushes, historyVars, NoGoalCompact
  <2> QED
      BY <2>1 DEF Requests
<1>3. RunningTurns' = RunningTurns
    BY <1>1 DEF RunningTurns
<1>4. \A q \in TurnRequests: Pending(q)' = Pending(q)
    BY <1>1, PendingSame
<1>5. ASSUME NEW T \in Histories, Valid(Cat(messages, T)) PROVE Valid(Cat(messages', T))
  <2>1. messages \in Histories /\ "do_not_inject" \in Policies
      BY HistoryFacts DEF Policies
  <2>2. Valid(Cat(Compacted(messages, "do_not_inject"), T))
      BY <1>5, <2>1, CompactedValid
  <2> QED
      BY <1>1, <1>5, <2>2
<1>6. \A q \in TurnRequests: turn'[q].pc \in {"captured", "passed"} => Valid(turn'[q].cut)
    BY <1>1 DEF Requests
<1> QED
    BY <1>1, <1>2, <1>3, <1>4, <1>5, <1>6, OtherStep

\* The next server: a chat as it was flushed, if that was well formed, or a
\* repaired one.
LEMMA RestartRequests ==
    ASSUME HistoryTypeOK, HistoryTypeOK', NEW sizes \in Sizes, Sane(sizes), ~mixed',
           ServerRestarts
    PROVE  Requests'
<1> DEFINE N == Fitting(sizes)'
<1>1. /\ Coherent(N) /\ jsonl \in Sound(N) /\ \A q \in TurnRequests: turn'[q] = NoTurn
    BY RestartFinds
<1> HIDE DEF N
<1>2. Valid(jsonl') /\ messages' = jsonl'
  <2>1. CASE jsonl' = Repaired(jsonl) /\ mixed' = (Strays(jsonl) # {})
      BY <1>1, <2>1, RepairedValid DEF ServerRestarts
  <2>2. CASE jsonl' = jsonl /\ mixed' = ~WellFormed(jsonl)
      BY <2>2, HistoryFacts, WellFormedIs DEF ServerRestarts
  <2> QED
      BY <2>1, <2>2 DEF ServerRestarts
<1>3. RunningTurns' = {} /\ Busy' = {}
    BY <1>1 DEF RunningTurns, Busy, NoTurn
<1>4. \A q \in TurnRequests: Valid(Cat(messages', Pending(q)'))
    BY <1>2, <1>3, PendingTypedNext
<1>5. \A q \in TurnRequests: turn'[q].pc \notin {"captured", "passed"}
    BY <1>1 DEF NoTurn
<1> QED
    BY <1>2, <1>3, <1>4, <1>5 DEF Requests

LEMMA RequestsStep ==
    ASSUME HistoryTypeOK, HistoryTypeOK', NEW sizes \in Sizes, Sane(sizes), Counted,
           NoGoalCompact, RequestsInv, [HistoryNext]_historyVars
    PROVE  RequestsInv'
<1> SUFFICES ASSUME ~mixed' PROVE Requests'
    BY DEF RequestsInv
<1>1. CASE ServerRestarts
    BY <1>1, RestartRequests
<1>2. CASE ~ServerRestarts
  <2>1. Requests
    <3>1. ~mixed' => ~mixed
        BY <1>2, HistoryFacts DEF HistoryNext, historyVars, Capture, Pass, StartTurn,
           TruncateHistory, StartIteration, SteerTurn, ModelAnswers, Proceed, RunCall, CloseBatch,
           Abort, Fails, Close, CompactBegins, CompactSwaps, CompactFlushes
    <3> QED
        BY <3>1 DEF RequestsInv
  <2>2. ASSUME NEW r \in TurnRequests,
               \/ StartTurn(r) \/ TruncateHistory(r) \/ StartIteration(r)
               \/ SteerTurn(r) \/ Fails(r) \/ Close(r)
        PROVE  Requests'
      BY <2>1, <2>2, PlainRequests
  <2>3. ASSUME NEW r \in TurnRequests, Capture(r) \/ Pass(r) PROVE Requests'
      BY <2>1, <2>3, GuardRequests
  <2>4. ASSUME NEW r \in TurnRequests, ModelAnswers(r) \/ Abort(r) PROVE Requests'
      BY <2>1, <2>4, AnswerRequests
  <2>5. ASSUME NEW r \in TurnRequests, Proceed(r) \/ RunCall(r) \/ CloseBatch(r)
        PROVE  Requests'
      BY <2>1, <2>5, ProceedRequests, RunRequests
  <2>6. ASSUME CompactBegins \/ CompactSwaps \/ CompactFlushes \/ UNCHANGED historyVars
        PROVE  Requests'
      BY <2>1, <2>6, CompactRequests
  <2> QED
      BY <1>2, <2>2, <2>3, <2>4, <2>5, <2>6 DEF HistoryNext
<1> QED
    BY <1>1, <1>2

LEMMA NoGoalCompactStep ==
    ASSUME NoGoalCompact, [HistoryNext]_historyVars
    PROVE  NoGoalCompact'
<1>1. mode' = mode
    BY DEF HistoryNext, historyVars, Capture, Pass, StartTurn, TruncateHistory, StartIteration,
           SteerTurn, ModelAnswers, Proceed, RunCall, CloseBatch, Abort, Fails, Close,
           CompactBegins, CompactSwaps, CompactFlushes, ServerRestarts
<1>2. mode = "goal" => compact' \in {compact, NoCompact}
    BY DEF HistoryNext, historyVars, Capture, Pass, StartTurn, TruncateHistory, StartIteration,
           SteerTurn, ModelAnswers, Proceed, RunCall, CloseBatch, Abort, Fails, Close,
           CompactBegins, CompactSwaps, CompactFlushes, ServerRestarts, NoGoalCompact
<1> QED
    BY <1>1, <1>2 DEF NoGoalCompact, NoCompact

HistoryInv == (\E sizes \in Sizes: Sane(sizes)) /\ Counted /\ NoGoalCompact /\ RequestsInv

LEMMA HistoryInvBegins == HistoryInit => HistoryInv
<1> SUFFICES ASSUME HistoryInit PROVE HistoryInv
    OBVIOUS
<1>1. HistoryTypeOK /\ messages = <<Prompt>> /\ jsonl = <<Prompt>>
    BY HistoryBegins DEF HistoryInit
<1>2. \A r \in TurnRequests: turn[r] = NoTurn
    BY DEF HistoryInit
<1>3. Busy = {} /\ RunningTurns = {}
    BY <1>2 DEF Busy, RunningTurns, NoTurn
<1>4. PICK sizes \in Sizes: TRUE
  <2>1. [n \in Nat |-> 0] \in Sizes
      BY DEF Sizes
  <2> QED
      BY <2>1
<1>5. Sane(sizes)
  <2> DEFINE M == Fitting(sizes)
  <2>1. Prompt \in M /\ Prompt \in Message
      BY <1>1, HistoryFacts, PlainFits, MessagesTyped
  <2>2. TurnsFit(sizes)
      BY <1>3 DEF TurnsFit
  <2> HIDE DEF M
  <2>3. <<Prompt>> \in Sound(M) /\ <<>> \in Sound(M)
      BY <2>1, OneSound, NoneSound
  <2>4. compact.snap = <<>> /\ \A r \in TurnRequests: turn[r].cut = <<>>
      BY <1>2 DEF HistoryInit, NoCompact, NoTurn
  <2> QED
      BY <1>1, <2>2, <2>3, <2>4 DEF Sane, M
<1>6. Counted /\ NoGoalCompact
    BY <1>2 DEF Counted, NoGoalCompact, HistoryInit, NoCompact, NoTurn
<1>7. Valid(messages) /\ Valid(jsonl)
  <2>1. <<Prompt>> \in Histories
      BY <1>1, HistoryFacts
  <2>2. \A i \in 1..Len(<<Prompt>>): <<Prompt>>[i].role = "system"
    <3>1. \A i \in 1..1: i = 1
        OBVIOUS
    <3> QED
        BY <3>1 DEF Prompt
  <2>3. Valid(<<Prompt>>)
      BY <2>1, <2>2, PlainValid
  <2> QED
      BY <1>1, <2>3
<1>8. Requests
  <2>1. \A r \in TurnRequests: Valid(Cat(messages, Pending(r)))
      BY <1>1, <1>3, <1>7, PendingTyped
  <2>2. \A r \in TurnRequests: turn[r].pc \notin {"captured", "passed"}
      BY <1>2 DEF NoTurn
  <2> QED
      BY <1>3, <1>7, <2>1, <2>2 DEF Requests
<1> QED
    BY <1>4, <1>5, <1>6, <1>8 DEF HistoryInv, RequestsInv

\* Whatever is sent to the provider has, behind each call, the results of its
\* calls and no others: through aborts, questions, spent budgets, reruns, cuts,
\* compactions within the turn and repairs after a crash, for any number of
\* requests, rounds and calls, unless two writers mixed their messages.
THEOREM RequestsStayValid == HistorySpec => []RequestsAreValid
<1>1. HistoryInit => HistoryInv
    BY HistoryInvBegins
<1>2. HistoryTypeOK /\ HistoryTypeOK' /\ HistoryInv /\ [HistoryNext]_historyVars => HistoryInv'
    BY SaneStep, CountedStep, NoGoalCompactStep, RequestsStep DEF HistoryInv
<1>3. HistoryTypeOK /\ HistoryInv => RequestsAreValid
  <2> SUFFICES ASSUME HistoryTypeOK, HistoryInv, ~mixed, NEW r \in TurnRequests,
                      turn[r].pc \in {"round", "steered"}
               PROVE  WellFormed(messages)
      BY DEF RequestsAreValid
  <2>1. r \in RunningTurns /\ r \notin Busy /\ Requests
      BY RunningIs DEF Busy, HistoryInv, RequestsInv
  <2>2. Valid(messages) /\ messages \in Histories
      BY <2>1, RunningAlone, HistoryFacts
  <2> QED
      BY <2>2, WellFormedIs
<1> QED
    BY <1>1, <1>2, <1>3, HistoryTypeInvariance, PTL DEF HistorySpec
=============================================================================
