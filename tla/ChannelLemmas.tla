---------------------------- MODULE ChannelLemmas ----------------------------
(***************************************************************************)
(* A Go channel as a sequence: what was sent last is at its end, and stays *)
(* there until it is received.  And the first element of a sequence that   *)
(* has what a loop looks for: the one with the least of their indices.     *)
(***************************************************************************)
EXTENDS Naturals, Sequences, FiniteSetsExt, SequenceTheorems, WellFoundedInduction, TLAPS

\* Receiving leaves the newest where it was, or takes it.
LEMMA ReceivingKeepsNewest ==
    ASSUME NEW S, NEW s \in Seq(S), s # <<>>
    PROVE  /\ Head(s) \in S /\ Tail(s) \in Seq(S)
           /\ Len(s) \in Nat \ {0} /\ Len(Tail(s)) = Len(s) - 1
           /\ Tail(s) = <<>> => Head(s) = s[Len(s)]
           /\ Tail(s) # <<>> => Tail(s)[Len(Tail(s))] = s[Len(s)]
<1>1. Len(s) \in Nat \ {0}
  BY EmptySeq
<1>2. /\ Head(s) \in S
      /\ Tail(s) \in Seq(S)
      /\ Len(Tail(s)) = Len(s) - 1
      /\ \A i \in 1 .. Len(Tail(s)) : Tail(s)[i] = s[i + 1]
  BY HeadTailProperties
<1>3. ASSUME Tail(s) = <<>>
      PROVE  Head(s) = s[Len(s)]
  <2>1. Len(Tail(s)) = 0
    BY <1>3, EmptySeq
  <2>2. Len(s) - 1 = 0
    BY <1>2, <2>1
  <2>3. Len(s) = 1
    BY <1>1, <2>2
  <2>4. Head(s) = s[1]
    OBVIOUS
  <2> QED
    BY <2>3, <2>4
<1>4. ASSUME Tail(s) # <<>>
      PROVE  Tail(s)[Len(Tail(s))] = s[Len(s)]
  <2>1. Len(Tail(s)) \in Nat \ {0}
    BY <1>2, <1>4, EmptySeq
  <2>2. Len(Tail(s)) \in 1 .. Len(Tail(s)) /\ Len(Tail(s)) + 1 = Len(s)
    BY <2>1, <1>1, <1>2
  <2> QED
    BY <2>2, <1>2
<1> QED
  BY <1>1, <1>2, <1>3, <1>4

\* What is sent is the newest.
LEMMA SendingIsNewest ==
    ASSUME NEW S, NEW s \in Seq(S), NEW e \in S
    PROVE  /\ Append(s, e) \in Seq(S)
           /\ Append(s, e) # <<>>
           /\ Append(s, e)[Len(Append(s, e))] = e
<1>1. Append(s, e) \in Seq(S) /\ Len(Append(s, e)) = Len(s) + 1
  OBVIOUS
<1>2. Len(s) \in Nat /\ Append(s, e)[Len(s) + 1] = e
  OBVIOUS
<1> QED
  BY <1>1, <1>2, EmptySeq
-----------------------------------------------------------------------------
\* Numbers of which there is one have a least.
LEMMA MinIsLeast ==
    ASSUME NEW S, S \subseteq Nat, S # {}
    PROVE  Min(S) \in S /\ \A n \in S : Min(S) <= n
<1>1. PICK x \in S : \A y \in S : ~(<<y, x>> \in OpToRel(<, Nat))
  BY NatLessThanWellFounded, WFMin, Zenon
<1>2. \A y \in S : x <= y
  <2> SUFFICES ASSUME NEW y \in S PROVE x <= y
    OBVIOUS
  <2>1. x \in Nat /\ y \in Nat
    OBVIOUS
  <2>2. ~(y < x)
    BY <1>1, <2>1 DEF OpToRel
  <2> QED
    BY <2>1, <2>2
<1> QED
  BY <1>2 DEF Min
=============================================================================
