-------------------------- MODULE TaskQueueProofs --------------------------
(***************************************************************************)
(* Lemmas for the proofs about both engines: the areas of a queue, and the  *)
(* order in which a run counts down to its end.                             *)
(***************************************************************************)
EXTENDS TaskQueue, SequenceTheorems, WellFoundedInduction, TLAPS

(* The areas of a sequence with one more task, and with one less. *)
LEMMA AreasOfAppend ==
    ASSUME NEW S, NEW s \in Seq(S), NEW t \in S
    PROVE  AreasOf(Append(s, t)) = AreasOf(s) \cup {t.targetArea}
<1>1. /\ Append(s, t) \in Seq(S)
      /\ Len(Append(s, t)) = Len(s) + 1
      /\ \A i \in 1..Len(s) : Append(s, t)[i] = s[i]
      /\ Append(s, t)[Len(s) + 1] = t
  BY AppendProperties
<1>2. Len(s) \in Nat /\ DOMAIN s = 1..Len(s) /\ DOMAIN Append(s, t) = 1..(Len(s) + 1)
  BY <1>1, LenProperties
<1>3. QED
  BY <1>1, <1>2 DEF AreasOf

LEMMA EmptyAreas == DOMAIN <<>> = {} /\ AreasOf(<<>>) = {}
<1>1. DOMAIN <<>> = {}
  OBVIOUS
<1>2. QED
  BY <1>1 DEF AreasOf

LEMMA AreasOfTail ==
    ASSUME NEW S, NEW s \in Seq(S), s # <<>>
    PROVE  AreasOf(s) = {Head(s).targetArea} \cup AreasOf(Tail(s))
<1>1. /\ Tail(s) \in Seq(S)
      /\ Len(Tail(s)) = Len(s) - 1
      /\ \A i \in 1..Len(Tail(s)) : Tail(s)[i] = s[i + 1]
  BY HeadTailProperties
<1>2. /\ Len(s) \in Nat /\ Len(s) > 0
      /\ DOMAIN s = 1..Len(s) /\ DOMAIN Tail(s) = 1..(Len(s) - 1)
  BY <1>1, LenProperties, EmptySeq
<1>3. Head(s) = s[1]
  OBVIOUS
<1>4. AreasOf(s) \subseteq {Head(s).targetArea} \cup AreasOf(Tail(s))
  <2> SUFFICES ASSUME NEW i \in 1..Len(s)
               PROVE  s[i].targetArea \in {Head(s).targetArea} \cup AreasOf(Tail(s))
    BY <1>2 DEF AreasOf
  <2>1. CASE i = 1
    BY <1>3, <2>1
  <2>2. CASE i # 1
    <3>1. i - 1 \in 1..Len(Tail(s)) /\ (i - 1) + 1 = i
      BY <1>1, <1>2, <2>2
    <3>2. Tail(s)[i - 1] = s[i]
      BY <1>1, <3>1
    <3>3. QED
      BY <1>1, <1>2, <3>1, <3>2 DEF AreasOf
  <2>3. QED
    BY <2>1, <2>2
<1>5. {Head(s).targetArea} \cup AreasOf(Tail(s)) \subseteq AreasOf(s)
  <2>1. \A i \in 1..Len(Tail(s)) : i + 1 \in 1..Len(s)
    BY <1>1, <1>2
  <2>2. 1 \in 1..Len(s)
    BY <1>2
  <2>3. QED
    BY <1>1, <1>2, <1>3, <2>1, <2>2 DEF AreasOf
<1>6. QED
  BY <1>4, <1>5

DistinctAreas(s) ==
    \A i, j \in DOMAIN s : s[i].targetArea = s[j].targetArea => i = j

LEMMA DistinctAppend ==
    ASSUME NEW S, NEW s \in Seq(S), NEW t \in S,
           DistinctAreas(s), t.targetArea \notin AreasOf(s)
    PROVE  DistinctAreas(Append(s, t))
<1>1. /\ Append(s, t) \in Seq(S)
      /\ Len(Append(s, t)) = Len(s) + 1
      /\ \A i \in 1..Len(s) : Append(s, t)[i] = s[i]
      /\ Append(s, t)[Len(s) + 1] = t
  BY AppendProperties
<1>2. Len(s) \in Nat /\ DOMAIN s = 1..Len(s) /\ DOMAIN Append(s, t) = 1..(Len(s) + 1)
  BY <1>1, LenProperties
<1>3. \A i \in 1..Len(s) : s[i].targetArea # t.targetArea
  BY <1>2 DEF AreasOf
<1>4. \A i \in 1..(Len(s) + 1) : i \in 1..Len(s) \/ i = Len(s) + 1
  BY <1>2
<1>5. QED
  BY <1>1, <1>2, <1>3, <1>4 DEF DistinctAreas

LEMMA DistinctTail ==
    ASSUME NEW S, NEW s \in Seq(S), s # <<>>, DistinctAreas(s)
    PROVE  DistinctAreas(Tail(s)) /\ Head(s).targetArea \notin AreasOf(Tail(s))
<1>1. /\ Tail(s) \in Seq(S)
      /\ Len(Tail(s)) = Len(s) - 1
      /\ \A i \in 1..Len(Tail(s)) : Tail(s)[i] = s[i + 1]
  BY HeadTailProperties
<1>2. /\ Len(s) \in Nat /\ Len(s) > 0
      /\ DOMAIN s = 1..Len(s) /\ DOMAIN Tail(s) = 1..(Len(s) - 1)
  BY <1>1, LenProperties, EmptySeq
<1>3. Head(s) = s[1]
  OBVIOUS
<1>4. \A i \in 1..(Len(s) - 1) : i + 1 \in 1..Len(s) /\ i + 1 # 1
  BY <1>2
<1>5. 1 \in 1..Len(s)
  BY <1>2
<1>6. DistinctAreas(Tail(s))
  <2> SUFFICES ASSUME NEW i \in 1..(Len(s) - 1), NEW j \in 1..(Len(s) - 1),
                      Tail(s)[i].targetArea = Tail(s)[j].targetArea
               PROVE  i = j
    BY <1>2 DEF DistinctAreas
  <2>1. s[i + 1].targetArea = s[j + 1].targetArea
    BY <1>1
  <2>2. i + 1 = j + 1
    BY <1>2, <1>4, <2>1 DEF DistinctAreas
  <2>3. QED
    BY <2>2
<1>7. Head(s).targetArea \notin AreasOf(Tail(s))
  <2> SUFFICES ASSUME NEW i \in 1..(Len(s) - 1), Tail(s)[i].targetArea = Head(s).targetArea
               PROVE  FALSE
    BY <1>2 DEF AreasOf
  <2>1. s[i + 1].targetArea = s[1].targetArea
    BY <1>1, <1>3
  <2>2. QED
    BY <1>2, <1>4, <1>5, <2>1 DEF DistinctAreas
<1>8. QED
  BY <1>6, <1>7

-----------------------------------------------------------------------------
(* What counts down to the end of a run: the iterations left, the stages    *)
(* left in the current one, and the work left in that stage, the first      *)
(* mattering most.                                                          *)
Countdowns == Nat \X (Nat \X Nat)

LessNat == OpToRel(<, Nat)

Below == LexPairOrdering(LessNat, LexPairOrdering(LessNat, LessNat, Nat, Nat), Nat, Nat \X Nat)

(* No run goes down for ever. *)
LEMMA NoEndlessCountdown == IsWellFoundedOn(Below, Countdowns)
<1>1. IsWellFoundedOn(LessNat, Nat)
  BY NatLessThanWellFounded DEF LessNat
<1>2. IsWellFoundedOn(LexPairOrdering(LessNat, LessNat, Nat, Nat), Nat \X Nat)
  BY <1>1, WFLexPairOrdering
<1>3. QED
  BY <1>1, <1>2, WFLexPairOrdering DEF Below, Countdowns

LEMMA CountsDown ==
    ASSUME NEW left \in Nat, NEW stage \in Nat, NEW todo \in Nat,
           NEW l \in Nat, NEW s \in Nat, NEW t \in Nat,
           \/ l < left
           \/ l = left /\ s < stage
           \/ l = left /\ s = stage /\ t < todo
    PROVE  <<<<l, <<s, t>>>>, <<left, <<stage, todo>>>>>> \in Below
<1>1. \A m, n \in Nat : <<m, n>> \in LessNat <=> m < n
  BY DEF LessNat, OpToRel
<1>2. \/ <<s, stage>> \in LessNat
      \/ s = stage /\ <<t, todo>> \in LessNat
      => <<<<s, t>>, <<stage, todo>>>> \in LexPairOrdering(LessNat, LessNat, Nat, Nat)
  BY DEF LexPairOrdering
<1>3. \/ <<l, left>> \in LessNat
      \/ l = left /\ <<<<s, t>>, <<stage, todo>>>> \in LexPairOrdering(LessNat, LessNat, Nat, Nat)
  BY <1>1, <1>2
<1>4. QED
  BY <1>3 DEF Below, LexPairOrdering
=============================================================================
