----------------------------- MODULE QueueLemmas -----------------------------
(***************************************************************************)
(* Lemmas about queues, and about the ids of new objects that the messages *)
(* in a queue bring.  In a message without a new object, the id is zero.   *)
(***************************************************************************)
EXTENDS SequenceTheorems, TLAPS

(* The new ids of s are lo, lo + 1, ... , hi - 1, in this order.           *)
InOrder(s, lo, hi) ==
  /\ \A k \in 1..Len(s) : s[k].new # 0 => lo <= s[k].new /\ s[k].new < hi
  /\ \A j, k \in 1..Len(s) :
       j < k /\ s[j].new # 0 /\ s[k].new # 0 => s[j].new < s[k].new
  /\ \A i \in lo..(hi - 1) : \E k \in 1..Len(s) : s[k].new = i

-----------------------------------------------------------------------------
(* Taking the head of two queues that are one behind the other.            *)
LEMMA TailConcat ==
  ASSUME NEW S, NEW s \in Seq(S), NEW t \in Seq(S), s # <<>>
  PROVE  s \o t # <<>> /\ Head(s \o t) = Head(s) /\ Tail(s \o t) = Tail(s) \o t
<1>1. /\ s \o t \in Seq(S) /\ Len(s \o t) = Len(s) + Len(t)
      /\ Len(s) \in Nat \ {0} /\ Len(t) \in Nat
      /\ \A i \in 1..(Len(s) + Len(t)) :
           (s \o t)[i] = IF i <= Len(s) THEN s[i] ELSE t[i - Len(s)]
  BY ConcatProperties, EmptySeq, LenProperties
<1>2. s \o t # <<>> /\ Head(s \o t) = Head(s)
  BY <1>1, EmptySeq
<1>3. /\ Tail(s \o t) \in Seq(S) /\ Len(Tail(s \o t)) = Len(s) + Len(t) - 1
      /\ \A i \in 1..(Len(s) + Len(t) - 1) : Tail(s \o t)[i] = (s \o t)[i + 1]
  BY <1>1, <1>2, HeadTailProperties
<1>4. /\ Tail(s) \in Seq(S) /\ Len(Tail(s)) = Len(s) - 1
      /\ \A i \in 1..(Len(s) - 1) : Tail(s)[i] = s[i + 1]
  BY HeadTailProperties
<1>5. /\ Tail(s) \o t \in Seq(S) /\ Len(Tail(s) \o t) = Len(s) + Len(t) - 1
      /\ \A i \in 1..(Len(s) + Len(t) - 1) :
           (Tail(s) \o t)[i] = IF i <= Len(s) - 1 THEN Tail(s)[i] ELSE t[i - (Len(s) - 1)]
  BY <1>1, <1>4, ConcatProperties
<1>6. ASSUME NEW i \in 1..(Len(s) + Len(t) - 1)
      PROVE  Tail(s \o t)[i] = (Tail(s) \o t)[i]
  <2>1. /\ i + 1 \in 1..(Len(s) + Len(t)) /\ i + 1 - Len(s) = i - (Len(s) - 1)
    BY <1>1
  <2>2. Tail(s \o t)[i] = IF i + 1 <= Len(s) THEN s[i + 1] ELSE t[i + 1 - Len(s)]
    BY <1>1, <1>3, <2>1
  <2>. QED
    BY <1>1, <1>4, <1>5, <2>1, <2>2
<1>. QED
  BY <1>2, <1>3, <1>5, <1>6, SeqEqual

(* Two sequences with consecutive new ids make one.                        *)
LEMMA InOrderConcat ==
  ASSUME NEW S, NEW s \in Seq(S), NEW t \in Seq(S), \A r \in S : r.new \in Nat,
         NEW lo \in Nat, NEW mid \in Nat, NEW hi \in Nat, lo <= mid, mid <= hi,
         InOrder(s, lo, mid), InOrder(t, mid, hi)
  PROVE  InOrder(s \o t, lo, hi)
<1> DEFINE st == s \o t
<1>1. /\ Len(s) \in Nat /\ Len(t) \in Nat
      /\ Len(st) = Len(s) + Len(t)
      /\ \A k \in 1..Len(s) : st[k] = s[k]
      /\ \A k \in 1..Len(st) : k > Len(s) => st[k] = t[k - Len(s)]
      /\ \A k \in 1..Len(t) : st[Len(s) + k] = t[k]
  BY SMTT(30), ConcatProperties, LenProperties
<1>2. /\ \A k \in 1..Len(s) : s[k].new \in Nat
      /\ \A k \in 1..Len(t) : t[k].new \in Nat
  BY ElementOfSeq
<1> HIDE DEF st
<1>3. \A k \in 1..Len(st) :
        st[k].new # 0 => /\ lo <= st[k].new /\ st[k].new < hi
                         /\ k > Len(s) => mid <= st[k].new
                         /\ k <= Len(s) => st[k].new < mid
  <2> SUFFICES ASSUME NEW k \in 1..Len(st), st[k].new # 0
               PROVE  /\ lo <= st[k].new /\ st[k].new < hi
                      /\ k > Len(s) => mid <= st[k].new
                      /\ k <= Len(s) => st[k].new < mid
    OBVIOUS
  <2>1. CASE k <= Len(s)
    <3>1. k \in 1..Len(s) /\ st[k] = s[k]
      BY <1>1, <2>1
    <3>. QED
      BY <1>1, <1>2, <2>1, <3>1 DEF InOrder
  <2>2. CASE k > Len(s)
    <3>1. k - Len(s) \in 1..Len(t) /\ st[k] = t[k - Len(s)]
      BY <1>1, <2>2
    <3>. QED
      BY <1>1, <1>2, <2>2, <3>1 DEF InOrder
  <2>. QED
    BY <1>1, <2>1, <2>2
<1>4. ASSUME NEW j \in 1..Len(st), NEW k \in 1..Len(st), j < k,
             st[j].new # 0, st[k].new # 0
      PROVE  st[j].new < st[k].new
  <2>1. CASE k <= Len(s)
    <3>1. /\ j \in 1..Len(s) /\ st[j] = s[j]
          /\ k \in 1..Len(s) /\ st[k] = s[k]
      BY <1>1, <1>4, <2>1
    <3>. QED
      BY <1>4, <3>1 DEF InOrder
  <2>2. CASE j > Len(s)
    <3>1. /\ j - Len(s) \in 1..Len(t) /\ st[j] = t[j - Len(s)]
          /\ k - Len(s) \in 1..Len(t) /\ st[k] = t[k - Len(s)]
          /\ j - Len(s) < k - Len(s)
      BY <1>1, <1>4, <2>2
    <3>2. t[j - Len(s)].new < t[k - Len(s)].new
      BY <1>4, <3>1 DEF InOrder
    <3>. QED
      BY <3>1, <3>2
  <2>3. CASE j <= Len(s) /\ k > Len(s)
    <3>1. /\ j \in 1..Len(s) /\ st[j] = s[j]
          /\ k - Len(s) \in 1..Len(t) /\ st[k] = t[k - Len(s)]
      BY <1>1, <2>3
    <3>. QED
      BY SMTT(30), <1>2, <1>3, <1>4, <2>3, <3>1
  <2>. QED
    BY <1>1, <2>1, <2>2, <2>3
<1>5. ASSUME NEW n \in lo..(hi - 1)
      PROVE  \E k \in 1..Len(st) : st[k].new = n
  <2>1. CASE n < mid
    <3>1. PICK k \in 1..Len(s) : s[k].new = n
      BY <2>1 DEF InOrder
    <3>. QED
      BY <1>1, <3>1
  <2>2. CASE n >= mid
    <3>1. PICK k \in 1..Len(t) : t[k].new = n
      BY <2>2 DEF InOrder
    <3>2. Len(s) + k \in 1..Len(st)
      BY <1>1
    <3>3. st[Len(s) + k] = t[k]
      BY <1>1
    <3>. QED
      BY <3>1, <3>2, <3>3
  <2>. QED
    BY <2>1, <2>2
<1>. QED
  BY <1>3, <1>4, <1>5 DEF InOrder, st

(* The first new id is the lowest, and the others follow it.               *)
LEMMA InOrderTail ==
  ASSUME NEW S, NEW s \in Seq(S), s # <<>>, \A r \in S : r.new \in Nat,
         NEW lo \in Nat \ {0}, NEW hi \in Nat, InOrder(s, lo, hi)
  PROVE  IF Head(s).new # 0
         THEN Head(s).new = lo /\ lo < hi /\ InOrder(Tail(s), lo + 1, hi)
         ELSE InOrder(Tail(s), lo, hi)
<1>1. /\ Len(s) \in Nat \ {0} /\ Head(s) = s[1]
      /\ Tail(s) \in Seq(S) /\ Len(Tail(s)) = Len(s) - 1
      /\ \A k \in 1..Len(Tail(s)) : Tail(s)[k] = s[k + 1]
  BY EmptySeq, HeadTailProperties
<1>2. \A k \in 1..Len(s) : s[k].new \in Nat
  BY ElementOfSeq
<1>3. CASE Head(s).new # 0
  <2>1. s[1].new = lo /\ lo < hi
    <3>1. lo <= s[1].new /\ s[1].new < hi
      BY <1>1, <1>3 DEF InOrder
    <3>2. lo \in lo..(hi - 1)
      BY <1>1, <1>2, <3>1
    <3>3. PICK k \in 1..Len(s) : s[k].new = lo
      BY <3>2 DEF InOrder
    <3>4. k = 1 \/ s[1].new < s[k].new
      BY <1>1, <1>3, <3>3 DEF InOrder
    <3>. QED
      BY <1>1, <1>2, <3>1, <3>3, <3>4
  <2>2. \A k \in 1..Len(Tail(s)) : Tail(s)[k].new # 0 =>
          lo + 1 <= Tail(s)[k].new /\ Tail(s)[k].new < hi
    <3> SUFFICES ASSUME NEW k \in 1..Len(Tail(s)), Tail(s)[k].new # 0
                 PROVE  lo + 1 <= Tail(s)[k].new /\ Tail(s)[k].new < hi
      OBVIOUS
    <3>1. k + 1 \in 1..Len(s) /\ 1 < k + 1 /\ Tail(s)[k] = s[k + 1]
      BY <1>1
    <3>2. s[1].new < s[k + 1].new /\ s[k + 1].new < hi
      BY <1>1, <1>3, <3>1 DEF InOrder
    <3>. QED
      BY <1>2, <2>1, <3>1, <3>2
  <2>3. \A n \in (lo + 1)..(hi - 1) : \E k \in 1..Len(Tail(s)) : Tail(s)[k].new = n
    <3> SUFFICES ASSUME NEW n \in (lo + 1)..(hi - 1)
                 PROVE  \E k \in 1..Len(Tail(s)) : Tail(s)[k].new = n
      OBVIOUS
    <3>1. PICK k \in 1..Len(s) : s[k].new = n
      BY DEF InOrder
    <3>2. k # 1
      BY <2>1, <3>1
    <3>3. k - 1 \in 1..Len(Tail(s)) /\ Tail(s)[k - 1] = s[k]
      BY <1>1, <3>2
    <3>. QED
      BY <3>1, <3>3
  <2>4. \A j, k \in 1..Len(Tail(s)) :
          j < k /\ Tail(s)[j].new # 0 /\ Tail(s)[k].new # 0 =>
            Tail(s)[j].new < Tail(s)[k].new
    BY <1>1 DEF InOrder
  <2>. QED
    BY <1>1, <1>3, <2>1, <2>2, <2>3, <2>4 DEF InOrder
<1>4. CASE Head(s).new = 0
  <2>1. \A n \in lo..(hi - 1) : \E k \in 1..Len(Tail(s)) : Tail(s)[k].new = n
    <3> SUFFICES ASSUME NEW n \in lo..(hi - 1)
                 PROVE  \E k \in 1..Len(Tail(s)) : Tail(s)[k].new = n
      OBVIOUS
    <3>1. PICK k \in 1..Len(s) : s[k].new = n
      BY DEF InOrder
    <3>2. k # 1
      BY <1>1, <1>4, <3>1
    <3>3. k - 1 \in 1..Len(Tail(s)) /\ Tail(s)[k - 1] = s[k]
      BY <1>1, <3>2
    <3>. QED
      BY <3>1, <3>3
  <2>2. \A j, k \in 1..Len(Tail(s)) :
          j < k /\ Tail(s)[j].new # 0 /\ Tail(s)[k].new # 0 =>
            Tail(s)[j].new < Tail(s)[k].new
    BY <1>1 DEF InOrder
  <2>3. \A k \in 1..Len(Tail(s)) : Tail(s)[k].new # 0 =>
          lo <= Tail(s)[k].new /\ Tail(s)[k].new < hi
    BY <1>1 DEF InOrder
  <2>. QED
    BY <1>4, <2>1, <2>2, <2>3 DEF InOrder
<1>. QED
  BY <1>3, <1>4
=============================================================================
