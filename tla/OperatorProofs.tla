---------------------------- MODULE OperatorProofs ----------------------------
(***************************************************************************)
(* What the operators of the modules compute: what the list operators of   *)
(* the schedulers do to the processes on a list, for lists of any length,  *)
(* and how the sums of the properties change with their terms and with the *)
(* set they range over, for finite sets of any size.                       *)
(***************************************************************************)
EXTENDS ReadyList, FiniteSets, TLAPS, SequenceTheorems, FiniteSetTheorems,
        WellFoundedInduction

(***************************************************************************)
(* Lists                                                                   *)
(***************************************************************************)

(* A set of natural numbers that has an element has a least one.           *)
LEMMA MinOfNat ==
  ASSUME NEW S, S \subseteq Nat, S # {}
  PROVE  Min(S) \in S /\ \A n \in S : Min(S) <= n
<1> DEFINE LessThan == {ss \in Nat \X Nat : ss[1] < ss[2]}
<1>1. IsWellFoundedOn(LessThan, Nat)
  BY NatLessThanWellFounded DEF OpToRel
<1>2. PICK m \in S : \A n \in S : <<n, m>> \notin LessThan
  <2> HIDE DEF LessThan
  <2> QED
    BY <1>1, WFMin
<1>3. \A n \in S : m <= n
  <2>1. \A a, b \in Nat : a < b => <<a, b>> \in LessThan
    OBVIOUS
  <2> HIDE DEF LessThan
  <2>2. \A n \in S : ~(n < m)
    BY <1>2, <2>1, Zenon
  <2> QED
    BY <2>2
<1> QED
  BY <1>3 DEF Min

(* A greatest element of a set of integers is its Max.                     *)
LEMMA GreatestIsMax ==
  ASSUME NEW S, S \subseteq Int, NEW s \in S, \A t \in S : t <= s
  PROVE  Max(S) = s
<1>1. \A t \in S : (\A u \in S : t >= u) => t = s
  OBVIOUS
<1> QED
  BY <1>1 DEF Max

(* A set of integers that is bounded has a greatest one.                   *)
LEMMA MaxOfBounded ==
  ASSUME NEW S, S \subseteq Int, S # {}, NEW bound \in Int, \A x \in S : x <= bound
  PROVE  Max(S) \in S /\ \A x \in S : x <= Max(S)
<1> DEFINE below == {n \in Nat : \E x \in S : n = bound - x}
<1>1. below \subseteq Nat /\ below # {}
  <2>1. PICK x \in S : TRUE
    OBVIOUS
  <2>2. bound - x \in Nat
    <3>1. x \in Int /\ x <= bound
      OBVIOUS
    <3> QED
      BY <3>1
  <2>3. bound - x \in below
    BY <2>2
  <2> QED
    BY <2>3
<1>2. PICK m \in below : \A n \in below : m <= n
  <2> HIDE DEF below
  <2> QED
    BY <1>1, MinOfNat
<1>3. PICK s \in S : m = bound - s
  BY <1>2
<1>4. \A x \in S : x <= s
  <2> SUFFICES ASSUME NEW x \in S PROVE x <= s
    OBVIOUS
  <2>1. bound - x \in below
    <3>1. bound - x \in Nat
      OBVIOUS
    <3> QED
      BY <3>1
  <2>2. bound - s <= bound - x /\ x \in Int /\ s \in Int
    BY <2>1, <1>2, <1>3
  <2> QED
    BY <2>2
<1>5. Max(S) = s
  BY <1>4, GreatestIsMax
<1> QED
  BY <1>4, <1>5

(* The lesser of two natural numbers.                                      *)
LEMMA MinOfTwo ==
  ASSUME NEW a \in Nat, NEW b \in Nat
  PROVE  Min({a, b}) = IF a <= b THEN a ELSE b
<1> DEFINE least == Min({a, b})
<1>1. least \in {a, b} /\ \A n \in {a, b} : least <= n
  <2> DEFINE S == {a, b}
  <2>1. S \subseteq Nat /\ S # {}
    OBVIOUS
  <2> HIDE DEF S
  <2>2. Min(S) \in S /\ \A n \in S : Min(S) <= n
    BY <2>1, MinOfNat
  <2> QED
    BY <2>2 DEF S
<1> HIDE DEF least
<1>2. least = IF a <= b THEN a ELSE b
  BY <1>1
<1> QED
  BY <1>2 DEF least

(* A loop over a list stops in it, at a node that fails its test or at the *)
(* end, having passed only nodes that satisfy it.                          *)
LEMMA SkipWhileStops ==
  ASSUME NEW S, NEW list \in Seq(S), NEW start \in 0 .. Len(list), NEW passed
  PROVE  LET end == SkipWhile(list, start, passed)
         IN  /\ end \in start .. Len(list)
             /\ end < Len(list) => list[end + 1] \notin passed
             /\ \A i \in start + 1 .. end : list[i] \in passed
<1> DEFINE stops == {end \in start .. Len(list) :
                       end = Len(list) \/ list[end + 1] \notin passed}
           end == SkipWhile(list, start, passed)
<1>1. Len(list) \in Nat /\ Len(list) \in stops /\ stops \subseteq Nat
  OBVIOUS
<1>2. end \in stops /\ \A n \in stops : end <= n
  BY <1>1, MinOfNat DEF SkipWhile
<1>3. ASSUME NEW i \in start + 1 .. end, list[i] \notin passed
      PROVE  FALSE
  <2>1. i - 1 \in stops /\ end \in Nat
    BY <1>1, <1>2, <1>3
  <2>2. end <= i - 1 /\ i \in Int /\ i <= end
    BY <1>2, <1>3, <2>1
  <2> QED
    BY <2>1, <2>2
<1> QED
  BY <1>2, <1>3

(* The sequence with p inserted at position n.                             *)
LEMMA Inserted ==
  ASSUME NEW S, NEW list \in Seq(S), NEW n \in 1 .. Len(list) + 1, NEW p \in S
  PROVE  /\ InsertAt(list, n, p) \in Seq(S)
         /\ Len(InsertAt(list, n, p)) = Len(list) + 1
         /\ \A i \in 1 .. Len(list) + 1 :
              InsertAt(list, n, p)[i] =
                IF i < n THEN list[i] ELSE IF i = n THEN p ELSE list[i - 1]
<1> DEFINE front == SubSeq(list, 1, n - 1)
           upTo == front \o <<p>>
           back == SubSeq(list, n, Len(list))
           new == InsertAt(list, n, p)
<1>1. new = upTo \o back
  BY DEF InsertAt
<1>2. /\ front \in Seq(S) /\ Len(front) = n - 1
      /\ \A i \in 1 .. n - 1 : front[i] = list[i]
  OBVIOUS
<1>3. /\ back \in Seq(S) /\ Len(back) = Len(list) - n + 1
      /\ \A i \in 1 .. Len(list) - n + 1 : back[i] = list[n + i - 1]
  OBVIOUS
<1>4. /\ upTo \in Seq(S) /\ Len(upTo) = n
      /\ \A i \in 1 .. n : upTo[i] = IF i < n THEN list[i] ELSE p
  <2> HIDE DEF front
  <2> QED
    BY <1>2
<1> HIDE DEF front, upTo, back, new
<1>5. /\ new \in Seq(S) /\ Len(new) = Len(upTo) + Len(back)
      /\ \A i \in 1 .. Len(upTo) + Len(back) :
           new[i] = IF i <= Len(upTo) THEN upTo[i] ELSE back[i - Len(upTo)]
  BY <1>1, <1>3, <1>4, ConcatProperties
<1>6. Len(list) \in Nat /\ n \in Nat
  OBVIOUS
<1>7. Len(new) = Len(list) + 1
  BY <1>3, <1>4, <1>5, <1>6
<1>8. ASSUME NEW i \in 1 .. Len(list) + 1
      PROVE  new[i] = IF i < n THEN list[i] ELSE IF i = n THEN p ELSE list[i - 1]
  <2>1. CASE i <= n
    <3>1. i \in 1 .. n /\ new[i] = upTo[i]
      BY <2>1, <1>3, <1>4, <1>5, <1>6
    <3> QED
      BY <3>1, <1>4, <1>6
  <2>2. CASE i > n
    <3>1. new[i] = back[i - n]
      BY <2>2, <1>3, <1>4, <1>5, <1>6
    <3>2. i - n \in 1 .. Len(list) - n + 1 /\ n + (i - n) - 1 = i - 1
      BY <2>2, <1>6
    <3> QED
      BY <3>1, <3>2, <2>2, <1>3, <1>6
  <2> QED
    BY <2>1, <2>2, <1>6
<1> QED
  BY <1>5, <1>7, <1>8 DEF new

(* The sequence without its element at position n.                         *)
LEMMA Removed ==
  ASSUME NEW S, NEW list \in Seq(S), NEW n \in 1 .. Len(list)
  PROVE  /\ RemoveAt(list, n) \in Seq(S)
         /\ Len(RemoveAt(list, n)) = Len(list) - 1
         /\ \A i \in 1 .. Len(list) - 1 :
              RemoveAt(list, n)[i] = IF i < n THEN list[i] ELSE list[i + 1]
<1> DEFINE front == SubSeq(list, 1, n - 1)
           back == SubSeq(list, n + 1, Len(list))
           new == RemoveAt(list, n)
<1>1. new = front \o back
  BY DEF RemoveAt
<1>2. /\ front \in Seq(S) /\ Len(front) = n - 1
      /\ \A i \in 1 .. n - 1 : front[i] = list[i]
  OBVIOUS
<1>3. /\ back \in Seq(S) /\ Len(back) = Len(list) - n
      /\ \A i \in 1 .. Len(list) - n : back[i] = list[n + i]
  OBVIOUS
<1> HIDE DEF front, back, new
<1>4. /\ new \in Seq(S) /\ Len(new) = Len(front) + Len(back)
      /\ \A i \in 1 .. Len(front) + Len(back) :
           new[i] = IF i <= Len(front) THEN front[i] ELSE back[i - Len(front)]
  BY <1>1, <1>2, <1>3, ConcatProperties
<1>5. Len(list) \in Nat /\ n \in Nat /\ n <= Len(list)
  OBVIOUS
<1>6. Len(new) = Len(list) - 1
  BY <1>2, <1>3, <1>4, <1>5
<1>7. ASSUME NEW i \in 1 .. Len(list) - 1
      PROVE  new[i] = IF i < n THEN list[i] ELSE list[i + 1]
  <2>0. /\ i \in 1 .. Len(front) + Len(back) /\ Len(front) = n - 1
        /\ i < n <=> i <= Len(front)
    BY <1>2, <1>3, <1>5
  <2>1. CASE i < n
    <3>1. new[i] = front[i] /\ i \in 1 .. n - 1
      BY <2>0, <2>1, <1>4, <1>5
    <3> QED
      BY <3>1, <2>1, <1>2
  <2>2. CASE ~(i < n)
    <3>1. new[i] = back[i - (n - 1)]
      BY <2>0, <2>2, <1>4
    <3>2. i - (n - 1) \in 1 .. Len(list) - n /\ n + (i - (n - 1)) = i + 1
      BY <2>2, <1>5
    <3> QED
      BY <3>1, <3>2, <2>2, <1>3, <1>5
  <2> QED
    BY <2>1, <2>2
<1> QED
  BY <1>4, <1>6, <1>7 DEF new

(* A list with p behind the node at index end.                             *)
LEMMA AddNext ==
  ASSUME NEW S, NEW list \in Seq(S), NEW end \in 0 .. Len(list), NEW p \in S
  PROVE  /\ add_next(list, end, p) \in Seq(S)
         /\ Len(add_next(list, end, p)) = Len(list) + 1
         /\ \A i \in 1 .. Len(list) + 1 :
              add_next(list, end, p)[i] =
                IF i <= end THEN list[i] ELSE IF i = end + 1 THEN p ELSE list[i - 1]
<1>1. end + 1 \in 1 .. Len(list) + 1 /\ Len(list) \in Nat /\ end \in Nat
  OBVIOUS
<1>2. \A i \in 1 .. Len(list) + 1 : i < end + 1 <=> i <= end
  BY <1>1
<1> DEFINE new == add_next(list, end, p)
<1>3. /\ new \in Seq(S)
      /\ Len(new) = Len(list) + 1
      /\ \A i \in 1 .. Len(list) + 1 :
           new[i] = IF i < end + 1 THEN list[i] ELSE IF i = end + 1 THEN p ELSE list[i - 1]
  BY <1>1, Inserted DEF add_next
<1> QED
  BY <1>2, <1>3

(* A list without the node behind that at index end.                       *)
LEMMA RemoveNext ==
  ASSUME NEW S, NEW list \in Seq(S), NEW end \in 0 .. Len(list) - 1
  PROVE  /\ remove_next(list, end) \in Seq(S)
         /\ Len(remove_next(list, end)) = Len(list) - 1
         /\ \A i \in 1 .. Len(list) - 1 :
              remove_next(list, end)[i] = IF i <= end THEN list[i] ELSE list[i + 1]
<1>1. end + 1 \in 1 .. Len(list) /\ Len(list) \in Nat /\ end \in Nat
  OBVIOUS
<1>2. \A i \in 1 .. Len(list) - 1 : i < end + 1 <=> i <= end
  BY <1>1
<1> QED
  BY <1>1, <1>2, Removed DEF remove_next

(* Adding a process to a list adds it to the processes on the list.        *)
LEMMA AddNextSet ==
  ASSUME NEW S, NEW list \in Seq(S), NEW end \in 0 .. Len(list), NEW p \in S
  PROVE  ToSet(add_next(list, end, p)) = ToSet(list) \cup {p}
<1> DEFINE new == add_next(list, end, p)
<1>1. /\ new \in Seq(S) /\ DOMAIN new = 1 .. Len(list) + 1
      /\ \A i \in 1 .. Len(list) + 1 :
           new[i] = IF i <= end THEN list[i] ELSE IF i = end + 1 THEN p ELSE list[i - 1]
  BY AddNext
<1>2. Len(list) \in Nat /\ DOMAIN list = 1 .. Len(list)
  OBVIOUS
<1> HIDE DEF new
<1>3. \A i \in DOMAIN new : new[i] \in ToSet(list) \cup {p}
  BY <1>1, <1>2 DEF ToSet
<1>4. p \in ToSet(new)
  <2>1. end + 1 \in DOMAIN new /\ new[end + 1] = p
    BY <1>1, <1>2
  <2> QED
    BY <2>1 DEF ToSet
<1>5. \A i \in DOMAIN list : list[i] \in ToSet(new)
  <2> TAKE i \in DOMAIN list
  <2>1. CASE i <= end
    <3>1. i \in DOMAIN new /\ new[i] = list[i]
      BY <1>1, <1>2, <2>1
    <3> QED
      BY <3>1 DEF ToSet
  <2>2. CASE ~(i <= end)
    <3>1. i + 1 \in DOMAIN new /\ new[i + 1] = list[i]
      BY <1>1, <1>2, <2>2
    <3> QED
      BY <3>1 DEF ToSet
  <2> QED
    BY <2>1, <2>2
<1> QED
  BY <1>3, <1>4, <1>5 DEF ToSet, new

(* Removing a node takes its process off the list, if it is there once.    *)
LEMMA RemoveNextSet ==
  ASSUME NEW S, NEW list \in Seq(S), NEW end \in 0 .. Len(list) - 1,
         IsInjective(list)
  PROVE  ToSet(remove_next(list, end)) = ToSet(list) \ {list[end + 1]}
<1> DEFINE new == remove_next(list, end)
<1>1. /\ new \in Seq(S) /\ DOMAIN new = 1 .. Len(list) - 1
      /\ \A i \in 1 .. Len(list) - 1 :
           new[i] = IF i <= end THEN list[i] ELSE list[i + 1]
  BY RemoveNext
<1>2. Len(list) \in Nat /\ DOMAIN list = 1 .. Len(list)
  OBVIOUS
<1> HIDE DEF new
<1>3. ASSUME NEW i \in DOMAIN new
      PROVE  new[i] \in ToSet(list) \ {list[end + 1]}
  <2>1. PICK j \in DOMAIN list : j # end + 1 /\ new[i] = list[j]
    <3>1. CASE i <= end
      BY <3>1, <1>1, <1>2
    <3>2. CASE ~(i <= end)
      <4>1. i + 1 \in DOMAIN list /\ i + 1 # end + 1 /\ new[i] = list[i + 1]
        BY <3>2, <1>1, <1>2
      <4> QED
        BY <4>1
    <3> QED
      BY <3>1, <3>2
  <2>2. end + 1 \in DOMAIN list
    BY <1>2
  <2> QED
    BY <2>1, <2>2 DEF ToSet, IsInjective
<1>4. \A i \in DOMAIN list : i # end + 1 => list[i] \in ToSet(new)
  <2> SUFFICES ASSUME NEW i \in DOMAIN list, i # end + 1
               PROVE  list[i] \in ToSet(new)
    OBVIOUS
  <2>1. CASE i <= end
    <3>1. i \in DOMAIN new /\ new[i] = list[i]
      BY <1>1, <1>2, <2>1
    <3> QED
      BY <3>1 DEF ToSet
  <2>2. CASE ~(i <= end)
    <3>1. i - 1 \in DOMAIN new /\ new[i - 1] = list[i]
      BY <1>1, <1>2, <2>2
    <3> QED
      BY <3>1 DEF ToSet
  <2> QED
    BY <2>1, <2>2
<1> QED
  BY <1>3, <1>4 DEF ToSet, new

(* No process is listed twice after a new one has been added.              *)
LEMMA AddNextInjective ==
  ASSUME NEW S, NEW list \in Seq(S), NEW end \in 0 .. Len(list), NEW p \in S,
         IsInjective(list), p \notin ToSet(list)
  PROVE  IsInjective(add_next(list, end, p))
<1> DEFINE new == add_next(list, end, p)
           old(i) == IF i <= end THEN i ELSE i - 1
<1>1. /\ new \in Seq(S) /\ DOMAIN new = 1 .. Len(list) + 1
      /\ \A i \in 1 .. Len(list) + 1 :
           new[i] = IF i <= end THEN list[i] ELSE IF i = end + 1 THEN p ELSE list[i - 1]
  BY AddNext
<1>2. Len(list) \in Nat /\ DOMAIN list = 1 .. Len(list)
  OBVIOUS
<1> HIDE DEF new
<1>3. \A i \in DOMAIN new : i # end + 1 => old(i) \in DOMAIN list /\ new[i] = list[old(i)]
  BY <1>1, <1>2
<1>4. \A i \in DOMAIN list : list[i] # p
  BY DEF ToSet
<1>5. new[end + 1] = p
  BY <1>1, <1>2
<1>6. ASSUME NEW a \in DOMAIN new, NEW b \in DOMAIN new, new[a] = new[b]
      PROVE  a = b
  <2>1. CASE a = end + 1 \/ b = end + 1
    BY <2>1, <1>3, <1>4, <1>5, <1>6
  <2>2. CASE a # end + 1 /\ b # end + 1
    <3>1. old(a) = old(b)
      BY <2>2, <1>3, <1>6 DEF IsInjective
    <3> QED
      BY <3>1, <2>2, <1>1, <1>2
  <2> QED
    BY <2>1, <2>2
<1> QED
  BY <1>6 DEF IsInjective, new

(* Nor after one has been removed.                                         *)
LEMMA RemoveNextInjective ==
  ASSUME NEW S, NEW list \in Seq(S), NEW end \in 0 .. Len(list) - 1,
         IsInjective(list)
  PROVE  IsInjective(remove_next(list, end))
<1> DEFINE new == remove_next(list, end)
           old(i) == IF i <= end THEN i ELSE i + 1
<1>1. /\ new \in Seq(S) /\ DOMAIN new = 1 .. Len(list) - 1
      /\ \A i \in 1 .. Len(list) - 1 :
           new[i] = IF i <= end THEN list[i] ELSE list[i + 1]
  BY RemoveNext
<1>2. Len(list) \in Nat /\ DOMAIN list = 1 .. Len(list)
  OBVIOUS
<1> HIDE DEF new
<1>3. \A i \in DOMAIN new : old(i) \in DOMAIN list /\ new[i] = list[old(i)]
  BY <1>1, <1>2
<1>4. \A a, b \in DOMAIN new : old(a) = old(b) => a = b
  BY <1>1, <1>2
<1> QED
  BY <1>3, <1>4 DEF IsInjective, new

(* Wherever the loops of add_to_ready_queue stop, even in a list that is   *)
(* not sorted, the new process is added and nothing else changes; it is    *)
(* put first only if the head of the list did not arrive earlier.          *)
LEMMA SortedInsertAdds ==
  ASSUME NEW S, NEW arrival, NEW list \in Seq(S), NEW p \in S,
         IsInjective(list), p \notin ToSet(list)
  PROVE  /\ SortedInsert(list, p, arrival) \in Seq(S)
         /\ ToSet(SortedInsert(list, p, arrival)) = ToSet(list) \cup {p}
         /\ IsInjective(SortedInsert(list, p, arrival))
         /\ \E end \in 0 .. Len(list) :
              /\ SortedInsert(list, p, arrival) = add_next(list, end, p)
              /\ end = 0 /\ list # <<>> => ~(arrival[list[1]] < arrival[p])
<1> DEFINE earlier == {q \in ToSet(list) : arrival[q] < arrival[p]}
           lower == {q \in ToSet(list) : arrival[q] = arrival[p] /\ q < p}
           first == SkipWhile(list, 0, earlier)
           end == SkipWhile(list, first, lower)
<1>1. SortedInsert(list, p, arrival) = add_next(list, end, p)
  BY DEF SortedInsert, InsertionPoint
<1>2. /\ first \in 0 .. Len(list)
      /\ first < Len(list) => list[first + 1] \notin earlier
  <2>1. 0 \in 0 .. Len(list)
    OBVIOUS
  <2> HIDE DEF earlier
  <2> QED
    BY <2>1, SkipWhileStops
<1>3. end \in first .. Len(list)
  <2> HIDE DEF lower, first
  <2> QED
    BY <1>2, SkipWhileStops
<1> HIDE DEF first, end
<1>4. end \in 0 .. Len(list)
  BY <1>2, <1>3
<1>5. end = 0 /\ list # <<>> => ~(arrival[list[1]] < arrival[p])
  <2> SUFFICES ASSUME end = 0, list # <<>> PROVE ~(arrival[list[1]] < arrival[p])
    OBVIOUS
  <2>1. first = 0 /\ 0 < Len(list) /\ 0 + 1 = 1 /\ 1 \in DOMAIN list
    BY <1>2, <1>3
  <2>2. list[1] \in ToSet(list)
    BY <2>1 DEF ToSet
  <2> QED
    BY <2>1, <2>2, <1>2
<1>6. /\ add_next(list, end, p) \in Seq(S)
      /\ ToSet(add_next(list, end, p)) = ToSet(list) \cup {p}
      /\ IsInjective(add_next(list, end, p))
  BY <1>4, AddNext, AddNextSet, AddNextInjective
<1>7. \E e \in 0 .. Len(list) :
        /\ SortedInsert(list, p, arrival) = add_next(list, e, p)
        /\ e = 0 /\ list # <<>> => ~(arrival[list[1]] < arrival[p])
  BY <1>1, <1>4, <1>5, Zenon
<1> QED
  BY <1>1, <1>6, <1>7, Zenon

-----------------------------------------------------------------------------
(* The order of a sorted list, as a relation between processes.            *)
Precedes(q, r, arrival) ==
  \/ arrival[q] < arrival[r]
  \/ arrival[q] = arrival[r] /\ q < r

(* It is a strict total order.                                             *)
LEMMA PrecedesOrder ==
  ASSUME NEW S, S \subseteq Nat, NEW arrival \in [S -> Nat],
         NEW q \in S, NEW r \in S, NEW t \in S
  PROVE  /\ ~Precedes(q, q, arrival)
         /\ Precedes(q, r, arrival) \/ q = r \/ Precedes(r, q, arrival)
         /\ Precedes(q, r, arrival) /\ Precedes(r, t, arrival) => Precedes(q, t, arrival)
<1>1. q \in Nat /\ r \in Nat /\ t \in Nat
  OBVIOUS
<1>2. arrival[q] \in Nat /\ arrival[r] \in Nat /\ arrival[t] \in Nat
  OBVIOUS
<1> QED
  BY <1>1, <1>2 DEF Precedes

(* A sorted list has no process twice.                                     *)
LEMMA SortedIsInjective ==
  ASSUME NEW S, S \subseteq Nat, NEW arrival \in [S -> Nat], NEW list \in Seq(S),
         SortedByArrival(list, arrival)
  PROVE  IsInjective(list)
<1> SUFFICES ASSUME NEW a \in DOMAIN list, NEW b \in DOMAIN list,
                    list[a] = list[b], a < b
             PROVE  FALSE
  BY DEF IsInjective
<1>1. a \in 1 .. Len(list) /\ b \in 1 .. Len(list) /\ list[a] \in S
  OBVIOUS
<1>2. Precedes(list[a], list[b], arrival)
  BY <1>1 DEF SortedByArrival, Precedes
<1> QED
  BY <1>1, <1>2, PrecedesOrder

(* The two loops of add_to_ready_queue stop where the new process belongs. *)
LEMMA InsertionPointSeparates ==
  ASSUME NEW S, S \subseteq Nat, NEW arrival \in [S -> Nat], NEW list \in Seq(S),
         NEW p \in S, p \notin ToSet(list), SortedByArrival(list, arrival)
  PROVE  LET end == InsertionPoint(list, p, arrival)
         IN  /\ end \in 0 .. Len(list)
             /\ \A i \in 1 .. end : Precedes(list[i], p, arrival)
             /\ \A i \in end + 1 .. Len(list) : Precedes(p, list[i], arrival)
<1> DEFINE earlier == {q \in ToSet(list) : arrival[q] < arrival[p]}
           lower == {q \in ToSet(list) : arrival[q] = arrival[p] /\ q < p}
           first == SkipWhile(list, 0, earlier)
           end == InsertionPoint(list, p, arrival)
<1>0. \A q \in S : q \in Nat /\ arrival[q] \in Nat
  OBVIOUS
<1>1. Len(list) \in Nat /\ \A i \in 1 .. Len(list) : list[i] \in S /\ list[i] \in ToSet(list)
  BY DEF ToSet
<1>2. /\ first \in 0 .. Len(list)
      /\ first < Len(list) => list[first + 1] \notin earlier
      /\ \A i \in 1 .. first : list[i] \in earlier
  <2>1. 0 \in 0 .. Len(list) /\ 0 + 1 = 1
    BY <1>1
  <2> HIDE DEF earlier
  <2> QED
    BY <2>1, SkipWhileStops
<1>3. /\ end \in first .. Len(list)
      /\ end < Len(list) => list[end + 1] \notin lower
      /\ \A i \in first + 1 .. end : list[i] \in lower
  <2>1. end = SkipWhile(list, first, lower)
    BY DEF InsertionPoint
  <2> HIDE DEF lower, first, end
  <2> QED
    BY <1>2, <2>1, SkipWhileStops
<1> HIDE DEF first, end
<1>4. first \in Nat /\ end \in 0 .. Len(list)
  BY <1>1, <1>2, <1>3
<1>5. ASSUME NEW i \in 1 .. end
      PROVE  Precedes(list[i], p, arrival)
  <2>1. list[i] \in earlier \/ list[i] \in lower
    BY <1>2, <1>3, <1>4
  <2> QED
    BY <2>1 DEF Precedes
<1>6. ASSUME NEW i \in end + 1 .. Len(list)
      PROVE  Precedes(p, list[i], arrival)
  <2>1. end < Len(list) /\ end + 1 \in 1 .. Len(list) /\ i \in 1 .. Len(list)
    BY <1>1, <1>4
  <2>2. Precedes(p, list[end + 1], arrival)
    <3>1. list[end + 1] # p /\ list[end + 1] \in S
      BY <1>1, <2>1
    <3>2. list[end + 1] \notin earlier
      <4>1. CASE end = first
        BY <4>1, <1>2, <2>1
      <4>2. CASE first < end
        <5>1. first + 1 \in 1 .. Len(list) /\ first < Len(list) /\ first + 1 < end + 1
          BY <4>2, <1>4, <2>1
        <5>2. ~(arrival[list[first + 1]] < arrival[p])
          BY <5>1, <1>1, <1>2
        <5>3. Precedes(list[first + 1], list[end + 1], arrival)
          BY <5>1, <2>1 DEF SortedByArrival, Precedes
        <5>4. /\ arrival[list[end + 1]] \in Nat /\ arrival[list[first + 1]] \in Nat
              /\ arrival[p] \in Nat
          BY <5>1, <2>1, <1>0, <1>1
        <5>5. ~(arrival[list[end + 1]] < arrival[p])
          BY <5>2, <5>3, <5>4 DEF Precedes
        <5> QED
          BY <5>5
      <4> QED
        BY <4>1, <4>2, <1>3, <1>4
    <3>3. ~Precedes(list[end + 1], p, arrival)
      BY <3>2, <1>1, <1>3, <2>1 DEF Precedes
    <3> QED
      BY <3>1, <3>3, PrecedesOrder
  <2>3. CASE i = end + 1
    BY <2>2, <2>3
  <2>4. CASE end + 1 < i
    <3>1. Precedes(list[end + 1], list[i], arrival)
      BY <2>1, <2>4 DEF SortedByArrival, Precedes
    <3>2. list[end + 1] \in S /\ list[i] \in S
      BY <1>1, <2>1
    <3>3. \A q, r \in S :
            Precedes(p, q, arrival) /\ Precedes(q, r, arrival) => Precedes(p, r, arrival)
      BY PrecedesOrder
    <3> QED
      BY <3>1, <3>2, <3>3, <2>2, Zenon
  <2> QED
    BY <2>3, <2>4, <1>4
<1> QED
  BY <1>4, <1>5, <1>6 DEF end

(* Nobody on the list arrived later than p, and those who arrived with it  *)
(* are the last ones, in the order of PIDs.                                *)
LatestAreLast(list, p, arrival) ==
  /\ \A i \in 1 .. Len(list) : arrival[list[i]] <= arrival[p]
  /\ \A i, j \in 1 .. Len(list) :
       i < j /\ arrival[list[i]] = arrival[p]
         => arrival[list[j]] = arrival[p] /\ list[i] < list[j]

(* p is put between those before it and those who arrived with it and have *)
(* a higher PID.                                                           *)
PutInOrder(list, p, arrival) ==
  \E end \in 0 .. Len(list) :
    /\ SortedInsert(list, p, arrival) = add_next(list, end, p)
    /\ \A i \in 1 .. end : Precedes(list[i], p, arrival)
    /\ \A i \in end + 1 .. Len(list) : arrival[list[i]] = arrival[p] /\ p < list[i]

(* The two loops stop where p belongs in such a list, sorted or not.       *)
LEMMA InsertionAmongLatest ==
  ASSUME NEW S, S \subseteq Nat, NEW arrival \in [S -> Nat], NEW list \in Seq(S),
         NEW p \in S, p \notin ToSet(list), LatestAreLast(list, p, arrival)
  PROVE  PutInOrder(list, p, arrival)
<1> DEFINE earlier == {q \in ToSet(list) : arrival[q] < arrival[p]}
           lower == {q \in ToSet(list) : arrival[q] = arrival[p] /\ q < p}
           first == SkipWhile(list, 0, earlier)
           end == SkipWhile(list, first, lower)
<1>1. SortedInsert(list, p, arrival) = add_next(list, end, p)
  BY DEF SortedInsert, InsertionPoint
<1>2. /\ Len(list) \in Nat
      /\ \A i \in 1 .. Len(list) :
           /\ list[i] \in S /\ list[i] \in ToSet(list) /\ list[i] \in Nat
           /\ arrival[list[i]] \in Nat
  <2>1. Len(list) \in Nat /\ \A i \in 1 .. Len(list) : list[i] \in S /\ list[i] \in ToSet(list)
    BY DEF ToSet
  <2> QED
    BY <2>1
<1>3. p \in Nat /\ arrival[p] \in Nat
  OBVIOUS
<1>10. /\ \A i \in 1 .. Len(list) : arrival[list[i]] <= arrival[p]
       /\ \A i, j \in 1 .. Len(list) :
            i < j /\ arrival[list[i]] = arrival[p]
              => arrival[list[j]] = arrival[p] /\ list[i] < list[j]
  BY DEF LatestAreLast
<1>4. /\ first \in 0 .. Len(list)
      /\ first < Len(list) => list[first + 1] \notin earlier
      /\ \A i \in 1 .. first : list[i] \in earlier
  <2>1. 0 \in 0 .. Len(list) /\ 0 + 1 = 1
    BY <1>2
  <2> HIDE DEF earlier
  <2> QED
    BY <2>1, SkipWhileStops
<1>5. /\ end \in first .. Len(list)
      /\ end < Len(list) => list[end + 1] \notin lower
      /\ \A i \in first + 1 .. end : list[i] \in lower
  <2> HIDE DEF lower, first
  <2> QED
    BY <1>4, SkipWhileStops
<1> HIDE DEF first, end
<1>6. first \in Nat /\ end \in 0 .. Len(list)
  BY <1>2, <1>4, <1>5
<1>7. ASSUME NEW i \in 1 .. end PROVE Precedes(list[i], p, arrival)
  <2>1. list[i] \in earlier \/ list[i] \in lower
    BY <1>4, <1>5, <1>6
  <2> QED
    BY <2>1 DEF Precedes
<1>8. ASSUME NEW i \in first + 1 .. Len(list) PROVE arrival[list[i]] = arrival[p]
  <2>1. first < Len(list) /\ first + 1 \in 1 .. Len(list) /\ i \in 1 .. Len(list)
    BY <1>2, <1>6
  <2>2. arrival[list[first + 1]] = arrival[p]
    BY <2>1, <1>2, <1>3, <1>4, <1>10
  <2>3. i = first + 1 \/ first + 1 < i
    BY <1>6
  <2> QED
    BY <2>1, <2>2, <2>3, <1>10
<1>9. ASSUME NEW i \in end + 1 .. Len(list) PROVE arrival[list[i]] = arrival[p] /\ p < list[i]
  <2>1. /\ end < Len(list) /\ end + 1 \in 1 .. Len(list) /\ i \in 1 .. Len(list)
        /\ end + 1 \in first + 1 .. Len(list) /\ i \in first + 1 .. Len(list)
    BY <1>2, <1>5, <1>6
  <2>2. arrival[list[end + 1]] = arrival[p] /\ arrival[list[i]] = arrival[p]
    BY <2>1, <1>8
  <2>3. ~(list[end + 1] < p) /\ list[end + 1] # p
    BY <2>1, <2>2, <1>2, <1>5
  <2>4. p < list[end + 1]
    BY <2>1, <2>3, <1>2, <1>3
  <2>5. i = end + 1 \/ list[end + 1] < list[i]
    BY <2>1, <2>2, <1>6, <1>10
  <2> QED
    BY <2>1, <2>2, <2>4, <2>5, <1>2, <1>3
<1> QED
  BY <1>1, <1>6, <1>7, <1>9 DEF PutInOrder

(* add_to_ready_queue keeps the list sorted, and adds the one process.     *)
LEMMA SortedInsertKeepsSorted ==
  ASSUME NEW S, S \subseteq Nat, NEW arrival \in [S -> Nat], NEW list \in Seq(S),
         NEW p \in S, p \notin ToSet(list), SortedByArrival(list, arrival)
  PROVE  /\ SortedInsert(list, p, arrival) \in Seq(S)
         /\ ToSet(SortedInsert(list, p, arrival)) = ToSet(list) \cup {p}
         /\ SortedByArrival(SortedInsert(list, p, arrival), arrival)
<1> DEFINE end == InsertionPoint(list, p, arrival)
           new == SortedInsert(list, p, arrival)
           old(i) == IF i <= end THEN i ELSE i - 1
<1>1. /\ end \in 0 .. Len(list)
      /\ \A i \in 1 .. end : Precedes(list[i], p, arrival)
      /\ \A i \in end + 1 .. Len(list) : Precedes(p, list[i], arrival)
  BY InsertionPointSeparates
<1>2. new = add_next(list, end, p)
  BY DEF SortedInsert
<1> HIDE DEF end, new
<1>3. /\ new \in Seq(S) /\ Len(new) = Len(list) + 1
      /\ \A i \in 1 .. Len(list) + 1 :
           new[i] = IF i <= end THEN list[i] ELSE IF i = end + 1 THEN p ELSE list[i - 1]
  <2>1. end \in 0 .. Len(list)
    BY <1>1
  <2>2. /\ add_next(list, end, p) \in Seq(S)
        /\ Len(add_next(list, end, p)) = Len(list) + 1
        /\ \A i \in 1 .. Len(list) + 1 :
             add_next(list, end, p)[i] =
               IF i <= end THEN list[i] ELSE IF i = end + 1 THEN p ELSE list[i - 1]
    BY <2>1, AddNext
  <2> QED
    BY <2>2, <1>2
<1>4. ToSet(new) = ToSet(list) \cup {p}
  BY <1>1, <1>2, AddNextSet
<1>5. Len(list) \in Nat /\ end \in Nat /\ end <= Len(list)
  BY <1>1
<1>6. ASSUME NEW i \in 1 .. Len(new), NEW j \in 1 .. Len(new), i < j
      PROVE  Precedes(new[i], new[j], arrival)
  <2>1. CASE i = end + 1
    <3>1. new[i] = p /\ new[j] = list[j - 1] /\ j - 1 \in end + 1 .. Len(list)
      BY <2>1, <1>3, <1>5, <1>6
    <3> QED
      BY <3>1, <1>1
  <2>2. CASE j = end + 1
    <3>1. new[j] = p /\ new[i] = list[i] /\ i \in 1 .. end
      BY <2>2, <1>3, <1>5, <1>6
    <3> QED
      BY <3>1, <1>1
  <2>3. CASE i # end + 1 /\ j # end + 1
    <3>1. /\ old(i) \in 1 .. Len(list) /\ old(j) \in 1 .. Len(list) /\ old(i) < old(j)
          /\ new[i] = list[old(i)] /\ new[j] = list[old(j)]
      BY <2>3, <1>3, <1>5, <1>6
    <3> HIDE DEF old
    <3> QED
      BY <3>1 DEF SortedByArrival, Precedes
  <2> QED
    BY <2>1, <2>2, <2>3
<1>7. SortedByArrival(new, arrival)
  BY <1>6 DEF SortedByArrival, Precedes
<1> QED
  BY <1>3, <1>4, <1>7 DEF new

(* Removing a node keeps the list sorted.                                  *)
LEMMA RemoveNextKeepsSorted ==
  ASSUME NEW S, NEW arrival, NEW list \in Seq(S), NEW end \in 0 .. Len(list) - 1,
         SortedByArrival(list, arrival)
  PROVE  SortedByArrival(remove_next(list, end), arrival)
<1> DEFINE new == remove_next(list, end)
           old(i) == IF i <= end THEN i ELSE i + 1
<1>1. /\ new \in Seq(S) /\ Len(new) = Len(list) - 1
      /\ \A i \in 1 .. Len(list) - 1 :
           new[i] = IF i <= end THEN list[i] ELSE list[i + 1]
  BY RemoveNext
<1>2. Len(list) \in Nat /\ end \in Nat /\ end < Len(list)
  OBVIOUS
<1> HIDE DEF new
<1>3. ASSUME NEW i \in 1 .. Len(new), NEW j \in 1 .. Len(new), i < j
      PROVE  Precedes(new[i], new[j], arrival)
  <2>1. /\ old(i) \in 1 .. Len(list) /\ old(j) \in 1 .. Len(list) /\ old(i) < old(j)
        /\ new[i] = list[old(i)] /\ new[j] = list[old(j)]
    BY <1>1, <1>2, <1>3
  <2> QED
    BY <2>1 DEF SortedByArrival, Precedes
<1>4. SortedByArrival(new, arrival)
  BY <1>3 DEF SortedByArrival, Precedes
<1> QED
  BY <1>4 DEF new

(* A sorted list of processes, as a predicate that stays folded, and what  *)
(* the two lemmas above say of it.                                         *)
OrderedList(list, S, arrival) ==
  /\ S \subseteq Nat /\ arrival \in [S -> Nat] /\ list \in Seq(S)
  /\ SortedByArrival(list, arrival)

(* new has p beside what list has.                                         *)
Gains(new, list, p) == ToSet(new) = ToSet(list) \cup {p}

LEMMA SortedWithNew ==
  ASSUME NEW S, NEW arrival, NEW list, NEW p, OrderedList(list, S, arrival),
         p \in S, p \notin ToSet(list)
  PROVE  /\ OrderedList(SortedInsert(list, p, arrival), S, arrival)
         /\ Gains(SortedInsert(list, p, arrival), list, p)
         /\ IsInjective(SortedInsert(list, p, arrival))
<1>1. /\ S \subseteq Nat /\ arrival \in [S -> Nat] /\ list \in Seq(S)
      /\ SortedByArrival(list, arrival)
  BY DEF OrderedList
<1> DEFINE new == SortedInsert(list, p, arrival)
<1>2. /\ new \in Seq(S) /\ ToSet(new) = ToSet(list) \cup {p}
      /\ SortedByArrival(new, arrival)
  <2> HIDE DEF new
  <2>1. \A r \in S : r \notin ToSet(list) =>
          /\ SortedInsert(list, r, arrival) \in Seq(S)
          /\ ToSet(SortedInsert(list, r, arrival)) = ToSet(list) \cup {r}
          /\ SortedByArrival(SortedInsert(list, r, arrival), arrival)
    BY <1>1, SortedInsertKeepsSorted
  <2> QED
    BY <2>1, Zenon DEF new
<1> HIDE DEF new
<1>3. IsInjective(new)
  BY <1>1, <1>2, SortedIsInjective
<1> QED
  BY <1>1, <1>2, <1>3 DEF OrderedList, Gains, new

LEMMA SortedWithoutHead ==
  ASSUME NEW S, NEW arrival, NEW list, OrderedList(list, S, arrival), list # <<>>
  PROVE  OrderedList(remove_next(list, 0), S, arrival)
<1>1. /\ S \subseteq Nat /\ arrival \in [S -> Nat] /\ list \in Seq(S)
      /\ SortedByArrival(list, arrival)
  BY DEF OrderedList
<1>2. 0 \in 0 .. Len(list) - 1
  BY <1>1
<1>3. remove_next(list, 0) \in Seq(S) /\ SortedByArrival(remove_next(list, 0), arrival)
  BY <1>1, <1>2, RemoveNext, RemoveNextKeepsSorted
<1> QED
  BY <1>1, <1>3 DEF OrderedList

(* AddLast adds its process, at the end.                                   *)
LEMMA AddLastAdds ==
  ASSUME NEW S, NEW list \in Seq(S), NEW p \in S, IsInjective(list), p \notin ToSet(list)
  PROVE  /\ AddLast(list, p) \in Seq(S) /\ Len(AddLast(list, p)) = Len(list) + 1
         /\ ToSet(AddLast(list, p)) = ToSet(list) \cup {p}
         /\ IsInjective(AddLast(list, p))
         /\ \A i \in 1 .. Len(list) : AddLast(list, p)[i] = list[i]
         /\ AddLast(list, p)[Len(list) + 1] = p
<1> DEFINE new == add_next(list, Len(list), p)
<1>1. Len(list) \in Nat /\ Len(list) \in 0 .. Len(list)
  OBVIOUS
<1>2. /\ new \in Seq(S) /\ Len(new) = Len(list) + 1
      /\ \A i \in 1 .. Len(list) + 1 :
           new[i] = IF i <= Len(list) THEN list[i]
                    ELSE IF i = Len(list) + 1 THEN p ELSE list[i - 1]
  <2>1. ASSUME NEW e \in 0 .. Len(list)
        PROVE  /\ add_next(list, e, p) \in Seq(S)
               /\ Len(add_next(list, e, p)) = Len(list) + 1
               /\ \A i \in 1 .. Len(list) + 1 :
                    add_next(list, e, p)[i] =
                      IF i <= e THEN list[i] ELSE IF i = e + 1 THEN p ELSE list[i - 1]
    BY AddNext
  <2> QED
    BY <1>1, <2>1, Zenon
<1>3. ToSet(new) = ToSet(list) \cup {p} /\ IsInjective(new)
  BY <1>1, AddNextSet, AddNextInjective
<1> HIDE DEF new
<1>4. (\A i \in 1 .. Len(list) : new[i] = list[i]) /\ new[Len(list) + 1] = p
  BY <1>1, <1>2
<1> QED
  BY <1>2, <1>3, <1>4 DEF AddLast, new

(***************************************************************************)
(* Several lists                                                           *)
(***************************************************************************)
(* No process is on two lists, or on one list twice.                       *)
Apart(lists) ==
  /\ \A l \in DOMAIN lists : IsInjective(lists[l])
  /\ \A l, m \in DOMAIN lists : l # m => ToSet(lists[l]) \cap ToSet(lists[m]) = {}

(* The lists of a family, and the family with one of them replaced, as     *)
(* predicates that stay folded, for the provers to find instances by.      *)
ListsOf(lists, L, S) == lists \in [L -> Seq(S)] /\ Apart(lists)

Replaced(new, lists, level, list) == new = [lists EXCEPT ![level] = list]

(* p is on none of the lists; one of them gets p; p is taken out of all.   *)
OnNone(p, lists, L) == \A l \in L : p \notin ToSet(lists[l])

ListGains(new, lists, L, level, p) ==
  \A l \in L : ToSet(new[l]) = IF l = level THEN ToSet(lists[l]) \cup {p}
                                ELSE ToSet(lists[l])

ListsLose(new, lists, L, p) == \A l \in L : ToSet(new[l]) = ToSet(lists[l]) \ {p}

LEMMA ListReplaced ==
  ASSUME NEW S, NEW L, NEW lists, NEW level, NEW list, NEW new, NEW p,
         ListsOf(lists, L, S), Replaced(new, lists, level, list), level \in L, p \in S,
         OnNone(p, lists, L),
         list \in Seq(S), IsInjective(list), Gains(list, lists[level], p)
  PROVE  /\ ListsOf(new, L, S) /\ new[level] = list
         /\ \A l \in L : l # level => new[l] = lists[l]
         /\ ListGains(new, lists, L, level, p)
<1>1. lists \in [L -> Seq(S)] /\ Apart(lists)
  BY DEF ListsOf
<1>2. new = [lists EXCEPT ![level] = list]
  BY DEF Replaced
<1>3. /\ new[level] = list /\ \A l \in L : l # level => new[l] = lists[l]
      /\ DOMAIN new = L /\ DOMAIN lists = L
      /\ new \in [L -> Seq(S)]
  BY <1>1, <1>2
<1>4. \A l \in L : ToSet(new[l]) = IF l = level THEN ToSet(lists[l]) \cup {p}
                                   ELSE ToSet(lists[l])
  BY <1>3 DEF Gains
<1>5. \A l \in L : IsInjective(new[l])
  BY <1>1, <1>3 DEF Apart
<1>6. \A l, m \in L : l # m => ToSet(lists[l]) \cap ToSet(lists[m]) = {}
  BY <1>1, <1>3 DEF Apart
<1>7. \A l, m \in L : l # m => ToSet(new[l]) \cap ToSet(new[m]) = {}
  BY <1>4, <1>6 DEF OnNone
<1>8. (\A l \in DOMAIN new : IsInjective(new[l]))
      /\ \A l, m \in DOMAIN new : l # m => ToSet(new[l]) \cap ToSet(new[m]) = {}
  <2>1. DOMAIN new = L
    BY <1>3
  <2> QED
    BY <1>5, <1>7, <2>1, Zenon
<1>9. Apart(new)
  BY <1>8, Zenon DEF Apart
<1> QED
  BY <1>3, <1>4, <1>9 DEF ListsOf, ListGains

(* An arrival is sorted into one of the lists.                             *)
LEMMA SortedIntoLists ==
  ASSUME NEW S, NEW L, NEW lists, NEW level, NEW arrival, NEW new, NEW p,
         ListsOf(lists, L, S), OrderedList(lists[level], S, arrival),
         Replaced(new, lists, level, SortedInsert(lists[level], p, arrival)),
         level \in L, p \in S, OnNone(p, lists, L)
  PROVE  /\ ListsOf(new, L, S)
         /\ ListGains(new, lists, L, level, p)
         /\ OrderedList(new[level], S, arrival)
<1> DEFINE list == SortedInsert(lists[level], p, arrival)
<1>0. p \notin ToSet(lists[level])
  BY DEF OnNone
<1>1. /\ OrderedList(list, S, arrival) /\ IsInjective(list)
      /\ Gains(list, lists[level], p)
  BY <1>0, SortedWithNew
<1>2. list \in Seq(S) /\ Replaced(new, lists, level, list)
  BY <1>1 DEF OrderedList
<1> HIDE DEF list
<1>3. /\ ListsOf(new, L, S) /\ new[level] = list
      /\ ListGains(new, lists, L, level, p)
  BY <1>1, <1>2, ListReplaced
<1> QED
  BY <1>1, <1>3

(* A process goes to the end of one of the lists.                          *)
LEMMA AddedLastToLists ==
  ASSUME NEW S, NEW L, NEW lists, NEW level, NEW new, NEW p,
         ListsOf(lists, L, S), Replaced(new, lists, level, AddLast(lists[level], p)),
         level \in L, p \in S, OnNone(p, lists, L)
  PROVE  /\ ListsOf(new, L, S)
         /\ \A l \in L : l # level => new[l] = lists[l]
         /\ ListGains(new, lists, L, level, p)
<1> DEFINE old == lists[level]
           list == AddLast(old, p)
<1>1. old \in Seq(S) /\ p \notin ToSet(old) /\ IsInjective(old)
  BY DEF Apart, ListsOf, OnNone
<1>2. Replaced(new, lists, level, list) /\ ToSet(old) = ToSet(lists[level])
  OBVIOUS
<1> HIDE DEF old
<1>3. list \in Seq(S) /\ ToSet(list) = ToSet(old) \cup {p} /\ IsInjective(list)
  BY <1>1, AddLastAdds
<1> HIDE DEF list
<1>4. Gains(list, lists[level], p)
  BY <1>2, <1>3 DEF Gains
<1>5. ListsOf(new, L, S) /\ ListGains(new, lists, L, level, p)
  BY <1>2, <1>3, <1>4, ListReplaced
<1>6. \A l \in L : l # level => new[l] = lists[l]
  BY DEF ListsOf, Replaced
<1> QED
  BY <1>5, <1>6

(* A node is taken out of one of the lists.                                *)
LEMMA TakenOutOfLists ==
  ASSUME NEW S, NEW L, NEW lists, NEW level, NEW new, NEW end,
         ListsOf(lists, L, S), Replaced(new, lists, level, remove_next(lists[level], end)),
         level \in L, end \in 0 .. Len(lists[level]) - 1
  PROVE  /\ ListsOf(new, L, S)
         /\ new[level] = remove_next(lists[level], end)
         /\ \A l \in L : l # level => new[l] = lists[l]
         /\ lists[level][end + 1] \in S /\ lists[level][end + 1] \in ToSet(lists[level])
         /\ ListsLose(new, lists, L, lists[level][end + 1])
<1> DEFINE p == lists[level][end + 1]
           list == lists[level]
           rest == remove_next(list, end)
<1>0. /\ lists \in [L -> Seq(S)] /\ Apart(lists)
      /\ new = [lists EXCEPT ![level] = remove_next(@, end)]
      /\ p = lists[level][end + 1]
  BY DEF ListsOf, Replaced
<1>1. list \in Seq(S) /\ IsInjective(list)
  BY <1>0 DEF Apart
<1>2. new[level] = rest /\ \A l \in L : l # level => new[l] = lists[l]
  BY <1>0
<1>3. DOMAIN new = L /\ DOMAIN lists = L
  BY <1>0
<1>4. p \in S /\ p \in ToSet(list)
  <2>1. end + 1 \in DOMAIN list
    BY <1>1
  <2> QED
    BY <1>1, <2>1 DEF ToSet
<1> HIDE DEF list, rest
<1>5. rest \in Seq(S) /\ ToSet(rest) = ToSet(list) \ {p} /\ IsInjective(rest)
  BY <1>1, RemoveNext, RemoveNextSet, RemoveNextInjective DEF list, rest
<1>6. \A l \in L : ToSet(new[l]) = ToSet(lists[l]) \ {p}
  <2> SUFFICES ASSUME NEW l \in L PROVE ToSet(new[l]) = ToSet(lists[l]) \ {p}
    OBVIOUS
  <2>1. CASE l = level
    BY <1>2, <1>5, <2>1 DEF list
  <2>2. CASE l # level
    <3>1. p \notin ToSet(lists[l])
      BY <1>0, <1>3, <1>4, <2>2 DEF Apart, list
    <3> QED
      BY <1>2, <2>2, <3>1
  <2> QED
    BY <2>1, <2>2
<1>7. new \in [L -> Seq(S)]
  <2>1. \A l \in L : new[l] \in Seq(S)
    BY <1>0, <1>2, <1>5
  <2> QED
    BY <1>0, <2>1
<1>8. Apart(new)
  <2>1. \A l \in L : IsInjective(new[l])
    BY <1>0, <1>2, <1>3, <1>5 DEF Apart
  <2>2. \A l, m \in L : l # m => ToSet(lists[l]) \cap ToSet(lists[m]) = {}
    BY <1>0, <1>3 DEF Apart
  <2>3. \A l, m \in L : l # m => ToSet(new[l]) \cap ToSet(new[m]) = {}
    BY <1>6, <2>2
  <2>4. (\A l \in DOMAIN new : IsInjective(new[l]))
        /\ \A l, m \in DOMAIN new : l # m => ToSet(new[l]) \cap ToSet(new[m]) = {}
    BY <1>3, <2>1, <2>3, Zenon
  <2> QED
    BY <2>4, Zenon DEF Apart
<1> QED
  BY <1>2, <1>4, <1>6, <1>7, <1>8 DEF ListsOf, ListsLose, list, rest, p

(***************************************************************************)
(* Sums                                                                    *)
(*                                                                         *)
(* MapThenSumSet is a recursive function on the subsets of its set, chosen *)
(* with CHOOSE.  That it exists and is unique follows from induction on    *)
(* the size of a set; that is well-founded induction for a set of numbers, *)
(* not for a predicate, which the provers could not instantiate.           *)
(***************************************************************************)
(* What one round of the fold adds, given the sums of the smaller sets.    *)
FoldStep(w, sum, s) ==
  IF s = {} THEN 0
  ELSE w[CHOOSE x \in s : TRUE] + sum[s \ {CHOOSE x \in s : TRUE}]

(* Induction on the natural numbers, for a set of them.                    *)
LEMMA InductionOnNat ==
  ASSUME NEW S, 0 \in S, \A n \in Nat : n \in S => n + 1 \in S
  PROVE  Nat \subseteq S
<1> DEFINE LessThan == {ss \in Nat \X Nat : ss[1] < ss[2]}
           missing == Nat \ S
<1>1. IsWellFoundedOn(LessThan, Nat)
  BY NatLessThanWellFounded DEF OpToRel
<1>2. SUFFICES ASSUME missing # {} PROVE FALSE
  OBVIOUS
<1>3. PICK m \in missing : \A n \in missing : <<n, m>> \notin LessThan
  <2> HIDE DEF LessThan
  <2> QED
    BY <1>1, <1>2, WFMin
<1>4. m \in Nat /\ m # 0 /\ m \notin S
  BY <1>3
<1>5. m - 1 \in Nat /\ (m - 1) + 1 = m /\ m - 1 < m
  BY <1>4
<1>6. m - 1 \notin S
  BY <1>4, <1>5
<1>7. <<m - 1, m>> \in LessThan /\ m - 1 \in missing
  BY <1>4, <1>5, <1>6
<1> HIDE DEF LessThan, missing
<1> QED
  BY <1>3, <1>7

(* The recursive definition of the fold has a solution.                    *)
LEMMA TotalExists ==
  ASSUME NEW S, IsFiniteSet(S), NEW w, \A x \in S : w[x] \in Int
  PROVE  \E sum \in [SUBSET S -> Int] :
           \A s \in SUBSET S : sum[s] = FoldStep(w, sum, s)
<1> DEFINE Upto(sum, n) ==
             \A s \in SUBSET S : Cardinality(s) <= n => sum[s] = FoldStep(w, sum, s)
           reached == {n \in Nat : \E sum \in [SUBSET S -> Int] : Upto(sum, n)}
           size(s) == Cardinality(s)
<1>1. \A s \in SUBSET S : /\ size(s) \in Nat
                          /\ size(s) = 0 <=> s = {}
                          /\ size(s) <= size(S)
                          /\ \A x \in s : size(s \ {x}) = size(s) - 1
  BY FS_Subset, FS_EmptySet, FS_RemoveElement, FS_CardinalityType
<1>c. \A s \in SUBSET S : s # {} => (CHOOSE x \in s : TRUE) \in s
  OBVIOUS
<1>2. 0 \in reached
  <2> DEFINE sum == [s \in SUBSET S |-> 0]
  <2>1. sum \in [SUBSET S -> Int]
    OBVIOUS
  <2>2. Upto(sum, 0)
    BY <1>1 DEF FoldStep
  <2> QED
    BY <2>1, <2>2
<1>3. ASSUME NEW n \in Nat, n \in reached PROVE n + 1 \in reached
  <2>1. PICK sum \in [SUBSET S -> Int] : Upto(sum, n)
    BY <1>3
  <2> DEFINE more == [s \in SUBSET S |-> IF size(s) = n + 1 THEN FoldStep(w, sum, s) ELSE sum[s]]
  <2>2. \A s \in SUBSET S : FoldStep(w, sum, s) \in Int
    BY <1>c DEF FoldStep
  <2>3. more \in [SUBSET S -> Int]
    BY <2>2
  <2>4. ASSUME NEW s \in SUBSET S, size(s) <= n + 1 PROVE more[s] = FoldStep(w, more, s)
    <3>1. CASE s = {}
      BY <3>1, <1>1, <2>1 DEF FoldStep
    <3>2. CASE s # {}
      <4> DEFINE x == CHOOSE x \in s : TRUE
      <4>1. x \in s /\ s \ {x} \in SUBSET S
        BY <3>2, <1>c
      <4> HIDE DEF x
      <4>2. size(s \ {x}) # n + 1
        BY <4>1, <1>1, <2>4
      <4>3. more[s \ {x}] = sum[s \ {x}]
        BY <4>1, <4>2
      <4>4. FoldStep(w, more, s) = FoldStep(w, sum, s)
        BY <4>3 DEF FoldStep, x
      <4>5. size(s) <= n \/ size(s) = n + 1
        BY <1>1, <2>4
      <4>6. more[s] = FoldStep(w, sum, s)
        BY <4>5, <2>1
      <4> QED
        BY <4>4, <4>6
    <3> QED
      BY <3>1, <3>2
  <2> HIDE DEF more
  <2>5. Upto(more, n + 1)
    BY <2>4
  <2> QED
    BY <2>3, <2>5
<1>4. size(S) \in reached
  <2> HIDE DEF reached
  <2>1. Nat \subseteq reached
    BY <1>2, <1>3, InductionOnNat
  <2> QED
    BY <2>1, <1>1
<1> QED
  BY <1>4, <1>1


(* It has one solution: on the sets that two solutions are both for, they  *)
(* agree.                                                                  *)
LEMMA TotalUnique ==
  ASSUME NEW S, IsFiniteSet(S), NEW v, NEW w, \A x \in S : v[x] = w[x],
         NEW f, \A s \in SUBSET S : f[s] = FoldStep(v, f, s),
         NEW g, \A s \in SUBSET S : g[s] = FoldStep(w, g, s)
  PROVE  f[S] = g[S]
<1> DEFINE size(s) == Cardinality(s)
           agreed == {n \in Nat : \A s \in SUBSET S : size(s) <= n => f[s] = g[s]}
<1>1. \A s \in SUBSET S : /\ size(s) \in Nat
                          /\ size(s) = 0 <=> s = {}
                          /\ \A x \in s : size(s \ {x}) = size(s) - 1
  BY FS_Subset, FS_EmptySet, FS_RemoveElement, FS_CardinalityType
<1>2. 0 \in agreed
  BY <1>1 DEF FoldStep
<1>3. ASSUME NEW n \in Nat, n \in agreed PROVE n + 1 \in agreed
  <2> SUFFICES ASSUME NEW s \in SUBSET S, size(s) <= n + 1 PROVE f[s] = g[s]
    OBVIOUS
  <2>1. CASE s = {}
    BY <2>1 DEF FoldStep
  <2>2. CASE s # {}
    <3> DEFINE x == CHOOSE x \in s : TRUE
               rest == s \ {x}
    <3>1. x \in s
      BY <2>2
    <3>2. f[s] = v[x] + f[rest] /\ g[s] = w[x] + g[rest]
      BY <2>2 DEF FoldStep
    <3> HIDE DEF x
    <3>3. size(rest) <= n /\ rest \in SUBSET S
      BY <3>1, <1>1
    <3>4. f[rest] = g[rest]
      BY <3>3, <1>3
    <3> QED
      BY <3>1, <3>2, <3>4
  <2> QED
    BY <2>1, <2>2
<1>4. size(S) \in agreed
  <2> HIDE DEF agreed
  <2>1. Nat \subseteq agreed
    BY <1>2, <1>3, InductionOnNat
  <2> QED
    BY <2>1, <1>1
<1> QED
  BY <1>4, <1>1

(* The sum of the numbers w[q] over the q in S.                            *)
Total(w, S) == MapThenSumSet(LAMBDA q : w[q], S)

(* The operator of the community modules is that solution.                 *)
LEMMA TotalIsSolution ==
  ASSUME NEW S, IsFiniteSet(S), NEW w, \A x \in S : w[x] \in Int
  PROVE  \E sum : /\ \A s \in SUBSET S : sum[s] = FoldStep(w, sum, s)
                  /\ Total(w, S) = sum[S]
<1> DEFINE P(sum) == sum = [s \in SUBSET S |->
                              IF s = {} THEN 0
                              ELSE w[CHOOSE x \in s : TRUE] + sum[s \ {CHOOSE x \in s : TRUE}]]
           iter == CHOOSE sum : P(sum)
<1>1. Total(w, S) = iter[S]
  BY DEF Total, MapThenSumSet, MapThenFoldSet
<1>2. PICK sum \in [SUBSET S -> Int] : \A s \in SUBSET S : sum[s] = FoldStep(w, sum, s)
  BY TotalExists
<1>3. P(sum)
  BY <1>2 DEF FoldStep
<1>4. P(iter)
  <2> HIDE DEF P
  <2> QED
    BY <1>3
<1> HIDE DEF iter
<1>5. \A s \in SUBSET S : iter[s] = FoldStep(w, iter, s)
  BY <1>4 DEF FoldStep
<1> QED
  BY <1>1, <1>5

(* So is whatever else solves it.                                          *)
LEMMA SolutionIsTotal ==
  ASSUME NEW S, IsFiniteSet(S), NEW w, \A x \in S : w[x] \in Int,
         NEW iter, \A s \in SUBSET S : iter[s] = FoldStep(w, iter, s)
  PROVE  iter[S] = Total(w, S)
<1>1. PICK sum : (\A s \in SUBSET S : sum[s] = FoldStep(w, sum, s)) /\ Total(w, S) = sum[S]
  BY TotalIsSolution
<1>2. \A x \in S : w[x] = w[x]
  OBVIOUS
<1>3. sum[S] = iter[S]
  BY <1>1, <1>2, TotalUnique
<1> QED
  BY <1>1, <1>3

(* sum gives the sums over all subsets of S.                               *)
Totals(sum, w, S) ==
  \A T \in SUBSET S : sum[T] = FoldStep(w, sum, T) /\ Total(w, T) = sum[T]

(* One function gives the sums over all subsets of a finite set.           *)
LEMMA SubsetTotals ==
  ASSUME NEW S, IsFiniteSet(S), NEW w, \A x \in S : w[x] \in Int
  PROVE  \E sum \in [SUBSET S -> Int] : Totals(sum, w, S)
<1>1. PICK sum \in [SUBSET S -> Int] : \A T \in SUBSET S : sum[T] = FoldStep(w, sum, T)
  BY TotalExists
<1>2. ASSUME NEW T \in SUBSET S PROVE Total(w, T) = sum[T]
  <2>1. IsFiniteSet(T) /\ (\A x \in T : w[x] \in Int) /\ \A s \in SUBSET T : s \in SUBSET S
    BY FS_Subset
  <2>2. PICK f : (\A s \in SUBSET T : f[s] = FoldStep(w, f, s)) /\ Total(w, T) = f[T]
    BY <2>1, TotalIsSolution
  <2>3. f[T] = sum[T]
    BY <1>1, <2>1, <2>2, TotalUnique
  <2> QED
    BY <2>2, <2>3
<1> QED
  BY <1>1, <1>2 DEF Totals

(* The empty sum, and the type of a sum.                                   *)
LEMMA TotalEmpty == ASSUME NEW w PROVE Total(w, {}) = 0
<1>1. IsFiniteSet({}) /\ \A x \in {} : w[x] \in Int
  BY FS_EmptySet
<1>2. PICK sum \in [SUBSET {} -> Int] : Totals(sum, w, {})
  BY <1>1, SubsetTotals
<1> QED
  BY <1>2 DEF Totals, FoldStep

LEMMA TotalInt ==
  ASSUME NEW S, IsFiniteSet(S), NEW w, \A x \in S : w[x] \in Int
  PROVE  Total(w, S) \in Int
<1>1. PICK sum \in [SUBSET S -> Int] : Totals(sum, w, S)
  BY SubsetTotals
<1> QED
  BY <1>1 DEF Totals

(* Any element may be taken out of the sum first.                          *)
LEMMA TotalTakeOut ==
  ASSUME NEW S, IsFiniteSet(S), NEW w, \A x \in S : w[x] \in Int, NEW y \in S
  PROVE  Total(w, S) = w[y] + Total(w, S \ {y})
<1> DEFINE size(s) == Cardinality(s)
<1>1. \A s \in SUBSET S : /\ size(s) \in Nat
                          /\ size(s) = 0 <=> s = {}
                          /\ \A x \in s : size(s \ {x}) = size(s) - 1
  BY FS_Subset, FS_EmptySet, FS_RemoveElement, FS_CardinalityType
<1>a. PICK sum \in [SUBSET S -> Int] : Totals(sum, w, S)
  BY SubsetTotals
<1>2. \A T \in SUBSET S : sum[T] = FoldStep(w, sum, T) /\ Total(w, T) = sum[T]
  BY <1>a DEF Totals
<1> DEFINE good == {n \in Nat : \A s \in SUBSET S : size(s) <= n =>
                                  \A x \in s : sum[s] = w[x] + sum[s \ {x}]}
<1>3. 0 \in good
  BY <1>1
<1>4. ASSUME NEW n \in Nat, n \in good PROVE n + 1 \in good
  <2> SUFFICES ASSUME NEW s \in SUBSET S, size(s) <= n + 1, NEW x \in s
               PROVE  sum[s] = w[x] + sum[s \ {x}]
    OBVIOUS
  <2> DEFINE z == CHOOSE z \in s : TRUE
  <2>1. z \in s
    OBVIOUS
  <2>2. sum[s] = w[z] + sum[s \ {z}]
    BY <1>2 DEF FoldStep
  <2> HIDE DEF z
  <2>3. CASE z = x
    BY <2>2, <2>3
  <2>4. CASE z # x
    <3>1. /\ s \ {z} \in SUBSET S /\ size(s \ {z}) <= n /\ x \in s \ {z}
          /\ s \ {x} \in SUBSET S /\ size(s \ {x}) <= n /\ z \in s \ {x}
      BY <1>1, <2>1, <2>4
    <3>2. sum[s \ {z}] = w[x] + sum[(s \ {z}) \ {x}]
      BY <3>1, <1>4
    <3>3. sum[s \ {x}] = w[z] + sum[(s \ {x}) \ {z}]
      BY <3>1, <1>4
    <3> DEFINE both == sum[(s \ {z}) \ {x}]
    <3>4. sum[(s \ {x}) \ {z}] = both
      <4>1. (s \ {x}) \ {z} = (s \ {z}) \ {x}
        OBVIOUS
      <4> QED
        BY <4>1
    <3>5. w[x] \in Int /\ w[z] \in Int /\ both \in Int
      BY <2>1
    <3> HIDE DEF both
    <3>6. sum[s] = w[z] + (w[x] + both) /\ sum[s \ {x}] = w[z] + both
      BY <2>2, <3>2, <3>3, <3>4 DEF both
    <3> QED
      BY <3>5, <3>6
  <2> QED
    BY <2>3, <2>4
<1>5. size(S) \in good
  <2> HIDE DEF good
  <2>1. Nat \subseteq good
    BY <1>3, <1>4, InductionOnNat
  <2> QED
    BY <2>1, <1>1
<1>6. sum[S] = w[y] + sum[S \ {y}]
  BY <1>5, <1>1
<1> QED
  BY <1>2, <1>6

LEMMA TotalAdd ==
  ASSUME NEW S, IsFiniteSet(S), NEW w, NEW y, y \notin S, \A x \in S \cup {y} : w[x] \in Int
  PROVE  Total(w, S \cup {y}) = w[y] + Total(w, S)
<1>1. IsFiniteSet(S \cup {y}) /\ y \in S \cup {y} /\ (S \cup {y}) \ {y} = S
  BY FS_AddElement
<1>2. Total(w, S \cup {y}) = w[y] + Total(w, (S \cup {y}) \ {y})
  BY <1>1, TotalTakeOut
<1> QED
  BY <1>1, <1>2

(* Induction on the subsets of a finite set, for a set of them.            *)
LEMMA InductionOnSubsets ==
  ASSUME NEW S, IsFiniteSet(S), NEW Q, {} \in Q,
         \A T \in SUBSET S : T \in Q => \A x \in S \ T : T \cup {x} \in Q
  PROVE  S \in Q
<1> DEFINE size(s) == Cardinality(s)
           good == {n \in Nat : \A s \in SUBSET S : size(s) <= n => s \in Q}
<1>1. \A s \in SUBSET S : /\ size(s) \in Nat
                          /\ size(s) = 0 <=> s = {}
                          /\ \A x \in s : size(s \ {x}) = size(s) - 1
  BY FS_Subset, FS_EmptySet, FS_RemoveElement, FS_CardinalityType
<1>2. 0 \in good
  BY <1>1
<1>3. ASSUME NEW n \in Nat, n \in good PROVE n + 1 \in good
  <2> SUFFICES ASSUME NEW s \in SUBSET S, size(s) <= n + 1, s # {} PROVE s \in Q
    OBVIOUS
  <2>1. PICK x \in s : TRUE
    OBVIOUS
  <2>2. s \ {x} \in SUBSET S /\ size(s \ {x}) <= n
    BY <1>1, <2>1
  <2>3. s \ {x} \in Q /\ x \in S \ (s \ {x}) /\ (s \ {x}) \cup {x} = s
    BY <1>3, <2>1, <2>2
  <2> QED
    BY <2>2, <2>3, Zenon
<1>4. size(S) \in good
  <2> HIDE DEF good
  <2>1. Nat \subseteq good
    BY <1>2, <1>3, InductionOnNat
  <2> QED
    BY <2>1, <1>1
<1> QED
  BY <1>4, <1>1

(* A sum depends on its terms only.                                        *)
LEMMA TotalAgrees ==
  ASSUME NEW S, IsFiniteSet(S), NEW v, NEW w,
         \A x \in S : v[x] \in Int /\ v[x] = w[x]
  PROVE  Total(v, S) = Total(w, S)
<1>1. PICK f : (\A s \in SUBSET S : f[s] = FoldStep(v, f, s)) /\ Total(v, S) = f[S]
  BY TotalIsSolution
<1>2. PICK g : (\A s \in SUBSET S : g[s] = FoldStep(w, g, s)) /\ Total(w, S) = g[S]
  BY TotalIsSolution
<1> QED
  BY <1>1, <1>2, TotalUnique

(* One term changes: so does the sum, by as much.                          *)
LEMMA TotalUpdate ==
  ASSUME NEW S, IsFiniteSet(S), NEW v, NEW w, NEW y \in S,
         \A x \in S : v[x] \in Int /\ w[x] \in Int /\ (x # y => v[x] = w[x])
  PROVE  Total(v, S) - v[y] = Total(w, S) - w[y]
<1> DEFINE rest == S \ {y}
<1>1. IsFiniteSet(rest) /\ \A x \in rest : v[x] \in Int /\ w[x] \in Int /\ v[x] = w[x]
  BY FS_RemoveElement
<1>2. Total(v, S) = v[y] + Total(v, rest) /\ Total(w, S) = w[y] + Total(w, rest)
  BY TotalTakeOut
<1> HIDE DEF rest
<1>3. Total(v, rest) = Total(w, rest)
  BY <1>1, TotalAgrees
<1>4. Total(v, rest) \in Int
  BY <1>1, TotalInt
<1> QED
  BY <1>2, <1>3, <1>4

(* Terms that are no greater have a sum that is no greater.                *)
LEMMA TotalMonotone ==
  ASSUME NEW S, IsFiniteSet(S), NEW v, NEW w,
         \A x \in S : v[x] \in Int /\ w[x] \in Int /\ v[x] <= w[x]
  PROVE  Total(v, S) <= Total(w, S)
<1> DEFINE Q == {T \in SUBSET S : Total(v, T) <= Total(w, T)}
<1>1. {} \in Q
  BY TotalEmpty
<1>2. ASSUME NEW T \in SUBSET S, T \in Q, NEW x \in S \ T
      PROVE  T \cup {x} \in Q
  <2>1. IsFiniteSet(T) /\ \A y \in T \cup {x} : v[y] \in Int /\ w[y] \in Int
    BY FS_Subset
  <2>2. /\ Total(v, T \cup {x}) = v[x] + Total(v, T)
        /\ Total(w, T \cup {x}) = w[x] + Total(w, T)
    BY <2>1, TotalAdd
  <2>3. Total(v, T) \in Int /\ Total(w, T) \in Int
    BY <2>1, TotalInt
  <2> QED
    BY <1>2, <2>2, <2>3
<1> HIDE DEF Q
<1>3. S \in Q
  BY <1>1, <1>2, InductionOnSubsets
<1> QED
  BY <1>3 DEF Q

(* They have a smaller sum if one of them is smaller.                      *)
LEMMA TotalStrict ==
  ASSUME NEW S, IsFiniteSet(S), NEW v, NEW w, NEW y \in S, v[y] < w[y],
         \A x \in S : v[x] \in Int /\ w[x] \in Int /\ v[x] <= w[x]
  PROVE  Total(v, S) < Total(w, S)
<1> DEFINE rest == S \ {y}
<1>1. IsFiniteSet(rest) /\ \A x \in rest : v[x] \in Int /\ w[x] \in Int /\ v[x] <= w[x]
  BY FS_RemoveElement
<1>2. Total(v, S) = v[y] + Total(v, rest) /\ Total(w, S) = w[y] + Total(w, rest)
  BY TotalTakeOut
<1> HIDE DEF rest
<1>3. Total(v, rest) <= Total(w, rest)
  BY <1>1, TotalMonotone
<1>4. Total(v, rest) \in Int /\ Total(w, rest) \in Int
  BY <1>1, TotalInt
<1> QED
  BY <1>2, <1>3, <1>4

(* A subset's terms sum up to no more, when none is negative.              *)
LEMMA TotalOfSubset ==
  ASSUME NEW S, IsFiniteSet(S), NEW T, T \subseteq S, NEW w,
         \A x \in S : w[x] \in Int /\ 0 <= w[x]
  PROVE  Total(w, T) <= Total(w, S)
<1> DEFINE good == {U \in SUBSET S : Total(w, U \cap T) <= Total(w, U)}
<1>1. {} \in good
  <2>1. {} \cap T = {} /\ Total(w, {}) = 0
    BY TotalEmpty
  <2> QED
    BY <2>1
<1>2. ASSUME NEW U \in SUBSET S, U \in good, NEW x \in S \ U
      PROVE  U \cup {x} \in good
  <2>1. /\ IsFiniteSet(U) /\ IsFiniteSet(U \cap T)
        /\ x \notin U /\ x \notin U \cap T
        /\ \A y \in U \cup {x} : w[y] \in Int
        /\ \A y \in (U \cap T) \cup {x} : w[y] \in Int
    BY FS_Subset
  <2>2. /\ Total(w, U) \in Int /\ Total(w, U \cap T) \in Int /\ w[x] \in Int /\ 0 <= w[x]
        /\ Total(w, U \cap T) <= Total(w, U)
    BY <1>2, <2>1, TotalInt
  <2>3. Total(w, U \cup {x}) = w[x] + Total(w, U)
    BY <2>1, TotalAdd
  <2>4. CASE x \in T
    <3>1. (U \cup {x}) \cap T = (U \cap T) \cup {x}
      BY <2>4
    <3>2. Total(w, (U \cap T) \cup {x}) = w[x] + Total(w, U \cap T)
      BY <2>1, TotalAdd
    <3> QED
      BY <3>1, <3>2, <2>2, <2>3
  <2>5. CASE x \notin T
    <3>1. (U \cup {x}) \cap T = U \cap T
      BY <2>5
    <3>2. Total(w, (U \cup {x}) \cap T) = Total(w, U \cap T)
      BY <3>1
    <3> QED
      BY <3>2, <2>2, <2>3
  <2> QED
    BY <2>4, <2>5
<1>3. S \in good
  <2> HIDE DEF good
  <2> QED
    BY <1>1, <1>2, InductionOnSubsets
<1>4. S \cap T = T
  OBVIOUS
<1> QED
  BY <1>3, <1>4

(* Nothing adds up to nothing.                                             *)
LEMMA TotalZero ==
  ASSUME NEW S, IsFiniteSet(S), NEW w, \A x \in S : w[x] = 0
  PROVE  Total(w, S) = 0
<1> DEFINE Q == {T \in SUBSET S : Total(w, T) = 0}
<1>1. {} \in Q
  BY TotalEmpty
<1>2. ASSUME NEW T \in SUBSET S, T \in Q, NEW x \in S \ T
      PROVE  T \cup {x} \in Q
  <2>1. IsFiniteSet(T) /\ \A y \in T \cup {x} : w[y] \in Int
    BY FS_Subset
  <2>2. Total(w, T \cup {x}) = w[x] + Total(w, T)
    BY <2>1, TotalAdd
  <2> QED
    BY <1>2, <2>2
<1> HIDE DEF Q
<1>3. S \in Q
  BY <1>1, <1>2, InductionOnSubsets
<1> QED
  BY <1>3 DEF Q

(* A finite set of terms has a greatest one.                               *)
LEMMA GreatestTerm ==
  ASSUME NEW S, IsFiniteSet(S), S # {}, NEW w, \A x \in S : w[x] \in Int
  PROVE  \E m \in S : \A x \in S : w[x] <= w[m]
<1> DEFINE Q == {T \in SUBSET S : T # {} => \E m \in T : \A x \in T : w[x] <= w[m]}
<1>1. {} \in Q
  OBVIOUS
<1>2. ASSUME NEW T \in SUBSET S, T \in Q, NEW y \in S \ T
      PROVE  T \cup {y} \in Q
  <2>1. CASE T = {}
    BY <2>1
  <2>2. CASE T # {}
    <3>1. PICK m \in T : \A x \in T : w[x] <= w[m]
      BY <1>2, <2>2
    <3>2. CASE w[y] <= w[m]
      BY <3>1, <3>2
    <3>3. CASE ~(w[y] <= w[m])
      <4>1. \A x \in T \cup {y} : w[x] <= w[y]
        BY <3>1, <3>3
      <4> QED
        BY <4>1
    <3> QED
      BY <3>2, <3>3
  <2> QED
    BY <2>1, <2>2
<1> HIDE DEF Q
<1>3. S \in Q
  BY <1>1, <1>2, InductionOnSubsets
<1> QED
  BY <1>3 DEF Q

(***************************************************************************)
(* First shares                                                            *)
(***************************************************************************)
(* Of the units each has done, at most the first part.                     *)
FirstShare(done, S, part) == [x \in S |-> IF done[x] <= part THEN done[x] ELSE part]

(* The sum of what each needs, up to part, and functions that give the     *)
(* terms of this sum.                                                      *)
LeastTotal(part, need, S) == MapThenSumSet(LAMBDA x : Min({part, need[x]}), S)

LeastTerms(w, part, need, S) ==
  \A x \in S : w[x] \in Int /\ w[x] = Min({part, need[x]})

LEMMA LeastTotalIsTotal ==
  ASSUME NEW S, IsFiniteSet(S), NEW part, NEW need, NEW w, LeastTerms(w, part, need, S)
  PROVE  LeastTotal(part, need, S) = Total(w, S)
<1>0. \A x \in S : w[x] \in Int /\ w[x] = Min({part, need[x]})
  BY DEF LeastTerms
<1> DEFINE P(sum) == sum = [s \in SUBSET S |->
                              IF s = {} THEN 0
                              ELSE Min({part, need[CHOOSE x \in s : TRUE]})
                                     + sum[s \ {CHOOSE x \in s : TRUE}]]
           iter == CHOOSE sum : P(sum)
<1>1. LeastTotal(part, need, S) = iter[S]
  BY DEF LeastTotal, MapThenSumSet, MapThenFoldSet
<1>2. PICK sum \in [SUBSET S -> Int] : \A s \in SUBSET S : sum[s] = FoldStep(w, sum, s)
  BY <1>0, TotalExists
<1>3. \A s \in SUBSET S : s # {} => (CHOOSE x \in s : TRUE) \in S
  OBVIOUS
<1>4. P(sum)
  BY <1>0, <1>2, <1>3 DEF FoldStep
<1>5. P(iter)
  <2> HIDE DEF P
  <2> QED
    BY <1>4
<1> HIDE DEF iter
<1>6. \A s \in SUBSET S : iter[s] = FoldStep(w, iter, s)
  BY <1>0, <1>3, <1>5 DEF FoldStep
<1> QED
  BY <1>0, <1>1, <1>6, SolutionIsTotal

(* The shares add up to a number of units no greater than what the shares  *)
(* of all that is needed add up to.                                        *)
LEMMA ShareTotals ==
  ASSUME NEW S, IsFiniteSet(S), NEW T, T \subseteq S, NEW part \in Nat,
         NEW done \in [S -> Nat], NEW need \in [S -> Nat], \A x \in S : done[x] <= need[x]
  PROVE  /\ Total(FirstShare(done, S, part), T) \in Nat
         /\ LeastTotal(part, need, T) \in Int
         /\ Total(FirstShare(done, S, part), T) <= LeastTotal(part, need, T)
<1> DEFINE share == FirstShare(done, S, part)
           least == [x \in S |-> Min({part, need[x]})]
           zero == [x \in S |-> 0]
<1>1. IsFiniteSet(T) /\ \A x \in T : x \in S
  BY FS_Subset
<1>2. \A x \in T : share[x] \in Nat /\ zero[x] = 0
  BY <1>1 DEF FirstShare
<1>3. \A x \in T : /\ least[x] \in Int /\ least[x] = Min({part, need[x]})
                   /\ share[x] <= least[x]
  <2> SUFFICES ASSUME NEW x \in T
               PROVE  /\ least[x] \in Int /\ least[x] = Min({part, need[x]})
                      /\ share[x] <= least[x]
    OBVIOUS
  <2>1. need[x] \in Nat /\ done[x] \in Nat /\ done[x] <= need[x] /\ least[x] = Min({part, need[x]})
    BY <1>1
  <2>2. Min({part, need[x]}) = IF part <= need[x] THEN part ELSE need[x]
    BY <2>1, MinOfTwo
  <2>3. share[x] = IF done[x] <= part THEN done[x] ELSE part
    BY <1>1 DEF FirstShare
  <2> HIDE DEF least, share
  <2> QED
    BY <2>1, <2>2, <2>3
<1> HIDE DEF share, least, zero
<1>4. Total(zero, T) = 0 /\ Total(zero, T) <= Total(share, T) /\ Total(share, T) \in Int
  <2>1. \A x \in T : zero[x] \in Int /\ share[x] \in Int /\ zero[x] <= share[x]
    BY <1>2
  <2> QED
    BY <1>1, <1>2, <2>1, TotalZero, TotalMonotone, TotalInt
<1>5. Total(share, T) <= Total(least, T) /\ Total(least, T) \in Int
  <2>1. \A x \in T : share[x] \in Int /\ least[x] \in Int /\ share[x] <= least[x]
    <3>1. \A x \in T : share[x] \in Int
      BY <1>2
    <3> QED
      BY <1>3, <3>1, Zenon
  <2> QED
    BY <1>1, <2>1, TotalMonotone, TotalInt
<1>6. LeastTotal(part, need, T) = Total(least, T)
  <2>1. LeastTerms(least, part, need, T)
    BY <1>3, Zenon DEF LeastTerms
  <2> QED
    BY <1>1, <2>1, LeastTotalIsTotal
<1> QED
  BY <1>4, <1>5, <1>6 DEF share

(* One does a unit more: the sum of the shares does not shrink, and grows  *)
(* by one if the unit is one of the first part of a member of the set.     *)
UnitDone(new, done, y) == new = [done EXCEPT ![y] = done[y] + 1]

LEMMA ShareGrows ==
  ASSUME NEW S, IsFiniteSet(S), NEW T, T \subseteq S, NEW part \in Nat,
         NEW done \in [S -> Nat], NEW y \in S, NEW new, UnitDone(new, done, y)
  PROVE  /\ Total(FirstShare(done, S, part), T) <= Total(FirstShare(new, S, part), T)
         /\ y \in T /\ done[y] < part =>
              Total(FirstShare(new, S, part), T) = Total(FirstShare(done, S, part), T) + 1
<1> DEFINE v == FirstShare(done, S, part)
           w == FirstShare(new, S, part)
<1>0. new = [done EXCEPT ![y] = done[y] + 1]
  BY DEF UnitDone
<1>1. IsFiniteSet(T) /\ \A x \in T : x \in S
  BY FS_Subset
<1>2. \A x \in T : /\ v[x] \in Int /\ w[x] \in Int /\ v[x] <= w[x]
                   /\ x # y => v[x] = w[x]
  BY <1>0, <1>1 DEF FirstShare
<1>3. y \in T /\ done[y] < part => w[y] = v[y] + 1
  BY <1>0, <1>1 DEF FirstShare
<1> HIDE DEF v, w
<1>4. Total(v, T) <= Total(w, T) /\ Total(v, T) \in Int /\ Total(w, T) \in Int
  BY <1>1, <1>2, TotalMonotone, TotalInt
<1>5. y \in T => Total(v, T) - v[y] = Total(w, T) - w[y]
  BY <1>1, <1>2, TotalUpdate
<1> QED
  BY <1>2, <1>3, <1>4, <1>5 DEF v, w

(***************************************************************************)
(* Remainders                                                              *)
(***************************************************************************)
LEMMA Division ==
  ASSUME NEW q \in Nat \ {0}, NEW a \in Nat
  PROVE  a % q \in 0 .. q - 1 /\ a \div q \in Nat /\ a = q * (a \div q) + (a % q)
OBVIOUS

(* There is one quotient and one remainder.                                *)
LEMMA DivisionUnique ==
  ASSUME NEW q \in Nat \ {0}, NEW a \in Nat, NEW k \in Nat, NEW r \in 0 .. q - 1,
         a = q * k + r
  PROVE  a \div q = k /\ a % q = r
OBVIOUS

(* One more: the remainder grows by one, or starts again at 0.             *)
LEMMA NextRemainder ==
  ASSUME NEW q \in Nat \ {0}, NEW a \in Nat
  PROVE  /\ a % q \in 0 .. q - 1
         /\ (a + 1) % q = IF (a % q) + 1 = q THEN 0 ELSE (a % q) + 1
<1> DEFINE r == a % q
           k == a \div q
           s == (a + 1) % q
           m == (a + 1) \div q
<1>1. /\ r \in 0 .. q - 1 /\ k \in Int /\ a = q * k + r
      /\ s \in 0 .. q - 1 /\ m \in Int /\ a + 1 = q * m + s
  OBVIOUS
<1> HIDE DEF r, k, s, m
<1>2. q * (m - k) = r + 1 - s
  BY <1>1
<1>3. CASE m - k <= -1
  <2>1. q * (m - k) <= -q
    BY <1>3, <1>1
  <2> QED
    BY <2>1, <1>1, <1>2
<1>4. CASE m - k = 0
  BY <1>4, <1>1, <1>2 DEF r, s
<1>5. CASE m - k = 1
  BY <1>5, <1>1, <1>2 DEF r, s
<1>6. CASE m - k >= 2
  <2>1. q * (m - k) >= q + q
    BY <1>6, <1>1
  <2> QED
    BY <2>1, <1>1, <1>2
<1>7. m - k <= -1 \/ m - k = 0 \/ m - k = 1 \/ m - k >= 2
  BY <1>1
<1> QED
  BY <1>1, <1>3, <1>4, <1>5, <1>6, <1>7 DEF r
=============================================================================
