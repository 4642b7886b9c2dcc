---------------------------- MODULE TablesProofs ----------------------------
(***************************************************************************)
(* Proofs about what is measured and what is reported of it: about         *)
(* TablesSystem, for any number of blocks and slots, any names, commands   *)
(* and faults; and, at the end, about Measurements, for any number of      *)
(* measurements, any intervals, and any number of pulses.                  *)
(***************************************************************************)
EXTENDS MCTables, Measurements, FiniteSetTheorems, WellFoundedInduction, TLAPS

(* Numbers.                                                                *)

\* What holds of 0, and of n + 1 when it holds of n, holds of every number.
LEMMA Induction ==
  ASSUME NEW Q, 0 \in Q, \A n \in Nat : n \in Q => n + 1 \in Q
  PROVE  Nat \subseteq Q
<1> SUFFICES ASSUME Nat \ Q # {} PROVE FALSE
  OBVIOUS
<1> DEFINE T == Nat \ Q
<1>1. T \subseteq Nat /\ T # {}
  OBVIOUS
<1>2. \E x \in T : \A y \in T : ~(<<y, x>> \in OpToRel(<, Nat))
  BY <1>1, NatLessThanWellFounded, WFMin, Zenon
<1>3. PICK x \in T : \A y \in T : ~(<<y, x>> \in OpToRel(<, Nat))
  BY <1>2
<1>4. \A y \in T : ~(y < x)
  BY <1>3, Zenon DEF OpToRel
<1>5. x \in Nat /\ x # 0
  OBVIOUS
<1>6. x - 1 \in Nat /\ x - 1 < x
  BY <1>5
<1>7. x - 1 \in Q
  BY <1>4, <1>6
<1>8. (x - 1) + 1 \in Q
  BY <1>6, <1>7
<1> QED BY <1>5, <1>8

\* The same up to a number.
LEMMA InductionUpTo ==
  ASSUME NEW top \in Nat, NEW Q, 0 \in Q,
         \A n \in 0..top : n \in Q /\ n < top => n + 1 \in Q
  PROVE  0..top \subseteq Q
<1> DEFINE P == {n \in Nat : n <= top => n \in Q}
<1>1. 0 \in P
  OBVIOUS
<1>2. \A n \in Nat : n \in P => n + 1 \in P
  OBVIOUS
<1> HIDE DEF P
<1>3. Nat \subseteq P
  BY <1>1, <1>2, Induction
<1> QED BY <1>3 DEF P

-----------------------------------------------------------------------------
(* Lists: a sequence of blocks that are linked, from the block b on.       *)

Block == 1..Blocks
At(s, i) == IF i \in 1..Len(s) THEN s[i] ELSE 0
List(blk, b, s) ==
    /\ s \in Seq(Block) /\ IsInjective(s)
    /\ b = At(s, 1)
    /\ \A i \in 1..Len(s) : blk[s[i]].next = At(s, i + 1)

\* No more blocks than there are.
LEMMA ListLength ==
  ASSUME NEW s \in Seq(Block), IsInjective(s)
  PROVE  Len(s) \in Nat /\ Len(s) <= Blocks
<1>1. Blocks \in Nat /\ Len(s) \in Nat
  BY TablesAssumption
<1>2. \A n \in Nat : IsFiniteSet(1..n) /\ Cardinality(1..n) = n
  <2> SUFFICES ASSUME NEW n \in Nat PROVE IsFiniteSet(1..n) /\ Cardinality(1..n) = n
    OBVIOUS
  <2>1. 1 \in Int /\ n \in Int
    OBVIOUS
  <2>2. IsFiniteSet(1..n) /\ Cardinality(1..n) = IF 1 > n THEN 0 ELSE n - 1 + 1
    BY <2>1, FS_Interval, Zenon
  <2> QED BY <2>2
<1>3. s \in Injection(1..Len(s), 1..Blocks)
  <2>1. s \in [1..Len(s) -> Block]
    OBVIOUS
  <2> QED BY <2>1, Zenon DEF Injection, Block
<1>4. Cardinality(1..Len(s)) <= Cardinality(1..Blocks)
  BY <1>1, <1>2, <1>3, FS_Injection, Zenon
<1> QED BY <1>1, <1>2, <1>4

\* Where a list ends, and that it is one block and the rest.
LEMMA ListEnds ==
  ASSUME NEW blk, NEW b, NEW s, List(blk, b, s)
  PROVE  (b = 0) = (s = <<>>)
<1>1. Blocks \in Nat
  BY TablesAssumption
<1>2. CASE Len(s) = 0
  BY <1>2 DEF List, At
<1>3. CASE Len(s) # 0
  <2>1. 1 \in 1..Len(s) /\ s[1] \in Block
    BY <1>3 DEF List
  <2> QED BY <1>1, <2>1 DEF List, At, Block
<1> QED BY <1>2, <1>3

LEMMA ListRange ==
  ASSUME NEW s \in Seq(Block)
  PROVE  /\ Range(s) \subseteq Block
         /\ Range(s) = {s[i] : i \in 1..Len(s)}
         /\ DOMAIN s = 1..Len(s) /\ Len(s) \in Nat
<1>1. DOMAIN s = 1..Len(s) /\ Len(s) \in Nat
  OBVIOUS
<1> QED BY <1>1 DEF Range

\* A list stays one when its blocks keep their successors.
LEMMA ListKept ==
  ASSUME NEW blk, NEW new, NEW b, NEW s, List(blk, b, s),
         \A x \in Range(s) : new[x].next = blk[x].next
  PROVE  List(new, b, s)
<1>1. \A i \in 1..Len(s) : s[i] \in Range(s)
  BY ListRange DEF List
<1> QED BY <1>1 DEF List

\* A block is put before a list.
Onto(x, s) == <<x>> \o s

LEMMA OntoIs ==
  ASSUME NEW s \in Seq(Block), NEW x \in Block
  PROVE  /\ Onto(x, s) \in Seq(Block)
         /\ Len(Onto(x, s)) = Len(s) + 1 /\ Len(s) \in Nat
         /\ Onto(x, s)[1] = x
         /\ \A i \in 1..Len(s) : Onto(x, s)[i + 1] = s[i]
         /\ Range(Onto(x, s)) = {x} \cup Range(s)
<1>1. PICK t : t = Onto(x, s)
  OBVIOUS
<1>2. /\ t \in Seq(Block)
      /\ Len(t) = Len(s) + 1 /\ Len(s) \in Nat
      /\ t[1] = x
      /\ \A i \in 1..Len(s) : t[i + 1] = s[i]
  BY <1>1 DEF Onto
<1>3. Range(t) = {t[i] : i \in 1..Len(s) + 1} /\ Range(s) = {s[i] : i \in 1..Len(s)}
  BY <1>2, ListRange
<1>4. Range(t) \subseteq {x} \cup Range(s)
  <2> SUFFICES ASSUME NEW i \in 1..Len(s) + 1 PROVE t[i] \in {x} \cup Range(s)
    BY <1>3
  <2>1. i = 1 \/ (i - 1 \in 1..Len(s) /\ i = (i - 1) + 1)
    BY <1>2
  <2> QED BY <1>2, <1>3, <2>1
<1>5. {x} \cup Range(s) \subseteq Range(t)
  <2>1. 1 \in 1..Len(s) + 1 /\ \A i \in 1..Len(s) : i + 1 \in 1..Len(s) + 1
    BY <1>2
  <2> QED BY <1>2, <1>3, <2>1
<1> QED BY <1>1, <1>2, <1>4, <1>5

LEMMA ListPut ==
  ASSUME NEW blk, NEW new, NEW b, NEW s, List(blk, b, s),
         NEW x \in Block, x \notin Range(s), new[x].next = b,
         \A y \in Range(s) : new[y].next = blk[y].next
  PROVE  List(new, x, Onto(x, s))
<1> DEFINE t == Onto(x, s)
<1>1. s \in Seq(Block) /\ IsInjective(s) /\ Len(s) \in Nat
  BY DEF List
<1>2. /\ t \in Seq(Block) /\ Len(t) = Len(s) + 1 /\ t[1] = x
      /\ \A i \in 1..Len(s) : t[i + 1] = s[i]
  BY <1>1, OntoIs
<1> HIDE DEF t
<1>3. \A i \in 1..Len(s) : s[i] \in Range(s)
  BY <1>1, ListRange
<1>4. \A i \in 1..Len(t) : i = 1 \/ \E j \in 1..Len(s) : i = j + 1
  <2> SUFFICES ASSUME NEW i \in 1..Len(t), i # 1 PROVE \E j \in 1..Len(s) : i = j + 1
    OBVIOUS
  <2>1. i - 1 \in 1..Len(s) /\ i = (i - 1) + 1
    BY <1>1, <1>2
  <2> QED BY <2>1
<1>5. IsInjective(t)
  <2>1. DOMAIN t = 1..Len(t) /\ DOMAIN s = 1..Len(s)
    BY <1>1, <1>2
  <2> SUFFICES ASSUME NEW i \in 1..Len(t), NEW j \in 1..Len(t), t[i] = t[j] PROVE i = j
    BY <2>1 DEF IsInjective
  <2>2. CASE i = 1 /\ j = 1
    BY <2>2
  <2>3. ASSUME NEW k \in 1..Len(s), i = k + 1, j = 1 PROVE FALSE
    BY <1>2, <1>3, <2>3
  <2>4. ASSUME NEW k \in 1..Len(s), j = k + 1, i = 1 PROVE FALSE
    BY <1>2, <1>3, <2>4
  <2>5. ASSUME NEW k \in 1..Len(s), i = k + 1, NEW m \in 1..Len(s), j = m + 1 PROVE i = j
    <3>1. s[k] = s[m]
      BY <1>2, <2>5
    <3>2. k = m
      BY <1>1, <2>1, <3>1 DEF IsInjective
    <3> QED BY <2>5, <3>2
  <2> QED BY <1>4, <2>2, <2>3, <2>4, <2>5
<1>6. x = At(t, 1)
  BY <1>1, <1>2 DEF At
<1>7. \A i \in 1..Len(t) : new[t[i]].next = At(t, i + 1)
  <2>1. new[t[1]].next = At(t, 2)
    <3>1. b = At(s, 1)
      BY DEF List
    <3>2. At(t, 2) = At(s, 1)
      <4>1. CASE Len(s) = 0
        BY <1>2, <4>1 DEF At
      <4>2. CASE Len(s) # 0
        <5>1. 1 \in 1..Len(s) /\ 2 \in 1..Len(t)
          BY <1>1, <1>2, <4>2
        <5> QED BY <1>2, <5>1 DEF At
      <4> QED BY <4>1, <4>2
    <3> QED BY <1>2, <3>1, <3>2
  <2>2. ASSUME NEW j \in 1..Len(s) PROVE new[t[j + 1]].next = At(t, j + 2)
    <3>1. new[t[j + 1]].next = At(s, j + 1)
      BY <1>2, <1>3 DEF List
    <3>2. At(t, j + 2) = At(s, j + 1)
      <4>1. CASE j = Len(s)
        BY <1>1, <1>2, <4>1 DEF At
      <4>2. CASE j # Len(s)
        <5>1. j + 1 \in 1..Len(s) /\ (j + 1) + 1 \in 1..Len(t) /\ (j + 1) + 1 = j + 2
          BY <1>1, <1>2, <4>2
        <5> QED BY <1>2, <5>1 DEF At
      <4> QED BY <4>1, <4>2
    <3> QED BY <3>1, <3>2
  <2>3. \A j \in 1..Len(s) : (j + 1) + 1 = j + 2
    OBVIOUS
  <2> QED BY <1>4, <2>1, <2>2, <2>3
<1> QED BY <1>2, <1>5, <1>6, <1>7 DEF List, t

\* The first block of a list is taken.
LEMMA ListTaken ==
  ASSUME NEW blk, NEW b, NEW s, List(blk, b, s), b # 0
  PROVE  /\ b \in Range(s) /\ b \in Block /\ Len(s) \in Nat \ {0} /\ s[1] = b
         /\ List(blk, blk[b].next, Tail(s))
         /\ Range(Tail(s)) = Range(s) \ {b}
<1>1. s \in Seq(Block) /\ IsInjective(s) /\ DOMAIN s = 1..Len(s) /\ Len(s) \in Nat
  BY DEF List
<1>2. Len(s) # 0
  BY ListEnds, <1>1
<1>3. 1 \in 1..Len(s) /\ b = s[1]
  BY <1>1, <1>2 DEF List, At
<1>4. PICK t : t = Tail(s)
  OBVIOUS
<1>5. /\ t \in Seq(Block) /\ Len(t) = Len(s) - 1
      /\ DOMAIN t = 1..(Len(s) - 1)
      /\ \A i \in 1..(Len(s) - 1) : t[i] = s[i + 1]
  BY <1>1, <1>2, <1>4
<1>6. \A i \in 1..(Len(s) - 1) : i + 1 \in 1..Len(s)
  BY <1>1
<1>7. IsInjective(t)
  <2> SUFFICES ASSUME NEW i \in 1..(Len(s) - 1), NEW j \in 1..(Len(s) - 1), t[i] = t[j]
               PROVE  i = j
    BY <1>5 DEF IsInjective
  <2>1. i + 1 = j + 1
    BY <1>1, <1>5, <1>6 DEF IsInjective
  <2> QED BY <2>1
<1>8. \A i \in 1..Len(s) : At(t, i) = At(s, i + 1)
  <2> SUFFICES ASSUME NEW i \in 1..Len(s) PROVE At(t, i) = At(s, i + 1)
    OBVIOUS
  <2>1. CASE i = Len(s)
    BY <1>1, <1>5, <2>1 DEF At
  <2>2. CASE i # Len(s)
    <3> DEFINE Last(n) == \A j \in 1..n : j # n => j \in 1..(n - 1)
    <3>0. \A n \in Nat : Last(n)
      OBVIOUS
    <3>1. i \in 1..(Len(s) - 1)
      BY <1>1, <2>2, <3>0
    <3>2. i + 1 \in 1..Len(s)
      BY <1>6, <3>1
    <3> QED BY <1>5, <3>1, <3>2 DEF At
  <2> QED BY <2>1, <2>2
<1>9. blk[b].next = At(t, 1)
  BY <1>3, <1>8 DEF List
<1>10. \A i \in 1..Len(t) : blk[t[i]].next = At(t, i + 1)
  <2> SUFFICES ASSUME NEW i \in 1..Len(t) PROVE blk[t[i]].next = At(t, i + 1)
    OBVIOUS
  <2>1. i \in 1..(Len(s) - 1) /\ i + 1 \in 1..Len(s)
    <3>1. i \in 1..(Len(s) - 1)
      BY <1>5
    <3> QED BY <1>6, <3>1
  <2>2. blk[s[i + 1]].next = At(s, (i + 1) + 1)
    BY <2>1 DEF List
  <2> QED BY <1>5, <1>8, <2>1, <2>2
<1>11. Range(t) = {t[i] : i \in 1..(Len(s) - 1)} /\ Range(s) = {s[i] : i \in 1..Len(s)}
  BY <1>1, <1>5, ListRange
<1>12. Range(t) \subseteq Range(s) \ {b}
  <2> SUFFICES ASSUME NEW i \in 1..(Len(s) - 1) PROVE s[i + 1] \in Range(s) \ {b}
    BY <1>5, <1>11
  <2>1. i + 1 \in 1..Len(s) /\ i + 1 # 1
    BY <1>6
  <2> QED BY <1>1, <1>3, <1>11, <2>1 DEF IsInjective
<1>13. Range(s) \ {b} \subseteq Range(t)
  <2> SUFFICES ASSUME NEW i \in 1..Len(s), s[i] # b PROVE s[i] \in Range(t)
    BY <1>11
  <2>1. i # 1
    BY <1>3
  <2>2. i - 1 \in 1..(Len(s) - 1) /\ (i - 1) + 1 = i
    BY <1>1, <2>1
  <2> QED BY <1>5, <1>11, <2>2
<1>14. List(blk, blk[b].next, t)
  BY <1>5, <1>7, <1>9, <1>10 DEF List
<1>15. b \in Range(s) /\ b \in Block
  BY <1>1, <1>3, <1>11
<1> QED BY <1>1, <1>2, <1>3, <1>4, <1>12, <1>13, <1>14, <1>15

\* One block is taken out of a list: the one before it is linked to the next.
Without(s, k) == [i \in 1..(Len(s) - 1) |-> IF i < k THEN s[i] ELSE s[i + 1]]

LEMMA ListWithout ==
  ASSUME NEW blk, NEW new, NEW b, NEW s, List(blk, b, s),
         NEW k \in 2..Len(s),
         new[s[k - 1]].next = blk[s[k]].next,
         \A y \in Range(s) \ {s[k - 1], s[k]} : new[y].next = blk[y].next
  PROVE  /\ List(new, b, Without(s, k))
         /\ Range(Without(s, k)) = Range(s) \ {s[k]}
<1>1. s \in Seq(Block) /\ IsInjective(s) /\ DOMAIN s = 1..Len(s) /\ Len(s) \in Nat
  BY DEF List
<1>2. PICK n \in Nat : n = Len(s)
  BY <1>1
<1>3. k \in Nat /\ 2 <= k /\ k <= n
  BY <1>2
<1>4. PICK t : t = Without(s, k)
  OBVIOUS
<1>5. DOMAIN t = 1..(n - 1) /\ \A i \in 1..(n - 1) : t[i] = IF i < k THEN s[i] ELSE s[i + 1]
  BY <1>2, <1>4 DEF Without
<1>6. \A i \in 1..(n - 1) : i \in 1..n /\ i + 1 \in 1..n
  BY <1>2
<1>7. t \in Seq(Block) /\ Len(t) = n - 1
  <2>1. \A i \in 1..(n - 1) : t[i] \in Block
    BY <1>1, <1>2, <1>5, <1>6
  <2>2. t \in [1..(n - 1) -> Block]
    BY <1>2, <1>4, <1>5, <2>1 DEF Without
  <2>3. n - 1 \in Nat
    BY <1>3
  <2> QED BY <2>2, <2>3
\* Where a block of t is in s.
<1> DEFINE Of(i) == IF i < k THEN i ELSE i + 1
<1>8. \A i \in 1..(n - 1) : Of(i) \in 1..n /\ Of(i) # k /\ t[i] = s[Of(i)]
  BY <1>3, <1>5, <1>6
<1>9. \A i, j \in 1..(n - 1) : Of(i) = Of(j) => i = j
  BY <1>3
<1>10. IsInjective(t)
  <2> SUFFICES ASSUME NEW i \in 1..(n - 1), NEW j \in 1..(n - 1), t[i] = t[j]
               PROVE  i = j
    BY <1>5 DEF IsInjective
  <2>1. Of(i) = Of(j)
    <3> HIDE DEF Of
    <3> QED BY <1>1, <1>2, <1>8 DEF IsInjective
  <2> QED BY <1>9, <2>1
<1>11. Range(t) = Range(s) \ {s[k]}
  <2>1. Range(t) = {t[i] : i \in 1..(n - 1)} /\ Range(s) = {s[i] : i \in 1..n}
    BY <1>1, <1>2, <1>7, ListRange
  <2>2. Range(t) \subseteq Range(s) \ {s[k]}
    <3> SUFFICES ASSUME NEW i \in 1..(n - 1) PROVE t[i] \in Range(s) \ {s[k]}
      BY <2>1
    <3>1. Of(i) \in 1..n /\ Of(i) # k /\ t[i] = s[Of(i)]
      BY <1>8
    <3>2. s[Of(i)] # s[k]
      BY <1>1, <1>2, <1>3, <3>1 DEF IsInjective
    <3> QED BY <2>1, <3>1, <3>2
  <2>3. Range(s) \ {s[k]} \subseteq Range(t)
    <3> SUFFICES ASSUME NEW i \in 1..n, s[i] # s[k] PROVE s[i] \in Range(t)
      BY <2>1
    <3>1. i # k
      OBVIOUS
    <3>2. CASE i < k
      <4>1. i \in 1..(n - 1) /\ t[i] = s[i]
        BY <1>3, <1>5, <3>2
      <4> QED BY <2>1, <4>1
    <3>3. CASE i > k
      <4>1. i - 1 \in 1..(n - 1) /\ ~(i - 1 < k) /\ (i - 1) + 1 = i
        BY <1>3, <3>3
      <4>2. t[i - 1] = s[i]
        BY <1>5, <4>1
      <4> QED BY <2>1, <4>1, <4>2
    <3> QED BY <1>3, <3>1, <3>2, <3>3
  <2> QED BY <2>2, <2>3
<1>12. b = At(t, 1)
  <2>1. 1 \in 1..n /\ 1 \in 1..(n - 1) /\ 1 < k
    BY <1>3
  <2> QED BY <1>2, <1>5, <1>7, <2>1 DEF List, At
<1>13. \A i \in 1..(n - 1) : new[t[i]].next = At(t, i + 1)
  <2> SUFFICES ASSUME NEW i \in 1..(n - 1) PROVE new[t[i]].next = At(t, i + 1)
    OBVIOUS
  <2>1. \A j \in 1..n : s[j] \in Range(s) /\ blk[s[j]].next = At(s, j + 1)
    BY <1>1, <1>2, ListRange DEF List
  <2>2. \A j \in 1..n, m \in 1..n : j # m => s[j] # s[m]
    BY <1>1, <1>2 DEF IsInjective
  <2>3. \A j \in 1..n : j # k - 1 /\ j # k => new[s[j]].next = At(s, j + 1)
    <3> SUFFICES ASSUME NEW j \in 1..n, j # k - 1, j # k PROVE new[s[j]].next = At(s, j + 1)
      OBVIOUS
    <3>1. k - 1 \in 1..n /\ k \in 1..n
      BY <1>3
    <3>2. s[j] # s[k - 1] /\ s[j] # s[k]
      BY <2>2, <3>1
    <3> QED BY <2>1, <3>2
  <2>4. CASE i < k - 1
    <3>1. i \in 1..n /\ i + 1 \in 1..n /\ i + 1 \in 1..(n - 1) /\ i < k /\ i + 1 < k /\ i # k
      BY <1>3, <2>4
    <3>2. new[s[i]].next = s[i + 1]
      BY <1>2, <2>3, <2>4, <3>1 DEF At
    <3> QED BY <1>5, <1>7, <3>1, <3>2 DEF At
  <2>5. CASE i = k - 1
    <3>1. t[i] = s[k - 1]
      BY <1>3, <1>5, <2>5
    <3>2. k \in 1..n
      BY <1>3
    <3>3. new[t[i]].next = At(s, k + 1)
      BY <2>1, <3>1, <3>2
    <3>4. At(t, k) = At(s, k + 1)
      <4>1. CASE k = n
        <5>1. k \notin 1..(n - 1) /\ k + 1 \notin 1..n
          BY <1>3, <4>1
        <5> QED BY <1>2, <1>7, <5>1 DEF At
      <4>2. CASE k # n
        <5>1. k \in 1..(n - 1) /\ k + 1 \in 1..n /\ ~(k < k)
          BY <1>3, <4>2
        <5> QED BY <1>2, <1>5, <1>7, <5>1 DEF At
      <4> QED BY <4>1, <4>2
    <3>5. i + 1 = k
      BY <1>3, <2>5
    <3> QED BY <3>3, <3>4, <3>5
  <2>6. CASE i >= k
    <3>1. i + 1 \in 1..n /\ i + 1 # k /\ i + 1 # k - 1 /\ ~(i < k) /\ ~(i + 1 < k)
      BY <1>3, <2>6
    <3>2. new[t[i]].next = At(s, (i + 1) + 1)
      BY <1>5, <2>3, <3>1
    <3>3. At(t, i + 1) = At(s, (i + 1) + 1)
      <4>1. CASE i + 1 = n
        <5>1. i + 1 \notin 1..(n - 1) /\ (i + 1) + 1 \notin 1..n
          BY <1>3, <4>1
        <5> QED BY <1>2, <1>7, <5>1 DEF At
      <4>2. CASE i + 1 # n
        <5>1. i + 1 \in 1..(n - 1) /\ (i + 1) + 1 \in 1..n
          BY <1>3, <3>1, <4>2
        <5> QED BY <1>2, <1>5, <1>7, <3>1, <5>1 DEF At
      <4> QED BY <4>1, <4>2
    <3> QED BY <3>2, <3>3
  <2> QED BY <1>3, <2>4, <2>5, <2>6
<1>14. List(new, b, t)
  BY <1>7, <1>10, <1>12, <1>13 DEF List
<1> QED BY <1>4, <1>11, <1>14

\* Of a list, FirstIn is the first block in a set.
LEMMA FirstInIs ==
  ASSUME NEW s \in Seq(Block), NEW S \in SUBSET Block
  PROVE  \/ FirstIn[s][S] = 0 /\ Range(s) \cap S = {}
         \/ \E i \in 1..Len(s) : /\ FirstIn[s][S] = s[i] /\ s[i] \in S
                                 /\ \A j \in 1..(i - 1) : s[j] \notin S
<1>1. FirstIn[s][S] =
         IF Range(s) \cap S = {} THEN 0
         ELSE s[CHOOSE i \in DOMAIN s : s[i] \in S /\ \A j \in 1..(i - 1) : s[j] \notin S]
  BY DEF FirstIn, Block
<1>2. CASE Range(s) \cap S = {}
  BY <1>1, <1>2
<1>3. CASE Range(s) \cap S # {}
  <2>1. PICK k \in 1..Len(s) : s[k] \in S
    BY <1>3, ListRange
  <2> DEFINE Q == {n \in Nat : \E i \in 1..Len(s) :
                       i <= n /\ s[i] \in S /\ \A j \in 1..(i - 1) : s[j] \notin S}
  <2> DEFINE P == {n \in Nat : n \in Q \/ \A j \in 1..n : j \in 1..Len(s) => s[j] \notin S}
  <2>2. 0 \in P
    OBVIOUS
  <2>3. ASSUME NEW n \in Nat, n \in P PROVE n + 1 \in P
    <3>1. CASE n \in Q
      <4>1. n + 1 \in Q
        BY <3>1
      <4> QED BY <4>1
    <3>2. CASE \A j \in 1..n : j \in 1..Len(s) => s[j] \notin S
      <4>1. CASE n + 1 \in 1..Len(s) /\ s[n + 1] \in S
        <5>1. (n + 1) - 1 = n /\ \A j \in 1..n : j \in 1..Len(s)
          BY <4>1
        <5>2. n + 1 \in Q
          BY <3>2, <4>1, <5>1
        <5> QED BY <5>2
      <4>2. CASE ~(n + 1 \in 1..Len(s) /\ s[n + 1] \in S)
        <5>1. \A j \in 1..(n + 1) : j \in 1..n \/ j = n + 1
          OBVIOUS
        <5> QED BY <3>2, <4>2, <5>1
      <4> QED BY <4>1, <4>2
    <3> QED BY <2>3, <3>1, <3>2
  <2> HIDE DEF P
  <2>4. k \in P
    <3>1. Nat \subseteq P
      BY <2>2, <2>3, Induction
    <3> QED BY <3>1
  <2>5. k \in Q
    BY <2>1, <2>4 DEF P
  <2>6. DOMAIN s = 1..Len(s)
    OBVIOUS
  <2>7. \E i \in DOMAIN s : s[i] \in S /\ \A j \in 1..(i - 1) : s[j] \notin S
    BY <2>5, <2>6
  <2> QED BY <1>1, <1>3, <2>6, <2>7
<1> QED BY <1>2, <1>3

-----------------------------------------------------------------------------
(* The walk of a list by the loops of the code.                            *)

FromIs(f, n, c) ==
    f = [room \in 0..n |->
            [x \in 0..Blocks |->
                IF x = 0 \/ room = 0 THEN <<>>
                ELSE <<x>> \o f[room - 1][c.block[x].next]]]

LEMMA FromExists ==
  ASSUME NEW c, NEW n \in Nat
  PROVE  \E f : FromIs(f, n, c)
<1> DEFINE Q == {k \in Nat : \E f : FromIs(f, k, c)}
<1> DEFINE More(g, room) == [x \in 0..Blocks |->
                IF x = 0 \/ room = 0 THEN <<>>
                ELSE <<x>> \o g[c.block[x].next]]
<1>1. 0 \in Q
  <2> DEFINE f == [room \in 0..0 |-> [x \in 0..Blocks |-> <<>>]]
  <2>1. FromIs(f, 0, c)
    BY DEF FromIs
  <2> QED BY <2>1
<1>2. ASSUME NEW k \in Nat, k \in Q PROVE k + 1 \in Q
  <2>1. PICK f : FromIs(f, k, c)
    BY <1>2
  <2> DEFINE g == [i \in 0..(k + 1) |-> IF i = k + 1 THEN More(f[k], i) ELSE f[i]]
  <2>2. \A i \in 0..k : g[i] = f[i]
    OBVIOUS
  <2>3. g[k + 1] = More(g[k], k + 1)
    <3>1. g[k] = f[k] /\ k + 1 \in 0..(k + 1)
      BY <2>2
    <3> HIDE DEF More
    <3>2. g[k + 1] = More(f[k], k + 1)
      BY <3>1
    <3> QED BY <3>1, <3>2
  <2>4. \A i \in 0..k : f[i] = More(f[i - 1], i)
    BY <2>1 DEF FromIs
  <2>5. g = [i \in 0..(k + 1) |-> g[i]]
    OBVIOUS
  <2> HIDE DEF g, More
  <2>6. \A i \in 0..k : g[i] = More(g[i - 1], i)
    <3> SUFFICES ASSUME NEW i \in 0..k PROVE g[i] = More(g[i - 1], i)
      OBVIOUS
    <3>1. CASE i = 0
      BY <2>2, <2>4, <3>1 DEF More
    <3>2. CASE i # 0
      <4>1. i - 1 \in 0..k
        BY <3>2
      <4> QED BY <2>2, <2>4, <4>1
    <3> QED BY <3>1, <3>2
  <2>7. \A i \in 0..(k + 1) : g[i] = More(g[i - 1], i)
    <3>1. \A i \in 0..(k + 1) : i \in 0..k \/ i = k + 1
      OBVIOUS
    <3>2. (k + 1) - 1 = k
      OBVIOUS
    <3> QED BY <2>3, <2>6, <3>1, <3>2
  <2>8. FromIs(g, k + 1, c)
    BY <2>5, <2>7 DEF FromIs, More
  <2> QED BY <2>8
<1> HIDE DEF Q
<1>3. Nat \subseteq Q
  BY <1>1, <1>2, Induction
<1> QED BY <1>3 DEF Q

\* A list from its i-th block on.
Rest(s, i) == [j \in 1..(Len(s) - i + 1) |-> s[j + i - 1]]

LEMMA RestIs ==
  ASSUME NEW s \in Seq(Block), NEW i \in 1..Len(s)
  PROVE  <<s[i]>> \o Rest(s, i + 1) = Rest(s, i)
<1>1. PICK n \in Nat : n = Len(s)
  OBVIOUS
<1>2. PICK r : r = Rest(s, i + 1)
  OBVIOUS
<1>3. i \in Nat /\ i >= 1 /\ i <= n
  BY <1>1
<1>4. r = [j \in 1..(n - i) |-> s[j + i]]
  <2>1. n - (i + 1) + 1 = n - i /\ \A j \in 1..(n - i) : j + (i + 1) - 1 = j + i
    BY <1>3
  <2>2. r = [j \in 1..(n - (i + 1) + 1) |-> s[j + (i + 1) - 1]]
    BY <1>1, <1>2 DEF Rest
  <2> QED BY <2>1, <2>2
<1>5. r \in Seq(Block) /\ Len(r) = n - i
  <2>1. \A j \in 1..(n - i) : j + i \in 1..n
    BY <1>3
  <2>2. r \in [1..(n - i) -> Block]
    BY <1>1, <1>4, <2>1
  <2>3. n - i \in Nat
    BY <1>3
  <2> QED BY <2>2, <2>3
<1>6. PICK t : t = <<s[i]>> \o r
  OBVIOUS
<1>7. s[i] \in Block
  OBVIOUS
<1>8. t \in Seq(Block) /\ Len(t) = n - i + 1 /\ t[1] = s[i]
      /\ \A j \in 1..(n - i) : t[j + 1] = r[j]
  BY <1>3, <1>5, <1>6, <1>7
<1>9. \A j \in 1..(n - i + 1) : t[j] = s[j + i - 1]
  <2> SUFFICES ASSUME NEW j \in 1..(n - i + 1) PROVE t[j] = s[j + i - 1]
    OBVIOUS
  <2>1. CASE j = 1
    <3>1. j + i - 1 = i
      BY <1>3, <2>1
    <3> QED BY <1>8, <2>1, <3>1
  <2>2. CASE j # 1
    <3>1. PICK m \in 1..(n - i) : j = m + 1
      <4>1. j - 1 \in 1..(n - i) /\ j = (j - 1) + 1
        BY <1>3, <2>2
      <4> QED BY <4>1
    <3>2. j + i - 1 = m + i
      BY <1>3, <3>1
    <3> QED BY <1>4, <1>8, <3>1, <3>2
  <2> QED BY <2>1, <2>2
<1>10. t = [j \in 1..(n - i + 1) |-> s[j + i - 1]]
  <2>1. t = [j \in 1..(n - i + 1) |-> t[j]]
    BY <1>8
  <2> QED BY <1>9, <2>1
<1> QED BY <1>1, <1>2, <1>6, <1>10 DEF Rest

LEMMA ChainIs ==
  ASSUME NEW c, NEW b, NEW s, List(c.block, b, s)
  PROVE  Chain(c, b) = s
<1>1. s \in Seq(Block) /\ Len(s) \in Nat /\ Len(s) <= Blocks /\ Blocks \in Nat
  BY ListLength, TablesAssumption DEF List
<1> DEFINE f == CHOOSE f : FromIs(f, Blocks + 1, c)
<1>2. FromIs(f, Blocks + 1, c)
  <2>1. Blocks + 1 \in Nat
    BY <1>1
  <2>2. \E g : FromIs(g, Blocks + 1, c)
    BY <2>1, FromExists
  <2> QED BY <2>2
<1>3. Chain(c, b) = f[Blocks + 1][b]
  BY DEF Chain, FromIs
<1> HIDE DEF f
<1> DEFINE Q == {k \in 0..(Blocks + 1) : \A i \in 1..(Len(s) + 1) :
                    Len(s) - i + 1 <= k => f[k][At(s, i)] = Rest(s, i)}
<1>4. \A i \in 1..Len(s) : At(s, i) = s[i] /\ s[i] \in 0..Blocks /\ s[i] # 0
  BY <1>1 DEF At, Block
<1>5. At(s, Len(s) + 1) = 0 /\ Rest(s, Len(s) + 1) = <<>>
  <2>1. Len(s) + 1 \notin 1..Len(s) /\ Len(s) - (Len(s) + 1) + 1 = 0
    BY <1>1
  <2>2. Rest(s, Len(s) + 1) = [j \in 1..0 |-> s[j + (Len(s) + 1) - 1]]
    BY <2>1 DEF Rest
  <2> QED BY <2>1, <2>2 DEF At
<1>6. \A k \in 0..(Blocks + 1) : f[k][0] = <<>>
  <2>1. 0 \in 0..Blocks
    BY <1>1
  <2> QED BY <1>2, <2>1 DEF FromIs
<1>7. 0 \in Q
  <2>1. 0 \in 0..(Blocks + 1)
    BY <1>1
  <2>2. \A i \in 1..(Len(s) + 1) : Len(s) - i + 1 <= 0 => i = Len(s) + 1
    BY <1>1
  <2> QED BY <1>5, <1>6, <2>1, <2>2
<1>8. ASSUME NEW k \in 0..(Blocks + 1), k \in Q, k < Blocks + 1 PROVE k + 1 \in Q
  <2>1. k + 1 \in 0..(Blocks + 1) /\ k + 1 # 0 /\ (k + 1) - 1 = k
    BY <1>1, <1>8
  <2> SUFFICES ASSUME NEW i \in 1..(Len(s) + 1), Len(s) - i + 1 <= k + 1
               PROVE  f[k + 1][At(s, i)] = Rest(s, i)
    BY <2>1
  <2>2. CASE i = Len(s) + 1
    BY <1>5, <1>6, <2>1, <2>2
  <2>3. CASE i # Len(s) + 1
    <3>1. i \in 1..Len(s) /\ i + 1 \in 1..(Len(s) + 1) /\ Len(s) - (i + 1) + 1 <= k
      BY <1>1, <2>1, <2>3
    <3>2. f[k][At(s, i + 1)] = Rest(s, i + 1)
      BY <1>8, <3>1
    <3>3. c.block[s[i]].next = At(s, i + 1)
      BY <3>1 DEF List
    <3>4. f[k + 1][s[i]] = <<s[i]>> \o f[(k + 1) - 1][c.block[s[i]].next]
      <4>1. PICK x \in 0..Blocks : x = s[i] /\ x # 0
        BY <1>4, <3>1
      <4>2. PICK m \in 0..(Blocks + 1) : m = k + 1 /\ m # 0
        BY <2>1
      <4>3. f[m] = [y \in 0..Blocks |-> IF y = 0 \/ m = 0 THEN <<>>
                                       ELSE <<y>> \o f[m - 1][c.block[y].next]]
        BY <1>2, <4>2, Zenon DEF FromIs
      <4>4. f[m][x] = <<x>> \o f[m - 1][c.block[x].next]
        BY <4>1, <4>2, <4>3
      <4> QED BY <4>1, <4>2, <4>4, Zenon
    <3>5. <<s[i]>> \o Rest(s, i + 1) = Rest(s, i)
      BY <1>1, <3>1, RestIs
    <3> QED BY <1>4, <2>1, <3>1, <3>2, <3>3, <3>4, <3>5
  <2> QED BY <2>2, <2>3
<1> HIDE DEF Q
<1>9. Blocks + 1 \in Q
  <2>1. PICK top : top = Blocks + 1
    OBVIOUS
  <2>2. top \in Nat /\ top \in 0..top
    BY <1>1, <2>1
  <2>3. 0..top \subseteq Q
    BY <1>7, <1>8, <2>1, <2>2, InductionUpTo
  <2> QED BY <2>1, <2>2, <2>3
<1>10. f[Blocks + 1][At(s, 1)] = Rest(s, 1)
  <2>1. 1 \in 1..(Len(s) + 1) /\ Len(s) - 1 + 1 <= Blocks + 1
    BY <1>1
  <2> QED BY <1>9, <2>1 DEF Q
<1>11. Rest(s, 1) = s
  <2>1. Len(s) - 1 + 1 = Len(s) /\ \A j \in 1..Len(s) : j + 1 - 1 = j
    BY <1>1
  <2>2. s = [j \in 1..Len(s) |-> s[j]]
    BY <1>1
  <2> QED BY <2>1, <2>2 DEF Rest
<1> QED BY <1>3, <1>10, <1>11 DEF List

-----------------------------------------------------------------------------
(* The pool: what stands in the blocks, and the lists they are in.  first, *)
(* free and blk are the first device, the first free block and the blocks; *)
(* F, D and R the lists of the free blocks, of the devices and of the      *)
(* registers of each device.                                               *)

Requests == [unit : Units \cup {0}, addr : Addrs \cup {None}]
FreeBlocks == [kind : {"free"}, next : 0..Blocks]
DevBlocks ==
    [kind : {"dev"}, next : 0..Blocks, first : 0..Blocks, unit : Units,
     name : DevNames, spoilt : BOOLEAN]
RegBlocks ==
    [kind : {"reg"}, next : 0..Blocks, unit : Units, name : RegNames,
     addr : Addrs, state : {"invalid", "waiting", "ready"},
     from : Requests \cup {None}]
AnyBlock == FreeBlocks \cup DevBlocks \cup RegBlocks

Linked(first, free, blk, F, D, R) ==
    /\ List(blk, free, F)
    /\ List(blk, first, D)
    /\ R \in [Block -> Seq(Block)]
    /\ \A d \in Range(D) : List(blk, blk[d].first, R[d])
Kinds(blk, F, D, R) ==
    /\ \A b \in Range(F) : blk[b] \in FreeBlocks
    /\ \A d \in Range(D) : blk[d] \in DevBlocks
    /\ \A d \in Range(D) : \A r \in Range(R[d]) :
           blk[r] \in RegBlocks /\ blk[r].unit = blk[d].unit
Apart(D, R) ==
    \A d, e \in Range(D) : d # e => Range(R[d]) \cap Range(R[e]) = {}
Everywhere(F, D, R) ==
    \A b \in Block : \/ b \in Range(F) \/ b \in Range(D)
                     \/ \E d \in Range(D) : b \in Range(R[d])

InLists(first, free, blk, F, D, R) ==
    /\ first \in 0..Blocks /\ free \in 0..Blocks
    /\ blk \in [Block -> AnyBlock]
    /\ Linked(first, free, blk, F, D, R)
    /\ Kinds(blk, F, D, R)
    /\ Apart(D, R)
    /\ Everywhere(F, D, R)

Pool(first, free, blk) == \E F, D, R : InLists(first, free, blk, F, D, R)
PoolOf(c) == Pool(c.first_dev, c.first_free, c.block)

\* Blocks of different kinds are different.
LEMMA KindsDiffer ==
  /\ \A x \in FreeBlocks : x.kind = "free" /\ x.next \in 0..Blocks
  /\ \A x \in DevBlocks : /\ x.kind = "dev" /\ x.next \in 0..Blocks
                          /\ x.first \in 0..Blocks /\ x.unit \in Units
                          /\ x.name \in DevNames /\ x.spoilt \in BOOLEAN
  /\ \A x \in RegBlocks : /\ x.kind = "reg" /\ x.next \in 0..Blocks
                          /\ x.unit \in Units /\ x.name \in RegNames
                          /\ x.addr \in Addrs
  /\ FreeBlocks \cap DevBlocks = {} /\ FreeBlocks \cap RegBlocks = {}
  /\ DevBlocks \cap RegBlocks = {}
<1>1. \A x \in FreeBlocks : x.kind = "free" /\ x.next \in 0..Blocks
  BY DEF FreeBlocks
<1>2. \A x \in DevBlocks : /\ x.kind = "dev" /\ x.next \in 0..Blocks
                           /\ x.first \in 0..Blocks /\ x.unit \in Units
                           /\ x.name \in DevNames /\ x.spoilt \in BOOLEAN
  BY DEF DevBlocks
<1>3. \A x \in RegBlocks : /\ x.kind = "reg" /\ x.next \in 0..Blocks
                           /\ x.unit \in Units /\ x.name \in RegNames
                           /\ x.addr \in Addrs
  BY DEF RegBlocks
<1>4. "free" # "dev" /\ "free" # "reg" /\ "dev" # "reg"
  OBVIOUS
<1> HIDE DEF FreeBlocks, DevBlocks, RegBlocks
<1> QED BY <1>1, <1>2, <1>3, <1>4

\* A block is in one list only.
Lonely(F, D, R) ==
    /\ Range(F) \subseteq Block /\ Range(D) \subseteq Block
    /\ Range(F) \cap Range(D) = {}
    /\ \A d \in Range(D) : /\ Range(R[d]) \subseteq Block
                           /\ Range(R[d]) \cap Range(F) = {}
                           /\ Range(R[d]) \cap Range(D) = {}

LEMMA InOneList ==
  ASSUME NEW first, NEW free, NEW blk, NEW F, NEW D, NEW R,
         InLists(first, free, blk, F, D, R)
  PROVE  Lonely(F, D, R)
<1>1. F \in Seq(Block) /\ D \in Seq(Block) /\ \A d \in Range(D) : R[d] \in Seq(Block)
  BY DEF InLists, Linked, List
<1>2. /\ Range(F) \subseteq Block /\ Range(D) \subseteq Block
      /\ \A d \in Range(D) : Range(R[d]) \subseteq Block
  BY <1>1, ListRange
<1>3. \A b \in Range(F) : b \notin Range(D)
  BY KindsDiffer DEF InLists, Kinds
<1>4. \A d \in Range(D) : \A r \in Range(R[d]) : r \notin Range(F) /\ r \notin Range(D)
  BY KindsDiffer DEF InLists, Kinds
<1> QED BY <1>2, <1>3, <1>4 DEF Lonely

\* A block given out of the free list.
LEMMA FreeTaken ==
  ASSUME NEW first, NEW free, NEW blk, NEW F, NEW D, NEW R,
         InLists(first, free, blk, F, D, R), free # 0
  PROVE  /\ free \in Block /\ free \in Range(F) /\ blk[free] \in FreeBlocks
         /\ blk[free].next \in 0..Blocks
         /\ List(blk, blk[free].next, Tail(F))
         /\ Range(Tail(F)) = Range(F) \ {free}
<1>1. List(blk, free, F)
  BY DEF InLists, Linked
<1>2. /\ free \in Range(F) /\ free \in Block
      /\ List(blk, blk[free].next, Tail(F))
      /\ Range(Tail(F)) = Range(F) \ {free}
  BY <1>1, ListTaken
<1>3. blk[free] \in FreeBlocks
  BY <1>2 DEF InLists, Kinds
<1> QED BY <1>2, <1>3, KindsDiffer

LEMMA EmptyList ==
  ASSUME NEW blk
  PROVE  List(blk, 0, <<>>) /\ Range(<<>>) = {} /\ <<>> \in Seq(Block)
<1>1. PICK s : s = <<>>
  OBVIOUS
<1>2. s \in Seq(Block) /\ Len(s) = 0 /\ DOMAIN s = {}
  BY <1>1
<1>3. Range(s) = {} /\ IsInjective(s)
  BY <1>2 DEF Range, IsInjective
<1>4. At(s, 1) = 0 /\ 1..Len(s) = {}
  BY <1>2 DEF At
<1>5. List(blk, 0, s)
  BY <1>2, <1>3, <1>4 DEF List
<1> QED BY <1>1, <1>2, <1>3, <1>5

\* A device is added: it is first, and has no registers.
LEMMA DevPut ==
  ASSUME NEW first, NEW free, NEW blk, NEW F, NEW D, NEW R,
         InLists(first, free, blk, F, D, R), free # 0,
         NEW x \in DevBlocks, x.next = first, x.first = 0
  PROVE  InLists(free, blk[free].next, [blk EXCEPT ![free] = x],
                 Tail(F), Onto(free, D), [R EXCEPT ![free] = <<>>])
<1> DEFINE new == [blk EXCEPT ![free] = x]
           E == Onto(free, D)
           S == [R EXCEPT ![free] = <<>>]
<1>1. Lonely(F, D, R)
  BY InOneList
<1>2. /\ free \in Block /\ free \in Range(F) /\ blk[free].next \in 0..Blocks
      /\ List(blk, blk[free].next, Tail(F)) /\ Range(Tail(F)) = Range(F) \ {free}
  BY FreeTaken
<1>3. /\ first \in 0..Blocks /\ free \in 0..Blocks /\ blk \in [Block -> AnyBlock]
      /\ List(blk, first, D) /\ R \in [Block -> Seq(Block)]
      /\ \A d \in Range(D) : List(blk, blk[d].first, R[d])
  BY DEF InLists, Linked
<1>4. new \in [Block -> AnyBlock] /\ new[free] = x
      /\ \A b \in Block : b # free => new[b] = blk[b]
  BY <1>2, <1>3 DEF AnyBlock
<1>5. free \notin Range(D) /\ \A d \in Range(D) : free \notin Range(R[d])
  BY <1>1, <1>2 DEF Lonely
<1>6. D \in Seq(Block)
  BY <1>3 DEF List
<1>7. Range(E) = {free} \cup Range(D)
  BY <1>2, <1>6, OntoIs
<1>8. S \in [Block -> Seq(Block)] /\ S[free] = <<>> /\ \A d \in Block : d # free => S[d] = R[d]
  BY <1>2, <1>3, EmptyList
<1> HIDE DEF new, E, S
<1>9. List(new, free, E)
  <2>1. \A y \in Range(D) : new[y].next = blk[y].next
    BY <1>1, <1>4, <1>5 DEF Lonely
  <2>2. new[free].next = first
    BY <1>4
  <2> QED BY <1>2, <1>3, <1>5, <2>1, <2>2, ListPut DEF E
<1>10. List(new, blk[free].next, Tail(F))
  <2>1. \A y \in Range(Tail(F)) : new[y].next = blk[y].next
    BY <1>1, <1>2, <1>4 DEF Lonely
  <2> QED BY <1>2, <2>1, ListKept
<1>11. \A d \in Range(E) : List(new, new[d].first, S[d])
  <2>1. List(new, new[free].first, S[free])
    BY <1>4, <1>8, EmptyList
  <2>2. ASSUME NEW d \in Range(D) PROVE List(new, new[d].first, S[d])
    <3>1. d \in Block /\ d # free
      BY <1>1, <1>5 DEF Lonely
    <3>2. List(blk, blk[d].first, R[d])
      BY <1>3
    <3>3. \A y \in Range(R[d]) : new[y].next = blk[y].next
      BY <1>1, <1>4, <1>5 DEF Lonely
    <3>4. List(new, blk[d].first, R[d])
      BY <3>2, <3>3, ListKept
    <3> QED BY <1>4, <1>8, <3>1, <3>4
  <2> QED BY <1>7, <2>1, <2>2
<1>12. Linked(free, blk[free].next, new, Tail(F), E, S)
  BY <1>8, <1>9, <1>10, <1>11 DEF Linked
<1>13. Range(S[free]) = {} /\ \A d \in Range(D) : S[d] = R[d] /\ d # free /\ d \in Block
  BY <1>1, <1>5, <1>8, EmptyList DEF Lonely
<1>14. Kinds(new, Tail(F), E, S)
  <2>1. \A b \in Range(Tail(F)) : new[b] \in FreeBlocks
    BY <1>1, <1>2, <1>4 DEF InLists, Kinds, Lonely
  <2>2. \A d \in Range(E) : new[d] \in DevBlocks
    BY <1>4, <1>7, <1>13 DEF InLists, Kinds
  <2>3. \A d \in Range(E) : \A r \in Range(S[d]) : new[r] \in RegBlocks /\ new[r].unit = new[d].unit
    <3> SUFFICES ASSUME NEW d \in Range(D), NEW r \in Range(R[d])
                 PROVE  new[r] \in RegBlocks /\ new[r].unit = new[d].unit
      BY <1>7, <1>13
    <3>1. r \in Block /\ r # free /\ d \in Block /\ d # free
      BY <1>1, <1>5, <1>13 DEF Lonely
    <3> QED BY <1>4, <3>1 DEF InLists, Kinds
  <2> QED BY <2>1, <2>2, <2>3 DEF Kinds
<1>15. Apart(E, S)
  BY <1>7, <1>13 DEF Apart, InLists
<1>16. Everywhere(Tail(F), E, S)
  BY <1>2, <1>7, <1>13 DEF Everywhere, InLists
<1> QED BY <1>2, <1>3, <1>4, <1>12, <1>14, <1>15, <1>16 DEF InLists, new, E, S

\* A register is added: it is the first of its device.
LEMMA RegPut ==
  ASSUME NEW first, NEW free, NEW blk, NEW F, NEW D, NEW R,
         InLists(first, free, blk, F, D, R), free # 0,
         NEW d \in Range(D), NEW new,
         new \in [Block -> AnyBlock],
         new[free] \in RegBlocks, new[free].next = blk[d].first,
         new[free].unit = blk[d].unit,
         new[d] \in DevBlocks, new[d].next = blk[d].next, new[d].first = free,
         new[d].unit = blk[d].unit,
         \A b \in Block : b # free /\ b # d => new[b] = blk[b]
  PROVE  InLists(first, blk[free].next, new,
                 Tail(F), D, [R EXCEPT ![d] = Onto(free, R[d])])
<1> DEFINE S == [R EXCEPT ![d] = Onto(free, R[d])]
<1>1. Lonely(F, D, R)
  BY InOneList
<1>2. /\ free \in Block /\ free \in Range(F) /\ blk[free].next \in 0..Blocks
      /\ List(blk, blk[free].next, Tail(F)) /\ Range(Tail(F)) = Range(F) \ {free}
  BY FreeTaken
<1>3. /\ first \in 0..Blocks
      /\ List(blk, first, D) /\ R \in [Block -> Seq(Block)]
      /\ \A e \in Range(D) : List(blk, blk[e].first, R[e])
  BY DEF InLists, Linked
<1>4. d \in Block /\ d # free /\ free \notin Range(D)
      /\ \A e \in Range(D) : free \notin Range(R[e]) /\ d \notin Range(R[e])
  BY <1>1, <1>2 DEF Lonely
<1>5. R[d] \in Seq(Block)
  BY <1>3, <1>4
<1>6. Range(Onto(free, R[d])) = {free} \cup Range(R[d]) /\ Onto(free, R[d]) \in Seq(Block)
  BY <1>2, <1>5, OntoIs
<1>7. /\ S \in [Block -> Seq(Block)] /\ S[d] = Onto(free, R[d])
      /\ \A e \in Block : e # d => S[e] = R[e]
  BY <1>3, <1>4, <1>6
<1> HIDE DEF S
<1>8. \A e \in Range(D) : new[e].next = blk[e].next /\ new[e] \in DevBlocks /\ new[e].unit = blk[e].unit
  BY <1>1, <1>4 DEF Lonely, InLists, Kinds
<1>9. \A e \in Range(D) : \A r \in Range(R[e]) : new[r] = blk[r]
  BY <1>1, <1>4 DEF Lonely
<1>10. List(new, first, D)
  BY <1>3, <1>8, ListKept
<1>11. List(new, blk[free].next, Tail(F))
  <2>1. \A y \in Range(Tail(F)) : new[y].next = blk[y].next
    BY <1>1, <1>2 DEF Lonely
  <2> QED BY <1>2, <2>1, ListKept
<1>12. \A e \in Range(D) : List(new, new[e].first, S[e])
  <2> SUFFICES ASSUME NEW e \in Range(D) PROVE List(new, new[e].first, S[e])
    OBVIOUS
  <2>1. List(blk, blk[e].first, R[e]) /\ \A y \in Range(R[e]) : new[y].next = blk[y].next
    BY <1>3, <1>9
  <2>2. CASE e = d
    <3>1. List(new, free, Onto(free, R[d]))
      BY <1>2, <1>4, <2>1, <2>2, ListPut
    <3> QED BY <1>7, <2>2, <3>1
  <2>3. CASE e # d
    <3>1. List(new, blk[e].first, R[e])
      BY <2>1, ListKept
    <3>2. e \in Block /\ e # free
      BY <1>1, <1>4 DEF Lonely
    <3>3. new[e].first = blk[e].first /\ S[e] = R[e]
      BY <1>7, <2>3, <3>2
    <3> QED BY <3>1, <3>3
  <2> QED BY <2>2, <2>3
<1>13. Linked(first, blk[free].next, new, Tail(F), D, S)
  BY <1>7, <1>10, <1>11, <1>12 DEF Linked
<1>14. \A e \in Range(D) : Range(S[e]) = IF e = d THEN {free} \cup Range(R[e]) ELSE Range(R[e])
  BY <1>1, <1>6, <1>7 DEF Lonely
<1>15. Kinds(new, Tail(F), D, S)
  <2>1. \A b \in Range(Tail(F)) : new[b] \in FreeBlocks
    BY <1>1, <1>2 DEF InLists, Kinds, Lonely
  <2>2. \A e \in Range(D) : \A r \in Range(S[e]) : new[r] \in RegBlocks /\ new[r].unit = new[e].unit
    <3> SUFFICES ASSUME NEW e \in Range(D), NEW r \in Range(S[e])
                 PROVE  new[r] \in RegBlocks /\ new[r].unit = new[e].unit
      OBVIOUS
    <3>1. r \in Range(R[e]) \/ (r = free /\ e = d)
      BY <1>14
    <3>2. CASE r \in Range(R[e])
      BY <1>8, <1>9, <3>2 DEF InLists, Kinds
    <3> QED BY <3>1, <3>2
  <2> QED BY <1>8, <2>1, <2>2 DEF Kinds
<1>16. Apart(D, S)
  <2> SUFFICES ASSUME NEW e \in Range(D), NEW g \in Range(D), e # g
               PROVE  Range(S[e]) \cap Range(S[g]) = {}
    BY DEF Apart
  <2>1. Range(R[e]) \cap Range(R[g]) = {}
    BY DEF InLists, Apart
  <2> QED BY <1>4, <1>14, <2>1
<1>17. Everywhere(Tail(F), D, S)
  <2> SUFFICES ASSUME NEW b \in Block
               PROVE  \/ b \in Range(Tail(F)) \/ b \in Range(D)
                      \/ \E e \in Range(D) : b \in Range(S[e])
    BY DEF Everywhere
  <2>1. CASE b \in Range(F)
    BY <1>2, <1>14, <2>1
  <2>2. CASE b \notin Range(F)
    BY <1>14, <2>2 DEF InLists, Everywhere
  <2> QED BY <2>1, <2>2
<1> QED BY <1>2, <1>3, <1>13, <1>15, <1>16, <1>17 DEF InLists, S

\* A register is freed: s is what is left of the registers of its device.
LEMMA RegOut ==
  ASSUME NEW first, NEW free, NEW blk, NEW F, NEW D, NEW R,
         InLists(first, free, blk, F, D, R),
         NEW d \in Range(D), NEW r \in Range(R[d]), NEW new, NEW s,
         new \in [Block -> AnyBlock],
         new[r] \in FreeBlocks, new[r].next = free,
         new[d] \in DevBlocks, new[d].next = blk[d].next, new[d].unit = blk[d].unit,
         List(new, new[d].first, s), Range(s) = Range(R[d]) \ {r},
         \A b \in Block : b # r /\ b # d =>
             \/ new[b] = blk[b]
             \/ b \in Range(s) /\ new[b] \in RegBlocks /\ new[b].unit = blk[b].unit
  PROVE  InLists(first, r, new, Onto(r, F), D, [R EXCEPT ![d] = s])
<1> DEFINE S == [R EXCEPT ![d] = s]
<1>1. Lonely(F, D, R)
  BY InOneList
<1>2. /\ first \in 0..Blocks /\ List(blk, free, F)
      /\ List(blk, first, D) /\ R \in [Block -> Seq(Block)]
      /\ \A e \in Range(D) : List(blk, blk[e].first, R[e])
  BY DEF InLists, Linked
<1>3. d \in Block /\ r \in Block /\ r # d /\ r \notin Range(F) /\ r \notin Range(D) /\ d \notin Range(F)
  BY <1>1 DEF Lonely
<1>4. \A e \in Range(D) : e # d => r \notin Range(R[e]) /\ Range(s) \cap Range(R[e]) = {} /\ d \notin Range(R[e])
  BY <1>1 DEF InLists, Apart, Lonely
<1>5. s \in Seq(Block) /\ F \in Seq(Block)
  BY <1>2 DEF List
<1>6. S \in [Block -> Seq(Block)] /\ S[d] = s /\ \A e \in Block : e # d => S[e] = R[e]
  BY <1>2, <1>3, <1>5
<1>7. Range(Onto(r, F)) = {r} \cup Range(F)
  BY <1>3, <1>5, OntoIs
<1> HIDE DEF S
<1>8. \A b \in Range(F) : new[b] = blk[b]
  BY <1>1, <1>3 DEF Lonely
<1>9. \A e \in Range(D) : e # d => new[e] = blk[e]
  <2> SUFFICES ASSUME NEW e \in Range(D), e # d PROVE new[e] = blk[e]
    OBVIOUS
  <2>1. e \in Block /\ e # r /\ e \notin Range(s)
    BY <1>1, <1>3 DEF Lonely
  <2> QED BY <2>1
<1>10. \A e \in Range(D) : e # d => \A b \in Range(R[e]) : new[b] = blk[b]
  <2> SUFFICES ASSUME NEW e \in Range(D), e # d, NEW b \in Range(R[e]) PROVE new[b] = blk[b]
    OBVIOUS
  <2>1. b \in Block /\ b # r /\ b # d /\ b \notin Range(s)
    BY <1>1, <1>4 DEF Lonely
  <2> QED BY <2>1
<1>11. List(new, r, Onto(r, F))
  <2>1. \A y \in Range(F) : new[y].next = blk[y].next
    BY <1>8
  <2> QED BY <1>2, <1>3, <2>1, ListPut
<1>12. List(new, first, D)
  <2>1. \A y \in Range(D) : new[y].next = blk[y].next
    BY <1>9
  <2> QED BY <1>2, <2>1, ListKept
<1>13. \A e \in Range(D) : List(new, new[e].first, S[e])
  <2> SUFFICES ASSUME NEW e \in Range(D), e # d PROVE List(new, new[e].first, S[e])
    BY <1>6
  <2>1. List(blk, blk[e].first, R[e]) /\ \A y \in Range(R[e]) : new[y].next = blk[y].next
    BY <1>2, <1>10
  <2>2. List(new, blk[e].first, R[e])
    BY <2>1, ListKept
  <2>3. e \in Block
    BY <1>1 DEF Lonely
  <2> QED BY <1>6, <1>9, <2>2, <2>3
<1>14. Linked(first, r, new, Onto(r, F), D, S)
  BY <1>6, <1>11, <1>12, <1>13 DEF Linked
<1>15. \A e \in Range(D) : Range(S[e]) = IF e = d THEN Range(R[e]) \ {r} ELSE Range(R[e])
  BY <1>1, <1>6 DEF Lonely
<1>16. Kinds(new, Onto(r, F), D, S)
  <2>1. \A b \in Range(Onto(r, F)) : new[b] \in FreeBlocks
    BY <1>7, <1>8 DEF InLists, Kinds
  <2>2. \A e \in Range(D) : new[e] \in DevBlocks
    BY <1>9 DEF InLists, Kinds
  <2>3. \A b \in Range(s) : new[b] \in RegBlocks /\ new[b].unit = new[d].unit
    <3> SUFFICES ASSUME NEW b \in Range(s) PROVE new[b] \in RegBlocks /\ new[b].unit = new[d].unit
      OBVIOUS
    <3>1. b \in Block /\ b # r /\ b # d /\ b \in Range(R[d])
      BY <1>1 DEF Lonely
    <3>2. blk[b] \in RegBlocks /\ blk[b].unit = blk[d].unit
      BY <3>1 DEF InLists, Kinds
    <3> QED BY <3>1, <3>2
  <2>4. \A e \in Range(D) : \A b \in Range(S[e]) : new[b] \in RegBlocks /\ new[b].unit = new[e].unit
    <3> SUFFICES ASSUME NEW e \in Range(D), NEW b \in Range(S[e])
                 PROVE  new[b] \in RegBlocks /\ new[b].unit = new[e].unit
      OBVIOUS
    <3>1. CASE e = d
      BY <1>6, <2>3, <3>1
    <3>2. CASE e # d
      <4>1. b \in Range(R[e])
        BY <1>15, <3>2
      <4> QED BY <1>9, <1>10, <3>2, <4>1 DEF InLists, Kinds
    <3> QED BY <3>1, <3>2
  <2> QED BY <2>1, <2>2, <2>4 DEF Kinds
<1>17. Apart(D, S)
  <2> SUFFICES ASSUME NEW e \in Range(D), NEW g \in Range(D), e # g
               PROVE  Range(S[e]) \cap Range(S[g]) = {}
    BY DEF Apart
  <2>1. Range(R[e]) \cap Range(R[g]) = {}
    BY DEF InLists, Apart
  <2> QED BY <1>15, <2>1
<1>18. Everywhere(Onto(r, F), D, S)
  <2> SUFFICES ASSUME NEW b \in Block
               PROVE  \/ b \in Range(Onto(r, F)) \/ b \in Range(D)
                      \/ \E e \in Range(D) : b \in Range(S[e])
    BY DEF Everywhere
  <2>1. CASE b = r
    BY <1>7, <2>1
  <2>2. CASE b # r
    BY <1>7, <1>15, <2>2 DEF InLists, Everywhere
  <2> QED BY <2>1, <2>2
<1>19. r \in 0..Blocks
  BY <1>3 DEF Block
<1> QED BY <1>2, <1>14, <1>16, <1>17, <1>18, <1>19 DEF InLists, S

\* A device is freed with its registers: E are the devices that are left, and
\* G the free blocks with those that are freed.
LEMMA DevOut ==
  ASSUME NEW first, NEW free, NEW blk, NEW F, NEW D, NEW R,
         InLists(first, free, blk, F, D, R),
         NEW d \in Range(D), NEW new, NEW head \in 0..Blocks, NEW G, NEW E,
         new \in [Block -> AnyBlock],
         List(new, d, G), Range(G) = Range(F) \cup Range(R[d]) \cup {d},
         \A b \in Range(G) : new[b] \in FreeBlocks,
         List(new, head, E), Range(E) = Range(D) \ {d},
         \A e \in Range(E) : /\ new[e] \in DevBlocks /\ new[e].first = blk[e].first
                             /\ new[e].unit = blk[e].unit,
         \A b \in Block : b \notin Range(G) /\ b \notin Range(E) => new[b] = blk[b]
  PROVE  InLists(head, d, new, G, E, R)
<1>1. Lonely(F, D, R)
  BY InOneList
<1>2. R \in [Block -> Seq(Block)] /\ \A e \in Range(D) : List(blk, blk[e].first, R[e])
  BY DEF InLists, Linked
<1>3. \A e \in Range(E) : \A b \in Range(R[e]) : new[b] = blk[b]
  <2> SUFFICES ASSUME NEW e \in Range(E), NEW b \in Range(R[e]) PROVE new[b] = blk[b]
    OBVIOUS
  <2>1. b \in Block /\ b \notin Range(F) /\ b \notin Range(D)
    BY <1>1 DEF Lonely
  <2>2. b \notin Range(R[d])
    BY DEF InLists, Apart
  <2> QED BY <2>1, <2>2
<1>4. \A e \in Range(E) : List(new, new[e].first, R[e])
  <2> SUFFICES ASSUME NEW e \in Range(E) PROVE List(new, new[e].first, R[e])
    OBVIOUS
  <2>1. List(blk, blk[e].first, R[e]) /\ \A y \in Range(R[e]) : new[y].next = blk[y].next
    BY <1>2, <1>3
  <2>2. List(new, blk[e].first, R[e])
    BY <2>1, ListKept
  <2> QED BY <2>2
<1>5. Linked(head, d, new, G, E, R)
  BY <1>2, <1>4 DEF Linked
<1>6. Kinds(new, G, E, R)
  <2>1. \A e \in Range(E) : \A r \in Range(R[e]) : new[r] \in RegBlocks /\ new[r].unit = new[e].unit
    BY <1>3 DEF InLists, Kinds
  <2> QED BY <2>1 DEF Kinds
<1>7. Apart(E, R)
  BY DEF InLists, Apart
<1>8. Everywhere(G, E, R)
  BY DEF InLists, Everywhere
<1>9. d \in 0..Blocks
  BY <1>1 DEF Lonely, Block
<1> QED BY <1>5, <1>6, <1>7, <1>8, <1>9 DEF InLists

\* What is written into blocks that keep their kind, successor, registers and
\* unit changes no list.
LEMMA StatesKept ==
  ASSUME NEW first, NEW free, NEW blk, NEW F, NEW D, NEW R,
         InLists(first, free, blk, F, D, R),
         NEW new \in [Block -> AnyBlock],
         \A b \in Block :
             \/ new[b] = blk[b]
             \/ /\ blk[b] \in DevBlocks /\ new[b] \in DevBlocks
                /\ new[b].next = blk[b].next /\ new[b].first = blk[b].first
                /\ new[b].unit = blk[b].unit
             \/ /\ blk[b] \in RegBlocks /\ new[b] \in RegBlocks
                /\ new[b].next = blk[b].next /\ new[b].unit = blk[b].unit
  PROVE  InLists(first, free, new, F, D, R)
<1>1. Lonely(F, D, R)
  BY InOneList
<1>2. /\ List(blk, free, F) /\ List(blk, first, D) /\ R \in [Block -> Seq(Block)]
      /\ \A e \in Range(D) : List(blk, blk[e].first, R[e])
  BY DEF InLists, Linked
<1>3. \A b \in Block : new[b].next = blk[b].next
  OBVIOUS
<1>4. \A b \in Range(F) : b \in Block /\ new[b] = blk[b]
  BY <1>1, KindsDiffer DEF Lonely, InLists, Kinds
<1>5. \A e \in Range(D) : /\ e \in Block /\ new[e] \in DevBlocks
                          /\ new[e].first = blk[e].first /\ new[e].unit = blk[e].unit
  BY <1>1, KindsDiffer DEF Lonely, InLists, Kinds
<1>6. \A e \in Range(D) : \A r \in Range(R[e]) :
          r \in Block /\ new[r] \in RegBlocks /\ new[r].unit = blk[r].unit
  BY <1>1, KindsDiffer DEF Lonely, InLists, Kinds
<1>7. List(new, free, F) /\ List(new, first, D)
  BY <1>2, <1>3, <1>4, <1>5, ListKept
<1>8. \A e \in Range(D) : List(new, new[e].first, R[e])
  <2> SUFFICES ASSUME NEW e \in Range(D) PROVE List(new, new[e].first, R[e])
    OBVIOUS
  <2>1. List(blk, blk[e].first, R[e]) /\ \A y \in Range(R[e]) : new[y].next = blk[y].next
    BY <1>2, <1>3, <1>6
  <2>2. List(new, blk[e].first, R[e])
    BY <2>1, ListKept
  <2> QED BY <1>5, <2>2
<1>9. Linked(first, free, new, F, D, R)
  BY <1>2, <1>7, <1>8 DEF Linked
<1>10. Kinds(new, F, D, R)
  <2>1. \A b \in Range(F) : new[b] \in FreeBlocks
    BY <1>4 DEF InLists, Kinds
  <2>2. \A e \in Range(D) : \A r \in Range(R[e]) : new[r].unit = new[e].unit
    BY <1>5, <1>6 DEF InLists, Kinds
  <2> QED BY <1>5, <1>6, <2>1, <2>2 DEF Kinds
<1> QED BY <1>9, <1>10 DEF InLists

-----------------------------------------------------------------------------
(* What the look-ups find.                                                 *)

In(c, F, D, R) == InLists(c.first_dev, c.first_free, c.block, F, D, R)

LEMMA WalksAre ==
  ASSUME NEW c, NEW F, NEW D, NEW R, In(c, F, D, R)
  PROVE  /\ Chain(c, c.first_free) = F
         /\ Devs(c) = D /\ D \in Seq(Block)
         /\ \A d \in Range(D) : Regs(c, d) = R[d] /\ R[d] \in Seq(Block)
<1>1. /\ List(c.block, c.first_free, F) /\ List(c.block, c.first_dev, D)
      /\ \A d \in Range(D) : List(c.block, c.block[d].first, R[d])
  BY DEF In, InLists, Linked
<1>2. Chain(c, c.first_free) = F /\ Chain(c, c.first_dev) = D
  BY <1>1, ChainIs
<1>3. ASSUME NEW d \in Range(D) PROVE Chain(c, c.block[d].first) = R[d]
  <2>1. List(c.block, c.block[d].first, R[d])
    BY <1>1
  <2> QED BY <2>1, ChainIs
<1> QED BY <1>1, <1>2, <1>3 DEF Devs, Regs, List

\* FirstIn finds a block of the set if there is one in the list.
LEMMA FoundIn ==
  ASSUME NEW s \in Seq(Block), NEW S \in SUBSET Range(s)
  PROVE  \/ FirstIn[s][S] = 0 /\ S = {}
         \/ FirstIn[s][S] \in S /\ FirstIn[s][S] # 0
<1>1. Range(s) \subseteq Block /\ Range(s) = {s[i] : i \in 1..Len(s)}
  BY ListRange
<1>2. \/ FirstIn[s][S] = 0 /\ Range(s) \cap S = {}
      \/ \E i \in 1..Len(s) : /\ FirstIn[s][S] = s[i] /\ s[i] \in S
                              /\ \A j \in 1..(i - 1) : s[j] \notin S
  BY <1>1, FirstInIs
<1>3. 0 \notin Block
  BY TablesAssumption DEF Block
<1> QED BY <1>1, <1>2, <1>3

LEMMA ByIdFinds ==
  ASSUME NEW c, NEW F, NEW D, NEW R, In(c, F, D, R), NEW u
  PROVE  \/ GetDeviceById(c, u) = 0
            /\ \A d \in Range(D) : ~(c.block[d].unit = u /\ ~c.block[d].spoilt)
         \/ /\ GetDeviceById(c, u) \in Range(D) /\ GetDeviceById(c, u) # 0
            /\ c.block[GetDeviceById(c, u)].unit = u
            /\ ~c.block[GetDeviceById(c, u)].spoilt
<1> DEFINE S == {d \in Range(D) : c.block[d].unit = u /\ ~c.block[d].spoilt}
<1>1. GetDeviceById(c, u) = FirstIn[D][S] /\ D \in Seq(Block)
  BY WalksAre DEF GetDeviceById
<1>2. \/ FirstIn[D][S] = 0 /\ S = {}
      \/ FirstIn[D][S] \in S /\ FirstIn[D][S] # 0
  BY <1>1, FoundIn
<1> QED BY <1>1, <1>2

LEMMA ByNameFinds ==
  ASSUME NEW c, NEW F, NEW D, NEW R, In(c, F, D, R), NEW n
  PROVE  \/ GetDeviceByName(c, n) = 0 /\ \A d \in Range(D) : c.block[d].name # n
         \/ /\ GetDeviceByName(c, n) \in Range(D) /\ GetDeviceByName(c, n) # 0
            /\ c.block[GetDeviceByName(c, n)].name = n
<1> DEFINE S == {d \in Range(D) : c.block[d].name = n}
<1>1. GetDeviceByName(c, n) = FirstIn[D][S] /\ D \in Seq(Block)
  BY WalksAre DEF GetDeviceByName
<1>2. \/ FirstIn[D][S] = 0 /\ S = {}
      \/ FirstIn[D][S] \in S /\ FirstIn[D][S] # 0
  BY <1>1, FoundIn
<1> QED BY <1>1, <1>2

LEMMA OfDevFinds ==
  ASSUME NEW c, NEW F, NEW D, NEW R, In(c, F, D, R), NEW d \in Range(D), NEW n
  PROVE  \/ DevGetRegByName(c, d, n) = 0 /\ \A r \in Range(R[d]) : c.block[r].name # n
         \/ /\ DevGetRegByName(c, d, n) \in Range(R[d]) /\ DevGetRegByName(c, d, n) # 0
            /\ c.block[DevGetRegByName(c, d, n)].name = n
<1> DEFINE S == {r \in Range(R[d]) : c.block[r].name = n}
<1>0. Regs(c, d) = R[d] /\ R[d] \in Seq(Block)
  BY WalksAre
<1>1. DevGetRegByName(c, d, n) = FirstIn[R[d]][S] /\ R[d] \in Seq(Block)
  BY <1>0, Zenon DEF DevGetRegByName
<1>2. \/ FirstIn[R[d]][S] = 0 /\ S = {}
      \/ FirstIn[R[d]][S] \in S /\ FirstIn[R[d]][S] # 0
  BY <1>1, FoundIn
<1> QED BY <1>1, <1>2

LEMMA RegFinds ==
  ASSUME NEW c, NEW F, NEW D, NEW R, In(c, F, D, R), NEW n
  PROVE  \/ /\ GetReg(c, n) = 0
            /\ \A d \in Range(D) : \A r \in Range(R[d]) : c.block[r].name # n
         \/ /\ GetReg(c, n) # 0 /\ c.block[GetReg(c, n)].name = n
            /\ \E d \in Range(D) : GetReg(c, n) \in Range(R[d])
<1> DEFINE found == [d \in 0..Blocks |-> IF d = 0 THEN 0 ELSE DevGetRegByName(c, d, n)]
           S == {d \in Range(D) : found[d] # 0}
<1>1. GetReg(c, n) = found[FirstIn[D][S]] /\ D \in Seq(Block)
  BY WalksAre DEF GetReg
<1>2. \/ FirstIn[D][S] = 0 /\ S = {}
      \/ FirstIn[D][S] \in S /\ FirstIn[D][S] # 0
  <2> HIDE DEF found
  <2> QED BY <1>1, FoundIn
<1>3. \A d \in Range(D) : d \in 0..Blocks /\ d # 0
  BY <1>1, ListRange, TablesAssumption DEF Block
<1>4. \A d \in Range(D) : found[d] = DevGetRegByName(c, d, n)
  BY <1>3
<1>5. found[0] = 0
  BY TablesAssumption
<1> HIDE DEF found
<1>6. CASE S = {}
  <2>1. GetReg(c, n) = 0
    BY <1>1, <1>2, <1>5, <1>6
  <2>2. ASSUME NEW d \in Range(D), NEW r \in Range(R[d]) PROVE c.block[r].name # n
    <3>1. DevGetRegByName(c, d, n) = 0
      BY <1>4, <1>6
    <3> QED BY <3>1, OfDevFinds
  <2> QED BY <2>1, <2>2
<1>7. CASE S # {}
  <2>1. PICK d \in Range(D) : d = FirstIn[D][S] /\ found[d] # 0
    BY <1>2, <1>7
  <2>2. GetReg(c, n) = DevGetRegByName(c, d, n) /\ GetReg(c, n) # 0
    BY <1>1, <1>4, <2>1
  <2>3. GetReg(c, n) \in Range(R[d]) /\ c.block[GetReg(c, n)].name = n
    BY <2>2, OfDevFinds
  <2> QED BY <2>2, <2>3
<1> QED BY <1>6, <1>7

\* A register that is in a list: its device, or another of the same unit that
\* comes before, unless the unit ids are spoilt.
LEMMA DevOfReg ==
  ASSUME NEW c, NEW F, NEW D, NEW R, In(c, F, D, R),
         NEW d \in Range(D), NEW r \in Range(R[d])
  PROVE  /\ c.block[r].unit = c.block[d].unit /\ c.block[r].kind = "reg"
         /\ RegGetDev(c, r) = GetDeviceById(c, c.block[r].unit)
<1>1. c.block[r] \in RegBlocks /\ c.block[r].unit = c.block[d].unit
  BY DEF In, InLists, Kinds
<1>2. c.block[r].kind = "reg"
  BY <1>1, KindsDiffer
<1> QED BY <1>1, <1>2 DEF RegGetDev

\* The block before one in a list that is not the first.
LEMMA BeforeIs ==
  ASSUME NEW c, NEW s, NEW b, List(c.block, b, s), NEW k \in 2..Len(s)
  PROVE  Before(c, s, s[k]) = s[k - 1]
<1>1. s \in Seq(Block) /\ IsInjective(s) /\ DOMAIN s = 1..Len(s) /\ Len(s) \in Nat
  BY DEF List
<1>2. k \in Nat /\ k - 1 \in 1..Len(s) /\ k \in 1..Len(s) /\ (k - 1) + 1 = k
  BY <1>1
<1>3. 0 \notin Block
  BY TablesAssumption DEF Block
<1> DEFINE S == {x \in Range(s) : c.block[x].next = s[k]}
<1>4. S = {s[k - 1]}
  <2>1. \A i \in 1..Len(s) : c.block[s[i]].next = IF i + 1 \in 1..Len(s) THEN s[i + 1] ELSE 0
    BY DEF List, At
  <2>2. c.block[s[k - 1]].next = s[k]
    BY <1>2, <2>1
  <2>3. s[k] \in Block /\ s[k] # 0
    BY <1>1, <1>2, <1>3
  <2>4. ASSUME NEW i \in 1..Len(s), c.block[s[i]].next = s[k] PROVE i = k - 1
    <3>1. i + 1 \in 1..Len(s) /\ s[i + 1] = s[k]
      BY <2>1, <2>3, <2>4
    <3>2. i + 1 = k
      BY <1>1, <1>2, <3>1 DEF IsInjective
    <3> QED BY <1>2, <3>2
  <2>5. Range(s) = {s[i] : i \in 1..Len(s)}
    BY <1>1, ListRange
  <2> QED BY <1>2, <2>2, <2>4, <2>5
<1>5. \/ FirstIn[s][S] = 0 /\ S = {}
      \/ FirstIn[s][S] \in S /\ FirstIn[s][S] # 0
  BY <1>1, FoundIn
<1> QED BY <1>4, <1>5 DEF Before

-----------------------------------------------------------------------------
(* The functions on the pool.                                              *)

Kept == {x \in Definitions : x.count # 0}
Measures == [1..Slots -> Kept \cup {None}]
Tabs == [first_dev : 0..Blocks, first_free : 0..Blocks,
         block : [Block -> AnyBlock], meas : Measures]

\* The same but for what it is linked to.
Alike(x, y) ==
    /\ x.kind = y.kind
    /\ x.kind = "dev" => x.unit = y.unit /\ x.name = y.name /\ x.spoilt = y.spoilt
    /\ x.kind = "reg" => /\ x.unit = y.unit /\ x.name = y.name /\ x.addr = y.addr
                         /\ x.state = y.state /\ x.from = y.from

LEMMA FreeIs ==
  ASSUME NEW c \in Tabs, NEW b \in Block
  PROVE  /\ ModbusFree(c, b) \in Tabs
         /\ ModbusFree(c, b).first_dev = c.first_dev
         /\ ModbusFree(c, b).meas = c.meas
         /\ ModbusFree(c, b).first_free = b
         /\ ModbusFree(c, b).block[b] \in FreeBlocks
         /\ ModbusFree(c, b).block[b].next = c.first_free
         /\ \A x \in Block : x # b => ModbusFree(c, b).block[x] = c.block[x]
<1>1. /\ c.first_dev \in 0..Blocks /\ c.first_free \in 0..Blocks
      /\ c.block \in [Block -> AnyBlock] /\ c.meas \in Measures
      /\ c = [first_dev |-> c.first_dev, first_free |-> c.first_free,
              block |-> c.block, meas |-> c.meas]
  BY DEF Tabs
<1>2. PICK x : x = FreeBlock(c.first_free)
  OBVIOUS
<1>3. x \in FreeBlocks /\ x.next = c.first_free
  BY <1>1, <1>2 DEF FreeBlock, FreeBlocks
<1>4. PICK new : new = [c.block EXCEPT ![b] = x]
  OBVIOUS
<1>5. /\ new \in [Block -> AnyBlock] /\ new[b] = x
      /\ \A y \in Block : y # b => new[y] = c.block[y]
  BY <1>1, <1>3, <1>4 DEF AnyBlock
<1>6. ModbusFree(c, b) = [first_dev |-> c.first_dev, first_free |-> b, block |-> new, meas |-> c.meas]
  <2>1. PICK y : y = [c EXCEPT !.block = new]
    OBVIOUS
  <2>2. ModbusFree(c, b) = [y EXCEPT !.first_free = b]
    BY <1>2, <1>4, <2>1 DEF ModbusFree
  <2>3. y = [first_dev |-> c.first_dev, first_free |-> c.first_free, block |-> new, meas |-> c.meas]
    BY <1>1, <2>1
  <2> QED BY <2>2, <2>3
<1>7. b \in 0..Blocks
  BY DEF Block
<1> QED BY <1>1, <1>3, <1>5, <1>6, <1>7 DEF Tabs

FreedIs(f, n, c, list) ==
    f = [i \in 0..n |-> IF i = 0 THEN c ELSE ModbusFree(f[i - 1], list[i])]

LEMMA FreedExists ==
  ASSUME NEW c, NEW list, NEW n \in Nat
  PROVE  \E f : FreedIs(f, n, c, list)
<1> DEFINE Q == {k \in Nat : \E f : FreedIs(f, k, c, list)}
<1>1. 0 \in Q
  <2>1. FreedIs([i \in 0..0 |-> c], 0, c, list)
    BY DEF FreedIs
  <2> QED BY <2>1
<1>2. ASSUME NEW k \in Nat, k \in Q PROVE k + 1 \in Q
  <2>1. PICK f : FreedIs(f, k, c, list)
    BY <1>2
  <2> DEFINE g == [i \in 0..(k + 1) |-> IF i = k + 1 THEN ModbusFree(f[k], list[i]) ELSE f[i]]
  <2>2. \A i \in 0..k : g[i] = f[i]
    OBVIOUS
  <2>3. g[k + 1] = ModbusFree(g[k], list[k + 1])
    <3>1. g[k] = f[k] /\ k + 1 \in 0..(k + 1)
      BY <2>2
    <3>2. g[k + 1] = ModbusFree(f[k], list[k + 1])
      BY <3>1
    <3> QED BY <3>1, <3>2
  <2>4. \A i \in 0..k : f[i] = IF i = 0 THEN c ELSE ModbusFree(f[i - 1], list[i])
    BY <2>1 DEF FreedIs
  <2>5. g = [i \in 0..(k + 1) |-> g[i]]
    OBVIOUS
  <2> HIDE DEF g
  <2>6. \A i \in 0..(k + 1) : g[i] = IF i = 0 THEN c ELSE ModbusFree(g[i - 1], list[i])
    <3> SUFFICES ASSUME NEW i \in 0..(k + 1)
                 PROVE  g[i] = IF i = 0 THEN c ELSE ModbusFree(g[i - 1], list[i])
      OBVIOUS
    <3>1. CASE i = 0
      BY <2>2, <2>4, <3>1
    <3>2. CASE i # 0 /\ i # k + 1
      <4>1. i \in 0..k /\ i - 1 \in 0..k
        BY <3>2
      <4> QED BY <2>2, <2>4, <3>2, <4>1
    <3>3. CASE i = k + 1
      <4>1. i - 1 = k /\ i # 0
        BY <3>3
      <4> QED BY <2>3, <3>3, <4>1
    <3> QED BY <3>1, <3>2, <3>3
  <2>7. FreedIs(g, k + 1, c, list)
    BY <2>5, <2>6 DEF FreedIs
  <2> QED BY <2>7
<1> HIDE DEF Q
<1>3. Nat \subseteq Q
  BY <1>1, <1>2, Induction
<1> QED BY <1>3 DEF Q

\* The free list c has when the blocks of X have been freed into that of F.
FreedTo(e, c, F, X, G) ==
    /\ e \in Tabs /\ e.first_dev = c.first_dev /\ e.meas = c.meas
    /\ List(e.block, e.first_free, G)
    /\ Range(G) = Range(F) \cup X
    /\ \A b \in Range(G) : e.block[b] \in FreeBlocks
    /\ \A b \in Block \ X : e.block[b] = c.block[b]

LEMMA FreeAllIs ==
  ASSUME NEW c \in Tabs, NEW F, List(c.block, c.first_free, F),
         \A b \in Range(F) : c.block[b] \in FreeBlocks,
         NEW q \in Seq(Block), IsInjective(q), Range(q) \cap Range(F) = {}
  PROVE  \E G : FreedTo(FreeAll(c, q), c, F, Range(q), G)
<1>1. PICK n \in Nat : n = Len(q)
  OBVIOUS
<1> DEFINE f == CHOOSE f : FreedIs(f, n, c, q)
<1>2. FreedIs(f, n, c, q)
  BY FreedExists
<1>3. FreeAll(c, q) = f[n]
  BY <1>1 DEF FreeAll, FreedIs
<1> HIDE DEF f
<1> DEFINE UpTo(k) == {q[i] : i \in 1..k}
           Q == {k \in 0..n : \E G : FreedTo(f[k], c, F, UpTo(k), G)}
<1>4. 0 \in Q
  <2>1. f[0] = c /\ 0 \in 0..n
    BY <1>2 DEF FreedIs
  <2>2. UpTo(0) = {}
    OBVIOUS
  <2> HIDE DEF UpTo
  <2>3. FreedTo(c, c, F, {}, F)
    BY DEF FreedTo
  <2> QED BY <2>1, <2>2, <2>3
<1>5. ASSUME NEW k \in 0..n, k \in Q, k < n PROVE k + 1 \in Q
  <2>1. PICK G : FreedTo(f[k], c, F, UpTo(k), G)
    BY <1>5
  <2>2. PICK m \in 1..n : m = k + 1 /\ m - 1 = k
    BY <1>5
  <2>3. PICK x \in Block : x = q[m]
    BY <1>1
  <2>4. PICK e : e = f[k]
    OBVIOUS
  <2>5. f[m] = ModbusFree(e, x)
    BY <1>2, <2>2, <2>3, <2>4 DEF FreedIs
  <2>6. UpTo(m) = UpTo(k) \cup {x}
    BY <2>2, <2>3
  <2>7. x \notin UpTo(k) /\ x \in Range(q)
    <3>1. \A i \in 1..k : i \in 1..n /\ i # m
      BY <2>2
    <3>2. DOMAIN q = 1..n
      BY <1>1
    <3> QED BY <2>2, <2>3, <3>1, <3>2 DEF IsInjective, Range
  <2>8. FreedTo(e, c, F, UpTo(k), G)
    BY <2>1, <2>4
  <2> HIDE DEF UpTo
  <2>9. e \in Tabs /\ x \notin Range(G)
    BY <2>7, <2>8 DEF FreedTo
  <2>10. PICK h : h = ModbusFree(e, x)
    OBVIOUS
  <2>11. /\ h \in Tabs /\ h.first_dev = e.first_dev /\ h.meas = e.meas
         /\ h.first_free = x /\ h.block[x] \in FreeBlocks /\ h.block[x].next = e.first_free
         /\ \A y \in Block : y # x => h.block[y] = e.block[y]
    BY <2>9, <2>10, FreeIs
  <2>12. List(e.block, e.first_free, G)
    BY <2>8 DEF FreedTo
  <2>13. G \in Seq(Block) /\ Range(G) \subseteq Block
    BY <2>12, ListRange DEF List
  <2>14. \A y \in Range(G) : h.block[y] = e.block[y]
    BY <2>9, <2>11, <2>13
  <2>15. List(h.block, x, Onto(x, G))
    <3>1. \A y \in Range(G) : h.block[y].next = e.block[y].next
      BY <2>14
    <3> QED BY <2>9, <2>11, <2>12, <3>1, ListPut
  <2>16. Range(Onto(x, G)) = {x} \cup Range(G)
    BY <2>13, OntoIs
  <2>17. FreedTo(h, c, F, UpTo(k) \cup {x}, Onto(x, G))
    <3>1. h \in Tabs /\ h.first_dev = c.first_dev /\ h.meas = c.meas
      BY <2>8, <2>11 DEF FreedTo
    <3>2. Range(Onto(x, G)) = Range(F) \cup (UpTo(k) \cup {x})
      BY <2>8, <2>16 DEF FreedTo
    <3>3. \A b \in Range(Onto(x, G)) : h.block[b] \in FreeBlocks
      BY <2>8, <2>11, <2>14, <2>16 DEF FreedTo
    <3>4. \A b \in Block \ (UpTo(k) \cup {x}) : h.block[b] = c.block[b]
      BY <2>8, <2>11 DEF FreedTo
    <3> QED BY <2>11, <2>15, <3>1, <3>2, <3>3, <3>4 DEF FreedTo
  <2>18. FreedTo(f[m], c, F, UpTo(m), Onto(x, G))
    BY <2>5, <2>6, <2>10, <2>17, Zenon
  <2>19. m \in 0..n
    BY <2>2
  <2>20. m \in Q
    BY <2>18, <2>19
  <2> QED BY <2>2, <2>20
<1> HIDE DEF Q
<1>6. n \in Q
  <2>1. 0..n \subseteq Q
    BY <1>4, <1>5, InductionUpTo
  <2> QED BY <2>1
<1>7. UpTo(n) = Range(q)
  BY <1>1, ListRange
<1> QED BY <1>3, <1>6, <1>7 DEF Q

\* The tables, whose blocks are a pool.
Sound(c) == c \in Tabs /\ PoolOf(c)

\* Into the free block b a device of the unit u was put.
DevAdded(e, c, b, u, n) ==
    /\ Sound(e) /\ e.meas = c.meas
    /\ b \in Block /\ c.block[b] \in FreeBlocks
    /\ e.block[b] \in DevBlocks
    /\ e.block[b].unit = u /\ e.block[b].name = n /\ ~e.block[b].spoilt
    /\ \A x \in Block : x # b => e.block[x] = c.block[x]

LEMMA AddDeviceIs ==
  ASSUME NEW c, Sound(c), NEW u \in Units, NEW n \in DevNames
  PROVE  \/ AddDevice(c, u, n) = c
         \/ \E b : DevAdded(AddDevice(c, u, n), c, b, u, n)
<1>1. PICK F, D, R : In(c, F, D, R)
  BY DEF Sound, PoolOf, Pool, In
<1>2. CASE GetDeviceByName(c, n) # 0 \/ c.first_free = 0
  BY <1>2 DEF AddDevice
<1>3. CASE ~(GetDeviceByName(c, n) # 0 \/ c.first_free = 0)
  <2>1. /\ c.first_dev \in 0..Blocks /\ c.first_free \in 0..Blocks
        /\ c.block \in [Block -> AnyBlock] /\ c.meas \in Measures
        /\ c = [first_dev |-> c.first_dev, first_free |-> c.first_free,
                block |-> c.block, meas |-> c.meas]
    BY DEF Sound, Tabs
  <2>2. PICK b : b = c.first_free
    OBVIOUS
  <2>3. b \in Block /\ c.block[b] \in FreeBlocks /\ c.block[b].next \in 0..Blocks /\ b # 0
    BY <1>1, <1>3, <2>2, FreeTaken DEF In
  <2>4. PICK m : m = c.block[b].next
    OBVIOUS
  <2>5. PICK x : x = DevBlock(c.first_dev, u, n)
    OBVIOUS
  <2>6. /\ x \in DevBlocks /\ x.next = c.first_dev /\ x.first = 0
        /\ x.unit = u /\ x.name = n /\ x.spoilt = FALSE
    <3>1. 0 \in 0..Blocks
      BY TablesAssumption
    <3> QED BY <2>1, <2>5, <3>1 DEF DevBlock, DevBlocks
  <2>7. PICK new : new = [c.block EXCEPT ![b] = x]
    OBVIOUS
  <2>8. /\ new \in [Block -> AnyBlock] /\ new[b] = x
        /\ \A y \in Block : y # b => new[y] = c.block[y]
    BY <2>1, <2>3, <2>6, <2>7 DEF AnyBlock
  <2>9. AddDevice(c, u, n) = [first_dev |-> b, first_free |-> m, block |-> new, meas |-> c.meas]
    <3>1. PICK y : y = [c EXCEPT !.first_free = m]
      OBVIOUS
    <3>2. y = [first_dev |-> c.first_dev, first_free |-> m, block |-> c.block, meas |-> c.meas]
      BY <2>1, <3>1
    <3>3. PICK z : z = [y EXCEPT !.block = new]
      OBVIOUS
    <3>4. z = [first_dev |-> c.first_dev, first_free |-> m, block |-> new, meas |-> c.meas]
      BY <3>2, <3>3
    <3>5. AddDevice(c, u, n) = [z EXCEPT !.first_dev = b]
      <4>1. AddDevice(c, u, n) = [Allocated(c) EXCEPT !.block[b] = x, !.first_dev = b]
        BY <1>3, <2>2, <2>5, Zenon DEF AddDevice
      <4>2. Allocated(c) = y
        BY <2>2, <2>4, <3>1, Zenon DEF Allocated
      <4>3. AddDevice(c, u, n) = [y EXCEPT !.block[b] = x, !.first_dev = b]
        BY <4>1, <4>2, Zenon
      <4>4. z = [y EXCEPT !.block[b] = x]
        BY <2>7, <3>2, <3>3
      <4> QED BY <4>3, <4>4
    <3> QED BY <3>4, <3>5
  <2>10. PICK e : e = AddDevice(c, u, n)
    OBVIOUS
  <2>11. e \in Tabs
    BY <2>1, <2>2, <2>3, <2>4, <2>8, <2>9, <2>10 DEF Tabs
  <2>12. InLists(b, m, new, Tail(F), Onto(b, D), [R EXCEPT ![b] = <<>>])
    BY <1>1, <2>2, <2>3, <2>4, <2>6, <2>7, DevPut DEF In
  <2>13. PoolOf(e)
    <3>1. e.first_dev = b /\ e.first_free = m /\ e.block = new /\ e.meas = c.meas
      BY <2>9, <2>10
    <3> QED BY <2>12, <3>1 DEF PoolOf, Pool
  <2>14. e.block = new /\ e.meas = c.meas
    BY <2>9, <2>10
  <2> QED BY <2>3, <2>6, <2>8, <2>10, <2>11, <2>13, <2>14 DEF DevAdded, Sound
<1> QED BY <1>2, <1>3

\* Into the free block b a register of the device d was put.
RegAdded(e, c, b, d, n, a) ==
    /\ Sound(e) /\ e.meas = c.meas
    /\ b \in Block /\ c.block[b] \in FreeBlocks
    /\ d \in Block /\ c.block[d] \in DevBlocks
    /\ e.block[b] \in RegBlocks
    /\ e.block[b].unit = c.block[d].unit /\ e.block[b].name = n
    /\ e.block[b].addr = a /\ e.block[b].state = "invalid"
    /\ \A x \in Block : x # b => Alike(e.block[x], c.block[x])

LEMMA DevAddRegIs ==
  ASSUME NEW c, Sound(c), NEW F, NEW D, NEW R, In(c, F, D, R),
         NEW d \in Range(D), NEW n \in RegNames, NEW a \in Addrs
  PROVE  \/ DevAddReg(c, d, n, a) = c
         \/ \E b : RegAdded(DevAddReg(c, d, n, a), c, b, d, n, a)
<1>2. CASE DevGetRegByName(c, d, n) # 0 \/ c.first_free = 0
  BY <1>2 DEF DevAddReg
<1>3. CASE ~(DevGetRegByName(c, d, n) # 0 \/ c.first_free = 0)
  <2>1. /\ c.first_dev \in 0..Blocks /\ c.first_free \in 0..Blocks
        /\ c.block \in [Block -> AnyBlock] /\ c.meas \in Measures
        /\ c = [first_dev |-> c.first_dev, first_free |-> c.first_free,
                block |-> c.block, meas |-> c.meas]
    BY DEF Sound, Tabs
  <2>2. PICK b : b = c.first_free
    OBVIOUS
  <2>3. /\ b \in Block /\ b \in Range(F) /\ c.block[b] \in FreeBlocks
        /\ c.block[b].next \in 0..Blocks /\ b # 0
    BY <1>3, <2>2, FreeTaken DEF In
  <2>4. PICK m : m = c.block[b].next
    OBVIOUS
  <2>5. c.block[d] \in DevBlocks /\ d \in Block /\ d # b
    <3>1. Lonely(F, D, R)
      BY InOneList DEF In
    <3> QED BY <2>3, <3>1 DEF Lonely, In, InLists, Kinds
  <2>6. PICK x : x = RegBlock(c.block[d].first, c.block[d].unit, n, a)
    OBVIOUS
  <2>7. /\ x \in RegBlocks /\ x.next = c.block[d].first /\ x.unit = c.block[d].unit
        /\ x.name = n /\ x.addr = a /\ x.state = "invalid"
    <3>1. c.block[d].first \in 0..Blocks /\ c.block[d].unit \in Units
      BY <2>5, KindsDiffer
    <3> QED BY <2>6, <3>1 DEF RegBlock, RegBlocks
  <2>8. PICK y : y = [c.block[d] EXCEPT !.first = b]
    OBVIOUS
  <2>9. /\ y \in DevBlocks /\ y.next = c.block[d].next /\ y.first = b
        /\ y.unit = c.block[d].unit /\ y.name = c.block[d].name /\ y.spoilt = c.block[d].spoilt
    <3>1. b \in 0..Blocks
      BY <2>1, <2>2
    <3> QED BY <2>5, <2>8, <3>1 DEF DevBlocks
  <2>10. PICK mid : mid = [c.block EXCEPT ![b] = x]
    OBVIOUS
  <2>11. PICK new : new = [mid EXCEPT ![d] = y]
    OBVIOUS
  <2>12. /\ new \in [Block -> AnyBlock] /\ new[b] = x /\ new[d] = y
         /\ \A z \in Block : z # b /\ z # d => new[z] = c.block[z]
    BY <2>1, <2>3, <2>5, <2>7, <2>9, <2>10, <2>11 DEF AnyBlock
  <2>13. DevAddReg(c, d, n, a) = [first_dev |-> c.first_dev, first_free |-> m, block |-> new, meas |-> c.meas]
    <3>1. PICK u : u = [c EXCEPT !.first_free = m]
      OBVIOUS
    <3>2. u = [first_dev |-> c.first_dev, first_free |-> m, block |-> c.block, meas |-> c.meas]
      BY <2>1, <3>1
    <3>3. PICK v : v = [u EXCEPT !.block[b] = x]
      OBVIOUS
    <3>4. v = [first_dev |-> c.first_dev, first_free |-> m, block |-> mid, meas |-> c.meas]
      BY <2>10, <3>2, <3>3
    <3>5. DevAddReg(c, d, n, a) = [u EXCEPT !.block[b] = x, !.block[d].first = b]
      <4>1. DevAddReg(c, d, n, a) = [Allocated(c) EXCEPT !.block[b] = x, !.block[d].first = b]
        BY <1>3, <2>2, <2>6, Zenon DEF DevAddReg
      <4>2. Allocated(c) = u
        BY <2>2, <2>4, <3>1, Zenon DEF Allocated
      <4> QED BY <4>1, <4>2, Zenon
    <3>6. DevAddReg(c, d, n, a) = [v EXCEPT !.block[d].first = b]
      BY <3>3, <3>5
    <3>7. [v EXCEPT !.block[d].first = b] = [first_dev |-> c.first_dev, first_free |-> m, block |-> new, meas |-> c.meas]
      <4>1. v.block = mid /\ mid[d] = c.block[d]
        BY <2>1, <2>5, <2>10, <3>4
      <4>2. [v EXCEPT !.block[d].first = b] = [v EXCEPT !.block = [mid EXCEPT ![d] = [mid[d] EXCEPT !.first = b]]]
        BY <4>1
      <4>3. [mid EXCEPT ![d] = [mid[d] EXCEPT !.first = b]] = new
        BY <2>8, <2>11, <4>1
      <4>4. [v EXCEPT !.block = new] = [first_dev |-> c.first_dev, first_free |-> m, block |-> new, meas |-> c.meas]
        BY <3>4
      <4> QED BY <4>2, <4>3, <4>4
    <3> QED BY <3>6, <3>7
  <2>14. PICK e : e = DevAddReg(c, d, n, a)
    OBVIOUS
  <2>15. e.first_dev = c.first_dev /\ e.first_free = m /\ e.block = new /\ e.meas = c.meas
    BY <2>13, <2>14
  <2>16. e \in Tabs
    BY <2>1, <2>3, <2>4, <2>12, <2>13, <2>14 DEF Tabs
  <2>17. PoolOf(e)
    <3>1. InLists(c.first_dev, m, new, Tail(F), D, [R EXCEPT ![d] = Onto(b, R[d])])
      BY <2>2, <2>3, <2>4, <2>7, <2>9, <2>12, RegPut DEF In
    <3> QED BY <2>15, <3>1 DEF PoolOf, Pool
  <2>18. \A z \in Block : z # b => Alike(e.block[z], c.block[z])
    <3>1. Alike(y, c.block[d])
      BY <2>5, <2>9, KindsDiffer DEF Alike
    <3>2. \A z \in Block : Alike(c.block[z], c.block[z])
      BY DEF Alike
    <3> QED BY <2>12, <2>15, <3>1, <3>2
  <2>19. RegAdded(e, c, b, d, n, a)
    BY <2>3, <2>5, <2>7, <2>12, <2>15, <2>16, <2>17, <2>18 DEF RegAdded, Sound
  <2> QED BY <2>14, <2>19
<1> QED BY <1>2, <1>3

\* One block is written, the next of one, the first register of a device.
Wrote(c, b, x) == [c EXCEPT !.block = [c.block EXCEPT ![b] = x]]
WithNext(c, b, m) == [c EXCEPT !.block[b].next = m]
WithFirst(c, b, m) == [c EXCEPT !.block[b].first = m]

LEMMA BlockWritten ==
  ASSUME NEW c \in Tabs, NEW b \in Block, NEW x \in AnyBlock, NEW v, v = Wrote(c, b, x)
  PROVE  /\ v \in Tabs /\ v.block[b] = x
         /\ v.first_dev = c.first_dev /\ v.first_free = c.first_free /\ v.meas = c.meas
         /\ \A y \in Block : y # b => v.block[y] = c.block[y]
<1>1. /\ c.first_dev \in 0..Blocks /\ c.first_free \in 0..Blocks
      /\ c.block \in [Block -> AnyBlock] /\ c.meas \in Measures
      /\ c = [first_dev |-> c.first_dev, first_free |-> c.first_free,
              block |-> c.block, meas |-> c.meas]
  BY DEF Tabs
<1>2. PICK new : new = [c.block EXCEPT ![b] = x]
  OBVIOUS
<1>3. /\ new \in [Block -> AnyBlock] /\ new[b] = x
      /\ \A y \in Block : y # b => new[y] = c.block[y]
  BY <1>1, <1>2
<1>4. v = [first_dev |-> c.first_dev, first_free |-> c.first_free, block |-> new, meas |-> c.meas]
  BY <1>1, <1>2 DEF Wrote
<1> QED BY <1>1, <1>3, <1>4 DEF Tabs

\* v is c but for the next of b.
Relinked(v, c, b, m) ==
    /\ v \in Tabs
    /\ v.first_dev = c.first_dev /\ v.first_free = c.first_free /\ v.meas = c.meas
    /\ \A y \in Block : y # b => v.block[y] = c.block[y]
    /\ v.block[b].next = m
    /\ c.block[b] \in DevBlocks => /\ v.block[b] \in DevBlocks
                                   /\ v.block[b].first = c.block[b].first
    /\ c.block[b] \in RegBlocks => v.block[b] \in RegBlocks
    /\ Alike(v.block[b], c.block[b])

LEMMA LinkSet ==
  ASSUME NEW c \in Tabs, NEW b \in Block, NEW m \in 0..Blocks
  PROVE  Relinked(WithNext(c, b, m), c, b, m)
<1>0. PICK v : v = WithNext(c, b, m)
  OBVIOUS
<1>1. PICK x : x = [c.block[b] EXCEPT !.next = m]
  OBVIOUS
<1>2. c.block[b] \in AnyBlock
  BY DEF Tabs
<1>3. c.block[b] \in FreeBlocks => x \in FreeBlocks /\ x.next = m /\ Alike(x, c.block[b])
  BY <1>1 DEF FreeBlocks, Alike
<1>4. c.block[b] \in DevBlocks =>
         /\ x \in DevBlocks /\ x.next = m /\ x.first = c.block[b].first
         /\ Alike(x, c.block[b])
  BY <1>1 DEF DevBlocks, Alike
<1>5. c.block[b] \in RegBlocks => x \in RegBlocks /\ x.next = m /\ Alike(x, c.block[b])
  BY <1>1 DEF RegBlocks, Alike
<1>6. x \in AnyBlock /\ x.next = m /\ Alike(x, c.block[b])
  BY <1>2, <1>3, <1>4, <1>5 DEF AnyBlock
<1>7. v = Wrote(c, b, x)
  BY <1>0, <1>1 DEF WithNext, Wrote
<1>8. /\ v \in Tabs /\ v.block[b] = x
      /\ v.first_dev = c.first_dev /\ v.first_free = c.first_free /\ v.meas = c.meas
      /\ \A y \in Block : y # b => v.block[y] = c.block[y]
  BY <1>6, <1>7, BlockWritten
<1> QED BY <1>0, <1>4, <1>5, <1>6, <1>8 DEF Relinked

LEMMA FirstSet ==
  ASSUME NEW c \in Tabs, NEW b \in Block, c.block[b] \in DevBlocks,
         NEW m \in 0..Blocks, NEW v, v = WithFirst(c, b, m)
  PROVE  /\ v \in Tabs
         /\ v.first_dev = c.first_dev /\ v.first_free = c.first_free /\ v.meas = c.meas
         /\ \A y \in Block : y # b => v.block[y] = c.block[y]
         /\ v.block[b] \in DevBlocks /\ v.block[b].first = m
         /\ v.block[b].next = c.block[b].next /\ v.block[b].unit = c.block[b].unit
         /\ Alike(v.block[b], c.block[b])
<1>1. PICK x : x = [c.block[b] EXCEPT !.first = m]
  OBVIOUS
<1>2. /\ x \in DevBlocks /\ x.next = c.block[b].next /\ x.first = m
      /\ x.unit = c.block[b].unit /\ Alike(x, c.block[b])
  BY <1>1 DEF DevBlocks, Alike
<1>3. x \in AnyBlock
  BY <1>2 DEF AnyBlock
<1>4. v = Wrote(c, b, x)
  BY <1>1 DEF WithFirst, Wrote
<1>5. /\ v \in Tabs /\ v.block[b] = x
      /\ v.first_dev = c.first_dev /\ v.first_free = c.first_free /\ v.meas = c.meas
      /\ \A y \in Block : y # b => v.block[y] = c.block[y]
  BY <1>3, <1>4, BlockWritten
<1> QED BY <1>2, <1>5

\* The unit ids are each a device's own, and are as they were set.
Clear(c) ==
    \A d \in Block : c.block[d] \in DevBlocks =>
        /\ ~c.block[d].spoilt
        /\ \A e \in Block : c.block[e] \in DevBlocks /\ c.block[e].unit = c.block[d].unit
                            => d = e

\* The register r was freed.
RegRemoved(e, c, r) ==
    /\ Sound(e) /\ e.meas = c.meas
    /\ r \in Block /\ c.block[r] \in RegBlocks /\ e.block[r] \in FreeBlocks
    /\ \A x \in Block : x # r => Alike(e.block[x], c.block[x])

LEMMA RegDelIs ==
  ASSUME NEW c, Sound(c), NEW r \in Block, c.block[r] \in RegBlocks
  PROVE  \/ RegDel(c, r) = c /\ ~Clear(c)
         \/ RegRemoved(RegDel(c, r), c, r)
<1>1. PICK F, D, R : In(c, F, D, R)
  BY DEF Sound, PoolOf, Pool, In
<1>2. Lonely(F, D, R)
  BY <1>1, InOneList DEF In
<1>3. PICK g \in Range(D) : r \in Range(R[g])
  <2>1. r \notin Range(F) /\ r \notin Range(D)
    BY <1>1, KindsDiffer DEF In, InLists, Kinds
  <2> QED BY <1>1, <2>1 DEF In, InLists, Everywhere
<1>4. \A d \in Range(D) : d \in Block /\ c.block[d] \in DevBlocks
  BY <1>1, <1>2 DEF In, InLists, Kinds, Lonely
<1>5. PICK d : d = RegGetDev(c, r)
  OBVIOUS
<1>6. d = GetDeviceById(c, c.block[r].unit) /\ c.block[r].unit = c.block[g].unit
  BY <1>1, <1>3, <1>5, DevOfReg
<1>7. \/ d = 0 /\ \A x \in Range(D) : ~(c.block[x].unit = c.block[r].unit /\ ~c.block[x].spoilt)
      \/ d \in Range(D) /\ d # 0 /\ c.block[d].unit = c.block[r].unit
  BY <1>1, <1>6, ByIdFinds
<1>8. CASE d = 0
  <2>1. RegDel(c, r) = c
    BY <1>5, <1>8 DEF RegDel
  <2>2. ~Clear(c)
    <3>1. g \in Range(D) /\ d \notin Block
      BY <1>8, TablesAssumption DEF Block
    <3>2. c.block[g].spoilt
      BY <1>4, <1>6, <1>7, <3>1
    <3> QED BY <1>4, <3>2 DEF Clear
  <2> QED BY <2>1, <2>2
<1>9. CASE d # 0 /\ r \notin Range(R[d])
  <2>1. d \in Range(D) /\ Regs(c, d) = R[d]
    BY <1>1, <1>7, <1>9, WalksAre
  <2>2. RegDel(c, r) = c
    BY <1>5, <1>9, <2>1 DEF RegDel
  <2>3. ~Clear(c)
    BY <1>3, <1>4, <1>6, <1>7, <1>9 DEF Clear
  <2> QED BY <2>2, <2>3
<1>10. CASE d # 0 /\ r \in Range(R[d])
  <2>1. d \in Range(D) /\ Regs(c, d) = R[d] /\ d \in Block /\ c.block[d] \in DevBlocks
    BY <1>1, <1>4, <1>7, <1>10, WalksAre
  <2>2. List(c.block, c.block[d].first, R[d])
    BY <1>1, <2>1 DEF In, InLists, Linked
  <2>3. r # d /\ c \in Tabs /\ c.block[r].next \in 0..Blocks /\ \A x \in Range(R[d]) : x \in Block
    BY <1>2, <1>10, <2>1, KindsDiffer DEF Lonely, Sound
  <2>4. PICK v : v = IF c.block[d].first = r
                     THEN [c EXCEPT !.block[d].first = c.block[r].next]
                     ELSE [c EXCEPT !.block[Before(c, Regs(c, d), r)].next = c.block[r].next]
    OBVIOUS
  <2>5. RegDel(c, r) = ModbusFree(v, r)
    <3>1. RegDel(c, r) = ModbusFree(IF c.block[d].first = r
                     THEN [c EXCEPT !.block[d].first = c.block[r].next]
                     ELSE [c EXCEPT !.block[Before(c, Regs(c, d), r)].next = c.block[r].next], r)
      BY <1>5, <1>10, <2>1, Zenon DEF RegDel
    <3> QED BY <2>4, <3>1, Zenon
  <2>6. PICK e : e = ModbusFree(v, r)
    OBVIOUS
\* What is left of the registers of d, and what is in the blocks.
  <2>7. /\ v \in Tabs /\ v.first_dev = c.first_dev /\ v.first_free = c.first_free
        /\ v.meas = c.meas
        /\ v.block[d] \in DevBlocks /\ v.block[d].next = c.block[d].next
        /\ v.block[d].unit = c.block[d].unit
        /\ \A x \in Block : x # r /\ x # d =>
              \/ v.block[x] = c.block[x]
              \/ x \in Range(R[d]) /\ v.block[x] \in RegBlocks /\ v.block[x].unit = c.block[x].unit
        /\ \A x \in Block : x # r => Alike(v.block[x], c.block[x])
        /\ \E s : /\ Range(s) = Range(R[d]) \ {r}
                  /\ \A new : (\A x \in Range(s) : new[x] = v.block[x]) =>
                                  List(new, v.block[d].first, s)
    <3>0. \A x : Alike(x, x)
      BY DEF Alike
    <3>1. CASE c.block[d].first = r
      <4>1. v = WithFirst(c, d, c.block[r].next)
        BY <2>4, <3>1 DEF WithFirst
      <4>2. /\ v \in Tabs
            /\ v.first_dev = c.first_dev /\ v.first_free = c.first_free /\ v.meas = c.meas
            /\ \A y \in Block : y # d => v.block[y] = c.block[y]
            /\ v.block[d] \in DevBlocks /\ v.block[d].first = c.block[r].next
            /\ v.block[d].next = c.block[d].next /\ v.block[d].unit = c.block[d].unit
            /\ Alike(v.block[d], c.block[d])
        BY <2>1, <2>3, <4>1, FirstSet
      <4>3. r # 0
        BY TablesAssumption DEF Block
      <4>4. /\ List(c.block, c.block[r].next, Tail(R[d]))
            /\ Range(Tail(R[d])) = Range(R[d]) \ {r}
        BY <2>2, <3>1, <4>3, ListTaken
      <4>5. \A x \in Range(Tail(R[d])) : v.block[x].next = c.block[x].next
        <5>1. d \notin Range(R[d])
          BY <1>2, <2>1 DEF Lonely
        <5> QED BY <2>3, <4>2, <4>4, <5>1
      <4>6. \A new : (\A x \in Range(Tail(R[d])) : new[x] = v.block[x]) =>
                         List(new, v.block[d].first, Tail(R[d]))
        <5> SUFFICES ASSUME NEW new, \A x \in Range(Tail(R[d])) : new[x] = v.block[x]
                     PROVE  List(new, v.block[d].first, Tail(R[d]))
          OBVIOUS
        <5>1. \A x \in Range(Tail(R[d])) : new[x].next = c.block[x].next
          BY <4>5
        <5> QED BY <4>2, <4>4, <5>1, ListKept
      <4> QED BY <3>0, <4>2, <4>4, <4>6
    <3>2. CASE c.block[d].first # r
      <4>1. PICK k \in 1..Len(R[d]) : r = R[d][k]
        <5>1. R[d] \in Seq(Block)
          BY <2>2 DEF List
        <5> QED BY <1>10, <5>1, ListRange
      <4>2. k \in 2..Len(R[d]) /\ R[d] \in Seq(Block) /\ IsInjective(R[d])
        <5>1. k # 1
          BY <2>2, <3>2, <4>1 DEF List, At
        <5> QED BY <2>2, <4>1, <5>1 DEF List
      <4>3. PICK p : p = R[d][k - 1]
        OBVIOUS
      <4>4. p \in Range(R[d]) /\ p \in Block /\ p # r /\ p # d /\ c.block[p] \in RegBlocks
        <5>1. k - 1 \in 1..Len(R[d]) /\ k - 1 # k
          BY <4>2
        <5>2. p \in Range(R[d])
          BY <4>2, <4>3, <5>1, ListRange
        <5>3. p # r
          <6>1. DOMAIN R[d] = 1..Len(R[d])
            BY <4>2
          <6> QED BY <4>1, <4>2, <4>3, <5>1, <6>1 DEF IsInjective
        <5>4. c.block[p] \in RegBlocks
          BY <1>1, <2>1, <5>2 DEF In, InLists, Kinds
        <5> QED BY <2>1, <2>3, <5>2, <5>3, <5>4, KindsDiffer
      <4>5. v = WithNext(c, p, c.block[r].next)
        <5>1. Before(c, R[d], R[d][k]) = R[d][k - 1]
          BY <2>2, <4>2, BeforeIs
        <5>2. Before(c, Regs(c, d), r) = p
          BY <2>1, <4>1, <4>3, <5>1
        <5>3. v = [c EXCEPT !.block[Before(c, Regs(c, d), r)].next = c.block[r].next]
          BY <2>4, <3>2
        <5> QED BY <5>2, <5>3 DEF WithNext
      <4>6. /\ v \in Tabs
            /\ v.first_dev = c.first_dev /\ v.first_free = c.first_free /\ v.meas = c.meas
            /\ \A y \in Block : y # p => v.block[y] = c.block[y]
            /\ v.block[p].next = c.block[r].next
            /\ c.block[p] \in RegBlocks => v.block[p] \in RegBlocks
            /\ Alike(v.block[p], c.block[p])
        BY <2>3, <4>4, <4>5, LinkSet DEF Relinked
      <4>7. v.block[p].unit = c.block[p].unit /\ v.block[p] \in RegBlocks
        BY <4>4, <4>6, KindsDiffer DEF Alike
      <4>8. Range(Without(R[d], k)) = Range(R[d]) \ {r}
            /\ \A new : (\A x \in Range(R[d]) \ {r} : new[x] = v.block[x]) =>
                         List(new, c.block[d].first, Without(R[d], k))
        <5>1. ASSUME NEW new, \A x \in Range(R[d]) \ {r} : new[x] = v.block[x]
              PROVE  /\ List(new, c.block[d].first, Without(R[d], k))
                     /\ Range(Without(R[d], k)) = Range(R[d]) \ {R[d][k]}
          <6>1. new[R[d][k - 1]].next = c.block[R[d][k]].next
            BY <4>1, <4>3, <4>4, <4>6, <5>1
          <6>2. \A y \in Range(R[d]) \ {R[d][k - 1], R[d][k]} : new[y].next = c.block[y].next
            BY <2>3, <4>1, <4>3, <4>6, <5>1
          <6> QED BY <2>2, <4>2, <6>1, <6>2, ListWithout
        <5>2. /\ List(v.block, c.block[d].first, Without(R[d], k))
              /\ Range(Without(R[d], k)) = Range(R[d]) \ {R[d][k]}
          BY <5>1
        <5> QED BY <4>1, <5>1, <5>2
      <4>9. v.block[d] = c.block[d]
        BY <2>1, <4>4, <4>6
      <4> QED BY <2>1, <3>0, <4>4, <4>6, <4>7, <4>8, <4>9
    <3> QED BY <3>1, <3>2
  <2>8. /\ e \in Tabs /\ e.first_dev = v.first_dev /\ e.meas = v.meas /\ e.first_free = r
        /\ e.block[r] \in FreeBlocks /\ e.block[r].next = v.first_free
        /\ \A x \in Block : x # r => e.block[x] = v.block[x]
    BY <2>6, <2>7, FreeIs
  <2>9. PICK s : /\ Range(s) = Range(R[d]) \ {r}
                 /\ \A new : (\A x \in Range(s) : new[x] = v.block[x]) =>
                                 List(new, v.block[d].first, s)
    BY <2>7
  <2>10. List(e.block, e.block[d].first, s)
    <3>1. \A x \in Range(s) : e.block[x] = v.block[x]
      BY <2>3, <2>8, <2>9
    <3>2. e.block[d] = v.block[d]
      BY <2>1, <2>3, <2>8
    <3> QED BY <2>9, <3>1, <3>2
  <2>11. InLists(c.first_dev, r, e.block, Onto(r, F), D, [R EXCEPT ![d] = s])
    <3>1. PICK new : new = e.block
      OBVIOUS
    <3>2. /\ new \in [Block -> AnyBlock] /\ new[r] \in FreeBlocks /\ new[r].next = c.first_free
          /\ new[d] \in DevBlocks /\ new[d].next = c.block[d].next
          /\ new[d].unit = c.block[d].unit
          /\ List(new, new[d].first, s)
      BY <2>1, <2>3, <2>7, <2>8, <2>10, <3>1 DEF Tabs
    <3>3. \A b \in Block : b # r /\ b # d =>
             \/ new[b] = c.block[b]
             \/ b \in Range(s) /\ new[b] \in RegBlocks /\ new[b].unit = c.block[b].unit
      BY <2>7, <2>8, <2>9, <3>1
    <3>4. InLists(c.first_dev, c.first_free, c.block, F, D, R)
      BY <1>1 DEF In
    <3>5. InLists(c.first_dev, r, new, Onto(r, F), D, [R EXCEPT ![d] = s])
      BY <1>10, <2>1, <2>9, <3>2, <3>3, <3>4, RegOut
    <3> QED BY <3>1, <3>5
  <2>12. Sound(e)
    BY <2>7, <2>8, <2>11 DEF Sound, PoolOf, Pool
  <2>13. RegRemoved(e, c, r)
    BY <2>7, <2>8, <2>12 DEF RegRemoved
  <2> QED BY <2>5, <2>6, <2>13
<1> QED BY <1>8, <1>9, <1>10

LEMMA FirstDevSet ==
  ASSUME NEW c \in Tabs, NEW m \in 0..Blocks, NEW v, v = [c EXCEPT !.first_dev = m]
  PROVE  /\ v \in Tabs /\ v.first_dev = m /\ v.first_free = c.first_free
         /\ v.block = c.block /\ v.meas = c.meas
<1>1. c = [first_dev |-> c.first_dev, first_free |-> c.first_free,
           block |-> c.block, meas |-> c.meas]
  BY DEF Tabs
<1>2. v = [first_dev |-> m, first_free |-> c.first_free,
           block |-> c.block, meas |-> c.meas]
  BY <1>1
<1> QED BY <1>1, <1>2 DEF Tabs

\* The device d was freed, and X, its registers.
DevRemoved(e, c, d, X) ==
    /\ Sound(e) /\ e.meas = c.meas
    /\ d \in Block /\ c.block[d] \in DevBlocks /\ X \in SUBSET Block
    /\ \A r \in X : c.block[r] \in RegBlocks
    /\ \A x \in X \cup {d} : e.block[x] \in FreeBlocks
    /\ \A x \in Block \ (X \cup {d}) : Alike(e.block[x], c.block[x])

LEMMA DevDelIs ==
  ASSUME NEW c, Sound(c), NEW F, NEW D, NEW R, In(c, F, D, R), NEW d \in Range(D)
  PROVE  DevRemoved(DevDel(c, d), c, d, Range(R[d]))
<1>1. Lonely(F, D, R)
  BY InOneList DEF In
<1>2. /\ c \in Tabs /\ List(c.block, c.first_free, F) /\ List(c.block, c.first_dev, D)
      /\ List(c.block, c.block[d].first, R[d])
      /\ c.first_dev \in 0..Blocks /\ c.first_free \in 0..Blocks
  BY DEF Sound, In, InLists, Linked
<1>3. Devs(c) = D /\ Regs(c, d) = R[d]
  BY WalksAre
<1>4. /\ \A b \in Range(F) : b \in Block /\ c.block[b] \in FreeBlocks
      /\ \A b \in Range(D) : b \in Block /\ c.block[b] \in DevBlocks
      /\ \A b \in Range(R[d]) : b \in Block /\ c.block[b] \in RegBlocks
  BY <1>1 DEF Lonely, In, InLists, Kinds
<1>5. Range(R[d]) \cap Range(F) = {} /\ Range(R[d]) \cap Range(D) = {} /\ Range(F) \cap Range(D) = {}
  BY <1>1 DEF Lonely
<1>6. PICK bare : bare = FreeAll(c, R[d])
  OBVIOUS
<1>7. PICK G : FreedTo(bare, c, F, Range(R[d]), G)
  <2>1. R[d] \in Seq(Block) /\ IsInjective(R[d])
    BY <1>2 DEF List
  <2> QED BY <1>2, <1>4, <1>5, <1>6, <2>1, FreeAllIs
<1>8. /\ bare \in Tabs /\ bare.first_dev = c.first_dev /\ bare.meas = c.meas
      /\ List(bare.block, bare.first_free, G)
      /\ Range(G) = Range(F) \cup Range(R[d])
      /\ \A b \in Range(G) : bare.block[b] \in FreeBlocks
      /\ \A b \in Block \ Range(R[d]) : bare.block[b] = c.block[b]
  BY <1>7 DEF FreedTo
<1>9. PICK m \in 0..Blocks : m = c.block[d].next
  BY <1>4, KindsDiffer
<1>10. PICK v : v = IF d = c.first_dev
                    THEN [bare EXCEPT !.first_dev = m]
                    ELSE [bare EXCEPT !.block[Before(c, D, d)].next = m]
  OBVIOUS
<1>11. PICK e : e = ModbusFree(v, d)
  OBVIOUS
<1>12. DevDel(c, d) = e
  BY <1>3, <1>6, <1>9, <1>10, <1>11, Zenon DEF DevDel
<1>13. d \in Block /\ d \notin Range(G)
  BY <1>4, <1>5, <1>8
\* What is left of the devices.
<1>14. /\ v \in Tabs /\ v.first_free = bare.first_free /\ v.meas = c.meas
       /\ \A x \in Block : x \notin Range(D) \ {d} => v.block[x] = bare.block[x]
       /\ \A x \in Range(D) \ {d} : /\ v.block[x] \in DevBlocks
                                    /\ v.block[x].first = c.block[x].first
                                    /\ Alike(v.block[x], c.block[x])
       /\ \E E : /\ Range(E) = Range(D) \ {d}
                 /\ \A new : (\A x \in Range(E) : new[x] = v.block[x]) =>
                                 List(new, v.first_dev, E)
  <2>0. \A x : Alike(x, x)
    BY DEF Alike
  <2>1. \A x \in Range(D) : bare.block[x] = c.block[x] /\ c.block[x] \in DevBlocks /\ x \in Block
    BY <1>4, <1>5, <1>8
  <2>2. CASE d = c.first_dev
    <3>1. v = [bare EXCEPT !.first_dev = m]
      BY <1>10, <2>2
    <3>2. /\ v \in Tabs /\ v.first_dev = m /\ v.first_free = bare.first_free
          /\ v.block = bare.block /\ v.meas = bare.meas
      BY <1>8, <3>1, FirstDevSet
    <3>3. d # 0
      BY <1>13, TablesAssumption DEF Block
    <3>4. List(c.block, m, Tail(D)) /\ Range(Tail(D)) = Range(D) \ {d}
      BY <1>2, <1>9, <2>2, <3>3, ListTaken
    <3>5. \A new : (\A x \in Range(Tail(D)) : new[x] = v.block[x]) =>
                       List(new, v.first_dev, Tail(D))
      <4> SUFFICES ASSUME NEW new, \A x \in Range(Tail(D)) : new[x] = v.block[x]
                   PROVE  List(new, v.first_dev, Tail(D))
        OBVIOUS
      <4>1. \A x \in Range(Tail(D)) : new[x].next = c.block[x].next
        BY <2>1, <3>2, <3>4
      <4> QED BY <3>2, <3>4, <4>1, ListKept
    <3> QED BY <1>8, <2>0, <2>1, <3>2, <3>4, <3>5
  <2>3. CASE d # c.first_dev
    <3>1. D \in Seq(Block) /\ IsInjective(D) /\ DOMAIN D = 1..Len(D)
      BY <1>2 DEF List
    <3>2. PICK k \in 1..Len(D) : d = D[k]
      BY <3>1, ListRange
    <3>3. k \in 2..Len(D)
      <4>1. k # 1
        BY <1>2, <2>3, <3>2 DEF List, At
      <4> QED BY <3>2, <4>1
    <3>4. PICK p : p = D[k - 1]
      OBVIOUS
    <3>5. p \in Range(D) /\ p # d /\ p \in Block
      <4>1. k - 1 \in 1..Len(D) /\ k - 1 # k
        BY <3>3
      <4>2. p \in Range(D)
        BY <3>1, <3>4, <4>1, ListRange
      <4>3. p # d
        BY <3>1, <3>2, <3>4, <4>1 DEF IsInjective
      <4> QED BY <2>1, <4>2, <4>3
    <3>6. Before(c, D, d) = p
      <4>1. Before(c, D, D[k]) = D[k - 1]
        BY <1>2, <3>3, BeforeIs
      <4> QED BY <3>2, <3>4, <4>1
    <3>7. v = WithNext(bare, p, m)
      BY <1>10, <2>3, <3>6 DEF WithNext
    <3>8. Relinked(v, bare, p, m)
      BY <1>8, <3>5, <3>7, LinkSet
    <3>9. /\ v \in Tabs /\ v.first_dev = bare.first_dev /\ v.first_free = bare.first_free
          /\ v.meas = bare.meas /\ \A y \in Block : y # p => v.block[y] = bare.block[y]
          /\ v.block[p].next = m /\ v.block[p] \in DevBlocks
          /\ v.block[p].first = c.block[p].first /\ Alike(v.block[p], c.block[p])
      BY <2>1, <3>5, <3>8 DEF Relinked
    <3>10. Range(Without(D, k)) = Range(D) \ {d}
           /\ \A new : (\A x \in Range(D) \ {d} : new[x] = v.block[x]) =>
                       List(new, c.first_dev, Without(D, k))
      <4>1. ASSUME NEW new, \A x \in Range(D) \ {d} : new[x] = v.block[x]
            PROVE  /\ List(new, c.first_dev, Without(D, k))
                   /\ Range(Without(D, k)) = Range(D) \ {D[k]}
        <5>1. new[D[k - 1]].next = c.block[D[k]].next
          BY <1>9, <3>2, <3>4, <3>5, <3>9, <4>1
        <5>2. \A y \in Range(D) \ {D[k - 1], D[k]} : new[y].next = c.block[y].next
          BY <2>1, <3>2, <3>4, <3>9, <4>1
        <5> QED BY <1>2, <3>3, <5>1, <5>2, ListWithout
      <4>2. /\ List(v.block, c.first_dev, Without(D, k))
            /\ Range(Without(D, k)) = Range(D) \ {D[k]}
        BY <4>1
      <4> QED BY <3>2, <4>1, <4>2
    <3>11. \A x \in Range(D) \ {d} : x # p => v.block[x] = c.block[x]
      BY <2>1, <3>9
    <3>12. \A x \in Range(D) \ {d} : /\ v.block[x] \in DevBlocks
                                     /\ v.block[x].first = c.block[x].first
                                     /\ Alike(v.block[x], c.block[x])
      <4> SUFFICES ASSUME NEW x \in Range(D) \ {d}
                   PROVE  /\ v.block[x] \in DevBlocks
                          /\ v.block[x].first = c.block[x].first
                          /\ Alike(v.block[x], c.block[x])
        OBVIOUS
      <4>1. CASE x = p
        BY <3>9, <4>1
      <4>2. CASE x # p
        BY <2>0, <2>1, <3>11, <4>2
      <4> QED BY <4>1, <4>2
    <3>13. \A x \in Block : x \notin Range(D) \ {d} => v.block[x] = bare.block[x]
      BY <3>5, <3>9
    <3>14. v.first_dev = c.first_dev /\ v.meas = c.meas
      BY <1>8, <3>9
    <3> QED BY <3>9, <3>10, <3>12, <3>13, <3>14
  <2> QED BY <2>2, <2>3
<1>15. PICK E : /\ Range(E) = Range(D) \ {d}
                /\ \A new : (\A x \in Range(E) : new[x] = v.block[x]) =>
                                List(new, v.first_dev, E)
  BY <1>14
<1>16. /\ e \in Tabs /\ e.first_dev = v.first_dev /\ e.meas = v.meas /\ e.first_free = d
       /\ e.block[d] \in FreeBlocks /\ e.block[d].next = v.first_free
       /\ \A x \in Block : x # d => e.block[x] = v.block[x]
  BY <1>11, <1>13, <1>14, FreeIs
<1>17. PICK new : new = e.block
  OBVIOUS
<1>18. /\ new \in [Block -> AnyBlock] /\ e.first_dev \in 0..Blocks
       /\ new[d] \in FreeBlocks /\ new[d].next = bare.first_free
       /\ \A x \in Block : x # d => new[x] = v.block[x]
  BY <1>14, <1>16, <1>17 DEF Tabs
<1>19. \A x \in Range(G) : x \in Block /\ x # d /\ x \notin Range(D)
  BY <1>4, <1>5, <1>8, <1>13
<1>20. \A x \in Range(G) : new[x] = bare.block[x]
  BY <1>14, <1>18, <1>19
<1>21. G \in Seq(Block)
  BY <1>8 DEF List
<1>22. /\ List(new, d, Onto(d, G)) /\ Range(Onto(d, G)) = Range(F) \cup Range(R[d]) \cup {d}
       /\ \A b \in Range(Onto(d, G)) : new[b] \in FreeBlocks
  <2>1. \A x \in Range(G) : new[x].next = bare.block[x].next
    BY <1>20
  <2>2. List(new, d, Onto(d, G))
    BY <1>8, <1>13, <1>18, <2>1, ListPut
  <2>3. Range(Onto(d, G)) = {d} \cup Range(G)
    BY <1>13, <1>21, OntoIs
  <2> QED BY <1>8, <1>18, <1>20, <2>2, <2>3
<1>23. \A x \in Range(E) : x \in Block /\ x # d /\ new[x] = v.block[x]
  BY <1>4, <1>15, <1>18
<1>24. List(new, e.first_dev, E)
  BY <1>15, <1>16, <1>23
<1>25. \A x \in Range(E) : /\ new[x] \in DevBlocks /\ new[x].first = c.block[x].first
                           /\ new[x].unit = c.block[x].unit
  <2> SUFFICES ASSUME NEW x \in Range(E)
               PROVE  /\ new[x] \in DevBlocks /\ new[x].first = c.block[x].first
                      /\ new[x].unit = c.block[x].unit
    OBVIOUS
  <2>1. new[x] \in DevBlocks /\ new[x].first = c.block[x].first /\ Alike(new[x], c.block[x])
    BY <1>14, <1>15, <1>23
  <2> QED BY <2>1, KindsDiffer DEF Alike
<1>26. \A b \in Block : b \notin Range(Onto(d, G)) /\ b \notin Range(E) => new[b] = c.block[b]
  BY <1>8, <1>14, <1>15, <1>18, <1>22
<1>27. InLists(e.first_dev, d, new, Onto(d, G), E, R)
  <2>1. InLists(c.first_dev, c.first_free, c.block, F, D, R)
    BY DEF In
  <2>2. PICK head \in 0..Blocks : head = e.first_dev
    BY <1>18
  <2>3. List(new, head, E)
    BY <1>24, <2>2
  <2>4. PICK H : H = Onto(d, G)
    OBVIOUS
  <2>5. /\ List(new, d, H) /\ Range(H) = Range(F) \cup Range(R[d]) \cup {d}
        /\ \A b \in Range(H) : new[b] \in FreeBlocks
        /\ \A b \in Block : b \notin Range(H) /\ b \notin Range(E) => new[b] = c.block[b]
    BY <1>22, <1>26, <2>4
  <2>6. InLists(head, d, new, H, E, R)
    BY <1>15, <1>18, <1>25, <2>1, <2>3, <2>5, DevOut
  <2> QED BY <2>2, <2>4, <2>6
<1>28. Sound(e)
  BY <1>16, <1>17, <1>27 DEF Sound, PoolOf, Pool
<1>29. \A x \in Range(R[d]) \cup {d} : e.block[x] \in FreeBlocks
  BY <1>17, <1>22
<1>30. \A x \in Block \ (Range(R[d]) \cup {d}) : Alike(e.block[x], c.block[x])
  <2> SUFFICES ASSUME NEW x \in Block, x # d, x \notin Range(R[d])
               PROVE  Alike(e.block[x], c.block[x])
    OBVIOUS
  <2>1. e.block[x] = v.block[x]
    BY <1>16
  <2>2. CASE x \in Range(D)
    BY <1>14, <2>1, <2>2
  <2>3. CASE x \notin Range(D)
    <3>1. e.block[x] = c.block[x]
      BY <1>8, <1>14, <2>1, <2>3
    <3> QED BY <3>1 DEF Alike
  <2> QED BY <2>2, <2>3
<1> QED BY <1>4, <1>12, <1>13, <1>14, <1>16, <1>28, <1>29, <1>30 DEF DevRemoved

-----------------------------------------------------------------------------
(* The measurements.                                                       *)

\* No name twice.
Unique(t) ==
    \A i, j \in 1..Slots : t[i] # None /\ t[j] # None /\ t[i].name = t[j].name => i = j
Tidy(t) == t \in Measures /\ Unique(t)

LEMMA FirstIs ==
  ASSUME NEW S \in SUBSET (1..Slots), S # {}
  PROVE  First(S) \in S /\ \A j \in S : First(S) <= j
<1>1. S \subseteq Nat
  BY TablesAssumption
<1>2. \E x \in S : \A y \in S : ~(<<y, x>> \in OpToRel(<, Nat))
  BY <1>1, NatLessThanWellFounded, WFMin, Zenon
<1>3. PICK x \in S : \A y \in S : ~(<<y, x>> \in OpToRel(<, Nat))
  BY <1>2
<1>4. \A y \in S : ~(y < x)
  BY <1>1, <1>3, Zenon DEF OpToRel
<1>5. \E i \in S : \A j \in S : i <= j
  BY <1>1, <1>4
<1> QED BY <1>5 DEF First

LEMMA AddIs ==
  ASSUME NEW t, Tidy(t), NEW x \in Kept
  PROVE  /\ Tidy(MeasurementsAdd(t, x))
         /\ \/ MeasurementsAdd(t, x) = t /\ ~CanAdd(t, x.name)
            \/ \E i \in 1..Slots :
                  /\ t[i] = None /\ Named(t, x.name) = {} /\ i = First(Empty(t))
                  /\ MeasurementsAdd(t, x)[i] = x
                  /\ \A j \in 1..Slots : j # i => MeasurementsAdd(t, x)[j] = t[j]
<1>1. CASE ~CanAdd(t, x.name)
  BY <1>1 DEF MeasurementsAdd
<1>2. CASE CanAdd(t, x.name)
  <2>1. PICK i : i = First(Empty(t))
    OBVIOUS
  <2>2. Named(t, x.name) = {} /\ Empty(t) # {} /\ Empty(t) \in SUBSET (1..Slots)
    BY <1>2 DEF CanAdd, Empty
  <2>3. i \in 1..Slots /\ t[i] = None
    <3>1. i \in Empty(t)
      BY <2>1, <2>2, FirstIs
    <3> QED BY <3>1 DEF Empty
  <2>4. PICK u : u = [t EXCEPT ![i] = x]
    OBVIOUS
  <2>5. MeasurementsAdd(t, x) = u
    BY <1>2, <2>1, <2>4 DEF MeasurementsAdd
  <2>6. u \in Measures /\ u[i] = x /\ \A j \in 1..Slots : j # i => u[j] = t[j]
    BY <2>3, <2>4 DEF Tidy, Measures
  <2>7. \A j \in 1..Slots : t[j] = None \/ t[j].name # x.name
    BY <2>2 DEF Named
  <2>8. Unique(u)
    <3> SUFFICES ASSUME NEW j \in 1..Slots, NEW k \in 1..Slots,
                        u[j] # None, u[k] # None, u[j].name = u[k].name
                 PROVE  j = k
      BY DEF Unique
    <3>1. \A a \in 1..Slots : a # i => u[a] = t[a]
      BY <2>6
    <3>2. CASE j = i /\ k # i
      BY <2>6, <2>7, <3>2
    <3>3. CASE k = i /\ j # i
      BY <2>6, <2>7, <3>3
    <3>4. CASE j # i /\ k # i
      BY <3>1, <3>4 DEF Tidy, Unique
    <3> QED BY <3>2, <3>3, <3>4
  <2> QED BY <2>1, <2>2, <2>3, <2>5, <2>6, <2>8 DEF Tidy
<1> QED BY <1>1, <1>2

LEMMA DelIs ==
  ASSUME NEW t, Tidy(t), NEW n
  PROVE  /\ Tidy(MeasurementsDel(t, n))
         /\ \A i \in 1..Slots : MeasurementsDel(t, n)[i] =
               IF t[i] # None /\ t[i].name = n THEN None ELSE t[i]
<1>1. PICK u : u = MeasurementsDel(t, n)
  OBVIOUS
<1>2. \A i \in 1..Slots : i \in Named(t, n) <=> (t[i] # None /\ t[i].name = n)
  BY DEF Named
<1>3. u \in Measures /\ \A i \in 1..Slots : u[i] = IF i \in Named(t, n) THEN None ELSE t[i]
  <2>1. CASE Named(t, n) = {}
    BY <1>1, <2>1 DEF MeasurementsDel, Tidy
  <2>2. CASE Named(t, n) # {}
    <3>1. PICK k : k = First(Named(t, n))
      OBVIOUS
    <3>2. Named(t, n) \in SUBSET (1..Slots)
      BY DEF Named
    <3>3. k \in Named(t, n)
      BY <2>2, <3>1, <3>2, FirstIs
    <3>4. \A i \in 1..Slots : i \in Named(t, n) => i = k
      BY <1>2, <3>2, <3>3 DEF Tidy, Unique
    <3>5. u = [t EXCEPT ![k] = None]
      BY <1>1, <2>2, <3>1 DEF MeasurementsDel
    <3>6. u \in Measures /\ \A i \in 1..Slots : u[i] = IF i = k THEN None ELSE t[i]
      BY <3>5 DEF Tidy, Measures
    <3> QED BY <3>3, <3>4, <3>6
  <2> QED BY <2>1, <2>2
<1>4. Unique(u)
  BY <1>3 DEF Tidy, Unique
<1> QED BY <1>1, <1>2, <1>3, <1>4 DEF Tidy

\* What a definition is, and a measurement that is set.
LEMMA DefIs ==
  ASSUME NEW n \in Names, NEW y, y \in {"builtin", "modbus"}
  PROVE  Def(n, y, 1) \in Kept /\ Def(n, y, 1).name = n /\ Def(n, y, 1).type = y
<1>1. PICK x : x = Def(n, y, 1)
  OBVIOUS
<1>2. /\ x \in Definitions /\ x.count = 1 /\ x.name = n /\ x.type = y
  BY <1>1, TablesAssumption DEF Def, Definitions
<1> QED BY <1>1, <1>2 DEF Kept

\* The settings change no name and no type.
SameNames(u, t) ==
    \A i \in 1..Slots :
        /\ u[i] = None <=> t[i] = None
        /\ t[i] # None => u[i].name = t[i].name /\ u[i].type = t[i].type

LEMMA NoneIsNoDefinition ==
  \A x \in Kept : x # None
BY TablesAssumption DEF Kept

LEMMA SettingsAre ==
  ASSUME NEW t, Tidy(t), NEW n, NEW u,
         \/ \E v \in Intervals : u = SetInterval(t, n, v)
         \/ \E v \in Counts : u = SetSamplecount(t, n, v)
         \/ \E v \in BOOLEAN : u = SetImmediate(t, n, v)
  PROVE  Tidy(u) /\ SameNames(u, t)
<1>1. \A i \in Named(t, n) : i \in 1..Slots /\ t[i] # None
  BY DEF Named
<1>2. \A i \in 1..Slots : t[i] # None => t[i] \in Kept
  BY DEF Tidy, Measures
\* One measurement that is set.
<1> DEFINE Same(x, y) == x \in Kept /\ x.name = y.name /\ x.type = y.type
<1>3. \A x \in Kept :
         /\ \A v \in Intervals : Same([x EXCEPT !.interval = v], x)
         /\ \A v \in Counts : v # 0 => Same([x EXCEPT !.count = v], x)
         /\ \A v \in BOOLEAN : Same([x EXCEPT !.immediate = v], x)
  <2> SUFFICES ASSUME NEW x \in Kept
               PROVE  /\ \A v \in Intervals : Same([x EXCEPT !.interval = v], x)
                      /\ \A v \in Counts : v # 0 => Same([x EXCEPT !.count = v], x)
                      /\ \A v \in BOOLEAN : Same([x EXCEPT !.immediate = v], x)
    OBVIOUS
  <2>1. x \in Definitions /\ x.count # 0
    BY DEF Kept
  <2>2. ASSUME NEW v \in Intervals PROVE Same([x EXCEPT !.interval = v], x)
    BY <2>1 DEF Kept, Definitions
  <2>3. ASSUME NEW v \in Counts, v # 0 PROVE Same([x EXCEPT !.count = v], x)
    BY <2>1, <2>3 DEF Kept, Definitions
  <2>4. ASSUME NEW v \in BOOLEAN PROVE Same([x EXCEPT !.immediate = v], x)
    BY <2>1 DEF Kept, Definitions
  <2> QED BY <2>2, <2>3, <2>4
<1>4. DOMAIN u = 1..Slots /\ u = [i \in 1..Slots |-> u[i]]
      /\ \A i \in 1..Slots : u[i] = t[i] \/ (t[i] # None /\ Same(u[i], t[i]))
  <2> HIDE DEF Same
  <2>1. ASSUME NEW v \in Intervals, u = SetInterval(t, n, v)
        PROVE  DOMAIN u = 1..Slots /\ u = [i \in 1..Slots |-> u[i]]
               /\ \A i \in 1..Slots : u[i] = t[i] \/ (t[i] # None /\ Same(u[i], t[i]))
    BY <1>1, <1>2, <1>3, <2>1 DEF SetInterval
  <2>2. ASSUME NEW v \in Counts, u = SetSamplecount(t, n, v)
        PROVE  DOMAIN u = 1..Slots /\ u = [i \in 1..Slots |-> u[i]]
               /\ \A i \in 1..Slots : u[i] = t[i] \/ (t[i] # None /\ Same(u[i], t[i]))
    BY <1>1, <1>2, <1>3, <2>2 DEF SetSamplecount
  <2>3. ASSUME NEW v \in BOOLEAN, u = SetImmediate(t, n, v)
        PROVE  DOMAIN u = 1..Slots /\ u = [i \in 1..Slots |-> u[i]]
               /\ \A i \in 1..Slots : u[i] = t[i] \/ (t[i] # None /\ Same(u[i], t[i]))
    BY <1>1, <1>2, <1>3, <2>3 DEF SetImmediate
  <2> QED BY <2>1, <2>2, <2>3
<1>5. u \in Measures
  <2>1. \A i \in 1..Slots : u[i] \in Kept \cup {None}
    BY <1>2, <1>4
  <2> QED BY <1>4, <2>1 DEF Measures
<1>6. SameNames(u, t)
  BY <1>2, <1>4, NoneIsNoDefinition DEF SameNames
<1>7. Unique(u)
  BY <1>6 DEF Tidy, Unique, SameNames
<1> QED BY <1>5, <1>6, <1>7 DEF Tidy

LeftIs(f, n, c, list) ==
    f = [i \in 0..n |-> IF i = 0 THEN c.meas
                        ELSE MeasurementsDel(f[i - 1], c.block[list[i]].name)]

LEMMA LeftExists ==
  ASSUME NEW c, NEW list, NEW n \in Nat
  PROVE  \E f : LeftIs(f, n, c, list)
<1> DEFINE Q == {k \in Nat : \E f : LeftIs(f, k, c, list)}
<1>1. 0 \in Q
  <2>1. LeftIs([i \in 0..0 |-> c.meas], 0, c, list)
    BY DEF LeftIs
  <2> QED BY <2>1
<1>2. ASSUME NEW k \in Nat, k \in Q PROVE k + 1 \in Q
  <2>1. PICK f : LeftIs(f, k, c, list)
    BY <1>2
  <2> DEFINE g == [i \in 0..(k + 1) |-> IF i = k + 1 THEN MeasurementsDel(f[k], c.block[list[i]].name) ELSE f[i]]
  <2>2. \A i \in 0..k : g[i] = f[i]
    OBVIOUS
  <2>3. g[k + 1] = MeasurementsDel(g[k], c.block[list[k + 1]].name)
    <3>1. g[k] = f[k] /\ k + 1 \in 0..(k + 1)
      BY <2>2
    <3>2. g[k + 1] = MeasurementsDel(f[k], c.block[list[k + 1]].name)
      BY <3>1
    <3> QED BY <3>1, <3>2
  <2>4. \A i \in 0..k : f[i] = IF i = 0 THEN c.meas ELSE MeasurementsDel(f[i - 1], c.block[list[i]].name)
    BY <2>1 DEF LeftIs
  <2>5. g = [i \in 0..(k + 1) |-> g[i]]
    OBVIOUS
  <2> HIDE DEF g
  <2>6. \A i \in 0..(k + 1) : g[i] = IF i = 0 THEN c.meas ELSE MeasurementsDel(g[i - 1], c.block[list[i]].name)
    <3> SUFFICES ASSUME NEW i \in 0..(k + 1)
                 PROVE  g[i] = IF i = 0 THEN c.meas ELSE MeasurementsDel(g[i - 1], c.block[list[i]].name)
      OBVIOUS
    <3>1. CASE i = 0
      BY <2>2, <2>4, <3>1
    <3>2. CASE i # 0 /\ i # k + 1
      <4>1. i \in 0..k /\ i - 1 \in 0..k
        BY <3>2
      <4> QED BY <2>2, <2>4, <3>2, <4>1
    <3>3. CASE i = k + 1
      <4>1. i - 1 = k /\ i # 0
        BY <3>3
      <4> QED BY <2>3, <3>3, <4>1
    <3> QED BY <3>1, <3>2, <3>3
  <2>7. LeftIs(g, k + 1, c, list)
    BY <2>5, <2>6 DEF LeftIs
  <2> QED BY <2>7
<1> HIDE DEF Q
<1>3. Nat \subseteq Q
  BY <1>1, <1>2, Induction
<1> QED BY <1>3 DEF Q

WithIs(f, n, t) ==
    f = [i \in 0..n |-> IF i = 0 THEN t
                        ELSE MeasurementsAdd(f[i - 1], Def(BuiltIns[i], "builtin", 1))]

LEMMA WithExists ==
  ASSUME NEW t, NEW n \in Nat
  PROVE  \E f : WithIs(f, n, t)
<1> DEFINE Q == {k \in Nat : \E f : WithIs(f, k, t)}
<1>1. 0 \in Q
  <2>1. WithIs([i \in 0..0 |-> t], 0, t)
    BY DEF WithIs
  <2> QED BY <2>1
<1>2. ASSUME NEW k \in Nat, k \in Q PROVE k + 1 \in Q
  <2>1. PICK f : WithIs(f, k, t)
    BY <1>2
  <2> DEFINE g == [i \in 0..(k + 1) |-> IF i = k + 1 THEN MeasurementsAdd(f[k], Def(BuiltIns[i], "builtin", 1)) ELSE f[i]]
  <2>2. \A i \in 0..k : g[i] = f[i]
    OBVIOUS
  <2>3. g[k + 1] = MeasurementsAdd(g[k], Def(BuiltIns[k + 1], "builtin", 1))
    <3>1. g[k] = f[k] /\ k + 1 \in 0..(k + 1)
      BY <2>2
    <3>2. g[k + 1] = MeasurementsAdd(f[k], Def(BuiltIns[k + 1], "builtin", 1))
      BY <3>1
    <3> QED BY <3>1, <3>2
  <2>4. \A i \in 0..k : f[i] = IF i = 0 THEN t ELSE MeasurementsAdd(f[i - 1], Def(BuiltIns[i], "builtin", 1))
    BY <2>1 DEF WithIs
  <2>5. g = [i \in 0..(k + 1) |-> g[i]]
    OBVIOUS
  <2> HIDE DEF g
  <2>6. \A i \in 0..(k + 1) : g[i] = IF i = 0 THEN t ELSE MeasurementsAdd(g[i - 1], Def(BuiltIns[i], "builtin", 1))
    <3> SUFFICES ASSUME NEW i \in 0..(k + 1)
                 PROVE  g[i] = IF i = 0 THEN t ELSE MeasurementsAdd(g[i - 1], Def(BuiltIns[i], "builtin", 1))
      OBVIOUS
    <3>1. CASE i = 0
      BY <2>2, <2>4, <3>1
    <3>2. CASE i # 0 /\ i # k + 1
      <4>1. i \in 0..k /\ i - 1 \in 0..k
        BY <3>2
      <4> QED BY <2>2, <2>4, <3>2, <4>1
    <3>3. CASE i = k + 1
      <4>1. i - 1 = k /\ i # 0
        BY <3>3
      <4> QED BY <2>3, <3>3, <4>1
    <3> QED BY <3>1, <3>2, <3>3
  <2>7. WithIs(g, k + 1, t)
    BY <2>5, <2>6 DEF WithIs
  <2> QED BY <2>7
<1> HIDE DEF Q
<1>3. Nat \subseteq Q
  BY <1>1, <1>2, Induction
<1> QED BY <1>3 DEF Q

\* The measurements of the names of a list's registers are deleted.
NamesOf(c, list) == {c.block[r].name : r \in Range(list)}

LEMMA DelAllIs ==
  ASSUME NEW c, Tidy(c.meas), NEW list \in Seq(Block)
  PROVE  /\ Tidy(MeasurementsDelAll(c, list))
         /\ \A i \in 1..Slots : MeasurementsDelAll(c, list)[i] =
               IF c.meas[i] # None /\ c.meas[i].name \in NamesOf(c, list)
               THEN None ELSE c.meas[i]
<1>1. PICK n \in Nat : n = Len(list)
  OBVIOUS
<1> DEFINE f == CHOOSE f : LeftIs(f, n, c, list)
<1>2. LeftIs(f, n, c, list)
  BY LeftExists
<1>3. MeasurementsDelAll(c, list) = f[n]
  BY <1>1 DEF MeasurementsDelAll, LeftIs
<1> HIDE DEF f
<1> DEFINE UpTo(k) == {c.block[list[i]].name : i \in 1..k}
           Out(u, S) == Tidy(u) /\ \A i \in 1..Slots :
               u[i] = IF c.meas[i] # None /\ c.meas[i].name \in S THEN None ELSE c.meas[i]
           Q == {k \in 0..n : Out(f[k], UpTo(k))}
<1>4. 0 \in Q
  <2>1. f[0] = c.meas /\ 0 \in 0..n
    BY <1>2 DEF LeftIs
  <2>2. UpTo(0) = {}
    OBVIOUS
  <2> QED BY <2>1, <2>2
<1>5. ASSUME NEW k \in 0..n, k \in Q, k < n PROVE k + 1 \in Q
  <2>1. PICK m \in 1..n : m = k + 1 /\ m - 1 = k
    BY <1>5
  <2>2. PICK x : x = c.block[list[m]].name
    OBVIOUS
  <2>3. PICK u : u = f[k]
    OBVIOUS
  <2>4. f[m] = MeasurementsDel(u, x)
    BY <1>2, <2>1, <2>2, <2>3 DEF LeftIs
  <2>5. UpTo(m) = UpTo(k) \cup {x}
    BY <2>1, <2>2
  <2>6. Out(u, UpTo(k))
    BY <1>5, <2>3
  <2> HIDE DEF UpTo
  <2>7. /\ Tidy(f[m])
        /\ \A i \in 1..Slots : f[m][i] = IF u[i] # None /\ u[i].name = x THEN None ELSE u[i]
    BY <2>4, <2>6, DelIs
  <2>8. Out(f[m], UpTo(k) \cup {x})
    BY <2>6, <2>7
  <2>9. m \in 0..n /\ Out(f[m], UpTo(m))
    BY <2>1, <2>5, <2>8
  <2> HIDE DEF Out
  <2>10. m \in Q
    BY <2>9
  <2> QED BY <2>1, <2>10
<1>6. n \in Q
  <2> HIDE DEF Q
  <2>1. 0..n \subseteq Q
    BY <1>4, <1>5, InductionUpTo
  <2> QED BY <2>1
<1>7. UpTo(n) = NamesOf(c, list)
  <2>1. Range(list) = {list[i] : i \in 1..n}
    BY <1>1, ListRange
  <2> QED BY <2>1 DEF NamesOf
<1>8. Out(f[n], NamesOf(c, list))
  BY <1>6, <1>7
<1> QED BY <1>3, <1>8

\* What the model puts in empty slots.
LEMMA BuiltInsAre ==
  /\ Len(BuiltIns) \in Nat /\ Len(BuiltIns) < Slots
  /\ Range(BuiltIns) = {BuiltIns[i] : i \in 1..Len(BuiltIns)}
  /\ \A i \in 1..Len(BuiltIns) : BuiltIns[i] \in Names
<1>1. BuiltIns \in Seq(Range(BuiltIns)) /\ Len(BuiltIns) < Slots
  BY TablesAssumption
<1>2. DOMAIN BuiltIns = 1..Len(BuiltIns) /\ Len(BuiltIns) \in Nat
  BY <1>1
<1>3. Range(BuiltIns) = {BuiltIns[i] : i \in 1..Len(BuiltIns)}
  BY <1>2 DEF Range
<1> QED BY <1>1, <1>2, <1>3 DEF Names

IsBuiltIn(x) == x.type = "builtin" /\ x.name \in Range(BuiltIns)

LEMMA RepopulateIs ==
  ASSUME NEW t, Tidy(t)
  PROVE  /\ Tidy(Repopulate(t))
         /\ \A i \in 1..Slots : Repopulate(t)[i] = t[i]
               \/ (t[i] = None /\ IsBuiltIn(Repopulate(t)[i]))
         /\ t = NoMeasurements =>
               /\ \A n \in Range(BuiltIns) : \E i \in 1..Slots :
                     Repopulate(t)[i] # None /\ Repopulate(t)[i].name = n
               /\ \E i \in 1..Slots : Repopulate(t)[i] = None
<1>1. PICK n \in Nat : n = Len(BuiltIns) /\ n < Slots
  BY BuiltInsAre
<1> DEFINE f == CHOOSE f : WithIs(f, n, t)
<1>2. WithIs(f, n, t)
  BY WithExists
<1>3. Repopulate(t) = f[n]
  BY <1>1 DEF Repopulate, WithIs
<1> HIDE DEF f
<1> DEFINE Has(u, k) == \A m \in 1..k : \E i \in 1..Slots : u[i] # None /\ u[i].name = BuiltIns[m]
           Step(u, k) == /\ Tidy(u)
                         /\ \A i \in 1..Slots : u[i] = t[i] \/ (t[i] = None /\ IsBuiltIn(u[i]))
                         /\ t = NoMeasurements =>
                              Has(u, k) /\ \A i \in 1..Slots : i > k => u[i] = None
           Q == {k \in 0..n : Step(f[k], k)}
<1>4. 0 \in Q
  <2>1. f[0] = t /\ 0 \in 0..n
    BY <1>2 DEF WithIs
  <2>2. t = NoMeasurements => \A i \in 1..Slots : t[i] = None
    BY DEF NoMeasurements
  <2>3. Has(t, 0)
    OBVIOUS
  <2> HIDE DEF Has
  <2>4. \A i \in 1..Slots : t[i] = t[i] \/ (t[i] = None /\ IsBuiltIn(t[i]))
    OBVIOUS
  <2>5. t = NoMeasurements => Has(t, 0) /\ \A i \in 1..Slots : i > 0 => t[i] = None
    BY <2>2, <2>3
  <2>6. Step(t, 0)
    BY <2>4, <2>5
  <2> HIDE DEF Step
  <2> QED BY <2>1, <2>6
<1>5. ASSUME NEW k \in 0..n, k \in Q, k < n PROVE k + 1 \in Q
  <2>1. PICK m \in 1..n : m = k + 1 /\ m - 1 = k
    BY <1>5
  <2>2. PICK b : b = "builtin"
    OBVIOUS
  <2>3. PICK x : x = Def(BuiltIns[m], b, 1)
    OBVIOUS
  <2>4. PICK u : u = f[k]
    OBVIOUS
  <2>5. PICK v : v = MeasurementsAdd(u, x)
    OBVIOUS
  <2>6. f[m] = v
    BY <1>2, <2>1, <2>2, <2>3, <2>4, <2>5 DEF WithIs
  <2>7. x \in Kept /\ x.name = BuiltIns[m] /\ x.type = b
    <3>1. BuiltIns[m] \in Names
      BY <1>1, BuiltInsAre
    <3> QED BY <2>2, <2>3, <3>1, DefIs
  <2>8. IsBuiltIn(x) /\ x # None
    BY <1>1, <2>2, <2>7, BuiltInsAre, NoneIsNoDefinition DEF IsBuiltIn
  <2>9. Step(u, k)
    BY <1>5, <2>4
  <2> HIDE DEF Has
  <2>10. /\ Tidy(v)
         /\ \/ v = u /\ ~CanAdd(u, x.name)
            \/ \E i \in 1..Slots :
                  /\ u[i] = None /\ Named(u, x.name) = {} /\ i = First(Empty(u))
                  /\ v[i] = x
                  /\ \A j \in 1..Slots : j # i => v[j] = u[j]
    BY <2>5, <2>7, <2>9, AddIs
  <2>11. \A i \in 1..Slots : v[i] = t[i] \/ (t[i] = None /\ IsBuiltIn(v[i]))
    BY <2>8, <2>9, <2>10
  <2>12. ASSUME t = NoMeasurements
         PROVE  Has(v, m) /\ \A i \in 1..Slots : i > m => v[i] = None
    <3>1. m \in 1..Slots /\ u[m] = None /\ Has(u, k) /\ \A i \in 1..Slots : i > k => u[i] = None
      <4>1. m \in 1..Slots /\ m > k
        <5>1. Slots \in Nat
          BY TablesAssumption
        <5> QED BY <1>1, <2>1, <5>1
      <4> QED BY <2>9, <2>12, <4>1
    <3>2. Empty(u) # {} /\ Empty(u) \in SUBSET (1..Slots)
      BY <3>1 DEF Empty
    <3>3. \A i \in 1..k : i \in 1..m
      BY <2>1
    <3>4. \A i \in 1..m : i \in 1..k \/ i = m
      BY <2>1
    <3>5. CASE v = u /\ ~CanAdd(u, x.name)
      <4>1. Named(u, BuiltIns[m]) # {}
        BY <2>7, <3>2, <3>5 DEF CanAdd
      <4>2. \E i \in 1..Slots : u[i] # None /\ u[i].name = BuiltIns[m]
        BY <4>1 DEF Named
      <4>3. Has(v, m)
        BY <3>1, <3>4, <3>5, <4>2 DEF Has
      <4>4. \A i \in 1..Slots : i > m => i > k
        BY <2>1
      <4> QED BY <3>1, <3>5, <4>3, <4>4
    <3>6. ASSUME NEW i \in 1..Slots, u[i] = None, i = First(Empty(u)), v[i] = x,
                 \A j \in 1..Slots : j # i => v[j] = u[j]
          PROVE  Has(v, m) /\ \A j \in 1..Slots : j > m => v[j] = None
      <4>1. i <= m
        <5>1. m \in Empty(u)
          BY <3>1 DEF Empty
        <5> QED BY <3>2, <3>6, <5>1, FirstIs
      <4>2. \A j \in 1..Slots : u[j] # None => v[j] = u[j]
        BY <3>6
      <4>3. v[i] # None /\ v[i].name = BuiltIns[m]
        BY <2>7, <2>8, <3>6
      <4>4. Has(v, m)
        <5> SUFFICES ASSUME NEW a \in 1..m
                     PROVE  \E j \in 1..Slots : v[j] # None /\ v[j].name = BuiltIns[a]
          BY DEF Has
        <5>1. CASE a = m
          BY <4>3, <5>1
        <5>2. CASE a # m
          <6>1. PICK j \in 1..Slots : u[j] # None /\ u[j].name = BuiltIns[a]
            BY <3>1, <3>4, <5>2 DEF Has
          <6> QED BY <4>2, <6>1
        <5> QED BY <5>1, <5>2
      <4>5. ASSUME NEW j \in 1..Slots, j > m PROVE v[j] = None
        <5>1. j > k /\ j # i
          BY <1>1, <2>1, <4>1, <4>5
        <5> QED BY <3>1, <3>6, <5>1
      <4> QED BY <4>4, <4>5
    <3> QED BY <2>10, <3>5, <3>6
  <2>13. Step(v, m)
    BY <2>10, <2>11, <2>12
  <2>14. m \in 0..n /\ Step(f[m], m)
    BY <2>1, <2>6, <2>13
  <2> HIDE DEF Step
  <2>15. m \in Q
    BY <2>14
  <2> QED BY <2>1, <2>15
<1>6. n \in Q
  <2> HIDE DEF Q
  <2>1. 0..n \subseteq Q
    BY <1>4, <1>5, InductionUpTo
  <2> QED BY <2>1
<1>7. Step(f[n], n)
  BY <1>6
<1>8. \A b \in Range(BuiltIns) : \E m \in 1..n : b = BuiltIns[m]
  BY <1>1, BuiltInsAre
<1>9. ASSUME t = NoMeasurements, NEW b \in Range(BuiltIns)
      PROVE  \E i \in 1..Slots : f[n][i] # None /\ f[n][i].name = b
  BY <1>7, <1>8, <1>9
<1>10. ASSUME t = NoMeasurements PROVE \E i \in 1..Slots : f[n][i] = None
  <2>1. Slots \in 1..Slots /\ Slots > n
    BY <1>1, TablesAssumption
  <2> QED BY <1>7, <1>10, <2>1
<1> QED BY <1>3, <1>7, <1>9, <1>10

-----------------------------------------------------------------------------
(* The commands.                                                           *)

Whole(c) == Sound(c) /\ Unique(c.meas)
Remeasured(c, t) == [c EXCEPT !.meas = t]

LEMMA RemeasuredIs ==
  ASSUME NEW c, Sound(c), NEW t \in Measures
  PROVE  /\ Sound(Remeasured(c, t)) /\ Remeasured(c, t).meas = t
         /\ Remeasured(c, t).first_dev = c.first_dev
         /\ Remeasured(c, t).first_free = c.first_free
         /\ Remeasured(c, t).block = c.block
<1>1. /\ c \in Tabs
      /\ c = [first_dev |-> c.first_dev, first_free |-> c.first_free,
              block |-> c.block, meas |-> c.meas]
  BY DEF Sound, Tabs
<1>2. PICK e : e = Remeasured(c, t)
  OBVIOUS
<1>3. e = [first_dev |-> c.first_dev, first_free |-> c.first_free,
           block |-> c.block, meas |-> t]
  BY <1>1, <1>2 DEF Remeasured
<1>4. e \in Tabs /\ e.meas = t /\ e.first_dev = c.first_dev
      /\ e.first_free = c.first_free /\ e.block = c.block
  BY <1>1, <1>3 DEF Tabs
<1>5. PoolOf(e)
  BY <1>4 DEF Sound, PoolOf
<1> QED BY <1>2, <1>4, <1>5 DEF Sound

LEMMA WholeIsTidy ==
  ASSUME NEW c, Whole(c)
  PROVE  Tidy(c.meas) /\ Sound(c)
BY DEF Whole, Sound, Tabs, Tidy

\* The measurements w are t with one of the name n, of a register, if there
\* was room for it.
MeasAdded(w, t, n) ==
    /\ Tidy(w)
    /\ \A i \in 1..Slots : t[i] # None /\ t[i].name # n => w[i] = t[i]
    /\ \A i \in 1..Slots : w[i] # None =>
          \/ w[i] = t[i] /\ t[i] # None /\ t[i].name # n
          \/ w[i].name = n /\ w[i].type = "modbus"
    /\ \/ \A i \in 1..Slots : w[i] # None
       \/ \E i \in 1..Slots : w[i] # None /\ w[i].name = n

LEMMA MeasAddIs ==
  ASSUME NEW t, Tidy(t), NEW n \in Names
  PROVE  MeasAdded(ModbusMeasurementAdd(t, n), t, n)
<1>1. PICK y : y = "modbus"
  OBVIOUS
<1>2. PICK x : x = Def(n, y, 1)
  OBVIOUS
<1>3. x \in Kept /\ x.name = n /\ x.type = y
  BY <1>1, <1>2, DefIs
<1>4. PICK v : v = MeasurementsDel(t, n)
  OBVIOUS
<1>5. Tidy(v) /\ \A i \in 1..Slots : v[i] = IF t[i] # None /\ t[i].name = n THEN None ELSE t[i]
  BY <1>4, DelIs
<1>6. PICK w : w = MeasurementsAdd(v, x)
  OBVIOUS
<1>7. /\ Tidy(w)
      /\ \/ w = v
         \/ \E i \in 1..Slots : /\ v[i] = None /\ w[i] = x
                                /\ \A j \in 1..Slots : j # i => w[j] = v[j]
      /\ \/ \A i \in 1..Slots : w[i] # None
         \/ \E i \in 1..Slots : w[i] # None /\ w[i].name = n
  <2>1. /\ Tidy(w)
        /\ \/ w = v /\ ~CanAdd(v, x.name)
           \/ \E i \in 1..Slots :
                  /\ v[i] = None /\ Named(v, x.name) = {} /\ i = First(Empty(v))
                  /\ w[i] = x
                  /\ \A j \in 1..Slots : j # i => w[j] = v[j]
    BY <1>3, <1>5, <1>6, AddIs
  <2>2. x # None
    BY <1>3, NoneIsNoDefinition
  <2>3. ~CanAdd(v, n) => \/ \A i \in 1..Slots : v[i] # None
                         \/ \E i \in 1..Slots : v[i] # None /\ v[i].name = n
    BY DEF CanAdd, Named, Empty
  <2> QED BY <1>3, <2>1, <2>2, <2>3
<1>8. ModbusMeasurementAdd(t, n) = w
  BY <1>1, <1>2, <1>4, <1>6, Zenon DEF ModbusMeasurementAdd
<1>9. \A i \in 1..Slots : w[i] = v[i] \/ (v[i] = None /\ w[i] = x)
  BY <1>7
<1>10. \A i \in 1..Slots : t[i] # None /\ t[i].name # n => w[i] = t[i]
  BY <1>5, <1>9
<1>11. \A i \in 1..Slots : w[i] # None =>
          \/ w[i] = t[i] /\ t[i] # None /\ t[i].name # n
          \/ w[i].name = n /\ w[i].type = y
  BY <1>3, <1>5, <1>9
<1> QED BY <1>1, <1>7, <1>8, <1>10, <1>11 DEF MeasAdded

\* A register of the unit u, and a measurement of it, were added.
RegPutIn(e, c, u, a, n) ==
    /\ Whole(e) /\ MeasAdded(e.meas, c.meas, n)
    /\ \E b \in Block :
          /\ c.block[b] \in FreeBlocks /\ e.block[b] \in RegBlocks
          /\ e.block[b].unit = u /\ e.block[b].name = n /\ e.block[b].addr = a
          /\ e.block[b].state = "invalid"
          /\ \A x \in Block : x # b => Alike(e.block[x], c.block[x])

LEMMA MbRegAddIs ==
  ASSUME NEW c, Whole(c), NEW u \in Units, NEW a \in Addrs, NEW n \in RegNames
  PROVE  MbRegAdd(c, u, a, n) = c \/ RegPutIn(MbRegAdd(c, u, a, n), c, u, a, n)
<1>1. PICK F, D, R : In(c, F, D, R)
  BY WholeIsTidy DEF Sound, PoolOf, Pool, In
<1>2. PICK d : d = GetDeviceById(c, u)
  OBVIOUS
<1>3. PICK e : e = DevAddReg(c, d, n, a)
  OBVIOUS
<1>4. CASE d = 0 \/ e = c
  BY <1>2, <1>3, <1>4, Zenon DEF MbRegAdd
<1>5. CASE ~(d = 0 \/ e = c)
  <2>1. d \in Range(D) /\ c.block[d].unit = u
    BY <1>1, <1>2, <1>5, ByIdFinds
  <2>2. PICK b : RegAdded(e, c, b, d, n, a)
    <3>1. Sound(c)
      BY WholeIsTidy
    <3>2. DevAddReg(c, d, n, a) = c \/ \E b : RegAdded(DevAddReg(c, d, n, a), c, b, d, n, a)
      BY <1>1, <2>1, <3>1, DevAddRegIs
    <3> QED BY <1>3, <1>5, <3>2
  <2>3. /\ Sound(e) /\ e.meas = c.meas
        /\ b \in Block /\ c.block[b] \in FreeBlocks /\ e.block[b] \in RegBlocks
        /\ e.block[b].unit = u /\ e.block[b].name = n
        /\ e.block[b].addr = a /\ e.block[b].state = "invalid"
        /\ \A x \in Block : x # b => Alike(e.block[x], c.block[x])
    BY <2>1, <2>2 DEF RegAdded
  <2>4. PICK w : w = ModbusMeasurementAdd(c.meas, n)
    OBVIOUS
  <2>5. MeasAdded(w, c.meas, n)
    <3>1. n \in Names /\ Tidy(c.meas)
      BY WholeIsTidy DEF Names
    <3> QED BY <2>4, <3>1, MeasAddIs
  <2>6. w \in Measures /\ Unique(w)
    BY <2>5 DEF MeasAdded, Tidy
  <2>7. PICK g : g = Remeasured(e, w)
    OBVIOUS
  <2>8. MbRegAdd(c, u, a, n) = g
    <3>1. MbRegAdd(c, u, a, n) = [e EXCEPT !.meas = ModbusMeasurementAdd(@, n)]
      BY <1>2, <1>3, <1>5, Zenon DEF MbRegAdd
    <3>2. [e EXCEPT !.meas = ModbusMeasurementAdd(@, n)] = [e EXCEPT !.meas = ModbusMeasurementAdd(e.meas, n)]
      OBVIOUS
    <3> QED BY <2>3, <2>4, <2>7, <3>1, <3>2 DEF Remeasured
  <2>9. Sound(g) /\ g.meas = w /\ g.block = e.block
    BY <2>3, <2>6, <2>7, RemeasuredIs
  <2>10. RegPutIn(g, c, u, a, n)
    <3>1. Whole(g) /\ MeasAdded(g.meas, c.meas, n)
      BY <2>5, <2>6, <2>9 DEF Whole
    <3> QED BY <2>3, <2>9, <3>1 DEF RegPutIn
  <2> QED BY <2>8, <2>10
<1> QED BY <1>4, <1>5

\* The measurements w are t without those whose names are in S.
MeasTaken(w, t, S) ==
    \A i \in 1..Slots : w[i] = IF t[i] # None /\ t[i].name \in S THEN None ELSE t[i]

\* The blocks of X were freed, the others stay as they are.
Freed(e, c, X) ==
    /\ \A x \in X : e.block[x] \in FreeBlocks
    /\ \A x \in Block \ X : Alike(e.block[x], c.block[x])

\* The measurement of the name n went, and a register r of it, which may be
\* left if the devices are not clear.
RegTakenOut(e, c, n) ==
    /\ Whole(e) /\ MeasTaken(e.meas, c.meas, {n})
    /\ \E r \in Block :
          /\ c.block[r] \in RegBlocks /\ c.block[r].name = n
          /\ Freed(e, c, {r}) \/ (~Clear(c) /\ e.block = c.block)

LEMMA MbRegDelIs ==
  ASSUME NEW c, Whole(c), NEW n
  PROVE  MbRegDel(c, n) = c \/ RegTakenOut(MbRegDel(c, n), c, n)
<1>1. PICK F, D, R : In(c, F, D, R)
  BY WholeIsTidy DEF Sound, PoolOf, Pool, In
<1>2. CASE GetReg(c, n) = 0
  BY <1>2 DEF MbRegDel
<1>3. CASE GetReg(c, n) # 0
  <2>1. PICK r : r = GetReg(c, n)
    OBVIOUS
  <2>2. PICK d \in Range(D) : r \in Range(R[d]) /\ c.block[r].name = n
    BY <1>1, <1>3, <2>1, RegFinds
  <2>3. r \in Block /\ c.block[r] \in RegBlocks
    <3>1. Lonely(F, D, R)
      BY <1>1, InOneList DEF In
    <3> QED BY <1>1, <2>2, <3>1 DEF Lonely, In, InLists, Kinds
  <2>4. PICK w : w = MeasurementsDel(c.meas, n)
    OBVIOUS
  <2>5. w \in Measures /\ Unique(w) /\ MeasTaken(w, c.meas, {n})
    <3>1. /\ Tidy(w)
          /\ \A i \in 1..Slots : w[i] = IF c.meas[i] # None /\ c.meas[i].name = n
                                        THEN None ELSE c.meas[i]
      BY <2>4, WholeIsTidy, DelIs
    <3> QED BY <3>1 DEF Tidy, MeasTaken
  <2>6. PICK g : g = Remeasured(c, w)
    OBVIOUS
  <2>7. Sound(g) /\ g.meas = w /\ g.block = c.block
    BY <2>5, <2>6, WholeIsTidy, RemeasuredIs
  <2>8. PICK e : e = RegDel(g, r)
    OBVIOUS
  <2>9. MbRegDel(c, n) = e
    <3>1. [c EXCEPT !.meas = MeasurementsDel(@, n)] = g
      BY <2>4, <2>6 DEF Remeasured
    <3> QED BY <1>3, <2>1, <2>8, <3>1, Zenon DEF MbRegDel
  <2>10. (e = g /\ ~Clear(g)) \/ RegRemoved(e, g, r)
    BY <2>3, <2>7, <2>8, RegDelIs
  <2>11. CASE e = g /\ ~Clear(g)
    <3>1. ~Clear(c)
      BY <2>7, <2>11 DEF Clear
    <3>2. Whole(e)
      BY <2>5, <2>7, <2>11 DEF Whole
    <3>3. RegTakenOut(e, c, n)
      BY <2>2, <2>3, <2>5, <2>7, <2>11, <3>1, <3>2 DEF RegTakenOut
    <3> QED BY <2>9, <3>3
  <2>12. CASE RegRemoved(e, g, r)
    <3>1. Whole(e) /\ e.meas = w /\ Freed(e, c, {r})
      BY <2>5, <2>7, <2>12 DEF RegRemoved, Whole, Freed
    <3>2. RegTakenOut(e, c, n)
      BY <2>2, <2>3, <2>5, <3>1 DEF RegTakenOut
    <3> QED BY <2>9, <3>2
  <2> QED BY <2>10, <2>11, <2>12
<1> QED BY <1>2, <1>3

\* A device d of the name n was freed with its registers, X, and the
\* measurements of their names went.
DevTakenOut(e, c, n) ==
    /\ Whole(e)
    /\ \E d \in Block, X \in SUBSET Block :
          /\ c.block[d] \in DevBlocks /\ c.block[d].name = n
          /\ \A x \in X : c.block[x] \in RegBlocks
          /\ Freed(e, c, X \cup {d})
          /\ MeasTaken(e.meas, c.meas, {c.block[x].name : x \in X})

LEMMA MbDevDelIs ==
  ASSUME NEW c, Whole(c), NEW n
  PROVE  MbDevDel(c, n) = c \/ DevTakenOut(MbDevDel(c, n), c, n)
<1>1. PICK F, D, R : In(c, F, D, R)
  BY WholeIsTidy DEF Sound, PoolOf, Pool, In
<1>2. PICK d : d = GetDeviceByName(c, n)
  OBVIOUS
<1>3. CASE d = 0
  BY <1>2, <1>3, Zenon DEF MbDevDel
<1>4. CASE d # 0
  <2>1. d \in Range(D) /\ c.block[d].name = n
    BY <1>1, <1>2, <1>4, ByNameFinds
  <2>2. Regs(c, d) = R[d] /\ R[d] \in Seq(Block)
    BY <1>1, <2>1, WalksAre
  <2>3. PICK w : w = MeasurementsDelAll(c, R[d])
    OBVIOUS
  <2>4. w \in Measures /\ Unique(w) /\ MeasTaken(w, c.meas, NamesOf(c, R[d]))
    <3>1. /\ Tidy(w)
          /\ \A i \in 1..Slots : w[i] =
                IF c.meas[i] # None /\ c.meas[i].name \in NamesOf(c, R[d])
                THEN None ELSE c.meas[i]
      BY <2>2, <2>3, WholeIsTidy, DelAllIs
    <3> QED BY <3>1 DEF Tidy, MeasTaken
  <2>5. PICK g : g = Remeasured(c, w)
    OBVIOUS
  <2>6. /\ Sound(g) /\ g.meas = w /\ g.block = c.block
        /\ g.first_dev = c.first_dev /\ g.first_free = c.first_free
    BY <2>4, <2>5, WholeIsTidy, RemeasuredIs
  <2>7. In(g, F, D, R)
    BY <1>1, <2>6 DEF In
  <2>8. PICK e : e = DevDel(g, d)
    OBVIOUS
  <2>9. DevRemoved(e, g, d, Range(R[d]))
    BY <2>1, <2>6, <2>7, <2>8, DevDelIs
  <2>10. MbDevDel(c, n) = e
    <3>1. MbDevDel(c, n) = DevDel([c EXCEPT !.meas = MeasurementsDelAll(c, Regs(c, d))], d)
      BY <1>2, <1>4, Zenon DEF MbDevDel
    <3> QED BY <2>2, <2>3, <2>5, <2>8, <3>1, Zenon DEF Remeasured
  <2>11. PICK X : X = Range(R[d])
    OBVIOUS
  <2>12. /\ Sound(e) /\ e.meas = w
         /\ d \in Block /\ c.block[d] \in DevBlocks /\ X \in SUBSET Block
         /\ \A r \in X : c.block[r] \in RegBlocks
         /\ \A x \in X \cup {d} : e.block[x] \in FreeBlocks
         /\ \A x \in Block \ (X \cup {d}) : Alike(e.block[x], c.block[x])
    BY <2>6, <2>9, <2>11 DEF DevRemoved
  <2>13. MeasTaken(e.meas, c.meas, {c.block[x].name : x \in X})
    BY <2>4, <2>11, <2>12 DEF NamesOf
  <2>14. DevTakenOut(e, c, n)
    BY <2>1, <2>4, <2>12, <2>13 DEF DevTakenOut, Whole, Freed
  <2> QED BY <2>10, <2>14
<1> QED BY <1>3, <1>4

-----------------------------------------------------------------------------
(* The states of the registers, and the bus a new unit has.                *)

\* A block is written to that stays where it is.
LEMMA WrittenInPlace ==
  ASSUME NEW c, Whole(c), NEW b \in Block, NEW x, NEW v, v = Wrote(c, b, x),
         \/ /\ c.block[b] \in DevBlocks /\ x \in DevBlocks
            /\ x.next = c.block[b].next /\ x.first = c.block[b].first
            /\ x.unit = c.block[b].unit
         \/ /\ c.block[b] \in RegBlocks /\ x \in RegBlocks
            /\ x.next = c.block[b].next /\ x.unit = c.block[b].unit
  PROVE  /\ Whole(v) /\ v.meas = c.meas /\ v.block[b] = x
         /\ \A y \in Block : y # b => v.block[y] = c.block[y]
<1>1. c \in Tabs /\ x \in AnyBlock
  BY DEF Whole, Sound, AnyBlock
<1>2. /\ v \in Tabs /\ v.block[b] = x
      /\ v.first_dev = c.first_dev /\ v.first_free = c.first_free /\ v.meas = c.meas
      /\ \A y \in Block : y # b => v.block[y] = c.block[y]
  BY <1>1, BlockWritten
<1>3. PICK F, D, R : In(c, F, D, R)
  BY DEF Whole, Sound, PoolOf, Pool, In
<1>4. In(v, F, D, R)
  <2>1. PICK new : new = v.block
    OBVIOUS
  <2>2. /\ new \in [Block -> AnyBlock] /\ new[b] = x
        /\ \A y \in Block : y # b => new[y] = c.block[y]
    BY <1>2, <2>1 DEF Tabs
  <2>3. InLists(c.first_dev, c.first_free, c.block, F, D, R)
    BY <1>3 DEF In
  <2>4. \A y \in Block :
             \/ new[y] = c.block[y]
             \/ /\ c.block[y] \in DevBlocks /\ new[y] \in DevBlocks
                /\ new[y].next = c.block[y].next /\ new[y].first = c.block[y].first
                /\ new[y].unit = c.block[y].unit
             \/ /\ c.block[y] \in RegBlocks /\ new[y] \in RegBlocks
                /\ new[y].next = c.block[y].next /\ new[y].unit = c.block[y].unit
    BY <2>2
  <2>5. InLists(c.first_dev, c.first_free, new, F, D, R)
    BY <2>2, <2>3, <2>4, StatesKept
  <2> QED BY <1>2, <2>1, <2>5 DEF In
<1>5. PoolOf(v)
  BY <1>4 DEF PoolOf, Pool, In
<1> QED BY <1>2, <1>5 DEF Whole, Sound

\* A block says what it is.
LEMMA KindOf ==
  ASSUME NEW x \in AnyBlock
  PROVE  /\ x.kind = "free" <=> x \in FreeBlocks
         /\ x.kind = "dev" <=> x \in DevBlocks
         /\ x.kind = "reg" <=> x \in RegBlocks
<1>1. "free" # "dev" /\ "free" # "reg" /\ "dev" # "reg"
  OBVIOUS
<1>2. x \in FreeBlocks \/ x \in DevBlocks \/ x \in RegBlocks
  BY DEF AnyBlock
<1> QED BY <1>1, <1>2, KindsDiffer

\* The state of the register b was set to s, or the unit id of the device b
\* was spoilt by it.
StateSet(e, c, b, s) ==
    /\ Whole(e) /\ e.meas = c.meas
    /\ \A y \in Block : y # b => e.block[y] = c.block[y]
    /\ e.block[b].kind = c.block[b].kind
    /\ c.block[b].kind = "reg" =>
          /\ e.block[b].unit = c.block[b].unit /\ e.block[b].name = c.block[b].name
          /\ e.block[b].addr = c.block[b].addr /\ e.block[b].state = s
    /\ c.block[b].kind = "dev" =>
          e.block[b].unit = c.block[b].unit /\ e.block[b].name = c.block[b].name

LEMMA SetStateIs ==
  ASSUME NEW c, Whole(c), NEW b \in Block, NEW s \in {"invalid", "waiting"}
  PROVE  StateSet(SetState(c, b, s), c, b, s)
<1>1. c.block[b] \in AnyBlock
  BY DEF Whole, Sound, Tabs
<1>2. "free" # "dev" /\ "free" # "reg" /\ "dev" # "reg"
  OBVIOUS
<1>3. PICK e : e = SetState(c, b, s)
  OBVIOUS
<1>4. CASE c.block[b].kind = "reg"
  <2>1. c.block[b] \in RegBlocks
    BY <1>1, <1>4, KindOf
  <2>2. PICK x : x = [c.block[b] EXCEPT !.state = s]
    OBVIOUS
  <2>3. /\ x \in RegBlocks /\ x.next = c.block[b].next /\ x.unit = c.block[b].unit
        /\ x.name = c.block[b].name /\ x.addr = c.block[b].addr /\ x.state = s
    BY <2>1, <2>2 DEF RegBlocks
  <2>4. e = Wrote(c, b, x)
    BY <1>3, <1>4, <2>2 DEF SetState, Wrote
  <2>5. /\ Whole(e) /\ e.meas = c.meas /\ e.block[b] = x
        /\ \A y \in Block : y # b => e.block[y] = c.block[y]
    BY <2>1, <2>3, <2>4, WrittenInPlace
  <2>6. x.kind = "reg"
    BY <2>3, KindsDiffer
  <2> QED BY <1>2, <1>3, <1>4, <2>3, <2>5, <2>6 DEF StateSet
<1>5. CASE c.block[b].kind = "dev"
  <2>1. c.block[b] \in DevBlocks
    BY <1>1, <1>5, KindOf
  <2>2. PICK q \in BOOLEAN : q = (s # "invalid")
    OBVIOUS
  <2>3. PICK x : x = [c.block[b] EXCEPT !.spoilt = q]
    OBVIOUS
  <2>4. /\ x \in DevBlocks /\ x.next = c.block[b].next /\ x.first = c.block[b].first
        /\ x.unit = c.block[b].unit /\ x.name = c.block[b].name
    BY <2>1, <2>2, <2>3 DEF DevBlocks
  <2>5. e = Wrote(c, b, x)
    <3>1. e = [c EXCEPT !.block[b].spoilt = (s # "invalid")]
      BY <1>2, <1>3, <1>5, Zenon DEF SetState
    <3>2. e = [c EXCEPT !.block[b].spoilt = q]
      BY <2>2, <3>1, Zenon
    <3> QED BY <2>3, <3>2 DEF Wrote
  <2>6. /\ Whole(e) /\ e.meas = c.meas /\ e.block[b] = x
        /\ \A y \in Block : y # b => e.block[y] = c.block[y]
    BY <2>1, <2>4, <2>5, WrittenInPlace
  <2>7. x.kind = "dev"
    BY <2>4, KindsDiffer
  <2> QED BY <1>2, <1>3, <1>5, <2>4, <2>6, <2>7 DEF StateSet
<1>6. CASE c.block[b].kind # "reg" /\ c.block[b].kind # "dev"
  <2>1. e = c
    BY <1>3, <1>6, Zenon DEF SetState
  <2> QED BY <1>3, <1>6, <2>1 DEF StateSet
<1> QED BY <1>4, <1>5, <1>6

\* The value of a register b, and the request q it is the answer to.
ValueSet(e, c, b, q) ==
    /\ Whole(e) /\ e.meas = c.meas
    /\ \A y \in Block : y # b => e.block[y] = c.block[y]
    /\ c.block[b].kind = "reg" /\ e.block[b].kind = "reg"
    /\ e.block[b].unit = c.block[b].unit /\ e.block[b].name = c.block[b].name
    /\ e.block[b].addr = c.block[b].addr
    /\ e.block[b].state = "ready" /\ e.block[b].from = q
    /\ c.block[b].unit = q.unit

LEMMA StoredIs ==
  ASSUME NEW c, Whole(c), NEW b \in Block, asked \in Requests, NEW e \in Stored(c, b)
  PROVE  e = c \/ ValueSet(e, c, b, asked)
<1>1. PICK q \in Requests : q = asked
  OBVIOUS
<1>2. CASE e = c
  BY <1>2
<1>3. CASE e # c
  <2>1. /\ e = [c EXCEPT !.block[b].state = "ready", !.block[b].from = q]
        /\ RegGetDev(c, b) # 0 /\ c.block[b].unit = q.unit
    <3>1. PICK set : set = [c EXCEPT !.block[b].state = "ready", !.block[b].from = asked]
      OBVIOUS
    <3>2. Stored(c, b) = IF RegGetDev(c, b) = 0 \/ c.block[b].unit # asked.unit THEN {c}
                         ELSE IF c.block[b].addr = asked.addr THEN {set} ELSE {c, set}
      BY <3>1, Zenon DEF Stored
    <3>3. e = set /\ ~(RegGetDev(c, b) = 0 \/ c.block[b].unit # asked.unit)
      BY <1>3, <3>2
    <3>4. e = [c EXCEPT !.block[b].state = "ready", !.block[b].from = q]
      BY <1>1, <3>1, <3>3, Zenon
    <3> QED BY <1>1, <3>3, <3>4
  <2>2. c.block[b].kind = "reg"
    BY <2>1 DEF RegGetDev
  <2>3. c.block[b] \in RegBlocks
    BY <2>2, KindOf DEF Whole, Sound, Tabs
  <2>4. PICK r : r = "ready"
    OBVIOUS
  <2>5. PICK x : x = [c.block[b] EXCEPT !.state = r]
    OBVIOUS
  <2>6. PICK y : y = [x EXCEPT !.from = q]
    OBVIOUS
  <2>7. /\ y \in RegBlocks /\ y.next = c.block[b].next /\ y.unit = c.block[b].unit
        /\ y.name = c.block[b].name /\ y.addr = c.block[b].addr
        /\ y.state = r /\ y.from = q
    <3>1. /\ x \in RegBlocks /\ x.next = c.block[b].next /\ x.unit = c.block[b].unit
          /\ x.name = c.block[b].name /\ x.addr = c.block[b].addr /\ x.state = r
      BY <2>3, <2>4, <2>5 DEF RegBlocks
    <3> QED BY <2>6, <3>1 DEF RegBlocks
  <2>8. e = Wrote(c, b, y)
    <3>1. PICK m : m = [c EXCEPT !.block[b].state = r]
      OBVIOUS
    <3>2. m = [c EXCEPT !.block = [c.block EXCEPT ![b] = x]]
      BY <2>5, <3>1
    <3>3. e = [m EXCEPT !.block[b].from = q]
      BY <2>1, <2>4, <3>1
    <3>4. c \in Tabs
      BY DEF Whole, Sound
    <3>5. m.block = [c.block EXCEPT ![b] = x] /\ m.block[b] = x
      BY <3>2, <3>4 DEF Tabs
    <3>6. e = [m EXCEPT !.block = [m.block EXCEPT ![b] = y]]
      BY <2>6, <3>3, <3>5
    <3>7. [m.block EXCEPT ![b] = y] = [c.block EXCEPT ![b] = y]
      BY <3>4, <3>5 DEF Tabs
    <3> QED BY <3>2, <3>4, <3>6, <3>7 DEF Wrote, Tabs
  <2>9. /\ Whole(e) /\ e.meas = c.meas /\ e.block[b] = y
        /\ \A z \in Block : z # b => e.block[z] = c.block[z]
    BY <2>3, <2>7, <2>8, WrittenInPlace
  <2>10. y.kind = "reg"
    BY <2>7, KindsDiffer
  <2> QED BY <1>1, <2>1, <2>2, <2>4, <2>7, <2>9, <2>10 DEF ValueSet
<1> QED BY <1>2, <1>3

\* All of the blocks are free.
LEMMA NewBusIs ==
  /\ NewBus.first_dev \in 0..Blocks /\ NewBus.first_free \in 0..Blocks
  /\ NewBus.block \in [Block -> AnyBlock]
  /\ Pool(NewBus.first_dev, NewBus.first_free, NewBus.block)
  /\ \A b \in Block : NewBus.block[b] \in FreeBlocks
<1>1. Blocks \in Nat /\ Blocks >= 1
  BY TablesAssumption
<1>2. PICK blk : blk = [b \in 1..Blocks |-> FreeBlock(IF b = Blocks THEN 0 ELSE b + 1)]
  OBVIOUS
<1>3. NewBus.first_dev = 0 /\ NewBus.first_free = 1 /\ NewBus.block = blk
  BY <1>2 DEF NewBus
<1>4. \A b \in Block : blk[b] = FreeBlock(IF b = Blocks THEN 0 ELSE b + 1)
  BY <1>2 DEF Block
<1>5. \A b \in Block : /\ blk[b] \in FreeBlocks
                       /\ blk[b].next = IF b = Blocks THEN 0 ELSE b + 1
  <2> SUFFICES ASSUME NEW b \in Block
               PROVE  /\ blk[b] \in FreeBlocks
                      /\ blk[b].next = IF b = Blocks THEN 0 ELSE b + 1
    OBVIOUS
  <2>1. PICK m \in 0..Blocks : m = IF b = Blocks THEN 0 ELSE b + 1
    BY <1>1 DEF Block
  <2>2. blk[b] = [kind |-> "free", next |-> m]
    BY <1>4, <2>1 DEF FreeBlock
  <2> QED BY <2>1, <2>2 DEF FreeBlocks
<1>6. blk \in [Block -> AnyBlock]
  BY <1>2, <1>5 DEF AnyBlock, Block
<1>7. PICK F : F = [i \in 1..Blocks |-> i]
  OBVIOUS
<1>8. F \in Seq(Block) /\ Len(F) = Blocks /\ IsInjective(F) /\ Range(F) = Block
  <2>1. F \in [1..Blocks -> Block] /\ DOMAIN F = 1..Blocks
    BY <1>7 DEF Block
  <2>2. F \in Seq(Block) /\ Len(F) = Blocks
    BY <1>1, <2>1
  <2>3. IsInjective(F) /\ Range(F) = Block
    BY <1>7, <2>1 DEF IsInjective, Range, Block
  <2> QED BY <2>2, <2>3
<1>9. List(blk, 1, F)
  <2>1. 1 = At(F, 1)
    BY <1>1, <1>7, <1>8 DEF At
  <2>2. ASSUME NEW i \in 1..Len(F) PROVE blk[F[i]].next = At(F, i + 1)
    <3>1. F[i] = i /\ i \in Block
      BY <1>7, <1>8 DEF Block
    <3>2. blk[F[i]].next = IF i = Blocks THEN 0 ELSE i + 1
      BY <1>5, <3>1
    <3>3. CASE i = Blocks
      <4>1. i + 1 \notin 1..Len(F)
        BY <1>1, <1>8, <3>3
      <4> QED BY <3>2, <3>3, <4>1 DEF At
    <3>4. CASE i # Blocks
      <4>1. i + 1 \in 1..Blocks
        BY <1>1, <1>8, <3>4
      <4>2. F[i + 1] = i + 1
        BY <1>7, <4>1
      <4> QED BY <1>8, <3>2, <3>4, <4>1, <4>2 DEF At
    <3> QED BY <3>3, <3>4
  <2> QED BY <1>8, <2>1, <2>2 DEF List
<1>10. PICK D : D = <<>>
  OBVIOUS
<1>11. List(blk, 0, D) /\ Range(D) = {} /\ D \in Seq(Block)
  BY <1>10, EmptyList
<1>12. PICK R : R = [b \in Block |-> D]
  OBVIOUS
<1>13. R \in [Block -> Seq(Block)]
  BY <1>11, <1>12
<1>14. Linked(0, 1, blk, F, D, R) /\ Kinds(blk, F, D, R) /\ Apart(D, R) /\ Everywhere(F, D, R)
  BY <1>5, <1>8, <1>9, <1>11, <1>13 DEF Linked, Kinds, Apart, Everywhere
<1>15. 0 \in 0..Blocks /\ 1 \in 0..Blocks
  BY <1>1
<1>16. InLists(0, 1, blk, F, D, R)
  BY <1>6, <1>14, <1>15 DEF InLists
<1>17. Pool(0, 1, blk)
  BY <1>16 DEF Pool
<1> QED BY <1>3, <1>5, <1>6, <1>15, <1>17

-----------------------------------------------------------------------------
(* The two pages.                                                          *)

Buses == [first_dev : 0..Blocks, first_free : 0..Blocks, block : [Block -> AnyBlock]]
Page(f) ==
    /\ f \in [bus : Buses \cup {None}, meas : Measures \cup {None}]
    /\ f.bus # None => Pool(f.bus.first_dev, f.bus.first_free, f.bus.block)
    /\ f.meas # None => Unique(f.meas)

LEMMA NoMeasurementsIs ==
  Tidy(NoMeasurements) /\ \A i \in 1..Slots : NoMeasurements[i] = None
<1>1. PICK t : t = NoMeasurements
  OBVIOUS
<1>2. t = [i \in 1..Slots |-> None]
  BY <1>1 DEF NoMeasurements
<1>3. t \in Measures /\ \A i \in 1..Slots : t[i] = None
  BY <1>2 DEF Measures
<1>4. Unique(t)
  BY <1>3 DEF Unique
<1> QED BY <1>1, <1>3, <1>4 DEF Tidy

\* The defaults are the model's own, each of them, and leave room.
LEMMA DefaultsAre ==
  /\ Tidy(Defaults)
  /\ \A i \in 1..Slots : Defaults[i] = None \/ IsBuiltIn(Defaults[i])
  /\ \A n \in Range(BuiltIns) : \E i \in 1..Slots :
        Defaults[i] # None /\ Defaults[i].name = n
  /\ \E i \in 1..Slots : Defaults[i] = None
<1>1. PICK t : t = NoMeasurements
  OBVIOUS
<1>2. PICK u : u = Repopulate(t)
  OBVIOUS
<1>3. Tidy(t) /\ \A i \in 1..Slots : t[i] = None
  BY <1>1, NoMeasurementsIs
<1>4. /\ Tidy(u)
      /\ \A i \in 1..Slots : u[i] = t[i] \/ (t[i] = None /\ IsBuiltIn(u[i]))
      /\ t = NoMeasurements =>
            /\ \A n \in Range(BuiltIns) : \E i \in 1..Slots :
                  u[i] # None /\ u[i].name = n
            /\ \E i \in 1..Slots : u[i] = None
  BY <1>2, <1>3, RepopulateIs
<1>5. u = Defaults
  BY <1>1, <1>2 DEF Defaults
<1> QED BY <1>1, <1>3, <1>4, <1>5

\* A table that is saved makes a page.
LEMMA FlashIs ==
  ASSUME NEW c, Whole(c)
  PROVE  Page(Flash(c)) /\ Flash(c).bus = Bus(c) /\ Flash(c).meas = c.meas
<1>1. PICK f : f = Flash(c)
  OBVIOUS
<1>2. PICK b : b = Bus(c)
  OBVIOUS
<1>3. b \in Buses /\ b.first_dev = c.first_dev /\ b.first_free = c.first_free /\ b.block = c.block
  BY <1>2 DEF Bus, Buses, Whole, Sound, Tabs
<1>4. f.bus = b /\ f.meas = c.meas /\ f = [bus |-> b, meas |-> c.meas]
  BY <1>1, <1>2 DEF Flash
<1>5. f \in [bus : Buses \cup {None}, meas : Measures \cup {None}]
  BY <1>3, <1>4 DEF Whole, Sound, Tabs
<1>6. Pool(b.first_dev, b.first_free, b.block) /\ Unique(c.meas)
  BY <1>3 DEF Whole, Sound, PoolOf
<1> QED BY <1>1, <1>2, <1>4, <1>5, <1>6 DEF Page

\* The table that a page is loaded as.
LEMMA LoadIs ==
  ASSUME NEW f, Page(f)
  PROVE  /\ Whole(Load(f))
         /\ \/ f.bus # None /\ Load(f).block = f.bus.block
            \/ \A b \in Block : Load(f).block[b] \in FreeBlocks
         /\ \/ Load(f).meas = f.meas /\ f.bus # None /\ f.meas # None
            \/ Load(f).meas = Defaults
               /\ (f.bus = None \/ f.meas = None \/ f.meas = NoMeasurements)
         /\ f.bus = None => \A b \in Block : Load(f).block[b] \in FreeBlocks
         /\ f.bus # None => Load(f).block = f.bus.block
<1>1. PICK c : c = Load(f)
  OBVIOUS
<1>2. PICK g : g = IF f.bus = None THEN NewBus ELSE f.bus
  OBVIOUS
<1>3. PICK t : t = IF f.bus = None \/ f.meas \in {None, NoMeasurements}
                   THEN Defaults ELSE f.meas
  OBVIOUS
<1>4. c = Tab(g, t)
  BY <1>1, <1>2, <1>3, Zenon DEF Load
<1>5. c = [first_dev |-> g.first_dev, first_free |-> g.first_free, block |-> g.block, meas |-> t]
  BY <1>4 DEF Tab
<1>6. /\ g.first_dev \in 0..Blocks /\ g.first_free \in 0..Blocks /\ g.block \in [Block -> AnyBlock]
      /\ Pool(g.first_dev, g.first_free, g.block)
  <2>1. CASE f.bus = None
    BY <1>2, <2>1, NewBusIs
  <2>2. CASE f.bus # None
    BY <1>2, <2>2 DEF Page, Buses
  <2> QED BY <2>1, <2>2
<1>7. t \in Measures /\ Unique(t)
  <2>1. CASE f.bus = None \/ f.meas \in {None, NoMeasurements}
    BY <1>3, <2>1, DefaultsAre DEF Tidy
  <2>2. CASE ~(f.bus = None \/ f.meas \in {None, NoMeasurements})
    BY <1>3, <2>2 DEF Page
  <2> QED BY <2>1, <2>2
<1>8. c.block = g.block /\ c.meas = t /\ c.first_dev = g.first_dev /\ c.first_free = g.first_free
  BY <1>5
<1>9. c \in Tabs
  BY <1>5, <1>6, <1>7 DEF Tabs
<1>10. Whole(c)
  BY <1>6, <1>7, <1>8, <1>9 DEF Whole, Sound, PoolOf
<1>11. f.bus = None => \A b \in Block : c.block[b] \in FreeBlocks
  BY <1>2, <1>8, NewBusIs
<1>12. f.bus # None => c.block = f.bus.block
  BY <1>2, <1>8
<1>13. \/ c.meas = f.meas /\ f.bus # None /\ f.meas # None
       \/ c.meas = Defaults /\ (f.bus = None \/ f.meas = None \/ f.meas = NoMeasurements)
  BY <1>3, <1>8
<1> QED BY <1>1, <1>10, <1>11, <1>12, <1>13

LEMMA SavedIs ==
  ASSUME NEW f, Page(f)
  PROVE  Page(Saved(f)) /\ (Saved(f) = f \/ Saved(f) = Flash(Load(f)))
<1>1. Page(Flash(Load(f)))
  BY LoadIs, FlashIs
<1> QED BY <1>1 DEF Saved

-----------------------------------------------------------------------------
(* Types, and the pool of the table in RAM and of the one that is saved.   *)

\* The lists, the table and the page are sound, and the queue is of blocks.
Base ==
    /\ Whole(mem) /\ Page(flash)
    /\ queue \in Seq(Block) /\ asked \in Requests \cup {None}
    /\ asked # None => queue # <<>>
    /\ nodev \in BOOLEAN /\ had \in SUBSET Faults

LEMMA RequestIs ==
  ASSUME NEW c, Whole(c), NEW b \in Block
  PROVE  Request(c, b) \in Requests
<1>1. c.block[b] \in AnyBlock
  BY DEF Whole, Sound, Tabs
<1>2. CASE c.block[b].kind = "reg"
  <2>1. c.block[b].unit \in Units /\ c.block[b].addr \in Addrs
    BY <1>1, <1>2, KindOf, KindsDiffer
  <2>2. Request(c, b) = [unit |-> c.block[b].unit, addr |-> c.block[b].addr]
    BY <1>2 DEF Request
  <2> QED BY <2>1, <2>2 DEF Requests
<1>3. CASE c.block[b].kind # "reg"
  <2>1. Request(c, b) = [unit |-> 0, addr |-> None]
    BY <1>3 DEF Request, Junk
  <2> QED BY <2>1 DEF Requests
<1> QED BY <1>2, <1>3

\* A register that is looked for by its name is one.
LEMMA GetRegIs ==
  ASSUME NEW c, Whole(c), NEW n
  PROVE  \/ GetReg(c, n) = 0
            /\ \A r \in Block : c.block[r] \in RegBlocks => c.block[r].name # n
         \/ /\ GetReg(c, n) \in Block /\ c.block[GetReg(c, n)] \in RegBlocks
            /\ c.block[GetReg(c, n)].name = n /\ GetReg(c, n) # 0
<1>1. PICK F, D, R : In(c, F, D, R)
  BY WholeIsTidy DEF Sound, PoolOf, Pool, In
<1>2. Lonely(F, D, R)
  BY <1>1, InOneList DEF In
<1>3. CASE GetReg(c, n) = 0
  <2>1. \A d \in Range(D) : \A r \in Range(R[d]) : c.block[r].name # n
    BY <1>1, <1>3, RegFinds
  <2>2. ASSUME NEW r \in Block, c.block[r] \in RegBlocks PROVE c.block[r].name # n
    <3>1. r \notin Range(F) /\ r \notin Range(D)
      BY <1>1, <2>2, KindsDiffer DEF In, InLists, Kinds
    <3> QED BY <1>1, <2>1, <3>1 DEF In, InLists, Everywhere
  <2> QED BY <1>3, <2>2
<1>4. CASE GetReg(c, n) # 0
  <2>1. PICK r : r = GetReg(c, n)
    OBVIOUS
  <2>2. PICK d \in Range(D) : r \in Range(R[d]) /\ c.block[r].name = n
    BY <1>1, <1>4, <2>1, RegFinds
  <2>3. r \in Block /\ c.block[r] \in RegBlocks
    BY <1>1, <1>2, <2>2 DEF Lonely, In, InLists, Kinds
  <2> QED BY <1>4, <2>1, <2>2, <2>3
<1> QED BY <1>3, <1>4

\* A unit that was set up with a device and a register.
NewUnit == Load([bus |-> None, meas |-> None])

LEMMA NewUnitIs ==
  /\ Whole(NewUnit) /\ NewUnit.meas = Defaults
  /\ \A b \in Block : NewUnit.block[b] \in FreeBlocks
<1>1. PICK f : f = [bus |-> None, meas |-> None]
  OBVIOUS
<1>2. f.bus = None /\ f.meas = None /\ Page(f)
  BY <1>1 DEF Page
<1>3. /\ Whole(Load(f))
      /\ \/ Load(f).meas = f.meas /\ f.bus # None /\ f.meas # None
         \/ Load(f).meas = Defaults
            /\ (f.bus = None \/ f.meas = None \/ f.meas = NoMeasurements)
      /\ f.bus = None => \A b \in Block : Load(f).block[b] \in FreeBlocks
  BY <1>2, LoadIs
<1> QED BY <1>1, <1>2, <1>3 DEF NewUnit

DevPutIn(e, c, u) ==
    /\ Whole(e) /\ e.meas = c.meas
    /\ \E b \in Block :
          /\ c.block[b] \in FreeBlocks /\ e.block[b] \in DevBlocks
          /\ e.block[b].unit = u /\ ~e.block[b].spoilt
          /\ \A x \in Block : x # b => e.block[x] = c.block[x]

LEMMA MbDevAddIs ==
  ASSUME NEW c, Whole(c), NEW u \in Units, NEW n \in DevNames
  PROVE  MbDevAdd(c, u, n) = c \/ DevPutIn(MbDevAdd(c, u, n), c, u)
<1>1. PICK e : e = AddDevice(c, u, n)
  OBVIOUS
<1>2. MbDevAdd(c, u, n) = e
  BY <1>1 DEF MbDevAdd
<1>3. e = c \/ \E b : DevAdded(e, c, b, u, n)
  BY <1>1, WholeIsTidy, AddDeviceIs
<1>4. ASSUME NEW b, DevAdded(e, c, b, u, n) PROVE DevPutIn(e, c, u)
  BY <1>4 DEF DevAdded, DevPutIn, Whole
<1> QED BY <1>2, <1>3, <1>4

\* Where the system starts.
LEMMA InitIs ==
  ASSUME Init
  PROVE  /\ Whole(mem) /\ flash = Flash(mem)
         /\ queue = <<>> /\ asked = None /\ nodev = FALSE /\ had = {}
         /\ \/ mem = NewUnit
            \/ \E e : \E u \in Units, a \in Addrs, r \in RegNames \ Range(BuiltIns) :
                  /\ Whole(e) /\ (e = NewUnit \/ DevPutIn(e, NewUnit, u))
                  /\ (mem = e \/ RegPutIn(mem, e, u, a, r))
<1>1. PICK u \in Units : u = CHOOSE v \in Units : TRUE
  BY SystemAssumption
<1>2. PICK d \in DevNames : d = CHOOSE v \in DevNames : TRUE
  BY SystemAssumption
<1>3. PICK a \in Addrs, r \in RegNames \ Range(BuiltIns) :
         mem \in {NewUnit, MbRegAdd(MbDevAdd(NewUnit, u, d), u, a, r)}
  BY <1>1, <1>2, Zenon DEF Init, NewUnit
<1>4. PICK e : e = MbDevAdd(NewUnit, u, d)
  OBVIOUS
<1>5. e = NewUnit \/ DevPutIn(e, NewUnit, u)
  BY <1>4, NewUnitIs, MbDevAddIs
<1>6. Whole(e)
  BY <1>5, NewUnitIs DEF DevPutIn
<1>7. PICK g : g = MbRegAdd(e, u, a, r)
  OBVIOUS
<1>8. g = e \/ RegPutIn(g, e, u, a, r)
  BY <1>6, <1>7, MbRegAddIs
<1>9. Whole(g)
  BY <1>6, <1>8 DEF RegPutIn
<1>10. mem = NewUnit \/ mem = g
  BY <1>3, <1>4, <1>7
<1>11. Whole(mem)
  BY <1>9, <1>10, NewUnitIs
<1>12. flash = Flash(mem) /\ queue = <<>> /\ asked = None /\ nodev = FALSE /\ had = {}
  BY DEF Init
<1>13. mem = NewUnit \/ (mem = e \/ RegPutIn(mem, e, u, a, r))
  BY <1>8, <1>10
<1> QED BY <1>5, <1>6, <1>11, <1>12, <1>13

\* What the steps do to the tables, and to what is asked.
Queued(r) ==
    /\ queue' = Append(queue, r)
    /\ asked' = IF asked = None THEN Request(mem, r) ELSE asked
    /\ queue = <<>> \/ asked # None

LEMMA SampleIs ==
  ASSUME Base, NEW n \in RegNames, Sample(n)
  PROVE  \E r \in Block : /\ mem.block[r] \in RegBlocks
                          /\ StateSet(mem', mem, r, "waiting") /\ Queued(r)
                          /\ UNCHANGED <<flash, nodev, had>>
<1>1. Whole(mem)
  BY DEF Base
<1>2. PICK r : r = GetReg(mem, n)
  OBVIOUS
<1>3. /\ r # 0 /\ mem' = SetState(mem, r, "waiting") /\ Queued(r)
      /\ UNCHANGED <<flash, nodev, had>>
  <2>1. (queue = <<>> \/ asked # None) /\ UNCHANGED <<flash, nodev, had>>
    BY DEF Sample
  <2>2. PICK x \in {GetReg(mem, n)} \ {0} :
           /\ queue' = Append(queue, x) /\ mem' = SetState(mem, x, "waiting")
           /\ asked' = IF asked = None THEN Request(mem, x) ELSE asked
    BY Zenon DEF Sample
  <2>3. x = r /\ r # 0
    BY <1>2, <2>2
  <2>4. Queued(x)
    BY <2>1, <2>2, Zenon DEF Queued
  <2>5. Queued(r) /\ mem' = SetState(mem, r, "waiting")
    BY <2>2, <2>3, <2>4
  <2> QED BY <2>1, <2>3, <2>5
<1>4. r \in Block /\ mem.block[r] \in RegBlocks
  BY <1>1, <1>2, <1>3, GetRegIs
<1>5. PICK s : s = "waiting"
  OBVIOUS
<1>6. s \in {"invalid", "waiting"}
  BY <1>5
<1>7. StateSet(SetState(mem, r, s), mem, r, s)
  BY <1>1, <1>4, <1>6, SetStateIs
<1>8. StateSet(mem', mem, r, "waiting")
  BY <1>3, <1>5, <1>7
<1> QED BY <1>3, <1>4, <1>8

LEMMA HeadIs ==
  ASSUME Base, queue # <<>>
  PROVE  queue[1] \in Block /\ Tail(queue) \in Seq(Block)
BY DEF Base

LEMMA SendHeadIs ==
  ASSUME Base, SendHead
  PROVE  /\ queue # <<>> /\ queue[1] \in Block /\ asked' = Request(mem, queue[1])
         /\ StateSet(mem', mem, queue[1], "waiting")
         /\ UNCHANGED <<flash, queue, nodev, had>>
<1>1. PICK b : b = queue[1]
  OBVIOUS
<1>2. PICK s : s = "waiting"
  OBVIOUS
<1>3. /\ queue # <<>> /\ asked' = Request(mem, b) /\ mem' = SetState(mem, b, s)
      /\ UNCHANGED <<flash, queue, nodev, had>>
  BY <1>1, <1>2 DEF SendHead
<1>4. b \in Block /\ Whole(mem) /\ s \in {"invalid", "waiting"}
  BY <1>1, <1>2, <1>3, HeadIs DEF Base
<1>5. StateSet(SetState(mem, b, s), mem, b, s)
  BY <1>4, SetStateIs
<1> QED BY <1>1, <1>2, <1>3, <1>4, <1>5

\* An answer: the state of the register, c, then its value.
LEMMA AnswerIs ==
  ASSUME Base, Answer
  PROVE  /\ asked \in Requests /\ asked # None /\ queue[1] \in Block
         /\ queue' = Tail(queue) /\ queue' \in Seq(Block) /\ asked' = None
         /\ UNCHANGED <<flash, had>> /\ queue # <<>>
         /\ \E c : /\ StateSet(c, mem, queue[1], "invalid")
                   /\ (mem' = c \/ ValueSet(mem', c, queue[1], asked))
                   /\ (nodev' = nodev \/ nodev' = (nodev \/ RegGetDev(c, queue[1]) = 0))
<1>1. PICK b : b = queue[1]
  OBVIOUS
<1>2. PICK s : s = "invalid"
  OBVIOUS
<1>3. PICK c : c = SetState(mem, b, s)
  OBVIOUS
<1>4. /\ asked # None /\ queue' = Tail(queue) /\ asked' = None
      /\ UNCHANGED <<flash, had>>
      /\ \/ mem' = c /\ nodev' = nodev
         \/ mem' \in Stored(c, b) /\ nodev' = (nodev \/ RegGetDev(c, b) = 0)
  BY <1>1, <1>2, <1>3 DEF Answer
<1>5. queue # <<>> /\ asked \in Requests /\ Whole(mem)
  BY <1>4 DEF Base
<1>6. b \in Block /\ Tail(queue) \in Seq(Block)
  BY <1>1, <1>5, HeadIs
<1>7. s \in {"invalid", "waiting"}
  BY <1>2
<1>8. StateSet(c, mem, b, s)
  BY <1>3, <1>5, <1>6, <1>7, SetStateIs
<1>9. Whole(c)
  BY <1>8 DEF StateSet
<1>10. mem' \in Stored(c, b) => (mem' = c \/ ValueSet(mem', c, b, asked))
  <2> SUFFICES ASSUME mem' \in Stored(c, b) PROVE mem' = c \/ ValueSet(mem', c, b, asked)
    OBVIOUS
  <2> QED BY <1>5, <1>6, <1>9, StoredIs
<1>11. /\ mem' = c \/ ValueSet(mem', c, b, asked)
       /\ nodev' = nodev \/ nodev' = (nodev \/ RegGetDev(c, b) = 0)
  BY <1>4, <1>10
<1> QED BY <1>1, <1>2, <1>4, <1>5, <1>6, <1>8, <1>11

\* The commands.
LEMMA DevAddIs ==
  ASSUME Base, DevAdd
  PROVE  /\ UNCHANGED <<flash, queue, asked, nodev>>
         /\ \E u \in Units : /\ (mem' = mem \/ DevPutIn(mem', mem, u))
                             /\ had' = had \cup When(GetDeviceById(mem, u) # 0, "unit")
                             /\ had' \in SUBSET Faults
<1>1. PICK u \in Units, n \in DevNames :
         /\ With(When(GetDeviceById(mem, u) # 0, "unit"))
         /\ Edited(MbDevAdd(mem, u, n))
  BY Zenon DEF DevAdd
<1>2. /\ had' = had \cup When(GetDeviceById(mem, u) # 0, "unit") /\ had' \in SUBSET Faults
      /\ mem' = MbDevAdd(mem, u, n) /\ UNCHANGED <<flash, queue, asked, nodev>>
  BY <1>1 DEF With, Edited, Base
<1>3. mem' = mem \/ DevPutIn(mem', mem, u)
  BY <1>2, MbDevAddIs DEF Base
<1> QED BY <1>2, <1>3

LEMMA RegAddIs ==
  ASSUME Base, RegAdd
  PROVE  /\ UNCHANGED <<flash, queue, asked, nodev>> /\ had' \in SUBSET Faults
         /\ \E u \in Units, a \in Addrs, n \in RegNames :
               /\ (mem' = mem \/ RegPutIn(mem', mem, u, a, n))
               /\ had \subseteq had'
               /\ mem' # mem =>
                     /\ GetReg(mem, n) # 0 => "name" \in had'
                     /\ (\E i \in Named(mem.meas, n) : mem.meas[i].type = "builtin")
                           => "taken" \in had'
                     /\ Named(mem'.meas, n) = {} => "full" \in had'
<1>1. PICK u \in Units, a \in Addrs, n \in RegNames :
         LET c == MbRegAdd(mem, u, a, n)
             S == Named(mem.meas, n)
         IN  /\ With(When(c # mem /\ GetReg(mem, n) # 0, "name") \cup
                     When(c # mem /\ \E i \in S : mem.meas[i].type = "builtin",
                          "taken") \cup
                     When(c # mem /\ Named(c.meas, n) = {}, "full"))
             /\ Edited(c)
  BY Zenon DEF RegAdd
<1>2. PICK c : c = MbRegAdd(mem, u, a, n)
  OBVIOUS
<1>3. PICK A : A = When(c # mem /\ GetReg(mem, n) # 0, "name")
  OBVIOUS
<1>4. PICK B : B = When(c # mem /\ \E i \in Named(mem.meas, n) : mem.meas[i].type = "builtin", "taken")
  OBVIOUS
<1>5. PICK C : C = When(c # mem /\ Named(c.meas, n) = {}, "full")
  OBVIOUS
<1>6. With(A \cup B \cup C) /\ Edited(c)
  BY <1>1, <1>2, <1>3, <1>4, <1>5, Zenon
<1>7. /\ had' = had \cup (A \cup B \cup C) /\ had' \in SUBSET Faults
      /\ mem' = c /\ UNCHANGED <<flash, queue, asked, nodev>>
  BY <1>6 DEF With, Edited, Base
<1>8. c # mem /\ GetReg(mem, n) # 0 => "name" \in A
  BY <1>3 DEF When
<1>9. c # mem /\ (\E i \in Named(mem.meas, n) : mem.meas[i].type = "builtin") => "taken" \in B
  BY <1>4, Zenon DEF When
<1>10. c # mem /\ Named(c.meas, n) = {} => "full" \in C
  BY <1>5 DEF When
<1>11. c = mem \/ RegPutIn(c, mem, u, a, n)
  BY <1>2, MbRegAddIs DEF Base
<1>12. A \subseteq had' /\ B \subseteq had' /\ C \subseteq had' /\ had \subseteq had'
  BY <1>7
<1>13. /\ mem' # mem /\ GetReg(mem, n) # 0 => "name" \in had'
       /\ mem' # mem /\ (\E i \in Named(mem.meas, n) : mem.meas[i].type = "builtin") => "taken" \in had'
       /\ mem' # mem /\ Named(mem'.meas, n) = {} => "full" \in had'
  BY <1>7, <1>8, <1>9, <1>10, <1>12, Zenon
<1>14. mem' = mem \/ RegPutIn(mem', mem, u, a, n)
  BY <1>7, <1>11
<1> QED BY <1>7, <1>12, <1>13, <1>14, Zenon

\* A fault is had if a block is freed that is queued.
LEMMA DeleteIs ==
  ASSUME Base, NEW c, Delete(c)
  PROVE  /\ UNCHANGED <<flash, queue, asked, nodev>> /\ had' \in SUBSET Faults
         /\ mem' = c /\ c # mem /\ had \subseteq had'
         /\ "queued" \in had' \/
            \A i \in 1..Len(queue) : c.block[queue[i]].kind = "free"
                                     => mem.block[queue[i]].kind = "free"
<1>1. PICK A : A = When(FreesQueued(c), "queued")
  OBVIOUS
<1>2. /\ had' = had \cup A /\ had' \in SUBSET Faults /\ mem' = c /\ c # mem
      /\ UNCHANGED <<flash, queue, asked, nodev>>
  BY <1>1 DEF Delete, With, Edited, Base
<1>3. FreesQueued(c) => "queued" \in A
  BY <1>1 DEF When
<1>4. DOMAIN queue = 1..Len(queue)
  BY DEF Base
<1> QED BY <1>2, <1>3, <1>4 DEF FreesQueued

LEMMA RegDeleteIs ==
  ASSUME Base, RegDelete
  PROVE  \E c : Delete(c) /\ \E n \in RegNames : RegTakenOut(c, mem, n)
<1>1. PICK n \in RegNames : Delete(MbRegDel(mem, n))
  BY DEF RegDelete
<1>2. MbRegDel(mem, n) # mem
  BY <1>1 DEF Delete
<1>3. RegTakenOut(MbRegDel(mem, n), mem, n)
  BY <1>2, MbRegDelIs DEF Base
<1> QED BY <1>1, <1>3

LEMMA DevDeleteIs ==
  ASSUME Base, DevDelete
  PROVE  \E c : Delete(c) /\ \E n \in DevNames : DevTakenOut(c, mem, n)
<1>1. PICK n \in DevNames : Delete(MbDevDel(mem, n))
  BY DEF DevDelete
<1>2. MbDevDel(mem, n) # mem
  BY <1>1 DEF Delete
<1>3. DevTakenOut(MbDevDel(mem, n), mem, n)
  BY <1>2, MbDevDelIs DEF Base
<1> QED BY <1>1, <1>3

\* The measurements alone.
MeasSet(e, c) ==
    /\ Whole(e) /\ e.block = c.block
    /\ \/ SameNames(e.meas, c.meas)
       \/ \A i \in 1..Slots : \/ e.meas[i] = c.meas[i]
                              \/ c.meas[i] = None /\ IsBuiltIn(e.meas[i])

LEMMA MeasIs ==
  ASSUME Base, MeasEdit \/ Repop
  PROVE  MeasSet(mem', mem) /\ UNCHANGED <<flash, queue, asked, nodev, had>>
<1>1. Whole(mem) /\ Tidy(mem.meas) /\ Sound(mem)
  BY WholeIsTidy DEF Base
<1>2. ASSUME NEW t, Tidy(t), mem' = Remeasured(mem, t)
      PROVE  Whole(mem') /\ mem'.block = mem.block /\ mem'.meas = t
  <2>1. Sound(mem') /\ mem'.meas = t /\ mem'.block = mem.block
    BY <1>1, <1>2, RemeasuredIs DEF Tidy
  <2> QED BY <1>2, <2>1 DEF Whole, Tidy
<1>3. CASE MeasEdit
  <2>1. UNCHANGED <<flash, queue, asked, nodev, had>>
    BY <1>3 DEF MeasEdit, Edited
  <2>2. PICK n, t : /\ mem' = Remeasured(mem, t)
                    /\ \/ \E v \in Intervals : t = SetInterval(mem.meas, n, v)
                       \/ \E v \in Counts : t = SetSamplecount(mem.meas, n, v)
                       \/ \E v \in BOOLEAN : t = SetImmediate(mem.meas, n, v)
    BY <1>3 DEF MeasEdit, Edited, Remeasured
  <2>3. Tidy(t) /\ SameNames(t, mem.meas)
    BY <1>1, <2>2, SettingsAre
  <2> QED BY <1>2, <2>1, <2>2, <2>3 DEF MeasSet
<1>4. CASE Repop
  <2>1. UNCHANGED <<flash, queue, asked, nodev, had>>
    BY <1>4 DEF Repop, Edited
  <2>2. PICK t : t = Repopulate(mem.meas)
    OBVIOUS
  <2>3. mem' = Remeasured(mem, t)
    BY <1>4, <2>2 DEF Repop, Edited, Remeasured
  <2>4. /\ Tidy(t)
        /\ \A i \in 1..Slots : t[i] = mem.meas[i] \/ (mem.meas[i] = None /\ IsBuiltIn(t[i]))
    BY <1>1, <2>2, RepopulateIs
  <2> QED BY <1>2, <2>1, <2>3, <2>4 DEF MeasSet
<1> QED BY <1>3, <1>4

\* A restart, from the page f.
Restarted(f) ==
    /\ Page(f) /\ mem' = Load(f) /\ flash' = Saved(f)
    /\ queue' = <<>> /\ asked' = None /\ nodev' = nodev

LEMMA SaveIs ==
  ASSUME Base, Save
  PROVE  /\ UNCHANGED <<mem, queue, asked, nodev, had>>
         /\ (flash' = flash \/ flash' = Flash(mem))
BY DEF Save

LEMMA BlankIs ==
  ASSUME NEW f, Page(f)
  PROVE  /\ Page([f EXCEPT !.bus = None]) /\ [f EXCEPT !.bus = None].bus = None
         /\ Page([bus |-> f.bus, meas |-> None])
<1>1. f \in [bus : Buses \cup {None}, meas : Measures \cup {None}]
  BY DEF Page
<1>2. PICK g : g = [f EXCEPT !.bus = None]
  OBVIOUS
<1>3. PICK h : h = [bus |-> f.bus, meas |-> None]
  OBVIOUS
<1>4. /\ g \in [bus : Buses \cup {None}, meas : Measures \cup {None}]
      /\ g.bus = None /\ g.meas = f.meas
  BY <1>1, <1>2
<1>5. /\ h \in [bus : Buses \cup {None}, meas : Measures \cup {None}]
      /\ h.bus = f.bus /\ h.meas = None
  BY <1>1, <1>3
<1> QED BY <1>2, <1>3, <1>4, <1>5 DEF Page

\* From the page in flash, from none, or from half a page if the power is cut.
LEMMA RestartIs ==
  ASSUME Base, Reset \/ Wipe \/ SaveCut
  PROVE  /\ had \subseteq had' /\ had' \in SUBSET Faults
         /\ \E f : /\ Restarted(f)
                   /\ \/ f = flash
                      \/ f.bus = None
                      \/ "cut" \in had' /\ f.bus = Bus(mem) /\ f.meas = None
<1>1. Page(flash) /\ had \in SUBSET Faults
  BY DEF Base
<1>2. CASE Reset
  <2>1. Restarted(flash) /\ had' = had
    BY <1>1, <1>2 DEF Reset, Restart, Restarted
  <2> QED BY <1>1, <2>1
<1>3. CASE Wipe
  <2>1. PICK f : f = [bus |-> None, meas |-> None]
    OBVIOUS
  <2>2. Page(f) /\ f.bus = None
    BY <2>1 DEF Page
  <2>3. Restarted(f) /\ had' = had
    BY <1>3, <2>1, <2>2 DEF Wipe, Restart, Restarted
  <2> QED BY <1>1, <2>2, <2>3
<1>4. CASE SaveCut
  <2>1. had' \in SUBSET Faults /\ had \subseteq had' /\ "cut" \in had'
    <3>1. PICK S : S = {"cut"}
      OBVIOUS
    <3>2. With(S)
      BY <1>4, <3>1 DEF SaveCut
    <3>3. S \subseteq Faults /\ had' = had \cup S
      BY <3>2 DEF With
    <3> QED BY <1>1, <3>1, <3>3
  <2>2. PICK f : f = [flash EXCEPT !.bus = None]
    OBVIOUS
  <2>3. PICK m : m = Flash(mem)
    OBVIOUS
  <2>4. PICK g : g = [bus |-> Bus(mem), meas |-> None]
    OBVIOUS
  <2>5. Page(f) /\ f.bus = None
    BY <1>1, <2>2, BlankIs
  <2>6. Page(m) /\ m.bus = Bus(mem)
    BY <2>3, FlashIs DEF Base
  <2>7. Page(g) /\ g.bus = Bus(mem) /\ g.meas = None
    <3>1. Page([bus |-> m.bus, meas |-> None])
      BY <2>6, BlankIs
    <3> QED BY <2>4, <2>6, <3>1
  <2>8. Restart(f) \/ Restart(g)
    BY <1>4, <2>2, <2>4 DEF SaveCut
  <2>9. Restarted(f) \/ Restarted(g)
    BY <2>5, <2>7, <2>8 DEF Restart, Restarted
  <2> QED BY <2>1, <2>5, <2>7, <2>9
<1> QED BY <1>2, <1>3, <1>4

-----------------------------------------------------------------------------
(* The base holds.                                                         *)

LEMMA BaseFirst ==
  Init => Base
<1> SUFFICES ASSUME Init PROVE Base
  OBVIOUS
<1>1. /\ Whole(mem) /\ flash = Flash(mem)
      /\ queue = <<>> /\ asked = None /\ nodev = FALSE /\ had = {}
  BY InitIs
<1>2. Page(flash)
  BY <1>1, FlashIs
<1>3. queue \in Seq(Block) /\ asked \in Requests \cup {None} /\ had \in SUBSET Faults
  BY <1>1, EmptyList
<1> QED BY <1>1, <1>2, <1>3 DEF Base

LEMMA BaseStep ==
  Base /\ [Next]_vars => Base'
<1> SUFFICES ASSUME Base, [Next]_vars PROVE Base'
  OBVIOUS
<1>1. /\ Whole(mem) /\ Page(flash) /\ queue \in Seq(Block) /\ asked \in Requests \cup {None}
      /\ asked # None => queue # <<>>
      /\ nodev \in BOOLEAN /\ had \in SUBSET Faults
  BY DEF Base
<1>2. ASSUME NEW n \in RegNames, Sample(n) PROVE Base'
  <2>1. PICK r \in Block : /\ StateSet(mem', mem, r, "waiting") /\ Queued(r)
                           /\ UNCHANGED <<flash, nodev, had>>
    BY <1>2, SampleIs
  <2>2. queue' \in Seq(Block) /\ queue' # <<>>
    BY <1>1, <2>1 DEF Queued
  <2>3. asked' \in Requests \cup {None}
    BY <1>1, <2>1, RequestIs DEF Queued
  <2> QED BY <1>1, <2>1, <2>2, <2>3 DEF Base, StateSet
<1>3. CASE SendHead
  <2>1. /\ queue # <<>> /\ queue[1] \in Block /\ asked' = Request(mem, queue[1])
        /\ StateSet(mem', mem, queue[1], "waiting")
        /\ UNCHANGED <<flash, queue, nodev, had>>
    BY <1>3, SendHeadIs
  <2>2. asked' \in Requests
    BY <1>1, <2>1, RequestIs
  <2> QED BY <1>1, <2>1, <2>2 DEF Base, StateSet
<1>4. CASE Drop
  <2>1. asked # None /\ queue' = Tail(queue) /\ asked' = None
        /\ UNCHANGED <<mem, flash, nodev, had>>
    BY <1>4 DEF Drop
  <2>2. queue' \in Seq(Block)
    BY <1>1, <2>1, HeadIs
  <2> QED BY <1>1, <2>1, <2>2 DEF Base
<1>5. CASE Answer
  <2>1. /\ queue[1] \in Block /\ queue' \in Seq(Block) /\ asked' = None
        /\ UNCHANGED <<flash, had>>
    BY <1>5, AnswerIs
  <2>2. PICK c : /\ StateSet(c, mem, queue[1], "invalid")
                 /\ mem' = c \/ ValueSet(mem', c, queue[1], asked)
                 /\ nodev' = nodev \/ nodev' = (nodev \/ RegGetDev(c, queue[1]) = 0)
    BY <1>5, AnswerIs
  <2>3. Whole(mem')
    BY <2>2 DEF StateSet, ValueSet
  <2>4. nodev' \in BOOLEAN
    BY <1>1, <2>2
  <2> QED BY <1>1, <2>1, <2>3, <2>4 DEF Base
<1>6. CASE DevAdd
  <2>1. /\ UNCHANGED <<flash, queue, asked, nodev>> /\ had' \in SUBSET Faults
        /\ \E u \in Units : mem' = mem \/ DevPutIn(mem', mem, u)
    BY <1>6, DevAddIs
  <2> QED BY <1>1, <2>1 DEF Base, DevPutIn
<1>7. CASE RegAdd
  <2>1. /\ UNCHANGED <<flash, queue, asked, nodev>> /\ had' \in SUBSET Faults
        /\ \E u \in Units, a \in Addrs, n \in RegNames :
              mem' = mem \/ RegPutIn(mem', mem, u, a, n)
    BY <1>7, RegAddIs
  <2> QED BY <1>1, <2>1 DEF Base, RegPutIn
<1>8. ASSUME NEW c, Delete(c), Whole(c) PROVE Base'
  <2>1. /\ UNCHANGED <<flash, queue, asked, nodev>> /\ had' \in SUBSET Faults /\ mem' = c
    BY <1>8, DeleteIs
  <2> QED BY <1>1, <1>8, <2>1 DEF Base
<1>9. CASE RegDelete
  BY <1>8, <1>9, RegDeleteIs DEF RegTakenOut
<1>10. CASE DevDelete
  BY <1>8, <1>10, DevDeleteIs DEF DevTakenOut
<1>11. CASE MeasEdit \/ Repop
  <2>1. MeasSet(mem', mem) /\ UNCHANGED <<flash, queue, asked, nodev, had>>
    BY <1>11, MeasIs
  <2> QED BY <1>1, <2>1 DEF Base, MeasSet
<1>12. CASE Save
  <2>1. /\ UNCHANGED <<mem, queue, asked, nodev, had>>
        /\ (flash' = flash \/ flash' = Flash(mem))
    BY <1>12, SaveIs
  <2>2. Page(flash')
    BY <1>1, <2>1, FlashIs
  <2> QED BY <1>1, <2>1, <2>2 DEF Base
<1>13. CASE Reset \/ Wipe \/ SaveCut
  <2>1. PICK f : Restarted(f)
    BY <1>13, RestartIs
  <2>2. had' \in SUBSET Faults
    BY <1>13, RestartIs
  <2>3. Whole(mem') /\ Page(flash')
    BY <2>1, LoadIs, SavedIs DEF Restarted
  <2>4. queue' \in Seq(Block)
    BY <2>1 DEF Restarted
  <2> QED BY <1>1, <2>1, <2>2, <2>3, <2>4 DEF Base, Restarted
<1>14. CASE UNCHANGED vars
  BY <1>1, <1>14 DEF vars, Base
<1> QED BY <1>2, <1>3, <1>4, <1>5, <1>6, <1>7, <1>9, <1>10, <1>11, <1>12, <1>13, <1>14 DEF Next

\* What a pool means for the walks of the code.
LEMMA BaseIsSound ==
  Base => BlocksSound
<1> SUFFICES ASSUME Base PROVE BlocksSound
  OBVIOUS
<1>1. PICK F, D, R : In(mem, F, D, R)
  BY WholeIsTidy DEF Base, Sound, PoolOf, Pool, In
<1>2. /\ Chain(mem, mem.first_free) = F /\ Devs(mem) = D
      /\ \A d \in Range(D) : Regs(mem, d) = R[d]
  BY <1>1, WalksAre
<1>3. Lonely(F, D, R)
  BY <1>1, InOneList DEF In
<1>4. /\ IsInjective(F) /\ IsInjective(D) /\ \A d \in Range(D) : IsInjective(R[d])
      /\ \A b \in Range(F) : mem.block[b] \in FreeBlocks
      /\ \A d \in Range(D) : mem.block[d] \in DevBlocks
      /\ \A d \in Range(D) : \A r \in Range(R[d]) :
            mem.block[r] \in RegBlocks /\ mem.block[r].unit = mem.block[d].unit
      /\ Apart(D, R) /\ Everywhere(F, D, R)
  BY <1>1 DEF In, InLists, Linked, List, Kinds
<1> DEFINE lists == {F, D} \cup {R[d] : d \in Range(D)}
<1>5. UNION {Range(s) : s \in lists} = 1..Blocks
  <2>1. UNION {Range(s) : s \in lists} \subseteq Block
    BY <1>3 DEF Lonely
  <2>2. Block \subseteq UNION {Range(s) : s \in lists}
    BY <1>4 DEF Everywhere
  <2> QED BY <2>1, <2>2 DEF Block
<1>6. \A s \in lists : IsInjective(s)
  BY <1>4
<1>7. /\ \A b \in Range(F) : mem.block[b].kind = "free"
      /\ \A d \in Range(D) :
            /\ mem.block[d].kind = "dev"
            /\ \A r \in Range(R[d]) :
                  mem.block[r].kind = "reg" /\ mem.block[r].unit = mem.block[d].unit
            /\ \A e \in Range(D) \ {d} : Range(R[d]) \cap Range(R[e]) = {}
  BY <1>4, KindsDiffer DEF Apart
<1>8. {Regs(mem, d) : d \in Range(D)} = {R[d] : d \in Range(D)}
  BY <1>2
<1>9. ListsSound
  <2> HIDE DEF lists
  <2>1. {Chain(mem, mem.first_free), Devs(mem)} \cup {Regs(mem, d) : d \in Range(Devs(mem))} = lists
    BY <1>2, <1>8 DEF lists
  <2> QED BY <1>2, <1>5, <1>6, <1>7, <2>1 DEF ListsSound
<1>10. TypeOK
  <2>1. mem \in Tabs /\ Tidy(mem.meas)
    BY WholeIsTidy DEF Base, Sound
  <2>2. mem.block \in [1..Blocks -> AnyBlock] /\ mem.meas \in Measures
    BY <2>1 DEF Tabs, Block
  <2>3. DOMAIN mem.block = 1..Blocks
    BY <2>2
  <2>4. \A b \in 1..Blocks : mem.block[b].next \in 0..Blocks
    BY <2>2, KindsDiffer DEF AnyBlock
  <2>5. \A i \in 1..Slots : mem.meas[i] # None =>
           mem.meas[i].name \in Names /\ mem.meas[i].count \in Counts \ {0}
    <3> SUFFICES ASSUME NEW i \in 1..Slots, mem.meas[i] # None
                 PROVE  mem.meas[i].name \in Names /\ mem.meas[i].count \in Counts \ {0}
      OBVIOUS
    <3>1. mem.meas[i] \in Kept
      BY <2>2 DEF Measures
    <3> QED BY <3>1 DEF Kept, Definitions
  <2>6. queue \in Seq(1..Blocks) /\ (asked # None => queue # <<>>)
        /\ nodev \in BOOLEAN /\ had \subseteq Faults
    BY DEF Base, Block
  <2> QED BY <2>3, <2>4, <2>5, <2>6 DEF TypeOK
<1> QED BY <1>9, <1>10 DEF BlocksSound

\* Every block is free, a device, or a register of one device, in lists that
\* end and do not share a block, whatever was added, deleted, saved, reloaded
\* or answered, for any number of blocks.
THEOREM TablesBlocksSound ==
  Spec => []BlocksSound
<1>1. Spec => []Base
  BY BaseFirst, BaseStep, PTL DEF Spec
<1> QED BY <1>1, BaseIsSound, PTL

-----------------------------------------------------------------------------
(* Answers land where they were asked for.                                 *)

\* No unit id is spoilt, and what is ready is the answer to its own request.
Lands(blk) ==
    \A b \in Block :
        /\ blk[b].kind = "dev" => ~blk[b].spoilt
        /\ blk[b].kind = "reg" /\ blk[b].state = "ready" =>
              blk[b].from = [unit |-> blk[b].unit, addr |-> blk[b].addr]

\* What is queued are registers, and the request sent is that of the first.
Asks ==
    /\ \A i \in 1..Len(queue) : mem.block[queue[i]].kind = "reg"
    /\ asked # None => asked = Request(mem, queue[1])

Landing ==
    "queued" \in had \/
    /\ ~nodev /\ Lands(mem.block) /\ Asks
    /\ flash.bus # None => Lands(flash.bus.block)

LEMMA LandsKept ==
  ASSUME NEW blk, NEW new, Lands(blk),
         \A b \in Block :
            \/ Alike(new[b], blk[b])
            \/ new[b].kind = "free"
            \/ new[b].kind = "dev" /\ ~new[b].spoilt
            \/ new[b].kind = "reg" /\ new[b].state # "ready"
            \/ /\ new[b].kind = "reg"
               /\ new[b].from = [unit |-> new[b].unit, addr |-> new[b].addr]
  PROVE  Lands(new)
<1>1. "free" # "dev" /\ "free" # "reg" /\ "dev" # "reg"
  OBVIOUS
<1> SUFFICES ASSUME NEW b \in Block
             PROVE  /\ new[b].kind = "dev" => ~new[b].spoilt
                    /\ new[b].kind = "reg" /\ new[b].state = "ready" =>
                          new[b].from = [unit |-> new[b].unit, addr |-> new[b].addr]
  BY DEF Lands
<1>2. CASE Alike(new[b], blk[b])
  <2>1. /\ blk[b].kind = "dev" => ~blk[b].spoilt
        /\ blk[b].kind = "reg" /\ blk[b].state = "ready" =>
              blk[b].from = [unit |-> blk[b].unit, addr |-> blk[b].addr]
    BY DEF Lands
  <2> QED BY <1>2, <2>1 DEF Alike
<1>3. CASE ~Alike(new[b], blk[b])
  BY <1>1, <1>3
<1> QED BY <1>2, <1>3

\* A request asks for the register that stands there.
LEMMA RequestKept ==
  ASSUME NEW c, NEW e, NEW b,
         c.block[b].kind = "reg", e.block[b].kind = "reg",
         e.block[b].unit = c.block[b].unit, e.block[b].addr = c.block[b].addr
  PROVE  Request(e, b) = Request(c, b)
BY DEF Request

\* The queue stays as it is while its registers do.
LEMMA AsksKept ==
  ASSUME Base, Asks, UNCHANGED <<queue, asked>>,
         \A i \in 1..Len(queue) : Alike(mem'.block[queue[i]], mem.block[queue[i]])
  PROVE  Asks'
<1>1. \A i \in 1..Len(queue) : mem'.block[queue[i]].kind = "reg"
  BY DEF Asks, Alike
<1>2. ASSUME asked # None PROVE asked = Request(mem', queue[1])
  <2>1. 1 \in 1..Len(queue)
    BY <1>2 DEF Base
  <2>2. Alike(mem'.block[queue[1]], mem.block[queue[1]]) /\ mem.block[queue[1]].kind = "reg"
    BY <2>1 DEF Asks
  <2>3. Request(mem', queue[1]) = Request(mem, queue[1])
    BY <2>2, RequestKept DEF Alike
  <2> QED BY <1>2, <2>3 DEF Asks
<1> QED BY <1>1, <1>2 DEF Asks

\* A register has a device, if no unit id is spoilt.
LEMMA HasDevice ==
  ASSUME NEW c, Whole(c), Lands(c.block), NEW r \in Block, c.block[r].kind = "reg"
  PROVE  RegGetDev(c, r) # 0
<1>1. PICK F, D, R : In(c, F, D, R)
  BY WholeIsTidy DEF Sound, PoolOf, Pool, In
<1>2. Lonely(F, D, R)
  BY <1>1, InOneList DEF In
<1>3. c.block[r] \in RegBlocks
  BY KindOf DEF Whole, Sound, Tabs
<1>4. PICK g \in Range(D) : r \in Range(R[g])
  <2>1. r \notin Range(F) /\ r \notin Range(D)
    BY <1>1, <1>3, KindsDiffer DEF In, InLists, Kinds
  <2> QED BY <1>1, <2>1 DEF In, InLists, Everywhere
<1>5. g \in Block /\ c.block[g] \in DevBlocks
  BY <1>1, <1>2 DEF In, InLists, Kinds, Lonely
<1>6. ~c.block[g].spoilt
  BY <1>5, KindsDiffer DEF Lands
<1>7. c.block[r].unit = c.block[g].unit /\ RegGetDev(c, r) = GetDeviceById(c, c.block[r].unit)
  BY <1>1, <1>4, DevOfReg
<1> QED BY <1>1, <1>6, <1>7, ByIdFinds

\* A page holds the blocks.
LEMMA PageBlocks ==
  ASSUME NEW c, Whole(c)
  PROVE  Flash(c).bus.block = c.block
<1>1. Flash(c).bus = Bus(c)
  BY FlashIs
<1>2. Bus(c).block = c.block
  BY DEF Bus
<1> QED BY <1>1, <1>2

\* What a page is loaded as.
LEMMA LandsLoaded ==
  ASSUME NEW f, Page(f), f.bus # None => Lands(f.bus.block)
  PROVE  /\ Lands(Load(f).block)
         /\ Saved(f).bus # None => Lands(Saved(f).bus.block)
<1>1. PICK c : c = Load(f)
  OBVIOUS
<1>2. Whole(c) /\ ((f.bus # None /\ c.block = f.bus.block) \/ \A b \in Block : c.block[b] \in FreeBlocks)
  BY <1>1, LoadIs
<1>3. Lands(c.block)
  <2>1. CASE f.bus # None /\ c.block = f.bus.block
    BY <2>1
  <2>2. CASE \A b \in Block : c.block[b] \in FreeBlocks
    <3>1. \A b \in Block : c.block[b].kind = "free"
      BY <2>2, KindsDiffer
    <3> QED BY <3>1 DEF Lands
  <2> QED BY <1>2, <2>1, <2>2
<1>4. Saved(f) = f \/ Saved(f) = Flash(c)
  BY <1>1, SavedIs
<1>5. Flash(c).bus.block = c.block
  BY <1>2, PageBlocks
<1> QED BY <1>1, <1>3, <1>4, <1>5

LEMMA LandingFirst ==
  Init => Landing
<1> SUFFICES ASSUME Init PROVE Landing
  OBVIOUS
<1>1. /\ Whole(mem) /\ flash = Flash(mem)
      /\ queue = <<>> /\ asked = None /\ nodev = FALSE /\ had = {}
      /\ \/ mem = NewUnit
         \/ \E e : \E u \in Units, a \in Addrs, r \in RegNames \ Range(BuiltIns) :
               /\ Whole(e) /\ (e = NewUnit \/ DevPutIn(e, NewUnit, u))
               /\ (mem = e \/ RegPutIn(mem, e, u, a, r))
  BY InitIs
<1>2. Lands(NewUnit.block)
  <2>1. \A b \in Block : NewUnit.block[b].kind = "free"
    BY NewUnitIs, KindsDiffer
  <2> QED BY <2>1 DEF Lands
<1>3. ASSUME NEW e, NEW u, e = NewUnit \/ DevPutIn(e, NewUnit, u) PROVE Lands(e.block)
  <2>1. \A b \in Block : e.block[b] = NewUnit.block[b]
                         \/ (e.block[b].kind = "dev" /\ ~e.block[b].spoilt)
    BY <1>3, KindsDiffer DEF DevPutIn
  <2>2. \A x : Alike(x, x)
    BY DEF Alike
  <2>3. \A b \in Block : Alike(e.block[b], NewUnit.block[b])
                         \/ (e.block[b].kind = "dev" /\ ~e.block[b].spoilt)
    BY <2>1, <2>2
  <2> QED BY <1>2, <2>3, LandsKept
<1>4. ASSUME NEW e, NEW u, NEW a, NEW r, Lands(e.block), mem = e \/ RegPutIn(mem, e, u, a, r)
      PROVE  Lands(mem.block)
  <2>1. CASE mem = e
    BY <1>4, <2>1
  <2>2. CASE RegPutIn(mem, e, u, a, r)
    <3>1. \A b \in Block : \/ Alike(mem.block[b], e.block[b])
                           \/ mem.block[b].kind = "reg" /\ mem.block[b].state # "ready"
      BY <2>2, KindsDiffer DEF RegPutIn
    <3> QED BY <1>4, <3>1, LandsKept
  <2> QED BY <1>4, <2>1, <2>2
<1>5. Lands(mem.block)
  BY <1>1, <1>2, <1>3, <1>4
<1>6. flash.bus.block = mem.block
  BY <1>1, PageBlocks
<1>7. Asks
  BY <1>1 DEF Asks
<1> QED BY <1>1, <1>5, <1>6, <1>7 DEF Landing

LEMMA AlikeItself ==
  ASSUME NEW x
  PROVE  Alike(x, x)
BY DEF Alike

\* What leaves the requests alone.
LEMMA LandingKept ==
  ASSUME Base, ~nodev, Lands(mem.block), Asks, flash.bus # None => Lands(flash.bus.block),
         UNCHANGED <<flash, queue, asked, nodev>>, Lands(mem'.block),
         \A i \in 1..Len(queue) : Alike(mem'.block[queue[i]], mem.block[queue[i]])
  PROVE  Landing'
<1>1. Asks'
  BY AsksKept
<1> QED BY <1>1 DEF Landing

\* A block is put in where a free one stood.
LEMMA PutInLands ==
  ASSUME Base, ~nodev, Lands(mem.block), Asks, flash.bus # None => Lands(flash.bus.block),
         UNCHANGED <<flash, queue, asked, nodev>>,
         NEW b \in Block, mem.block[b].kind = "free",
         \/ mem'.block[b].kind = "dev" /\ ~mem'.block[b].spoilt
         \/ mem'.block[b].kind = "reg" /\ mem'.block[b].state # "ready",
         \A x \in Block : x # b => Alike(mem'.block[x], mem.block[x])
  PROVE  Landing'
<1>1. Lands(mem'.block)
  BY LandsKept
<1>2. ASSUME NEW i \in 1..Len(queue)
      PROVE  Alike(mem'.block[queue[i]], mem.block[queue[i]])
  <2>1. queue[i] \in Block
    BY DEF Base
  <2>2. mem.block[queue[i]].kind = "reg"
    BY DEF Asks
  <2> QED BY <2>1, <2>2
<1> QED BY <1>1, <1>2, LandingKept

\* Blocks that are not queued are freed.
LEMMA FreedLands ==
  ASSUME Base, ~nodev, Lands(mem.block), Asks, flash.bus # None => Lands(flash.bus.block),
         UNCHANGED <<flash, queue, asked, nodev>>,
         NEW X \in SUBSET Block, Freed(mem', mem, X),
         \A i \in 1..Len(queue) : mem'.block[queue[i]].kind = "free"
                                  => mem.block[queue[i]].kind = "free"
  PROVE  Landing'
<1>1. /\ \A b \in X : mem'.block[b].kind = "free"
      /\ \A b \in Block \ X : Alike(mem'.block[b], mem.block[b])
  BY KindsDiffer DEF Freed
<1>2. Lands(mem'.block)
  BY <1>1, LandsKept
<1>3. ASSUME NEW i \in 1..Len(queue)
      PROVE  Alike(mem'.block[queue[i]], mem.block[queue[i]])
  <2>1. queue[i] \in Block
    BY DEF Base
  <2>2. mem.block[queue[i]].kind = "reg"
    BY DEF Asks
  <2>3. queue[i] \notin X
    BY <1>1, <2>2
  <2> QED BY <1>1, <2>1, <2>3
<1> QED BY <1>2, <1>3, LandingKept

\* A state other than READY is written to a register.
LEMMA StateLands ==
  ASSUME NEW e, NEW c, NEW b \in Block, NEW s, s # "ready",
         Lands(c.block), c.block[b].kind = "reg", StateSet(e, c, b, s)
  PROVE  /\ Lands(e.block) /\ e.block[b].kind = "reg"
         /\ e.block[b].unit = c.block[b].unit /\ e.block[b].addr = c.block[b].addr
         /\ \A x \in Block : x # b => e.block[x] = c.block[x]
<1>1. /\ e.block[b].kind = "reg" /\ e.block[b].state = s
      /\ e.block[b].unit = c.block[b].unit /\ e.block[b].addr = c.block[b].addr
      /\ \A x \in Block : x # b => e.block[x] = c.block[x]
  BY DEF StateSet
<1>2. \A x \in Block : x # b => Alike(e.block[x], c.block[x])
  BY <1>1, AlikeItself
<1>3. Lands(e.block)
  BY <1>1, <1>2, LandsKept
<1> QED BY <1>1, <1>3

LEMMA RequestsStay ==
  ASSUME NEW e, NEW c, NEW b \in Block,
         e.block[b].kind = "reg", c.block[b].kind = "reg",
         e.block[b].unit = c.block[b].unit, e.block[b].addr = c.block[b].addr,
         \A y \in Block : y # b => e.block[y] = c.block[y]
  PROVE  \A x \in Block : c.block[x].kind = "reg" =>
            e.block[x].kind = "reg" /\ Request(e, x) = Request(c, x)
<1> SUFFICES ASSUME NEW x \in Block, c.block[x].kind = "reg"
             PROVE  e.block[x].kind = "reg" /\ Request(e, x) = Request(c, x)
  OBVIOUS
<1>1. e.block[x].kind = "reg" /\ e.block[x].unit = c.block[x].unit
      /\ e.block[x].addr = c.block[x].addr
  OBVIOUS
<1> QED BY <1>1, RequestKept

\* A register is queued, behind those that are.
LEMMA SampleLands ==
  ASSUME Base, ~nodev, Lands(mem.block), Asks, flash.bus # None => Lands(flash.bus.block),
         NEW n \in RegNames, Sample(n)
  PROVE  Landing'
<1>1. PICK r \in Block : /\ mem.block[r] \in RegBlocks
                         /\ StateSet(mem', mem, r, "waiting") /\ Queued(r)
                         /\ UNCHANGED <<flash, nodev, had>>
  BY SampleIs
<1>2. mem.block[r].kind = "reg" /\ queue \in Seq(Block)
  BY <1>1, KindsDiffer DEF Base
<1>3. PICK s : s = "waiting"
  OBVIOUS
<1>4. s # "ready" /\ StateSet(mem', mem, r, s)
  BY <1>1, <1>3
<1>5. /\ Lands(mem'.block) /\ mem'.block[r].kind = "reg"
      /\ mem'.block[r].unit = mem.block[r].unit /\ mem'.block[r].addr = mem.block[r].addr
      /\ \A x \in Block : x # r => mem'.block[x] = mem.block[x]
  BY <1>2, <1>4, StateLands, SMTT(60)
<1>6. \A x \in Block : mem.block[x].kind = "reg" =>
         mem'.block[x].kind = "reg" /\ Request(mem', x) = Request(mem, x)
  BY <1>2, <1>5, RequestsStay, SMTT(60)
<1>7. queue' = Append(queue, r)
  BY <1>1 DEF Queued
<1>8. \A i \in 1..Len(queue') : queue'[i] \in Block /\ mem.block[queue'[i]].kind = "reg"
  <2>1. \A i \in 1..Len(queue) : queue[i] \in Block /\ mem.block[queue[i]].kind = "reg"
    BY <1>2 DEF Asks
  <2>2. \A i \in 1..Len(queue') : queue'[i] = r \/ (i \in 1..Len(queue) /\ queue'[i] = queue[i])
    BY <1>2, <1>7
  <2> QED BY <1>2, <2>1, <2>2
<1>9. \A i \in 1..Len(queue') : mem'.block[queue'[i]].kind = "reg"
  BY <1>6, <1>8
<1>10. asked' = Request(mem', queue'[1])
  <2>1. CASE asked = None
    <3>1. queue = <<>> /\ asked' = Request(mem, r)
      BY <1>1, <2>1 DEF Queued
    <3>2. queue'[1] = r
      BY <1>7, <3>1
    <3> QED BY <1>2, <1>6, <3>1, <3>2
  <2>2. CASE asked # None
    <3>1. queue # <<>> /\ asked' = asked /\ asked = Request(mem, queue[1])
      BY <1>1, <2>2 DEF Queued, Base, Asks
    <3>2. queue'[1] = queue[1] /\ 1 \in 1..Len(queue')
      BY <1>2, <1>7, <3>1
    <3> QED BY <1>6, <1>8, <3>1, <3>2
  <2> QED BY <2>1, <2>2
<1>11. Asks'
  BY <1>9, <1>10 DEF Asks
<1> QED BY <1>1, <1>5, <1>11 DEF Landing

LEMMA SendHeadLands ==
  ASSUME Base, ~nodev, Lands(mem.block), Asks, flash.bus # None => Lands(flash.bus.block),
         SendHead
  PROVE  Landing'
<1>1. /\ queue # <<>> /\ queue[1] \in Block /\ asked' = Request(mem, queue[1])
      /\ StateSet(mem', mem, queue[1], "waiting")
      /\ UNCHANGED <<flash, queue, nodev, had>>
  BY SendHeadIs
<1>2. queue \in Seq(Block) /\ \A i \in 1..Len(queue) : queue[i] \in Block /\ mem.block[queue[i]].kind = "reg"
  BY DEF Base, Asks
<1>3. mem.block[queue[1]].kind = "reg"
  BY <1>1, <1>2
<1>4. PICK s : s = "waiting"
  OBVIOUS
<1>5. PICK r : r = queue[1]
  OBVIOUS
<1>6. s # "ready" /\ StateSet(mem', mem, r, s) /\ r \in Block /\ mem.block[r].kind = "reg"
  BY <1>1, <1>3, <1>4, <1>5
<1>7. /\ Lands(mem'.block) /\ mem'.block[r].kind = "reg"
      /\ mem'.block[r].unit = mem.block[r].unit /\ mem'.block[r].addr = mem.block[r].addr
      /\ \A x \in Block : x # r => mem'.block[x] = mem.block[x]
  BY <1>6, StateLands, SMTT(60)
<1>8. \A x \in Block : mem.block[x].kind = "reg" =>
         mem'.block[x].kind = "reg" /\ Request(mem', x) = Request(mem, x)
  BY <1>6, <1>7, RequestsStay, SMTT(60)
<1>9. Asks'
  BY <1>1, <1>2, <1>5, <1>6, <1>8 DEF Asks
<1> QED BY <1>1, <1>7, <1>9 DEF Landing

\* What is left of the queue is asked for when it is sent.
LEMMA TailAsks ==
  ASSUME Base, queue # <<>>, queue' = Tail(queue), asked' = None,
         \A i \in 1..Len(queue) : mem'.block[queue[i]].kind = "reg"
  PROVE  Asks'
<1>1. queue \in Seq(Block)
  BY DEF Base
<1>2. \A i \in 1..Len(queue') : i + 1 \in 1..Len(queue) /\ queue'[i] = queue[i + 1]
  BY <1>1
<1> QED BY <1>2 DEF Asks

LEMMA DropLands ==
  ASSUME Base, ~nodev, Lands(mem.block), Asks, flash.bus # None => Lands(flash.bus.block),
         Drop
  PROVE  Landing'
<1>1. asked # None /\ queue' = Tail(queue) /\ asked' = None
      /\ UNCHANGED <<mem, flash, nodev, had>>
  BY DEF Drop
<1>2. queue # <<>>
  BY <1>1 DEF Base
<1>3. \A i \in 1..Len(queue) : mem'.block[queue[i]].kind = "reg"
  BY <1>1 DEF Asks
<1>4. Asks'
  BY <1>1, <1>2, <1>3, TailAsks
<1> QED BY <1>1, <1>4 DEF Landing

\* The value of an answer goes to the register that was asked for.
LEMMA AnswerLands ==
  ASSUME Base, ~nodev, Lands(mem.block), Asks, flash.bus # None => Lands(flash.bus.block),
         Answer
  PROVE  Landing'
<1>1. /\ asked \in Requests /\ asked # None /\ queue[1] \in Block /\ queue # <<>>
      /\ queue' = Tail(queue) /\ asked' = None /\ UNCHANGED <<flash, had>>
  BY AnswerIs
<1>2. PICK c : /\ StateSet(c, mem, queue[1], "invalid")
               /\ (mem' = c \/ ValueSet(mem', c, queue[1], asked))
               /\ (nodev' = nodev \/ nodev' = (nodev \/ RegGetDev(c, queue[1]) = 0))
  BY AnswerIs
<1>3. queue \in Seq(Block) /\ \A i \in 1..Len(queue) : queue[i] \in Block /\ mem.block[queue[i]].kind = "reg"
  BY DEF Base, Asks
<1>4. PICK s : s = "invalid"
  OBVIOUS
<1>5. PICK r : r = queue[1]
  OBVIOUS
<1>6. 1 \in 1..Len(queue)
  BY <1>1, <1>3
<1>7. s # "ready" /\ StateSet(c, mem, r, s) /\ r \in Block /\ mem.block[r].kind = "reg"
  BY <1>1, <1>2, <1>3, <1>4, <1>5, <1>6
<1>8. /\ Lands(c.block) /\ c.block[r].kind = "reg" /\ Whole(c)
      /\ c.block[r].unit = mem.block[r].unit /\ c.block[r].addr = mem.block[r].addr
      /\ \A x \in Block : x # r => c.block[x] = mem.block[x]
  <2>1. Whole(c)
    BY <1>7 DEF StateSet
  <2> QED BY <1>7, <2>1, StateLands, SMTT(60)
<1>9. RegGetDev(c, r) # 0
  BY <1>7, <1>8, HasDevice
<1>10. ~nodev'
  BY <1>2, <1>5, <1>9
<1>11. asked = [unit |-> c.block[r].unit, addr |-> c.block[r].addr]
  <2>1. asked = Request(mem, r)
    BY <1>1, <1>5 DEF Asks
  <2>2. Request(mem, r) = [unit |-> mem.block[r].unit, addr |-> mem.block[r].addr]
    BY <1>7 DEF Request
  <2> QED BY <1>8, <2>1, <2>2
<1>12. /\ Lands(mem'.block) /\ mem'.block[r].kind = "reg"
       /\ \A x \in Block : x # r => mem'.block[x] = c.block[x]
  <2>1. CASE mem' = c
    BY <1>8, <2>1
  <2>2. CASE ValueSet(mem', c, r, asked)
    <3>1. /\ mem'.block[r].kind = "reg" /\ mem'.block[r].from = asked
          /\ mem'.block[r].unit = c.block[r].unit /\ mem'.block[r].addr = c.block[r].addr
          /\ \A x \in Block : x # r => mem'.block[x] = c.block[x]
      BY <2>2 DEF ValueSet
    <3>2. mem'.block[r].from = [unit |-> mem'.block[r].unit, addr |-> mem'.block[r].addr]
      BY <1>11, <3>1
    <3>3. \A x \in Block : x # r => Alike(mem'.block[x], c.block[x])
      BY <3>1, AlikeItself
    <3>4. Lands(mem'.block)
      BY <1>8, <3>1, <3>2, <3>3, LandsKept
    <3> QED BY <3>1, <3>4
  <2> QED BY <1>2, <1>5, <2>1, <2>2
<1>13. \A i \in 1..Len(queue) : mem'.block[queue[i]].kind = "reg"
  <2> SUFFICES ASSUME NEW i \in 1..Len(queue) PROVE mem'.block[queue[i]].kind = "reg"
    OBVIOUS
  <2>1. queue[i] \in Block /\ mem.block[queue[i]].kind = "reg"
    BY <1>3
  <2>2. CASE queue[i] = r
    BY <1>12, <2>2
  <2>3. CASE queue[i] # r
    BY <1>8, <1>12, <2>1, <2>3
  <2> QED BY <2>2, <2>3
<1>14. Asks'
  BY <1>1, <1>13, TailAsks
<1> QED BY <1>1, <1>10, <1>12, <1>14 DEF Landing

\* A restart, from what was saved or from nothing.
LEMMA RestartLands ==
  ASSUME Base, ~nodev, Lands(mem.block), Asks, flash.bus # None => Lands(flash.bus.block),
         Reset \/ Wipe \/ SaveCut
  PROVE  Landing'
<1>1. PICK f : /\ Restarted(f)
               /\ \/ f = flash
                  \/ f.bus = None
                  \/ "cut" \in had' /\ f.bus = Bus(mem) /\ f.meas = None
  BY RestartIs
<1>2. f.bus # None => Lands(f.bus.block)
  <2>1. Bus(mem).block = mem.block
    BY DEF Bus
  <2> QED BY <1>1, <2>1
<1>3. /\ Page(f) /\ mem' = Load(f) /\ flash' = Saved(f)
      /\ queue' = <<>> /\ asked' = None /\ nodev' = nodev
  BY <1>1 DEF Restarted
<1>4. Lands(mem'.block) /\ (flash'.bus # None => Lands(flash'.bus.block))
  BY <1>2, <1>3, LandsLoaded
<1>5. Asks'
  BY <1>3 DEF Asks
<1> QED BY <1>3, <1>4, <1>5 DEF Landing

LEMMA SaveLands ==
  ASSUME Base, ~nodev, Lands(mem.block), Asks, flash.bus # None => Lands(flash.bus.block),
         Save
  PROVE  Landing'
<1>1. /\ UNCHANGED <<mem, queue, asked, nodev, had>>
      /\ (flash' = flash \/ flash' = Flash(mem))
  BY SaveIs
<1>2. Flash(mem).bus.block = mem.block
  BY PageBlocks DEF Base
<1>3. flash'.bus # None => Lands(flash'.bus.block)
  BY <1>1, <1>2
<1>4. Asks'
  BY <1>1 DEF Asks, Request
<1> QED BY <1>1, <1>3, <1>4 DEF Landing

\* The faults that were had stay had.
LEMMA HadStays ==
  ASSUME Base, [Next]_vars
  PROVE  had \subseteq had'
<1>1. \A n \in RegNames : Sample(n) => had' = had
  BY DEF Sample
<1>2. SendHead \/ Drop \/ Answer \/ Save => had' = had
  BY DEF SendHead, Drop, Answer, Save
<1>3. DevAdd \/ RegAdd => had \subseteq had'
  BY DevAddIs, RegAddIs
<1>4. RegDelete \/ DevDelete => had \subseteq had'
  BY RegDeleteIs, DevDeleteIs, DeleteIs
<1>5. MeasEdit \/ Repop => had' = had
  BY MeasIs
<1>6. Reset \/ Wipe \/ SaveCut => had \subseteq had'
  BY RestartIs
<1>7. UNCHANGED vars => had' = had
  BY DEF vars
<1> QED BY <1>1, <1>2, <1>3, <1>4, <1>5, <1>6, <1>7 DEF Next

LEMMA LandingStep ==
  Base /\ Landing /\ [Next]_vars => Landing'
<1> SUFFICES ASSUME Base, Landing, [Next]_vars PROVE Landing'
  OBVIOUS
<1>1. CASE "queued" \in had'
  BY <1>1 DEF Landing
<1>2. CASE "queued" \notin had'
  <2>1. "queued" \notin had
    BY <1>2, HadStays
  <2>2. /\ ~nodev /\ Lands(mem.block) /\ Asks
        /\ flash.bus # None => Lands(flash.bus.block)
    BY <2>1 DEF Landing
  <2>3. ASSUME NEW n \in RegNames, Sample(n) PROVE Landing'
    BY <2>2, <2>3, SampleLands
  <2>4. CASE SendHead
    BY <2>2, <2>4, SendHeadLands
  <2>5. CASE Drop
    BY <2>2, <2>5, DropLands
  <2>6. CASE Answer
    BY <2>2, <2>6, AnswerLands
  <2>7. ASSUME UNCHANGED <<flash, queue, asked, nodev>>, mem'.block = mem.block PROVE Landing'
    BY <2>2, <2>7, AlikeItself, LandingKept
  <2>8. CASE DevAdd
    <3>1. UNCHANGED <<flash, queue, asked, nodev>> /\ \E u \in Units : mem' = mem \/ DevPutIn(mem', mem, u)
      BY <2>8, DevAddIs
    <3>2. ASSUME NEW u \in Units, DevPutIn(mem', mem, u) PROVE Landing'
      <4>1. PICK b \in Block :
               /\ mem.block[b] \in FreeBlocks /\ mem'.block[b] \in DevBlocks
               /\ ~mem'.block[b].spoilt
               /\ \A x \in Block : x # b => mem'.block[x] = mem.block[x]
        BY <3>2 DEF DevPutIn
      <4>2. \A x \in Block : x # b => Alike(mem'.block[x], mem.block[x])
        BY <4>1, AlikeItself
      <4>3. mem.block[b].kind = "free" /\ mem'.block[b].kind = "dev"
        BY <4>1, KindsDiffer
      <4> QED BY <2>2, <3>1, <4>1, <4>2, <4>3, PutInLands
    <3> QED BY <2>7, <3>1, <3>2
  <2>9. CASE RegAdd
    <3>1. /\ UNCHANGED <<flash, queue, asked, nodev>>
          /\ \E u \in Units, a \in Addrs, n \in RegNames :
                mem' = mem \/ RegPutIn(mem', mem, u, a, n)
      BY <2>9, RegAddIs
    <3>2. ASSUME NEW u \in Units, NEW a \in Addrs, NEW n \in RegNames,
                 RegPutIn(mem', mem, u, a, n)
          PROVE  Landing'
      <4>1. PICK b \in Block :
               /\ mem.block[b] \in FreeBlocks /\ mem'.block[b] \in RegBlocks
               /\ mem'.block[b].state = "invalid"
               /\ \A x \in Block : x # b => Alike(mem'.block[x], mem.block[x])
        BY <3>2 DEF RegPutIn
      <4>2. mem.block[b].kind = "free" /\ mem'.block[b].kind = "reg"
        BY <4>1, KindsDiffer
      <4> QED BY <2>2, <3>1, <4>1, <4>2, PutInLands
    <3> QED BY <2>7, <3>1, <3>2
  <2>10. ASSUME NEW c, Delete(c), c.block = mem.block \/ \E X \in SUBSET Block : Freed(c, mem, X)
         PROVE  Landing'
    <3>1. /\ UNCHANGED <<flash, queue, asked, nodev>> /\ mem' = c
          /\ "queued" \in had' \/
             \A i \in 1..Len(queue) : c.block[queue[i]].kind = "free"
                                      => mem.block[queue[i]].kind = "free"
      BY <2>10, DeleteIs
    <3>2. CASE c.block = mem.block
      BY <2>7, <3>1, <3>2
    <3>3. CASE \E X \in SUBSET Block : Freed(c, mem, X)
      BY <1>2, <2>2, <3>1, <3>3, FreedLands
    <3> QED BY <2>10, <3>2, <3>3
  <2>11. CASE RegDelete
    <3>1. PICK c : Delete(c) /\ \E n \in RegNames : RegTakenOut(c, mem, n)
      BY <2>11, RegDeleteIs
    <3>2. c.block = mem.block \/ \E X \in SUBSET Block : Freed(c, mem, X)
      BY <3>1 DEF RegTakenOut
    <3> QED BY <2>10, <3>1, <3>2
  <2>12. CASE DevDelete
    <3>1. PICK c : Delete(c) /\ \E n \in DevNames : DevTakenOut(c, mem, n)
      BY <2>12, DevDeleteIs
    <3>2. PICK d \in Block, X \in SUBSET Block : Freed(c, mem, X \cup {d})
      BY <3>1 DEF DevTakenOut
    <3>3. X \cup {d} \in SUBSET Block
      BY <3>2
    <3> QED BY <2>10, <3>1, <3>2, <3>3
  <2>13. CASE MeasEdit \/ Repop
    BY <2>7, <2>13, MeasIs DEF MeasSet
  <2>14. CASE Save
    BY <2>2, <2>14, SaveLands
  <2>15. CASE Reset \/ Wipe \/ SaveCut
    BY <2>2, <2>15, RestartLands
  <2>16. CASE UNCHANGED vars
    BY <2>7, <2>16 DEF vars
  <2> QED BY <2>3, <2>4, <2>5, <2>6, <2>8, <2>9, <2>11, <2>12, <2>13, <2>14, <2>15, <2>16 DEF Next
<1> QED BY <1>1, <1>2

\* The lists are those of the blocks.
LEMMA LiveAreBlocks ==
  ASSUME Base
  PROVE  /\ Live(mem) \subseteq Block
         /\ Registers(mem) = {b \in Block : mem.block[b].kind = "reg"}
<1>1. PICK F, D, R : In(mem, F, D, R)
  BY WholeIsTidy DEF Base, Sound, PoolOf, Pool, In
<1>2. /\ Devs(mem) = D
      /\ \A d \in Range(D) : Regs(mem, d) = R[d]
  BY <1>1, WalksAre
<1>3. Lonely(F, D, R)
  BY <1>1, InOneList DEF In
<1>4. /\ \A b \in Range(F) : mem.block[b] \in FreeBlocks
      /\ Everywhere(F, D, R)
  BY <1>1 DEF In, InLists, Kinds
<1>5. Live(mem) = UNION {{d} \cup Range(R[d]) : d \in Range(D)}
  BY <1>2 DEF Live
<1>6. Live(mem) \subseteq Block
  BY <1>3, <1>5 DEF Lonely
<1>7. ASSUME NEW b \in Block, mem.block[b].kind = "reg" PROVE b \in Live(mem)
  <2>1. b \notin Range(F)
    BY <1>4, <1>7, KindsDiffer
  <2> QED BY <1>4, <1>5, <2>1 DEF Everywhere
<1> QED BY <1>6, <1>7 DEF Registers

LEMMA LandingAnswers ==
  Base /\ Landing => AnswersLand
<1> SUFFICES ASSUME Base, Landing, ~Had({"queued"}) PROVE
      /\ ~nodev
      /\ \A b \in Registers(mem) : mem.block[b].state = "ready" =>
            mem.block[b].from = Request(mem, b)
  BY DEF AnswersLand
<1>1. ~nodev /\ Lands(mem.block)
  BY DEF Landing, Had
<1>2. ASSUME NEW b \in Registers(mem), mem.block[b].state = "ready"
      PROVE  mem.block[b].from = Request(mem, b)
  <2>1. b \in Block /\ mem.block[b].kind = "reg"
    BY LiveAreBlocks
  <2>2. mem.block[b].from = [unit |-> mem.block[b].unit, addr |-> mem.block[b].addr]
    BY <1>1, <1>2, <2>1 DEF Lands
  <2> QED BY <2>1, <2>2 DEF Request
<1> QED BY <1>1, <1>2

\* An answer is stored in the register it was asked for, and finds its
\* device, as long as nothing is deleted while it is queued.
THEOREM TablesAnswersLand ==
  Spec => []AnswersLand
<1>1. Spec => []Base
  BY BaseFirst, BaseStep, PTL DEF Spec
<1>2. Spec => []Landing
  BY <1>1, LandingFirst, LandingStep, PTL DEF Spec
<1> QED BY <1>1, <1>2, LandingAnswers, PTL

-----------------------------------------------------------------------------
(* The registers there are, and those of the model, are measured.          *)

UnitsDiffer(blk) ==
    \A d, e \in Block : blk[d].kind = "dev" /\ blk[e].kind = "dev"
                        /\ blk[d].unit = blk[e].unit => d = e
NamesDiffer(blk) ==
    \A r, s \in Block : blk[r].kind = "reg" /\ blk[s].kind = "reg"
                        /\ blk[r].name = blk[s].name => r = s
RegNamed(blk, n) == \E b \in Block : blk[b].kind = "reg" /\ blk[b].name = n
MeasNamed(t, n, y) == \E i \in 1..Slots : t[i] # None /\ t[i].name = n /\ t[i].type = y
Covers(blk, t) == \A n : RegNamed(blk, n) <=> MeasNamed(t, n, "modbus")
Stays(blk, t) == \A n \in Range(BuiltIns) : MeasNamed(t, n, "builtin") /\ ~RegNamed(blk, n)

\* What holds of a table unless one of the faults h was had.
Good(blk, t, h) ==
    /\ "unit" \in h \/ "queued" \in h \/ UnitsDiffer(blk)
    /\ "name" \in h \/ NamesDiffer(blk)
    /\ \/ "unit" \in h \/ "name" \in h \/ "full" \in h \/ "queued" \in h \/ "cut" \in h
       \/ Covers(blk, t)
    /\ "taken" \in h \/ Stays(blk, t)

\* Of the tables in RAM and of those a restart would load.
Agreed ==
    /\ Good(mem.block, mem.meas, had)
    /\ flash.bus # None => flash.meas # None /\ Good(flash.bus.block, flash.meas, had)

LEMMA GoodStays ==
  ASSUME NEW blk, NEW t, NEW g, NEW h, Good(blk, t, g), g \subseteq h
  PROVE  Good(blk, t, h)
BY DEF Good

\* What the properties of a table depend on.
SameBlocks(new, blk) ==
    \A b \in Block : /\ new[b].kind = blk[b].kind
                     /\ blk[b].kind = "dev" => new[b].unit = blk[b].unit
                     /\ blk[b].kind = "reg" => new[b].name = blk[b].name
SameMeasured(u, t) == \A n : /\ MeasNamed(u, n, "modbus") <=> MeasNamed(t, n, "modbus")
                             /\ MeasNamed(t, n, "builtin") => MeasNamed(u, n, "builtin")

LEMMA GoodKept ==
  ASSUME NEW blk, NEW new, NEW t, NEW u, NEW h, Good(blk, t, h),
         SameBlocks(new, blk), SameMeasured(u, t)
  PROVE  Good(new, u, h)
<1>1. UnitsDiffer(blk) => UnitsDiffer(new)
  BY DEF UnitsDiffer, SameBlocks
<1>2. NamesDiffer(blk) => NamesDiffer(new)
  BY DEF NamesDiffer, SameBlocks
<1>3. \A n : RegNamed(new, n) <=> RegNamed(blk, n)
  BY DEF RegNamed, SameBlocks
<1>4. Covers(blk, t) => Covers(new, u)
  BY <1>3 DEF Covers, SameMeasured
<1>5. Stays(blk, t) => Stays(new, u)
  BY <1>3 DEF Stays, SameMeasured
<1> QED BY <1>1, <1>2, <1>4, <1>5 DEF Good

LEMMA SameItself ==
  ASSUME NEW t
  PROVE  SameMeasured(t, t) /\ SameBlocks(t, t)
BY DEF SameMeasured, SameBlocks

\* A register's state is written.
LEMMA StateIsSame ==
  ASSUME NEW e, NEW c, NEW b \in Block, NEW s, NEW q,
         StateSet(e, c, b, s) \/ ValueSet(e, c, b, q)
  PROVE  SameBlocks(e.block, c.block) /\ SameMeasured(e.meas, c.meas)
<1>1. e.meas = c.meas
  BY DEF StateSet, ValueSet
<1>2. SameBlocks(e.block, c.block)
  BY DEF StateSet, ValueSet, SameBlocks
<1> QED BY <1>1, <1>2, SameItself

\* Settings, and what is repopulated.
LEMMA MeasIsSame ==
  ASSUME NEW e, NEW c, MeasSet(e, c)
  PROVE  SameBlocks(e.block, c.block) /\ SameMeasured(e.meas, c.meas)
<1>1. SameBlocks(e.block, c.block)
  BY SameItself DEF MeasSet
<1>2. CASE SameNames(e.meas, c.meas)
  <2>1. \A i \in 1..Slots : e.meas[i] # None <=> c.meas[i] # None
    BY <1>2 DEF SameNames
  <2>2. \A i \in 1..Slots : c.meas[i] # None =>
           e.meas[i].name = c.meas[i].name /\ e.meas[i].type = c.meas[i].type
    BY <1>2 DEF SameNames
  <2>3. \A n, y : MeasNamed(e.meas, n, y) <=> MeasNamed(c.meas, n, y)
    BY <2>1, <2>2 DEF MeasNamed
  <2> QED BY <1>1, <2>3 DEF SameMeasured
<1>3. CASE \A i \in 1..Slots : \/ e.meas[i] = c.meas[i]
                               \/ c.meas[i] = None /\ IsBuiltIn(e.meas[i])
  <2>1. \A i \in 1..Slots : c.meas[i] # None => e.meas[i] = c.meas[i]
    BY <1>3
  <2>2. \A i \in 1..Slots : e.meas[i].type = "modbus" => e.meas[i] = c.meas[i]
    BY <1>3 DEF IsBuiltIn
  <2>3. \A n, y : MeasNamed(c.meas, n, y) => MeasNamed(e.meas, n, y)
    BY <2>1 DEF MeasNamed
  <2>4. \A n : MeasNamed(e.meas, n, "modbus") => MeasNamed(c.meas, n, "modbus")
    BY <2>2 DEF MeasNamed
  <2> QED BY <1>1, <2>3, <2>4 DEF SameMeasured
<1> QED BY <1>2, <1>3 DEF MeasSet

\* A device is put in, and there is none of its unit.
LEMMA DevIsGood ==
  ASSUME NEW e, NEW c, NEW u, NEW h, Good(c.block, c.meas, h), DevPutIn(e, c, u),
         \/ "unit" \in h \/ "queued" \in h
         \/ \A d \in Block : c.block[d].kind = "dev" => c.block[d].unit # u
  PROVE  Good(e.block, e.meas, h)
<1>1. PICK b \in Block :
         /\ c.block[b].kind = "free" /\ e.block[b].kind = "dev" /\ e.block[b].unit = u
         /\ \A x \in Block : x # b => e.block[x] = c.block[x]
  BY KindsDiffer DEF DevPutIn
<1>2. e.meas = c.meas
  BY DEF DevPutIn
<1>3. \A x \in Block : e.block[x].kind = "reg" => x # b /\ e.block[x] = c.block[x]
  BY <1>1
<1>4. \A x \in Block : c.block[x].kind = "reg" => e.block[x] = c.block[x]
  BY <1>1
<1>5. NamesDiffer(c.block) => NamesDiffer(e.block)
  BY <1>3 DEF NamesDiffer
<1>6. \A n : RegNamed(e.block, n) <=> RegNamed(c.block, n)
  BY <1>3, <1>4 DEF RegNamed
<1>7. ASSUME UnitsDiffer(c.block),
             \A d \in Block : c.block[d].kind = "dev" => c.block[d].unit # u
      PROVE  UnitsDiffer(e.block)
  <2> SUFFICES ASSUME NEW d \in Block, NEW f \in Block, e.block[d].kind = "dev",
                      e.block[f].kind = "dev", e.block[d].unit = e.block[f].unit
               PROVE  d = f
    BY DEF UnitsDiffer
  <2>1. CASE d = b /\ f # b
    BY <1>1, <1>7, <2>1
  <2>2. CASE d # b /\ f = b
    BY <1>1, <1>7, <2>2
  <2>3. CASE d # b /\ f # b
    BY <1>1, <1>7, <2>3 DEF UnitsDiffer
  <2> QED BY <2>1, <2>2, <2>3
<1>8. Covers(c.block, c.meas) => Covers(e.block, e.meas)
  BY <1>2, <1>6 DEF Covers
<1>9. Stays(c.block, c.meas) => Stays(e.block, e.meas)
  BY <1>2, <1>6 DEF Stays
<1> QED BY <1>5, <1>7, <1>8, <1>9 DEF Good

\* A register is put in, with its measurement.
LEMMA RegIsGood ==
  ASSUME NEW e, NEW c, NEW u, NEW a, NEW n, NEW h,
         Good(c.block, c.meas, h), RegPutIn(e, c, u, a, n),
         "name" \in h \/ ~RegNamed(c.block, n),
         "taken" \in h \/ ~MeasNamed(c.meas, n, "builtin"),
         "full" \in h \/ \E i \in 1..Slots : e.meas[i] # None /\ e.meas[i].name = n
  PROVE  Good(e.block, e.meas, h)
<1>1. PICK b \in Block :
         /\ c.block[b].kind = "free" /\ e.block[b].kind = "reg" /\ e.block[b].name = n
         /\ \A x \in Block : x # b => Alike(e.block[x], c.block[x])
  BY KindsDiffer DEF RegPutIn
<1>2. PICK w : w = e.meas
  OBVIOUS
<1>3. PICK t : t = c.meas
  OBVIOUS
<1>4. /\ \A i \in 1..Slots : t[i] # None /\ t[i].name # n => w[i] = t[i]
      /\ \A i \in 1..Slots : w[i] # None =>
            \/ w[i] = t[i] /\ t[i] # None /\ t[i].name # n
            \/ w[i].name = n /\ w[i].type = "modbus"
  BY <1>2, <1>3 DEF RegPutIn, MeasAdded
<1>5. \A x \in Block : x # b => /\ e.block[x].kind = c.block[x].kind
                                /\ e.block[x].kind = "dev" => e.block[x].unit = c.block[x].unit
                                /\ e.block[x].kind = "reg" => e.block[x].name = c.block[x].name
  BY <1>1 DEF Alike
<1>6. UnitsDiffer(c.block) => UnitsDiffer(e.block)
  BY <1>1, <1>5 DEF UnitsDiffer
<1>7. \A m : RegNamed(e.block, m) <=> RegNamed(c.block, m) \/ m = n
  BY <1>1, <1>5 DEF RegNamed
<1>8. ASSUME NamesDiffer(c.block), ~RegNamed(c.block, n) PROVE NamesDiffer(e.block)
  <2> SUFFICES ASSUME NEW r \in Block, NEW s \in Block, e.block[r].kind = "reg",
                      e.block[s].kind = "reg", e.block[r].name = e.block[s].name
               PROVE  r = s
    BY DEF NamesDiffer
  <2>1. CASE r = b /\ s # b
    BY <1>1, <1>5, <1>8, <2>1 DEF RegNamed
  <2>2. CASE r # b /\ s = b
    BY <1>1, <1>5, <1>8, <2>2 DEF RegNamed
  <2>3. CASE r # b /\ s # b
    BY <1>5, <1>8, <2>3 DEF NamesDiffer
  <2> QED BY <2>1, <2>2, <2>3
<1>9. \A m, y : m # n => (MeasNamed(w, m, y) <=> MeasNamed(t, m, y))
  BY <1>4 DEF MeasNamed
<1>10. ASSUME Covers(c.block, t), \E i \in 1..Slots : w[i] # None /\ w[i].name = n
       PROVE  Covers(e.block, w)
  <2>1. MeasNamed(w, n, "modbus")
    BY <1>4, <1>10 DEF MeasNamed
  <2> QED BY <1>7, <1>9, <1>10, <2>1 DEF Covers
<1>11. ASSUME Stays(c.block, t), ~MeasNamed(t, n, "builtin") PROVE Stays(e.block, w)
  <2>1. n \notin Range(BuiltIns)
    BY <1>11 DEF Stays
  <2> QED BY <1>7, <1>9, <1>11, <2>1 DEF Stays
<1> QED BY <1>2, <1>3, <1>6, <1>8, <1>10, <1>11 DEF Good

\* What is left when registers are taken out, with their measurements; those
\* of their names are measured no more.
LEMMA TakenIsGood ==
  ASSUME NEW e, NEW c, NEW X \in SUBSET Block, NEW S, NEW h,
         Good(c.block, c.meas, h), MeasTaken(e.meas, c.meas, S),
         \A n \in S : RegNamed(c.block, n),
         \/ /\ Freed(e, c, X)
            /\ S = {c.block[x].name : x \in {y \in X : c.block[y].kind = "reg"}}
         \/ e.block = c.block /\ ("unit" \in h \/ "queued" \in h)
  PROVE  Good(e.block, e.meas, h)
<1>1. PICK w : w = e.meas
  OBVIOUS
<1>2. PICK t : t = c.meas
  OBVIOUS
<1>3. \A i \in 1..Slots : w[i] = IF t[i] # None /\ t[i].name \in S THEN None ELSE t[i]
  BY <1>1, <1>2 DEF MeasTaken
<1>4. \A m, y : MeasNamed(w, m, y) <=> MeasNamed(t, m, y) /\ m \notin S
  BY <1>3 DEF MeasNamed
<1>5. CASE e.block = c.block /\ ("unit" \in h \/ "queued" \in h)
  <2>1. Stays(c.block, t) => Stays(e.block, w)
    BY <1>4, <1>5 DEF Stays
  <2> QED BY <1>1, <1>2, <1>5, <2>1 DEF Good
<1>6. CASE /\ Freed(e, c, X)
           /\ S = {c.block[x].name : x \in {y \in X : c.block[y].kind = "reg"}}
  <2>1. /\ \A x \in X : e.block[x].kind = "free"
        /\ \A x \in Block \ X :
              /\ e.block[x].kind = c.block[x].kind
              /\ e.block[x].kind = "dev" => e.block[x].unit = c.block[x].unit
              /\ e.block[x].kind = "reg" => e.block[x].name = c.block[x].name
    BY <1>6, KindsDiffer DEF Freed, Alike
  <2>2. UnitsDiffer(c.block) => UnitsDiffer(e.block)
    BY <2>1 DEF UnitsDiffer
  <2>3. NamesDiffer(c.block) => NamesDiffer(e.block)
    BY <2>1 DEF NamesDiffer
  <2>4. \A m : RegNamed(e.block, m) => RegNamed(c.block, m)
    BY <2>1 DEF RegNamed
  <2>5. \A m : RegNamed(c.block, m) /\ m \notin S => RegNamed(e.block, m)
    BY <1>6, <2>1 DEF RegNamed
  <2>6. ASSUME NamesDiffer(c.block), NEW m \in S PROVE ~RegNamed(e.block, m)
    <3>1. PICK x \in X : c.block[x].kind = "reg" /\ c.block[x].name = m
      BY <1>6, <2>6
    <3>2. ASSUME NEW b \in Block, e.block[b].kind = "reg", e.block[b].name = m PROVE FALSE
      <4>1. b \notin X
        BY <2>1, <3>2
      <4>2. c.block[b].kind = "reg" /\ c.block[b].name = m
        BY <2>1, <3>2, <4>1
      <4> QED BY <2>6, <3>1, <4>1, <4>2 DEF NamesDiffer
    <3> QED BY <3>2 DEF RegNamed
  <2>7. NamesDiffer(c.block) /\ Covers(c.block, t) => Covers(e.block, w)
    BY <1>4, <2>4, <2>5, <2>6 DEF Covers
  <2>8. Stays(c.block, t) => Stays(e.block, w)
    BY <1>4, <2>4 DEF Stays
  <2> QED BY <1>1, <1>2, <2>2, <2>3, <2>7, <2>8 DEF Good
<1> QED BY <1>5, <1>6

\* The tables of a new unit.
LEMMA NewIsGood ==
  ASSUME NEW blk, NEW h, \A b \in Block : blk[b].kind = "free"
  PROVE  Good(blk, Defaults, h)
<1>1. \A n : ~RegNamed(blk, n)
  BY DEF RegNamed
<1>2. UnitsDiffer(blk) /\ NamesDiffer(blk)
  BY DEF UnitsDiffer, NamesDiffer
<1>3. \A i \in 1..Slots : Defaults[i] # None => Defaults[i].type = "builtin"
  BY DefaultsAre DEF IsBuiltIn
<1>4. Covers(blk, Defaults)
  BY <1>1, <1>3 DEF Covers, MeasNamed
<1>5. Stays(blk, Defaults)
  BY <1>1, <1>3, DefaultsAre DEF Stays, MeasNamed
<1> QED BY <1>2, <1>4, <1>5 DEF Good

LEMMA NoneIsNoTable ==
  ASSUME NEW t \in Measures
  PROVE  t # None
<1>1. t \in [1..Slots -> Definitions \cup {None}]
  BY DEF Measures, Kept
<1> QED BY <1>1, TablesAssumption

\* The defaults take the place of a table that is lost, or empty.
LEMMA DefaultsAreGood ==
  ASSUME NEW blk, NEW t, NEW h, Good(blk, t, h),
         "cut" \in h \/ \A i \in 1..Slots : t[i] = None
  PROVE  Good(blk, Defaults, h)
<1>1. \A i \in 1..Slots : Defaults[i] # None => Defaults[i].type = "builtin"
  BY DefaultsAre DEF IsBuiltIn
<1>2. \A n : ~MeasNamed(Defaults, n, "modbus")
  BY <1>1 DEF MeasNamed
<1>3. \A n \in Range(BuiltIns) : MeasNamed(Defaults, n, "builtin")
  BY <1>1, DefaultsAre DEF MeasNamed
<1>4. ASSUME \A i \in 1..Slots : t[i] = None, Covers(blk, t) PROVE Covers(blk, Defaults)
  <2>1. \A n : ~MeasNamed(t, n, "modbus")
    BY <1>4 DEF MeasNamed
  <2> QED BY <1>2, <1>4, <2>1 DEF Covers
<1>5. Stays(blk, t) => Stays(blk, Defaults)
  BY <1>3 DEF Stays
<1> QED BY <1>4, <1>5 DEF Good

\* What a page is loaded as, and what is saved for it.  A page without its
\* measurements is one that a cut left.
LEMMA RestartedIsGood ==
  ASSUME NEW f, Page(f), NEW h,
         f.bus # None =>
            \/ f.meas # None /\ Good(f.bus.block, f.meas, h)
            \/ f.meas = None /\ "cut" \in h /\ \E t : Good(f.bus.block, t, h)
  PROVE  /\ Good(Load(f).block, Load(f).meas, h)
         /\ Saved(f).bus # None =>
               Saved(f).meas # None /\ Good(Saved(f).bus.block, Saved(f).meas, h)
<1>1. PICK c : c = Load(f)
  OBVIOUS
<1>2. /\ Whole(c)
      /\ \/ c.meas = f.meas /\ f.bus # None /\ f.meas # None
         \/ c.meas = Defaults
            /\ (f.bus = None \/ f.meas = None \/ f.meas = NoMeasurements)
      /\ f.bus = None => \A b \in Block : c.block[b] \in FreeBlocks
      /\ f.bus # None => c.block = f.bus.block
  BY <1>1, LoadIs
<1>3. c.meas # None
  BY <1>2, WholeIsTidy, NoneIsNoTable DEF Tidy
<1>4. Good(c.block, c.meas, h)
  <2>1. CASE f.bus = None
    <3>1. c.meas = Defaults /\ \A b \in Block : c.block[b].kind = "free"
      BY <1>2, <2>1, KindsDiffer
    <3> QED BY <3>1, NewIsGood
  <2>2. CASE f.bus # None /\ c.meas = f.meas /\ f.meas # None
    BY <1>2, <2>2
  <2>3. CASE f.bus # None /\ c.meas = Defaults /\ f.meas = None
    <3>1. "cut" \in h /\ \E t : Good(c.block, t, h)
      BY <1>2, <2>3
    <3> QED BY <2>3, <3>1, DefaultsAreGood
  <2>4. CASE f.bus # None /\ c.meas = Defaults /\ f.meas = NoMeasurements /\ f.meas # None
    <3>1. Good(c.block, f.meas, h) /\ \A i \in 1..Slots : f.meas[i] = None
      BY <1>2, <2>4, NoMeasurementsIs
    <3> QED BY <2>4, <3>1, DefaultsAreGood
  <2> QED BY <1>2, <2>1, <2>2, <2>3, <2>4
<1>5. Flash(c).bus.block = c.block /\ Flash(c).meas = c.meas
  BY <1>2, PageBlocks, FlashIs
<1>6. \/ Saved(f) = f /\ f.meas # None
      \/ Saved(f) = Flash(c)
  BY <1>1 DEF Saved
<1> QED BY <1>1, <1>3, <1>4, <1>5, <1>6

\* A unit id that no device is found for is no device's, if none is spoilt.
LEMMA UnitIsNew ==
  ASSUME NEW c, Whole(c), Lands(c.block), NEW u, GetDeviceById(c, u) = 0,
         NEW d \in Block, c.block[d].kind = "dev"
  PROVE  c.block[d].unit # u
<1>1. PICK F, D, R : In(c, F, D, R)
  BY WholeIsTidy DEF Sound, PoolOf, Pool, In
<1>2. c.block[d] \in DevBlocks
  BY KindOf DEF Whole, Sound, Tabs
<1>3. Everywhere(F, D, R) /\ Kinds(c.block, F, D, R)
  BY <1>1 DEF In, InLists
<1>4. d \in Range(D)
  BY <1>2, <1>3, KindsDiffer DEF Everywhere, Kinds
<1>5. ~c.block[d].spoilt
  BY DEF Lands
<1> QED BY <1>1, <1>4, <1>5, ByIdFinds

\* The device of a register is found if no unit id is spoilt or shared.
LEMMA UnitsClear ==
  ASSUME NEW c, Lands(c.block), UnitsDiffer(c.block)
  PROVE  Clear(c)
<1>1. \A d \in Block : c.block[d] \in DevBlocks => c.block[d].kind = "dev"
  BY KindsDiffer
<1> QED BY <1>1 DEF Clear, Lands, UnitsDiffer

LEMMA AgreedFirst ==
  Init => Agreed
<1> SUFFICES ASSUME Init PROVE Agreed
  OBVIOUS
<1>1. /\ Whole(mem) /\ flash = Flash(mem) /\ had = {}
      /\ \/ mem = NewUnit
         \/ \E e : \E u \in Units, a \in Addrs, r \in RegNames \ Range(BuiltIns) :
               /\ Whole(e) /\ (e = NewUnit \/ DevPutIn(e, NewUnit, u))
               /\ (mem = e \/ RegPutIn(mem, e, u, a, r))
  BY InitIs
<1>2. PICK n : n = NewUnit
  OBVIOUS
<1>3. n.meas = Defaults /\ \A b \in Block : n.block[b].kind = "free"
  BY <1>2, NewUnitIs, KindsDiffer
<1>4. Good(n.block, n.meas, had)
  BY <1>3, NewIsGood
<1>5. ASSUME NEW e, NEW u, e = n \/ DevPutIn(e, n, u)
      PROVE  /\ Good(e.block, e.meas, had) /\ e.meas = Defaults
             /\ \A b \in Block : e.block[b].kind # "reg"
  <2>1. CASE e = n
    BY <1>3, <1>4, <2>1
  <2>2. CASE DevPutIn(e, n, u)
    <3>1. \A d \in Block : n.block[d].kind = "dev" => n.block[d].unit # u
      BY <1>3
    <3>2. Good(e.block, e.meas, had)
      BY <1>4, <2>2, <3>1, DevIsGood
    <3>3. e.meas = Defaults /\ \A b \in Block : e.block[b].kind # "reg"
      BY <1>3, <2>2, KindsDiffer DEF DevPutIn
    <3> QED BY <3>2, <3>3
  <2> QED BY <1>5, <2>1, <2>2
<1>6. ASSUME NEW e, NEW u, NEW a, NEW r \in RegNames \ Range(BuiltIns),
             Good(e.block, e.meas, had), e.meas = Defaults,
             \A b \in Block : e.block[b].kind # "reg", RegPutIn(mem, e, u, a, r)
      PROVE  Good(mem.block, mem.meas, had)
  <2>1. ~RegNamed(e.block, r)
    BY <1>6 DEF RegNamed
  <2>2. \A i \in 1..Slots : Defaults[i] # None => Defaults[i].name # r
    BY DefaultsAre DEF IsBuiltIn
  <2>3. ~MeasNamed(e.meas, r, "builtin")
    BY <1>6, <2>2 DEF MeasNamed
  <2>4. PICK w : w = mem.meas
    OBVIOUS
  <2>5. /\ \A i \in 1..Slots : w[i] # None =>
              \/ w[i] = Defaults[i] /\ Defaults[i] # None /\ Defaults[i].name # r
              \/ w[i].name = r /\ w[i].type = "modbus"
        /\ \/ \A i \in 1..Slots : w[i] # None
           \/ \E i \in 1..Slots : w[i] # None /\ w[i].name = r
    BY <1>6, <2>4 DEF RegPutIn, MeasAdded
  <2>6. \E i \in 1..Slots : w[i] # None /\ w[i].name = r
    <3>1. PICK i \in 1..Slots : Defaults[i] = None
      BY DefaultsAre
    <3> QED BY <2>5, <3>1
  <2> QED BY <1>6, <2>1, <2>3, <2>4, <2>6, RegIsGood
<1>7. Good(mem.block, mem.meas, had)
  <2>1. CASE mem = n
    BY <1>4, <2>1
  <2>2. CASE mem # n
    <3>1. PICK e : \E u \in Units, a \in Addrs, r \in RegNames \ Range(BuiltIns) :
                      /\ e = n \/ DevPutIn(e, n, u)
                      /\ mem = e \/ RegPutIn(mem, e, u, a, r)
      BY <1>1, <1>2, <2>2
    <3>2. PICK u \in Units, a \in Addrs, r \in RegNames \ Range(BuiltIns) :
             /\ e = n \/ DevPutIn(e, n, u)
             /\ mem = e \/ RegPutIn(mem, e, u, a, r)
      BY <3>1
    <3>3. /\ Good(e.block, e.meas, had) /\ e.meas = Defaults
          /\ \A b \in Block : e.block[b].kind # "reg"
      BY <1>5, <3>2
    <3> QED BY <1>6, <3>2, <3>3
  <2> QED BY <2>1, <2>2
<1>8. flash.bus.block = mem.block /\ flash.meas = mem.meas
  BY <1>1, PageBlocks, FlashIs
<1>9. flash.meas # None
  BY <1>1, <1>8, WholeIsTidy, NoneIsNoTable DEF Tidy
<1> QED BY <1>7, <1>8, <1>9 DEF Agreed

\* The table in flash is as it was.
LEMMA FlashAgrees ==
  ASSUME Base, Agreed, flash' = flash, had \subseteq had',
         Good(mem'.block, mem'.meas, had')
  PROVE  Agreed'
<1>1. flash.bus # None => flash.meas # None /\ Good(flash.bus.block, flash.meas, had')
  BY GoodStays DEF Agreed
<1> QED BY <1>1 DEF Agreed

LEMMA StateAgrees ==
  ASSUME Base, Agreed, flash' = flash, had' = had,
         SameBlocks(mem'.block, mem.block), SameMeasured(mem'.meas, mem.meas)
  PROVE  Agreed'
<1>1. Good(mem'.block, mem'.meas, had)
  BY GoodKept DEF Agreed
<1> QED BY <1>1, FlashAgrees

LEMMA AnswerAgrees ==
  ASSUME Base, Agreed, Answer
  PROVE  Agreed'
<1>1. queue[1] \in Block /\ UNCHANGED <<flash, had>>
  BY AnswerIs
<1>2. PICK c : /\ StateSet(c, mem, queue[1], "invalid")
               /\ (mem' = c \/ ValueSet(mem', c, queue[1], asked))
  BY AnswerIs
<1>3. PICK s : s = "invalid"
  OBVIOUS
<1>4. PICK r \in Block : r = queue[1]
  BY <1>1
<1>5. SameBlocks(c.block, mem.block) /\ SameMeasured(c.meas, mem.meas)
  BY <1>2, <1>3, <1>4, StateIsSame
<1>6. Good(c.block, c.meas, had)
  BY <1>5, GoodKept DEF Agreed
<1>7. SameBlocks(mem'.block, c.block) /\ SameMeasured(mem'.meas, c.meas)
  <2>1. CASE mem' = c
    BY <2>1, SameItself
  <2>2. CASE ValueSet(mem', c, r, asked)
    BY <2>2, StateIsSame
  <2> QED BY <1>2, <1>4, <2>1, <2>2
<1>8. Good(mem'.block, mem'.meas, had)
  BY <1>6, <1>7, GoodKept
<1> QED BY <1>1, <1>8, FlashAgrees

LEMMA DevAddAgrees ==
  ASSUME Base, Landing, Agreed, DevAdd
  PROVE  Agreed'
<1>1. UNCHANGED flash
  BY DevAddIs
<1>2. PICK u \in Units : /\ (mem' = mem \/ DevPutIn(mem', mem, u))
                         /\ had' = had \cup When(GetDeviceById(mem, u) # 0, "unit")
  BY DevAddIs
<1>3. had \subseteq had' /\ (GetDeviceById(mem, u) # 0 => "unit" \in had')
  BY <1>2 DEF When
<1>4. Good(mem.block, mem.meas, had')
  BY <1>3, GoodStays DEF Agreed
<1>5. \/ "unit" \in had' \/ "queued" \in had'
      \/ \A d \in Block : mem.block[d].kind = "dev" => mem.block[d].unit # u
  <2>1. CASE "queued" \in had
    BY <1>3, <2>1
  <2>2. CASE "queued" \notin had /\ GetDeviceById(mem, u) = 0
    BY <2>2, UnitIsNew DEF Landing, Base
  <2> QED BY <1>3, <2>1, <2>2
<1>6. Good(mem'.block, mem'.meas, had')
  BY <1>2, <1>4, <1>5, DevIsGood
<1> QED BY <1>1, <1>3, <1>6, FlashAgrees

LEMMA RegAddAgrees ==
  ASSUME Base, Agreed, RegAdd
  PROVE  Agreed'
<1>1. UNCHANGED flash
  BY RegAddIs
<1>2. PICK u \in Units, a \in Addrs, n \in RegNames :
         /\ (mem' = mem \/ RegPutIn(mem', mem, u, a, n))
         /\ had \subseteq had'
         /\ mem' # mem =>
               /\ GetReg(mem, n) # 0 => "name" \in had'
               /\ (\E i \in Named(mem.meas, n) : mem.meas[i].type = "builtin")
                     => "taken" \in had'
               /\ Named(mem'.meas, n) = {} => "full" \in had'
  BY RegAddIs
<1>3. Good(mem.block, mem.meas, had')
  BY <1>2, GoodStays DEF Agreed
<1>4. CASE mem' = mem
  BY <1>1, <1>2, <1>3, <1>4, FlashAgrees
<1>5. CASE mem' # mem
  <2>1. "name" \in had' \/ ~RegNamed(mem.block, n)
    <3>1. ASSUME GetReg(mem, n) = 0, NEW b \in Block, mem.block[b].kind = "reg"
          PROVE  mem.block[b].name # n
      <4>1. mem.block[b] \in RegBlocks
        BY <3>1, KindOf DEF Base, Whole, Sound, Tabs
      <4> QED BY <3>1, <4>1, GetRegIs DEF Base
    <3> QED BY <1>2, <1>5, <3>1 DEF RegNamed
  <2>2. "taken" \in had' \/ ~MeasNamed(mem.meas, n, "builtin")
    BY <1>2, <1>5 DEF MeasNamed, Named
  <2>3. "full" \in had' \/ \E i \in 1..Slots : mem'.meas[i] # None /\ mem'.meas[i].name = n
    BY <1>2, <1>5 DEF Named
  <2>4. Good(mem'.block, mem'.meas, had')
    BY <1>2, <1>3, <1>5, <2>1, <2>2, <2>3, RegIsGood
  <2> QED BY <1>1, <1>2, <2>4, FlashAgrees
<1> QED BY <1>4, <1>5

LEMMA RegDeleteAgrees ==
  ASSUME Base, Landing, Agreed, RegDelete
  PROVE  Agreed'
<1>1. PICK c : Delete(c) /\ \E n \in RegNames : RegTakenOut(c, mem, n)
  BY RegDeleteIs
<1>2. PICK n \in RegNames : RegTakenOut(c, mem, n)
  BY <1>1
<1>3. UNCHANGED flash /\ mem' = c /\ had \subseteq had'
  BY <1>1, DeleteIs
<1>4. Good(mem.block, mem.meas, had')
  BY <1>3, GoodStays DEF Agreed
<1>5. PICK r \in Block :
         /\ mem.block[r].kind = "reg" /\ mem.block[r].name = n
         /\ Freed(c, mem, {r}) \/ (~Clear(mem) /\ c.block = mem.block)
  BY <1>2, KindsDiffer DEF RegTakenOut
<1>6. MeasTaken(c.meas, mem.meas, {n})
  BY <1>2 DEF RegTakenOut
<1>7. ~Clear(mem) => "unit" \in had' \/ "queued" \in had'
  <2>1. CASE "unit" \notin had' /\ "queued" \notin had'
    <3>1. Lands(mem.block)
      BY <1>3, <2>1 DEF Landing
    <3>2. UnitsDiffer(mem.block)
      BY <1>4, <2>1 DEF Good
    <3> QED BY <3>1, <3>2, UnitsClear
  <2> QED BY <2>1
<1>8. {n} = {mem.block[x].name : x \in {y \in {r} : mem.block[y].kind = "reg"}}
  BY <1>5
<1>9. \A m \in {n} : RegNamed(mem.block, m)
  BY <1>5 DEF RegNamed
<1>10. PICK X \in SUBSET Block : X = {r}
  OBVIOUS
<1>11. PICK S : S = {n}
  OBVIOUS
<1>12. Good(c.block, c.meas, had')
  <2>1. \/ /\ Freed(c, mem, X)
           /\ S = {mem.block[x].name : x \in {y \in X : mem.block[y].kind = "reg"}}
        \/ c.block = mem.block /\ ("unit" \in had' \/ "queued" \in had')
    BY <1>5, <1>7, <1>8, <1>10, <1>11
  <2>2. MeasTaken(c.meas, mem.meas, S) /\ \A m \in S : RegNamed(mem.block, m)
    BY <1>6, <1>9, <1>11
  <2> QED BY <1>4, <2>1, <2>2, TakenIsGood
<1> QED BY <1>3, <1>12, FlashAgrees

LEMMA DevDeleteAgrees ==
  ASSUME Base, Agreed, DevDelete
  PROVE  Agreed'
<1>1. PICK c : Delete(c) /\ \E n \in DevNames : DevTakenOut(c, mem, n)
  BY DevDeleteIs
<1>2. PICK n \in DevNames : DevTakenOut(c, mem, n)
  BY <1>1
<1>3. UNCHANGED flash /\ mem' = c /\ had \subseteq had'
  BY <1>1, DeleteIs
<1>4. Good(mem.block, mem.meas, had')
  BY <1>3, GoodStays DEF Agreed
<1>5. PICK d \in Block, Y \in SUBSET Block :
         /\ mem.block[d].kind = "dev"
         /\ \A x \in Y : mem.block[x].kind = "reg"
         /\ Freed(c, mem, Y \cup {d})
         /\ MeasTaken(c.meas, mem.meas, {mem.block[x].name : x \in Y})
  BY <1>2, KindsDiffer DEF DevTakenOut
<1>6. PICK X \in SUBSET Block : X = Y \cup {d}
  OBVIOUS
<1>7. PICK S : S = {mem.block[x].name : x \in Y}
  OBVIOUS
<1>8. {y \in X : mem.block[y].kind = "reg"} = Y
  BY <1>5, <1>6
<1>9. S = {mem.block[x].name : x \in {y \in X : mem.block[y].kind = "reg"}}
  BY <1>7, <1>8
<1>10. \A m \in S : RegNamed(mem.block, m)
  BY <1>5, <1>7 DEF RegNamed
<1>11. Good(c.block, c.meas, had')
  BY <1>4, <1>5, <1>6, <1>7, <1>9, <1>10, TakenIsGood
<1> QED BY <1>3, <1>11, FlashAgrees

LEMMA SaveAgrees ==
  ASSUME Base, Agreed, Save
  PROVE  Agreed'
<1>1. /\ UNCHANGED <<mem, had>>
      /\ (flash' = flash \/ flash' = Flash(mem))
  BY SaveIs
<1>2. Flash(mem).bus.block = mem.block /\ Flash(mem).meas = mem.meas
  BY PageBlocks, FlashIs DEF Base
<1>3. mem.meas # None
  BY WholeIsTidy, NoneIsNoTable DEF Tidy, Base
<1> QED BY <1>1, <1>2, <1>3 DEF Agreed

LEMMA RestartAgrees ==
  ASSUME Base, Agreed, Reset \/ Wipe \/ SaveCut
  PROVE  Agreed'
<1>1. had \subseteq had'
  BY RestartIs
<1>2. PICK f : /\ Restarted(f)
               /\ \/ f = flash
                  \/ f.bus = None
                  \/ "cut" \in had' /\ f.bus = Bus(mem) /\ f.meas = None
  BY RestartIs
<1>3. /\ Good(mem.block, mem.meas, had')
      /\ flash.bus # None => flash.meas # None /\ Good(flash.bus.block, flash.meas, had')
  BY <1>1, GoodStays DEF Agreed
<1>4. f.bus # None =>
         \/ f.meas # None /\ Good(f.bus.block, f.meas, had')
         \/ f.meas = None /\ "cut" \in had' /\ \E t : Good(f.bus.block, t, had')
  <2>1. Bus(mem).block = mem.block
    BY DEF Bus
  <2> QED BY <1>2, <1>3, <2>1
<1>5. Page(f) /\ mem' = Load(f) /\ flash' = Saved(f)
  BY <1>2 DEF Restarted
<1>6. /\ Good(Load(f).block, Load(f).meas, had')
      /\ Saved(f).bus # None =>
            Saved(f).meas # None /\ Good(Saved(f).bus.block, Saved(f).meas, had')
  BY <1>4, <1>5, RestartedIsGood
<1> QED BY <1>5, <1>6 DEF Agreed

LEMMA AgreedStep ==
  Base /\ Landing /\ Agreed /\ [Next]_vars => Agreed'
<1> SUFFICES ASSUME Base, Landing, Agreed, [Next]_vars PROVE Agreed'
  OBVIOUS
<1>1. ASSUME NEW n \in RegNames, Sample(n) PROVE Agreed'
  <2>1. PICK r \in Block : StateSet(mem', mem, r, "waiting") /\ UNCHANGED <<flash, nodev, had>>
    BY <1>1, SampleIs
  <2>2. PICK s : s = "waiting"
    OBVIOUS
  <2>3. SameBlocks(mem'.block, mem.block) /\ SameMeasured(mem'.meas, mem.meas)
    BY <2>1, <2>2, StateIsSame
  <2> QED BY <2>1, <2>3, StateAgrees
<1>2. CASE SendHead
  <2>1. PICK r \in Block : StateSet(mem', mem, r, "waiting") /\ UNCHANGED <<flash, nodev, had>>
    BY <1>2, SendHeadIs
  <2>2. PICK s : s = "waiting"
    OBVIOUS
  <2>3. SameBlocks(mem'.block, mem.block) /\ SameMeasured(mem'.meas, mem.meas)
    BY <2>1, <2>2, StateIsSame
  <2> QED BY <2>1, <2>3, StateAgrees
<1>3. CASE Drop
  <2>1. UNCHANGED <<mem, flash, had>>
    BY <1>3 DEF Drop
  <2> QED BY <2>1 DEF Agreed
<1>4. CASE Answer
  BY <1>4, AnswerAgrees
<1>5. CASE DevAdd
  BY <1>5, DevAddAgrees
<1>6. CASE RegAdd
  BY <1>6, RegAddAgrees
<1>7. CASE RegDelete
  BY <1>7, RegDeleteAgrees
<1>8. CASE DevDelete
  BY <1>8, DevDeleteAgrees
<1>9. CASE MeasEdit \/ Repop
  <2>1. MeasSet(mem', mem) /\ UNCHANGED <<flash, had>>
    BY <1>9, MeasIs
  <2> QED BY <2>1, MeasIsSame, StateAgrees
<1>10. CASE Save
  BY <1>10, SaveAgrees
<1>11. CASE Reset \/ Wipe \/ SaveCut
  BY <1>11, RestartAgrees
<1>12. CASE UNCHANGED vars
  BY <1>12 DEF vars, Agreed
<1> QED BY <1>1, <1>2, <1>3, <1>4, <1>5, <1>6, <1>7, <1>8, <1>9, <1>10, <1>11, <1>12 DEF Next

LEMMA AgreedMeasured ==
  Base /\ Agreed => AllMeasured
<1> SUFFICES ASSUME Base, Agreed PROVE AllMeasured
  OBVIOUS
<1>1. Good(mem.block, mem.meas, had)
  BY DEF Agreed
<1>2. RegsMeasured
  <2>1. CASE Had({"unit", "name", "full", "queued", "cut"})
    BY <2>1 DEF RegsMeasured
  <2>2. CASE ~Had({"unit", "name", "full", "queued", "cut"})
    <3>1. Covers(mem.block, mem.meas)
      BY <1>1, <2>2 DEF Good, Had
    <3>2. \A n : n \in {mem.block[b].name : b \in Registers(mem)} <=> RegNamed(mem.block, n)
      BY LiveAreBlocks DEF RegNamed
    <3>3. \A n : n \in Measured(mem) <=> MeasNamed(mem.meas, n, "modbus")
      BY DEF Measured, MeasNamed
    <3>4. {mem.block[b].name : b \in Registers(mem)} = Measured(mem)
      <4> DEFINE A == {mem.block[b].name : b \in Registers(mem)}
                 B == Measured(mem)
      <4>1. \A n : n \in A <=> n \in B
        BY <3>1, <3>2, <3>3 DEF Covers
      <4> HIDE DEF A, B
      <4>2. A = B
        BY <4>1
      <4> QED BY <4>2 DEF A, B
    <3> QED BY <3>4 DEF RegsMeasured
  <2> QED BY <2>1, <2>2
<1>3. BuiltInsStay
  <2>1. Unique(mem.meas)
    BY DEF Base, Whole
  <2>2. "taken" \in had \/ \A n \in Range(BuiltIns) : Named(mem.meas, n) # {}
    BY <1>1 DEF Good, Stays, MeasNamed, Named
  <2> QED BY <2>1, <2>2 DEF BuiltInsStay, Unique, Had
<1> QED BY <1>2, <1>3 DEF AllMeasured

\* After any commands, saves and restarts the registers there are and the
\* measurements taken of registers have the same names, no name is measured
\* twice and the model's own stay, as long as none of the named faults was
\* had.
THEOREM TablesAllMeasured ==
  Spec => []AllMeasured
<1>1. Spec => []Base
  BY BaseFirst, BaseStep, PTL DEF Spec
<1>2. Spec => []Landing
  BY <1>1, LandingFirst, LandingStep, PTL DEF Spec
<1>3. Spec => []Agreed
  BY <1>1, <1>2, AgreedFirst, AgreedStep, PTL DEF Spec
<1> QED BY <1>1, <1>3, AgreedMeasured, PTL
-----------------------------------------------------------------------------
(* How measurements are reported.                                          *)

\* The counter never falls below what is being reported of it.
CountsInv == ReportTypeOK /\ send_count <= pulse /\ pulse <= total

-----------------------------------------------------------------------------
(* Types.                                                                  *)

LEMMA InitCounts == ReportInit => CountsInv
<1> SUFFICES ASSUME ReportInit PROVE CountsInv
  OBVIOUS
<1>1. 0 \in 0 .. N /\ 0 \in 0 .. Cycle - 1 /\ 0 \in 0 .. MaxPulses
  BY MeasurementsAssumption
<1>2. reading \in [Slot -> 0 .. MaxPulses \cup {Nothing}]
  BY DEF ReportInit
<1>3. (flight # Nothing) = (comms = "busy")
  BY DEF ReportInit
<1>4. pending \in BOOLEAN /\ noticed \in BOOLEAN
  BY Zenon DEF ReportInit
<1> QED BY <1>1, <1>2, <1>3, <1>4 DEF ReportInit, CountsInv, ReportTypeOK

LEMMA CountType ==
    ASSUME CountsInv
    PROVE  NextCount \in 0 .. Cycle - 1
BY MeasurementsAssumption DEF CountsInv, ReportTypeOK, NextCount

\* Where a message may end, and what it carries.
LEMMA EndsType ==
    ASSUME CountsInv, NEW n, NEW end \in Ends(From, n)
    PROVE  /\ From \in 0 .. N - 1 /\ end \in 1 .. N /\ From < end
           /\ Wanted(From, end, n) \subseteq Slot
<1>1. From \in 0 .. N - 1
  BY MeasurementsAssumption DEF From, CountsInv, ReportTypeOK
<1>2. CASE end = N
  BY <1>1, <1>2, MeasurementsAssumption DEF Wanted
<1>3. CASE end # N
  <2>1. end \in Slot /\ Wanted(From, end, n) # {}
    BY <1>3 DEF Ends, Wanted
  <2>2. PICK i \in Slot : From <= i /\ i < end
    BY <2>1 DEF Wanted
  <2> QED BY <1>1, <2>1, <2>2, MeasurementsAssumption DEF Slot, Wanted
<1> QED BY <1>2, <1>3

LEMMA MessageType ==
    ASSUME CountsInv, NEW n, NEW p, NEW e
    PROVE  Message(Wanted(p, e, n)) \in
               [slots : SUBSET Slot, pulses : 0 .. MaxPulses]
<1> DEFINE q == Wanted(p, e, n)
<1>1. q \in SUBSET Slot
  BY DEF Wanted
<1>2. Pulses \in q => reading[Pulses] \in 0 .. MaxPulses
  BY MeasurementsAssumption DEF Wanted, CountsInv, ReportTypeOK
<1>3. 0 \in 0 .. MaxPulses
  BY MeasurementsAssumption
<1> QED BY <1>1, <1>2, <1>3 DEF Message

\* What sending a message leaves typed.
SendTypes ==
    /\ age' \in 0 .. 2 /\ pending' \in BOOLEAN
    /\ start' \in 0 .. N /\ prev' \in 0 .. N
    /\ reading' \in [Slot -> 0 .. MaxPulses \cup {Nothing}]
    /\ comms' \in {"down", "idle", "busy"}
    /\ flight' \in {Nothing} \cup [slots : SUBSET Slot, pulses : 0 .. MaxPulses]
    /\ (flight' # Nothing) = (comms' = "busy")

LEMMA SendMessageTypes ==
    ASSUME CountsInv, NEW n, SendMessage(n)
    PROVE  SendTypes
<1>1. PICK end \in Ends(From, n) :
          LET q == Wanted(From, end, n)
          IN  /\ reading' = [i \in Slot |->
                                IF i \in q THEN Nothing ELSE reading[i]]
              /\ age' = IF pending THEN age ELSE 0
              /\ \/ /\ q = {}
                    /\ Remember(end)
                    /\ comms' = "idle" /\ flight' = Nothing
                    /\ UNCHANGED pending
                 \/ /\ q # {}
                    /\ Remember(end)
                    /\ pending' = (end # N)
                    /\ comms' = "busy" /\ flight' = Message(q)
                 \/ /\ q # {} /\ "sendfail" \in ReportFaults
                    /\ ResetSend
  BY DEF SendMessage
<1> DEFINE q == Wanted(From, end, n)
<1>2. From \in 0 .. N /\ end \in 0 .. N /\ 0 \in 0 .. N
  BY EndsType, MeasurementsAssumption
<1>3. Message(q) \in [slots : SUBSET Slot, pulses : 0 .. MaxPulses]
  BY MessageType
<1>4. Message(q) # Nothing
  BY <1>3, MeasurementsAssumption
<1>5. reading' \in [Slot -> 0 .. MaxPulses \cup {Nothing}]
  BY <1>1 DEF CountsInv, ReportTypeOK
<1>6. age' \in 0 .. 2
  BY <1>1 DEF CountsInv, ReportTypeOK
<1> HIDE DEF q
<1>7. CASE Remember(end) /\ comms' = "idle" /\ flight' = Nothing
           /\ UNCHANGED pending
  BY <1>2, <1>5, <1>6, <1>7 DEF Remember, SendTypes, CountsInv, ReportTypeOK
<1>8. CASE Remember(end) /\ pending' = (end # N) /\ comms' = "busy"
           /\ flight' = Message(q)
  BY <1>2, <1>3, <1>4, <1>5, <1>6, <1>8 DEF Remember, SendTypes
<1>9. CASE ResetSend
  BY <1>2, <1>5, <1>6, <1>9 DEF ResetSend, SendTypes
<1> QED BY <1>1, <1>7, <1>8, <1>9 DEF q

LEMMA NotReadyTypes ==
    ASSUME CountsInv, SendNotReady
    PROVE  SendTypes
<1>1. 0 \in 0 .. N
  BY MeasurementsAssumption
<1>2. pending' \in BOOLEAN
  BY Zenon DEF SendNotReady, ResetSend, CountsInv, ReportTypeOK
<1> QED BY <1>1, <1>2
        DEF SendNotReady, ResetSend, SendTypes, CountsInv, ReportTypeOK

\* What an acknowledgement leaves of the counter.
LEMMA AckTypes ==
    ASSUME CountsInv, flight # Nothing
    PROVE  /\ Arrived \in 0 .. MaxPulses
           /\ PulseAck => /\ pulse' \in 0 .. MaxPulses /\ send_count' = 0
                          /\ pulse' <= pulse
<1>1. flight.pulses \in 0 .. MaxPulses
  BY DEF CountsInv, ReportTypeOK
<1>2. Arrived \in 0 .. MaxPulses
  BY <1>1, MeasurementsAssumption DEF Arrived, CountsInv, ReportTypeOK
<1> QED BY <1>2, MeasurementsAssumption DEF PulseAck, CountsInv, ReportTypeOK

LEMMA NextCounts == ASSUME CountsInv, [ReportNext]_reportVars PROVE CountsInv'
<1> USE DEF CountsInv
<1>1. CASE LoopOffline
  <2>1. pending' \in BOOLEAN /\ noticed' \in BOOLEAN
    BY Zenon, <1>1 DEF LoopOffline
  <2> QED BY <1>1, <2>1, MeasurementsAssumption
          DEF LoopOffline, ReportTypeOK, pulseVars
<1>2. CASE LoopOnline
  <2>1. noticed' \in BOOLEAN
    BY Zenon, <1>2 DEF LoopOnline
  <2> QED BY <1>2, <2>1 DEF LoopOnline, ReportTypeOK, pulseVars
<1>3. ASSUME NEW i \in Slot, Collect(i) PROVE CountsInv'
  BY <1>3, MeasurementsAssumption DEF Collect, ReportTypeOK
<1>4. CASE LoopSend
  <2>1. SendTypes
    BY <1>4, SendMessageTypes, NotReadyTypes DEF LoopSend
  <2>2. count' \in 0 .. Cycle - 1
    BY <1>4, CountType DEF LoopSend
  <2> QED BY <1>4, <2>1, <2>2 DEF LoopSend, SendTypes, ReportTypeOK, pulseVars
<1>5. CASE SentAck
  <2>1. flight # Nothing /\ delivered' = Arrived
    BY <1>5 DEF SentAck
  <2>2. SendTypes
    <3>1. CASE pending
      BY <1>5, <3>1, SendMessageTypes DEF SentAck
    <3>2. CASE ~pending
      <4>1. 0 \in 0 .. N
        BY MeasurementsAssumption
      <4> QED BY <1>5, <3>2, <4>1 DEF SentAck, SendTypes, ReportTypeOK
    <3> QED BY <3>1, <3>2
  <2>3. PulseAck \/ UNCHANGED <<pulse, send_count>>
    BY <1>5 DEF SentAck
  <2>4. /\ pulse' \in 0 .. MaxPulses /\ send_count' \in 0 .. MaxPulses
        /\ send_count' <= pulse' /\ pulse' <= pulse
    BY <2>1, <2>3, AckTypes, MeasurementsAssumption DEF ReportTypeOK
  <2>5. total' = total /\ count' = count /\ noticed' = noticed
    BY <1>5 DEF SentAck
  <2>6. pulse' <= total'
    BY <2>4, <2>5 DEF ReportTypeOK
  <2>7. delivered' \in 0 .. MaxPulses
    BY <2>1, AckTypes
  <2> QED BY <2>2, <2>4, <2>5, <2>6, <2>7 DEF SendTypes, ReportTypeOK
<1>6. CASE SentNack
  <2>1. flight # Nothing
    BY <1>6 DEF SentNack
  <2>2. delivered' \in 0 .. MaxPulses
    BY <1>6, <2>1, AckTypes DEF SentNack, ReportTypeOK
  <2>3. pending' \in BOOLEAN
    BY Zenon, <1>6 DEF SentNack
  <2> QED BY <1>6, <2>2, <2>3, MeasurementsAssumption
           DEF SentNack, ReportTypeOK, pulseVars
<1>7. CASE Down
  BY <1>7 DEF Down, ReportTypeOK, sendVars, pulseVars
<1>8. CASE Up
  BY <1>8 DEF Up, ReportTypeOK, sendVars, pulseVars
<1>9. CASE Pulse
  BY <1>9, MeasurementsAssumption DEF Pulse, ReportTypeOK, sendVars
<1>10. CASE GetMeas
  BY <1>10 DEF GetMeas, ReportTypeOK, sendVars
<1>11. CASE Age
  <2>1. age' \in 0 .. 2
    BY <1>11 DEF Age, ReportTypeOK
  <2> QED BY <1>11, <2>1 DEF Age, ReportTypeOK, pulseVars
<1>12. ASSUME NEW i \in Slot, InstantSend(i) PROVE CountsInv'
  <2>1. flight' \in [slots : SUBSET Slot, pulses : 0 .. MaxPulses]
    BY <1>12, MeasurementsAssumption DEF InstantSend
  <2>2. flight' # Nothing
    BY <2>1, MeasurementsAssumption
  <2> QED BY <1>12, <2>1, <2>2 DEF InstantSend, ReportTypeOK, sendVars, pulseVars
<1>13. CASE UNCHANGED reportVars
  BY <1>13 DEF reportVars, ReportTypeOK
<1> QED
  BY <1>1, <1>2, <1>3, <1>4, <1>5, <1>6, <1>7, <1>8, <1>9, <1>10, <1>11,
     <1>12, <1>13 DEF ReportNext, Loop, CommsAnswer

\* Whatever goes wrong, a position stays within the table, comms has a
\* message exactly while it is busy, and neither the pulse counter nor what is
\* reported of it goes below zero.
THEOREM MeasurementsTypeCorrect == ReportSpec => []ReportTypeOK
<1>1. CountsInv => ReportTypeOK
  BY DEF CountsInv
<1> QED BY InitCounts, NextCounts, <1>1, PTL DEF ReportSpec
-----------------------------------------------------------------------------
(* No pulse is lost.                                                       *)

\* What the argument needs: messages are answered in time, what is due has
\* been read, nothing is reported out of turn, and nobody else reads the
\* counter.  Messages may be refused or lost, and comms may fail.
Calm == ReportFaults \cap {"slow", "noread", "instant", "peek"} = {}

\* A message is only underway early in an interval.
EarlyInv == flight # Nothing => age = 0 /\ ~noticed

\* The rest of a message waits only for a fragment of it.
WaitsInv == pending => ~noticed /\ (flight # Nothing \/ comms = "down")

\* At the end of an interval there is a reading of everything that is due ...
DueInv == age = 2 => \A i \in Slot : Due(i, NextCount) => reading[i] # Nothing

\* ... and so there is of all that a fragment leaves for the next ones.
RestInv ==
    flight # Nothing /\ pending =>
        /\ start \in Slot /\ Due(start, count)
        /\ \A i \in Slot : start <= i /\ Due(i, count) => reading[i] # Nothing

\* send_count is the reading that waits to be sent, or to be acknowledged.
PulsesInv ==
    /\ reading[Pulses] # Nothing => send_count = reading[Pulses]
    /\ flight # Nothing /\ Pulses \in flight.slots =>
           send_count = flight.pulses /\ reading[Pulses] = Nothing

KeptInv == /\ CountsInv /\ EarlyInv /\ WaitsInv /\ DueInv /\ RestInv
           /\ AckIsExact /\ PulsesInv /\ NoPulseLost

LEMMA CalmFacts ==
    ASSUME Calm
    PROVE  "slow" \notin ReportFaults /\ "noread" \notin ReportFaults
           /\ "instant" \notin ReportFaults /\ "peek" \notin ReportFaults
BY DEF Calm

LEMMA InitKept == ReportInit => KeptInv
<1> SUFFICES ASSUME ReportInit PROVE KeptInv
  OBVIOUS
<1>1. CountsInv
  BY InitCounts
<1>2. reading[Pulses] = Nothing
  BY MeasurementsAssumption DEF ReportInit
<1> QED BY <1>1, <1>2 DEF ReportInit, KeptInv, EarlyInv, WaitsInv, DueInv, RestInv,
           AckIsExact, PulsesInv, NoPulseLost

\* A message takes all that is due of the slots it covers, so that its
\* acknowledgement, which counts by slots, is for what it carries.
LEMMA SendKeeps ==
    ASSUME CountsInv, NEW n, count' = n, SendMessage(n),
           pending => age = 0 /\ Due(From, n),
           \A i \in Slot : From <= i /\ Due(i, n) => reading[i] # Nothing,
           reading[Pulses] # Nothing => send_count' = reading[Pulses]
    PROVE  /\ age' = 0
           /\ pending' => flight' # Nothing \/ comms' = "down"
           /\ RestInv' /\ AckIsExact' /\ PulsesInv'
<1>1. PICK end \in Ends(From, n) :
          LET q == Wanted(From, end, n)
          IN  /\ reading' = [i \in Slot |->
                                IF i \in q THEN Nothing ELSE reading[i]]
              /\ age' = IF pending THEN age ELSE 0
              /\ \/ /\ q = {}
                    /\ Remember(end)
                    /\ comms' = "idle" /\ flight' = Nothing
                    /\ UNCHANGED pending
                 \/ /\ q # {}
                    /\ Remember(end)
                    /\ pending' = (end # N)
                    /\ comms' = "busy" /\ flight' = Message(q)
                 \/ /\ q # {} /\ "sendfail" \in ReportFaults
                    /\ ResetSend
  BY DEF SendMessage
<1> DEFINE q == Wanted(From, end, n)
<1>2. From \in 0 .. N - 1 /\ end \in 1 .. N /\ From < end
  BY EndsType
<1>3. q = {i \in Slot : From <= i /\ i < end /\ Due(i, n)}
  BY DEF Wanted
<1>4. age' = 0
  BY <1>1
<1>5. Message(q) # Nothing
  <2>1. Message(q) \in [slots : SUBSET Slot, pulses : 0 .. MaxPulses]
    BY MessageType
  <2> QED BY <2>1, MeasurementsAssumption
<1>6. /\ Message(q).slots = q
      /\ Pulses \in q => Message(q).pulses = reading[Pulses]
  BY DEF Message
<1>7. \A i \in Slot : reading'[i] = IF i \in q THEN Nothing ELSE reading[i]
  BY <1>1
<1>8. Pulses \in q => reading[Pulses] # Nothing
  BY DEF Wanted
<1>9. \A i : Due(i, count') <=> Due(i, n)
  OBVIOUS
<1> HIDE DEF q
<1>10. pending => q # {}
  BY <1>2, <1>3, MeasurementsAssumption DEF Slot
<1>11. CASE flight' = Nothing
  <2>1. pending' => comms' = "down"
    BY <1>1, <1>5, <1>10, <1>11 DEF ResetSend, q
  <2>2. PulsesInv'
    BY <1>7, <1>11, MeasurementsAssumption DEF PulsesInv
  <2> QED BY <1>4, <1>11, <2>1, <2>2 DEF RestInv, AckIsExact
<1>12. CASE flight' # Nothing
  <2>1. /\ Remember(end) /\ pending' = (end # N) /\ flight' = Message(q)
    BY <1>1, <1>12 DEF ResetSend, q
  <2>2. prev' = From /\ start' = end
    BY <2>1 DEF Remember
  <2>3. AckIsExact'
    <3>1. AckEnd' = end
      BY <1>2, <2>2 DEF AckEnd
    <3>2. Acked' = {i \in Slot : From <= i /\ i < end /\ Due(i, n)}
      BY <2>2, <3>1, <1>9 DEF Acked, Due
    <3> QED BY <1>3, <1>6, <2>1, <3>2 DEF AckIsExact
  <2>4. ASSUME pending'
        PROVE  /\ end \in Slot /\ Due(end, n)
               /\ \A i \in Slot : end <= i /\ Due(i, n) => reading'[i] # Nothing
    <3>1. end # N
      BY <2>1, <2>4
    <3>2. end \in Wanted(From, N, n)
      BY <1>1, <3>1 DEF Ends
    <3>3. \A i \in Slot : end <= i => i \notin q
      BY <1>2, <1>3 DEF Slot
    <3> QED BY <1>2, <1>7, <3>2, <3>3 DEF Wanted, Slot
  <2>5. RestInv'
    BY <2>2, <2>4, <1>9 DEF RestInv, Due
  <2>6. PulsesInv'
    BY <1>6, <1>7, <1>8, <2>1, MeasurementsAssumption DEF PulsesInv
  <2> QED BY <1>4, <1>12, <2>3, <2>5, <2>6
<1> QED BY <1>11, <1>12

LEMMA MoreDelivered ==
    ASSUME NEW t \in Nat, NEW p \in Nat, NEW d \in Nat, NEW e \in Nat,
           t <= d + p, d <= e
    PROVE  t <= e + p
OBVIOUS

LEMMA NextKept == ASSUME KeptInv, Calm, [ReportNext]_reportVars PROVE KeptInv'
<1>0. CountsInv /\ CountsInv'
  BY NextCounts DEF KeptInv
<1> DEFINE Others == EarlyInv /\ WaitsInv /\ DueInv /\ RestInv /\ AckIsExact
                     /\ PulsesInv /\ NoPulseLost
<1> SUFFICES Others'
  BY <1>0 DEF KeptInv
<1> USE DEF KeptInv, EarlyInv, WaitsInv, DueInv, RestInv, AckIsExact,
        PulsesInv, NoPulseLost
<1>1. CASE LoopOffline
  <2>1. flight = Nothing
    BY <1>0, <1>1 DEF LoopOffline, Connected, CountsInv, ReportTypeOK
  <2> QED BY <1>1, <2>1 DEF LoopOffline, pulseVars, NextCount
<1>2. CASE LoopOnline
  BY <1>2 DEF LoopOnline, pulseVars
<1>3. ASSUME NEW i \in Slot, Collect(i) PROVE Others'
  <2>1. UNCHANGED <<age, pending, count, start, prev, noticed, comms, flight,
                    pulse, total, delivered>>
    BY <1>3 DEF Collect
  <2>2. \A j \in Slot : reading[j] # Nothing => reading'[j] = reading[j]
    BY <1>0, <1>3 DEF Collect, CountsInv, ReportTypeOK
  <2>3. PulsesInv'
    <3>1. CASE i # Pulses
      BY <1>0, <1>3, <2>1, <3>1, MeasurementsAssumption
         DEF Collect, CountsInv, ReportTypeOK
    <3>2. CASE i = Pulses
      <4>1. reading'[Pulses] = pulse /\ send_count' = pulse
        BY <1>0, <1>3, <3>2, MeasurementsAssumption
           DEF Collect, CountsInv, ReportTypeOK
      <4>2. flight # Nothing => Pulses \notin flight.slots
        <5>1. SUFFICES ASSUME flight # Nothing PROVE Pulses \notin flight.slots
          OBVIOUS
        <5>2. age = 0
          BY <5>1
        <5>3. Interval[Pulses] \in Nat \ {0} /\ count \in Nat
          <6>1. Interval[Pulses] # 0
            BY <1>3, <3>2 DEF Collect
          <6>2. Interval[Pulses] \in Nat
            BY MeasurementsAssumption
          <6>3. count \in 0 .. Cycle - 1 /\ Cycle \in Nat
            BY <1>0, MeasurementsAssumption DEF CountsInv, ReportTypeOK
          <6> QED BY <6>1, <6>2, <6>3
        <5>4. 2 * (count % Interval[Pulses]) >= Interval[Pulses]
          BY <1>3, <3>2, <5>2, <5>3 DEF Collect, HalfOver
        <5>5. ~Due(Pulses, count)
          BY <5>3, <5>4 DEF Due
        <5>6. Acked = flight.slots
          BY <5>1
        <5> QED BY <5>5, <5>6 DEF Acked
      <4> QED BY <2>1, <4>1, <4>2
    <3> QED BY <3>1, <3>2
  <2> QED BY <2>1, <2>2, <2>3 DEF NextCount, Due, Acked, AckEnd, Slot
<1>4. CASE LoopSend
  <2>1. flight = Nothing /\ SendReady /\ ~pending /\ ~noticed /\ age = 2
    BY <1>0, <1>4
       DEF LoopSend, Running, Connected, SendReady, CountsInv, ReportTypeOK
  <2>2. SendMessage(NextCount) /\ count' = NextCount
    BY <1>4, <2>1 DEF LoopSend
  <2>3. noticed' = noticed /\ pulse' = pulse /\ send_count' = send_count
        /\ total' = total /\ delivered' = delivered
    BY <1>4 DEF LoopSend, pulseVars
  <2>4. /\ age' = 0 /\ (pending' => flight' # Nothing \/ comms' = "down")
        /\ RestInv' /\ AckIsExact' /\ PulsesInv'
    BY <1>0, <2>1, <2>2, <2>3, SendKeeps
  <2> QED BY <2>1, <2>3, <2>4
<1>5. CASE SentAck
  <2>1. /\ flight # Nothing /\ age = 0 /\ ~noticed /\ delivered' = Arrived
        /\ count' = count /\ noticed' = noticed /\ total' = total
        /\ Acked = flight.slots
    BY <1>5 DEF SentAck
  <2>2. NoPulseLost'
    <3>1. flight.pulses \in Nat
      BY <1>0, <2>1 DEF CountsInv, ReportTypeOK
    <3>2. CASE Pulses \in Acked
      <4>1. pulse' = pulse - flight.pulses
        BY <1>5, <2>1, <3>2 DEF SentAck, PulseAck
      <4> QED BY <1>0, <2>1, <3>1, <4>1 DEF Arrived, CountsInv, ReportTypeOK
    <3>3. CASE Pulses \notin Acked
      <4>1. pulse' = pulse
        BY <1>5, <3>3 DEF SentAck
      <4> QED BY <1>0, <2>1, <3>1, <4>1 DEF Arrived, CountsInv, ReportTypeOK
    <3> QED BY <3>2, <3>3
  <2>3. reading[Pulses] # Nothing => send_count' = reading[Pulses]
    BY <1>5, <2>1 DEF SentAck, PulseAck
  <2>4. CASE pending
    <3>1. From = start
      BY <2>1, <2>4, MeasurementsAssumption DEF From, Slot
    <3>2. SendMessage(count)
      BY <1>5, <2>4 DEF SentAck
    <3>3. /\ age' = 0 /\ (pending' => flight' # Nothing \/ comms' = "down")
          /\ RestInv' /\ AckIsExact' /\ PulsesInv'
      BY <1>0, <2>1, <2>3, <2>4, <3>1, <3>2, SendKeeps
    <3> QED BY <2>1, <2>2, <3>3
  <2>5. CASE ~pending
    <3>1. flight' = Nothing /\ age' = age /\ reading' = reading /\ ~pending'
      BY <1>5, <2>5 DEF SentAck
    <3> QED BY <2>1, <2>2, <2>3, <3>1
  <2> QED BY <2>4, <2>5
<1>6. CASE SentNack
  <2>1. flight # Nothing /\ age = 0 /\ flight' = Nothing /\ age' = 0 /\ ~pending'
    BY <1>6 DEF SentNack
  <2>2. /\ reading' = reading /\ send_count' = send_count /\ pulse' = pulse
        /\ total' = total /\ delivered' \in {delivered, Arrived}
    BY <1>6 DEF SentNack, pulseVars
  <2>3. NoPulseLost'
    <3>1. flight.pulses \in Nat
      BY <1>0, <2>1 DEF CountsInv, ReportTypeOK
    <3>2. delivered <= delivered'
      BY <1>0, <2>2, <3>1 DEF Arrived, CountsInv, ReportTypeOK
    <3>3. /\ total \in Nat /\ pulse \in Nat
          /\ delivered \in Nat /\ delivered' \in Nat
      BY <1>0 DEF CountsInv, ReportTypeOK
    <3>4. total <= delivered + pulse
      OBVIOUS
    <3>5. total <= delivered' + pulse
      BY ONLY <3>2, <3>3, <3>4, MoreDelivered
    <3> QED BY ONLY <2>2, <3>5 DEF NoPulseLost
  <2> QED BY <2>1, <2>2, <2>3
<1>7. CASE Down
  BY <1>7 DEF Down, sendVars, pulseVars, NextCount
<1>8. CASE Up
  BY <1>8 DEF Up, sendVars, pulseVars, NextCount
<1>9. CASE Pulse
  <2>1. total' = total + 1 /\ pulse' = pulse + 1 /\ delivered' = delivered
    BY <1>9 DEF Pulse
  <2>2. NoPulseLost'
    BY <1>0, <2>1 DEF CountsInv, ReportTypeOK
  <2> QED BY <1>9, <2>2
          DEF Pulse, sendVars, NextCount, Due, Acked, AckEnd
<1>10. CASE GetMeas
  BY <1>10, CalmFacts DEF GetMeas
<1>11. CASE Age
  <2>1. flight = Nothing /\ flight' = Nothing
    BY <1>11, CalmFacts DEF Age
  <2>2. DueInv'
    BY <1>0, <1>11, CalmFacts
       DEF Age, CountsInv, ReportTypeOK, NextCount, Due
  <2> QED BY <1>11, <2>1, <2>2 DEF Age, pulseVars
<1>12. ASSUME NEW i \in Slot, InstantSend(i) PROVE Others'
  BY <1>12, CalmFacts DEF InstantSend
<1>13. CASE UNCHANGED reportVars
  BY <1>13 DEF reportVars, NextCount, Due, Acked, AckEnd
<1> QED
  BY <1>1, <1>2, <1>3, <1>4, <1>5, <1>6, <1>7, <1>8, <1>9, <1>10, <1>11,
     <1>12, <1>13 DEF ReportNext, Loop, CommsAnswer

\* However messages are refused, lost, delivered without their
\* acknowledgement or never sent, every pulse that was counted is still in
\* the counter or has been delivered, as long as Calm holds.
THEOREM PulsesKept == ASSUME Calm PROVE ReportSpec => []NoPulseLost
<1>1. KeptInv /\ [ReportNext]_reportVars => KeptInv'
  BY NextKept
<1>2. KeptInv => NoPulseLost
  BY DEF KeptInv
<1> QED BY InitKept, <1>1, <1>2, PTL DEF ReportSpec

\* Under the same conditions every acknowledgement, of a whole message or of a
\* fragment, reaches the measurements that the message carried and no others.
THEOREM AcksAreExact == ASSUME Calm PROVE ReportSpec => []AckIsExact
<1>1. KeptInv /\ [ReportNext]_reportVars => KeptInv'
  BY NextKept
<1>2. KeptInv => AckIsExact
  BY DEF KeptInv
<1> QED BY InitKept, <1>1, <1>2, PTL DEF ReportSpec

\* Under the same conditions a pending send always has a fragment with comms,
\* whose answer will continue or end it.
THEOREM PendingIsWithComms == ASSUME Calm PROVE ReportSpec => []PendingIsBusy
<1>1. KeptInv /\ [ReportNext]_reportVars => KeptInv'
  BY NextKept
<1>2. KeptInv => PendingIsBusy
  BY DEF KeptInv, WaitsInv, PendingIsBusy, Running, Connected
<1> QED BY InitKept, <1>1, <1>2, PTL DEF ReportSpec

\* When the loop counts an interval nothing is underway, so the send starts
\* and with it the next interval.
LEMMA CountStartsNext ==
    ASSUME KeptInv, Calm, [ReportNext]_reportVars, count' # count
    PROVE  age' = 0
<1>1. LoopSend
  BY DEF ReportNext, Loop, CommsAnswer, reportVars, sendVars, LoopOffline, LoopOnline, Collect,
         SentAck, SentNack, Down, Up, Pulse, GetMeas, Age, InstantSend
<1>2. flight = Nothing /\ ~pending
  BY <1>1 DEF LoopSend, Running, Connected, KeptInv, EarlyInv, WaitsInv
<1>3. SendReady
  BY <1>1, <1>2 DEF LoopSend, Running, Connected, SendReady, KeptInv,
                    CountsInv, ReportTypeOK
<1> QED BY <1>1, <1>2, <1>3 DEF LoopSend, SendMessage

\* Under the same conditions no interval is counted twice.
THEOREM IntervalsCountOnce == ASSUME Calm PROVE ReportSpec => CountsOnce
<1>1. KeptInv /\ [ReportNext]_reportVars => KeptInv'
  BY NextKept
<1>2. KeptInv /\ [ReportNext]_reportVars => [count' # count => age' = 0]_reportVars
  BY CountStartsNext
<1> QED BY InitKept, <1>1, <1>2, PTL DEF ReportSpec, CountsOnce
=============================================================================
