---------------------------- MODULE BotRunProofs ----------------------------
(***************************************************************************)
(* Proofs about a run and its verdict, for any bots, orders, prices and    *)
(* faults.                                                                 *)
(*                                                                         *)
(* The first half is about the order book and the fill validator, for      *)
(* every list of events.  What the validator's loop comes to is defined by *)
(* recursion; what holds after each turn is proved by induction over a set *)
(* of turns, and so is that different keys can be sorted.                  *)
(*                                                                         *)
(* The second half is about the run: types, where the event of each order  *)
(* is, and what the engine reported.                                       *)
(***************************************************************************)
EXTENDS BotRun, SequenceTheorems, FiniteSetTheorems, WellFoundedInduction, TLAPS

(* Induction and the least element, over sets of naturals *)

\* A set of naturals that is not empty has a least element.
LEMMA LeastElement ==
    ASSUME NEW T, T \subseteq Nat, T # {}
    PROVE  \E x \in T : \A y \in T : x <= y
<1>1. PICK x \in T : \A y \in T : <<y, x>> \notin OpToRel(<, Nat)
  BY WFMin, NatLessThanWellFounded
<1>2. \A y \in T : ~(y < x)
  BY <1>1 DEF OpToRel
<1> QED BY <1>2

\* A set that holds 0 and the successors of its members holds every natural number: the
\* form of induction that asks for a set instead of a predicate.
LEMMA NatInductionOnSet ==
    ASSUME NEW S, 0 \in S, \A n \in Nat : n \in S => n+1 \in S
    PROVE  \A n \in Nat : n \in S
<1> DEFINE T == Nat \ S
<1> SUFFICES ASSUME T # {} PROVE FALSE
  OBVIOUS
<1>1. PICK x \in T : \A y \in T : x <= y
  <2> HIDE DEF T
  <2>1. T \subseteq Nat
    BY DEF T
  <2> QED BY <2>1, LeastElement
<1>2. x # 0 /\ x \in Nat
  OBVIOUS
<1>3. x - 1 \in S
  BY <1>1, <1>2
<1> QED BY <1>2, <1>3

---------------------------------------------------------------------------
(* Sorting by keys that differ *)

\* A key more can be put among keys that are in order.
LEMMA OneKeyMore ==
    ASSUME NEW m \in Nat, NEW f \in [1..(m+1) -> Int], NEW p \in [1..m -> 1..m],
           \A i, j \in 1..(m+1) : f[i] = f[j] => i = j,
           \A i, j \in 1..m : i < j => p[i] # p[j] /\ f[p[i]] < f[p[j]]
    PROVE  \E q \in [1..(m+1) -> 1..(m+1)] :
              \A i, j \in 1..(m+1) : i < j => q[i] # q[j] /\ f[q[i]] < f[q[j]]
<1>1. \A i \in 1..m : p[i] \in 1..m /\ p[i] \in 1..(m+1) /\ p[i] # m+1 /\ f[p[i]] \in Int
  OBVIOUS
<1>2. m+1 \in 1..(m+1) /\ f[m+1] \in Int
  OBVIOUS
<1>3. \A i \in 1..m : f[p[i]] # f[m+1]
  BY <1>1, <1>2
<1>4. PICK c \in 1..(m+1) : \A i \in 1..m : /\ i < c => f[p[i]] < f[m+1]
                                            /\ i >= c => f[m+1] < f[p[i]]
  <2> DEFINE T == {i \in 1..m : f[m+1] < f[p[i]]}
  <2>1. T \subseteq Nat /\ \A i \in T : i \in 1..m /\ f[m+1] < f[p[i]]
    OBVIOUS
  <2>2. \A i \in 1..m : i \notin T => f[p[i]] < f[m+1]
    BY <1>1, <1>2, <1>3
  <2> HIDE DEF T
  <2>3. CASE T = {}
    <3>1. \A i \in 1..m : i < m+1 /\ ~(i >= m+1) /\ f[p[i]] < f[m+1]
      BY <2>2, <2>3
    <3> QED BY <1>2, <3>1
  <2>4. CASE T # {}
    <3>1. PICK c \in T : \A i \in T : c <= i
      BY <2>1, <2>4, LeastElement
    <3>2. c \in 1..m /\ f[m+1] < f[p[c]]
      BY <2>1
    <3>3. ASSUME NEW i \in 1..m, i > c PROVE f[m+1] < f[p[i]]
      <4>1. f[p[c]] < f[p[i]]
        BY <3>2, <3>3
      <4>2. f[m+1] \in Int /\ f[p[c]] \in Int /\ f[p[i]] \in Int
        BY <1>1, <1>2, <3>2, <3>3
      <4>3. \A x, y, z \in Int : x < y /\ y < z => x < z
        OBVIOUS
      <4> QED BY <3>2, <4>1, <4>2, <4>3
    <3>4. ASSUME NEW i \in 1..m, i < c PROVE f[p[i]] < f[m+1]
      <4>1. i \notin T
        BY <3>1, <3>2, <3>4
      <4> QED BY <2>2, <4>1
    <3>5. \A i \in 1..m : i >= c => i = c \/ i > c
      BY <3>2
    <3>6. c \in 1..(m+1)
      BY <3>2
    <3> QED BY <3>2, <3>3, <3>4, <3>5, <3>6
  <2> QED BY <2>3, <2>4
<1> DEFINE q == [i \in 1..(m+1) |-> IF i < c THEN p[i] ELSE IF i = c THEN m+1 ELSE p[i-1]]
<1>5. \A i \in 1..(m+1) : /\ i < c => i \in 1..m /\ q[i] = p[i]
                          /\ i = c => q[i] = m+1
                          /\ i > c => i-1 \in 1..m /\ q[i] = p[i-1]
  OBVIOUS
<1>6. q \in [1..(m+1) -> 1..(m+1)]
  BY <1>1
<1> HIDE DEF q
<1>7. ASSUME NEW i \in 1..(m+1), NEW j \in 1..(m+1), i < j
      PROVE  q[i] # q[j] /\ f[q[i]] < f[q[j]]
  <2>1. CASE j < c
    <3>1. i \in 1..m /\ j \in 1..m /\ q[i] = p[i] /\ q[j] = p[j]
      BY <1>5, <1>7, <2>1
    <3> QED BY <1>7, <3>1
  <2>2. CASE j = c
    BY <1>1, <1>4, <1>5, <1>7, <2>2
  <2>3. CASE j > c /\ i < c
    <3>1. i \in 1..m /\ j-1 \in 1..m /\ i < j-1 /\ q[i] = p[i] /\ q[j] = p[j-1]
      BY <1>5, <1>7, <2>3
    <3> QED BY <3>1
  <2>4. CASE j > c /\ i = c
    <3>1. j-1 \in 1..m /\ j-1 >= c /\ q[i] = m+1 /\ q[j] = p[j-1]
      BY <1>5, <1>7, <2>4
    <3> QED BY <1>1, <1>4, <3>1
  <2>5. CASE i > c
    <3>1. i-1 \in 1..m /\ j-1 \in 1..m /\ i-1 < j-1 /\ q[i] = p[i-1] /\ q[j] = p[j-1]
      BY <1>5, <1>7, <2>5
    <3> QED BY <3>1
  <2> QED BY <2>1, <2>2, <2>3, <2>4, <2>5
<1> QED BY <1>6, <1>7

\* Different keys can be put in order.
LEMMA OrderOfKeys ==
    ASSUME NEW n \in Nat, NEW k \in [1..n -> Int],
           \A i, j \in 1..n : k[i] = k[j] => i = j
    PROVE  \E p \in [1..n -> 1..n] :
              \A i, j \in 1..n : i < j => p[i] # p[j] /\ k[p[i]] < k[p[j]]
<1> DEFINE S == {m \in Nat : \A f \in [1..m -> Int] :
                    (\A i, j \in 1..m : f[i] = f[j] => i = j)
                       => \E p \in [1..m -> 1..m] :
                             \A i, j \in 1..m : i < j => p[i] # p[j] /\ f[p[i]] < f[p[j]]}
<1>1. 0 \in S
  <2>1. ASSUME NEW f
        PROVE  \E p \in [1..0 -> 1..0] :
                  \A i, j \in 1..0 : i < j => p[i] # p[j] /\ f[p[i]] < f[p[j]]
    <3>1. 1..0 = {}
      OBVIOUS
    <3>2. [i \in 1..0 |-> i] \in [1..0 -> 1..0]
      OBVIOUS
    <3>3. \A i, j \in 1..0 : FALSE
      BY <3>1
    <3> QED BY <3>2, <3>3
  <2> QED BY <2>1
<1>2. ASSUME NEW m \in Nat, m \in S PROVE m+1 \in S
  <2>1. ASSUME NEW f \in [1..(m+1) -> Int],
               \A i, j \in 1..(m+1) : f[i] = f[j] => i = j
        PROVE  \E q \in [1..(m+1) -> 1..(m+1)] :
                  \A i, j \in 1..(m+1) : i < j => q[i] # q[j] /\ f[q[i]] < f[q[j]]
    <3> DEFINE g == [i \in 1..m |-> f[i]]
    <3>1. /\ g \in [1..m -> Int] /\ \A i \in 1..m : g[i] = f[i]
          /\ \A i, j \in 1..m : g[i] = g[j] => i = j
      BY <2>1
    <3> HIDE DEF g
    <3>2. PICK p \in [1..m -> 1..m] :
             \A i, j \in 1..m : i < j => p[i] # p[j] /\ g[p[i]] < g[p[j]]
      BY <1>2, <3>1
    <3>3. ASSUME NEW i \in 1..m, NEW j \in 1..m, i < j PROVE p[i] # p[j] /\ f[p[i]] < f[p[j]]
      <4>1. p[i] \in 1..m /\ p[j] \in 1..m
        OBVIOUS
      <4> QED BY <3>1, <3>2, <3>3, <4>1
    <3>4. \A i, j \in 1..m : i < j => p[i] # p[j] /\ f[p[i]] < f[p[j]]
      BY <3>3
    <3>5. /\ f \in [1..(m+1) -> Int] /\ m \in Nat /\ p \in [1..m -> 1..m]
          /\ \A i, j \in 1..(m+1) : f[i] = f[j] => i = j
      BY <2>1, <1>2
    <3> HIDE DEF S
    <3> QED BY <3>4, <3>5, OneKeyMore
  <2>2. m+1 \in Nat
    OBVIOUS
  <2> QED BY <2>1, <2>2, Zenon
<1> HIDE DEF S
<1>3. n \in S
  BY <1>1, <1>2, NatInductionOnSet
<1> QED BY <1>3 DEF S

\* What Sort chooses reaches every element.
LEMMA OrderIsOnto ==
    ASSUME NEW n \in Nat, NEW p \in [1..n -> 1..n],
           \A i, j \in 1..n : i < j => p[i] # p[j]
    PROVE  \A i \in 1..n : \E j \in 1..n : p[j] = i
<1>1. p \in Injection(1..n, 1..n)
  BY DEF Injection, IsInjective
<1>2. IsFiniteSet(1..n)
  BY FS_Interval
<1>3. p \in Surjection(1..n, 1..n)
  BY <1>1, <1>2, FS_Injection
<1> QED BY <1>3 DEF Surjection

---------------------------------------------------------------------------
(* Lists *)

\* The first index that passes a test.
LEMMA FirstIndex ==
    ASSUME NEW n \in Nat, NEW I \in SUBSET (1..n), I # {}
    PROVE  Min(I) \in I /\ \A i \in I : Min(I) <= i
<1>1. PICK x \in I : \A y \in I : x <= y
  <2>1. I \subseteq Nat
    OBVIOUS
  <2> QED BY <2>1, LeastElement
<1> QED BY <1>1 DEF Min

\* RemoveAt takes away one element, and the later ones move up.
LEMMA RemovedAt ==
    ASSUME NEW S, NEW s \in Seq(S), NEW i \in 1..Len(s)
    PROVE  /\ RemoveAt(s, i) \in Seq(S)
           /\ Len(RemoveAt(s, i)) = Len(s) - 1
           /\ \A j \in 1..(Len(s) - 1) :
                 RemoveAt(s, i)[j] = IF j < i THEN s[j] ELSE s[j+1]
<1> DEFINE a == SubSeq(s, 1, i-1)
           b == SubSeq(s, i+1, Len(s))
<1>1. Len(s) \in Nat /\ \A j \in 1..Len(s) : s[j] \in S
  BY ElementOfSeq
<1>2. a \in Seq(S) /\ Len(a) = i-1 /\ \A j \in 1..(i-1) : a[j] = s[j]
  <2>1. \A j \in 1..(i-1) : s[j] \in S
    BY <1>1
  <2>2. 1 \in Int /\ i-1 \in Int
    OBVIOUS
  <2>3. /\ a \in Seq(S) /\ Len(a) = IF 1 <= i-1 THEN (i-1)-1+1 ELSE 0
        /\ \A j \in 1..((i-1)-1+1) : a[j] = s[1+j-1]
    BY <2>1, <2>2, SubSeqProperties
  <2>4. \A j \in Int : 1+j-1 = j
    OBVIOUS
  <2> QED BY <2>3, <2>4
<1>3. b \in Seq(S) /\ Len(b) = Len(s) - i /\ \A j \in 1..(Len(s) - i) : b[j] = s[i+j]
  <2>1. \A j \in (i+1)..Len(s) : s[j] \in S
    BY <1>1
  <2>2. i+1 \in Int /\ Len(s) \in Int
    BY <1>1
  <2>3. /\ b \in Seq(S) /\ Len(b) = IF i+1 <= Len(s) THEN Len(s)-(i+1)+1 ELSE 0
        /\ \A j \in 1..(Len(s)-(i+1)+1) : b[j] = s[(i+1)+j-1]
    BY <2>1, <2>2, SubSeqProperties
  <2>4. \A j \in Int : (i+1)+j-1 = i+j
    OBVIOUS
  <2>5. Len(s)-(i+1)+1 = Len(s) - i
    BY <1>1
  <2>6. Len(b) = Len(s) - i
    <3>1. CASE i+1 <= Len(s)
      BY <2>3, <2>5, <3>1
    <3>2. CASE ~(i+1 <= Len(s))
      <4>1. Len(s) - i = 0
        BY <1>1, <3>2
      <4> QED BY <2>3, <3>2, <4>1
    <3> QED BY <3>1, <3>2
  <2>7. \A j \in 1..(Len(s) - i) : b[j] = s[i+j]
    BY <2>3, <2>4, <2>5
  <2> QED BY <2>3, <2>6, <2>7
<1> HIDE DEF a, b
<1>4. /\ a \o b \in Seq(S) /\ Len(a \o b) = Len(a) + Len(b)
      /\ \A j \in 1..(Len(a) + Len(b)) : (a \o b)[j] = IF j <= Len(a) THEN a[j] ELSE b[j - Len(a)]
  BY <1>2, <1>3, ConcatProperties
<1>5. RemoveAt(s, i) = a \o b
  BY DEF RemoveAt, a, b
<1>6. Len(a) + Len(b) = Len(s) - 1
  BY <1>1, <1>2, <1>3
<1>7. ASSUME NEW j \in 1..(Len(s) - 1)
      PROVE  RemoveAt(s, i)[j] = IF j < i THEN s[j] ELSE s[j+1]
  <2>1. CASE j < i
    BY <1>2, <1>4, <1>5, <1>6, <2>1
  <2>2. CASE ~(j < i)
    <3>1. j - (i-1) \in 1..(Len(s) - i) /\ i + (j - (i-1)) = j + 1 /\ ~(j <= i-1)
      BY <1>1, <2>2
    <3>2. b[j - (i-1)] = s[j+1]
      BY <1>3, <3>1
    <3> QED BY <1>2, <1>4, <1>5, <1>6, <2>2, <3>1, <3>2
  <2> QED BY <2>1, <2>2
<1> QED BY <1>4, <1>5, <1>6, <1>7

\* RemoveFirst of an element on a list takes one away, and no other.
LEMMA RemovedFirst ==
    ASSUME NEW S, NEW s \in Seq(S), NEW e, Contains(s, e)
    PROVE  /\ RemoveFirst(s, e) \in Seq(S)
           /\ Len(RemoveFirst(s, e)) = Len(s) - 1
           /\ \A x : x # e /\ Contains(s, x) => Contains(RemoveFirst(s, e), x)
<1> DEFINE I == {i \in 1..Len(s) : s[i] = e}
<1>1. I \in SUBSET (1..Len(s)) /\ I # {} /\ Len(s) \in Nat
  BY DEF Contains
<1>2. SelectInSeq(s, LAMBDA v : v = e) = Min(I)
  BY <1>1 DEF SelectInSeq
<1>3. PICK k \in 1..Len(s) : k = Min(I) /\ s[k] = e
  <2>1. Min(I) \in I
    BY <1>1, FirstIndex
  <2> QED BY <2>1
<1>4. RemoveFirst(s, e) = RemoveAt(s, k)
  BY <1>2, <1>3 DEF RemoveFirst
<1>5. ASSUME NEW x, x # e, Contains(s, x) PROVE Contains(RemoveAt(s, k), x)
  <2>1. PICK j \in 1..Len(s) : s[j] = x
    BY <1>5 DEF Contains
  <2>2. j # k
    BY <1>3, <1>5, <2>1
  <2>3. CASE j < k
    <3>1. j \in 1..(Len(s) - 1)
      BY <1>1, <2>3
    <3> QED BY <1>1, <2>1, <2>3, <3>1, RemovedAt DEF Contains
  <2>4. CASE j > k
    <3>1. j - 1 \in 1..(Len(s) - 1) /\ ~(j - 1 < k) /\ (j-1)+1 = j
      BY <1>1, <2>4
    <3> QED BY <1>1, <2>1, <3>1, RemovedAt DEF Contains
  <2> QED BY <1>1, <2>2, <2>3, <2>4
<1> QED BY <1>4, <1>5, RemovedAt

---------------------------------------------------------------------------
(* The levels of a side *)

Level == [price : Nat, orders : Seq(Nat)]

\* Best first, a price once, and every level offers an order.
GoodLevels(levels, side) ==
    /\ levels \in Seq(Level)
    /\ \A i \in 1..Len(levels) : levels[i].orders # <<>>
    /\ \A i, j \in 1..Len(levels) : i < j =>
          Prefers(Other(side), levels[i].price, levels[j].price)

\* An order rests at a price.
Rests(levels, price, id) ==
    \E i \in 1..Len(levels) : levels[i].price = price /\ Contains(levels[i].orders, id)

\* What comes of putting an order at a price: nothing else goes.
Adds(levels, side, price, id, out) ==
    /\ GoodLevels(out, side)
    /\ Rests(out, price, id)
    /\ \A p, x : Rests(levels, p, x) => Rests(out, p, x)

\* A function on 1..n is a list of n.
LEMMA FunctionIsSeq ==
    ASSUME NEW S, NEW n \in Nat, NEW f \in [1..n -> S]
    PROVE  f \in Seq(S) /\ Len(f) = n /\ DOMAIN f = 1..n
OBVIOUS

\* The types of a level.
LEMMA LevelTypes ==
    ASSUME NEW levels \in Seq(Level)
    PROVE  /\ Len(levels) \in Nat
           /\ \A i \in 1..Len(levels) : /\ levels[i] \in Level /\ levels[i].price \in Nat
                                        /\ levels[i].orders \in Seq(Nat)
                                        /\ Len(levels[i].orders) \in Nat
<1>1. \A i \in 1..Len(levels) : levels[i] \in Level
  BY ElementOfSeq
<1> QED BY <1>1 DEF Level

\* What is preferred is a strict order, and of two prices one is preferred.
LEMMA PreferenceIsOrder ==
    ASSUME NEW side \in Sides, NEW p \in Nat, NEW q \in Nat
    PROVE  /\ ~(Prefers(side, p, q) /\ Prefers(side, q, p)) /\ ~Prefers(side, p, p)
           /\ p # q /\ ~Prefers(side, q, p) => Prefers(side, p, q)
           /\ Other(side) \in Sides /\ Other(Other(side)) = side
BY DEF Prefers, Sides, Other

\* An order put at the end of a level that is there (orderbook.go:57-61).
LEMMA JoinsLevel ==
    ASSUME NEW side \in Sides, NEW levels, GoodLevels(levels, side), NEW id \in Nat,
           NEW i \in 1..Len(levels), NEW more, more = Append(levels[i].orders, id),
           NEW l, l = [levels[i] EXCEPT !.orders = more],
           NEW out, out = [levels EXCEPT ![i] = l]
    PROVE  Adds(levels, side, levels[i].price, id, out)
<1>1. levels \in Seq(Level) /\ Len(levels) \in Nat
  BY DEF GoodLevels
<1>2. levels[i].orders \in Seq(Nat) /\ levels[i].price \in Nat
  BY <1>1, LevelTypes
<1>3. /\ more \in Seq(Nat) /\ more # <<>> /\ Len(more) = Len(levels[i].orders) + 1
      /\ \A k \in 1..Len(levels[i].orders) : more[k] = levels[i].orders[k]
      /\ more[Len(levels[i].orders) + 1] = id
  BY <1>2, AppendProperties
<1>4. l \in Level /\ l.price = levels[i].price /\ l.orders = more
  BY <1>1, <1>2, <1>3, LevelTypes DEF Level
<1>5. out = [levels EXCEPT ![i] = l]
  OBVIOUS
<1>6. /\ out \in Seq(Level) /\ Len(out) = Len(levels)
      /\ \A j \in 1..Len(levels) : out[j] = IF j = i THEN l ELSE levels[j]
  BY <1>1, <1>4, <1>5, ExceptSeq
<1>7. \A j \in 1..Len(levels) : out[j].price = levels[j].price
  BY <1>4, <1>6
<1>8. GoodLevels(out, side)
  BY <1>3, <1>4, <1>6, <1>7 DEF GoodLevels
<1>9. /\ Contains(more, id)
      /\ \A x : Contains(levels[i].orders, x) => Contains(more, x)
  <2>1. Len(levels[i].orders) \in Nat
    BY <1>2
  <2>2. Len(more) \in 1..Len(more) /\ 1..Len(levels[i].orders) \subseteq 1..Len(more)
    BY <1>3, <2>1
  <2> QED BY <1>3, <2>2 DEF Contains
<1>10. Rests(out, levels[i].price, id)
  BY <1>4, <1>6, <1>9 DEF Rests
<1>11. ASSUME NEW p, NEW x, Rests(levels, p, x) PROVE Rests(out, p, x)
  <2>1. PICK j \in 1..Len(levels) : levels[j].price = p /\ Contains(levels[j].orders, x)
    BY <1>11 DEF Rests
  <2>2. j \in 1..Len(out) /\ out[j].price = p /\ Contains(out[j].orders, x)
    BY <1>4, <1>6, <1>7, <1>9, <2>1
  <2> QED BY <2>2 DEF Rests
<1> QED BY <1>8, <1>10, <1>11 DEF Adds

\* In this order levels are best first.
BestFirst(s, side, p) ==
    \A i, j \in DOMAIN s : i < j => p[i] # p[j] /\ ~Prefers(Other(side), s[p[j]].price, s[p[i]].price)

\* Levels of different prices, in any order.
Mixed(s, n) ==
    /\ s \in Seq(Level) /\ Len(s) = n /\ DOMAIN s = 1..n
    /\ \A i \in 1..n : s[i].price \in Nat /\ s[i].orders # <<>>
    /\ \A i, j \in 1..n : s[i].price = s[j].price => i = j

\* The levels, best first.
Arranged(s, n, side, p, out) ==
    p \in [1..n -> 1..n] /\ BestFirst(s, side, p) /\ out = [i \in 1..n |-> s[p[i]]]

\* The same levels.
Keeps(s, n, out) == \A i \in 1..n : \E j \in 1..Len(out) : out[j] = s[i]

\* They can be put best first (orderbook.go:64-69).
LEMMA LevelsHaveOrder ==
    ASSUME NEW side \in Sides, NEW n \in Nat, NEW s, Mixed(s, n)
    PROVE  \E p \in [1..n -> 1..n] : BestFirst(s, side, p)
<1> DEFINE k == [i \in 1..n |-> IF side = "sell" THEN s[i].price ELSE -s[i].price]
<1>1. /\ DOMAIN s = 1..n
      /\ \A i \in 1..n : s[i].price \in Nat
      /\ \A i, j \in 1..n : s[i].price = s[j].price => i = j
  BY DEF Mixed
<1>2. /\ k \in [1..n -> Int]
      /\ \A i, j \in 1..n : k[i] = k[j] => i = j
      /\ \A i, j \in 1..n : k[i] < k[j] <=> Prefers(Other(side), s[i].price, s[j].price)
  <2>1. k \in [1..n -> Int]
    BY <1>1
  <2>2. \A i, j \in 1..n : k[i] = k[j] => s[i].price = s[j].price
    BY <1>1
  <2>3. CASE side = "sell"
    <3>1. \A i \in 1..n : k[i] = s[i].price
      BY <2>3
    <3>2. \A p, q : Prefers(Other(side), p, q) <=> p < q
      BY <2>3 DEF Prefers, Other
    <3> HIDE DEF k
    <3> QED BY <1>1, <2>1, <2>2, <3>1, <3>2
  <2>4. CASE side = "buy"
    <3>1. \A i \in 1..n : k[i] = -s[i].price
      BY <2>4
    <3>2. \A p, q : Prefers(Other(side), p, q) <=> p > q
      BY <2>4 DEF Prefers, Other
    <3> HIDE DEF k
    <3>3. ASSUME NEW i \in 1..n, NEW j \in 1..n PROVE k[i] < k[j] <=> s[i].price > s[j].price
      BY <1>1, <3>1
    <3> QED BY <1>1, <2>1, <2>2, <3>2, <3>3
  <2> QED BY <2>3, <2>4 DEF Sides
<1> HIDE DEF k
<1>3. PICK p \in [1..n -> 1..n] : \A i, j \in 1..n : i < j => p[i] # p[j] /\ k[p[i]] < k[p[j]]
  BY <1>2, OrderOfKeys
<1>4. ASSUME NEW i \in 1..n, NEW j \in 1..n, i < j
      PROVE  p[i] # p[j] /\ ~Prefers(Other(side), s[p[j]].price, s[p[i]].price)
  <2>1. p[i] \in 1..n /\ p[j] \in 1..n /\ p[i] # p[j] /\ k[p[i]] < k[p[j]]
    BY <1>3, <1>4
  <2>2. Prefers(Other(side), s[p[i]].price, s[p[j]].price)
    BY <1>2, <2>1
  <2>3. s[p[i]].price \in Nat /\ s[p[j]].price \in Nat /\ Other(side) \in Sides
    BY <1>1, <2>1, PreferenceIsOrder
  <2>4. ASSUME NEW a \in Nat, NEW b \in Nat, Prefers(Other(side), a, b)
        PROVE  ~Prefers(Other(side), b, a)
    BY <2>3, <2>4, PreferenceIsOrder
  <2> QED BY <2>1, <2>2, <2>3, <2>4
<1> QED BY <1>1, <1>4 DEF BestFirst

\* Put so, they are a side of a book, and all there.
LEMMA LevelsInOrder ==
    ASSUME NEW side \in Sides, NEW n \in Nat, NEW s, Mixed(s, n),
           NEW p, NEW out, Arranged(s, n, side, p, out)
    PROVE  GoodLevels(out, side) /\ Keeps(s, n, out)
<1>0. p \in [1..n -> 1..n] /\ BestFirst(s, side, p) /\ out = [i \in 1..n |-> s[p[i]]]
  BY DEF Arranged
<1>1. /\ \A i \in 1..n : s[i] \in Level /\ s[i].price \in Nat /\ s[i].orders # <<>>
      /\ \A i, j \in 1..n : s[i].price = s[j].price => i = j
  BY ElementOfSeq DEF Mixed
<1>2. \A i, j \in 1..n : i < j => p[i] # p[j] /\ ~Prefers(Other(side), s[p[j]].price, s[p[i]].price)
  BY <1>0 DEF BestFirst, Mixed
<1>3. \A i \in 1..n : p[i] \in 1..n /\ out[i] = s[p[i]] /\ s[p[i]] \in Level
  BY <1>0, <1>1
<1>4. out \in [1..n -> Level]
  BY <1>0, <1>3
<1>5. out \in Seq(Level) /\ Len(out) = n
  BY <1>4, FunctionIsSeq
<1>6. \A i \in 1..n : out[i].orders # <<>>
  BY <1>1, <1>3
<1>7. ASSUME NEW i \in 1..n, NEW j \in 1..n, i < j
      PROVE  Prefers(Other(side), out[i].price, out[j].price)
  <2>1. p[i] # p[j] /\ ~Prefers(Other(side), s[p[j]].price, s[p[i]].price)
    BY <1>2, <1>7
  <2>2. /\ p[i] \in 1..n /\ p[j] \in 1..n /\ Other(side) \in Sides
        /\ s[p[i]].price \in Nat /\ s[p[j]].price \in Nat /\ s[p[i]].price # s[p[j]].price
    BY <1>1, <1>3, <2>1, PreferenceIsOrder
  <2>3. ASSUME NEW a \in Nat, NEW b \in Nat, a # b, ~Prefers(Other(side), b, a)
        PROVE  Prefers(Other(side), a, b)
    BY <2>2, <2>3, PreferenceIsOrder
  <2>4. Prefers(Other(side), s[p[i]].price, s[p[j]].price)
    BY <2>1, <2>2, <2>3
  <2> QED BY <1>3, <2>4
<1>8. GoodLevels(out, side)
  BY <1>5, <1>6, <1>7 DEF GoodLevels
<1>9. \A i, j \in 1..n : i < j => p[i] # p[j]
  BY <1>2
<1>10. ASSUME NEW i \in 1..n PROVE \E j \in 1..Len(out) : out[j] = s[i]
  <2>1. PICK j \in 1..n : p[j] = i
    BY <1>0, <1>9, OrderIsOnto
  <2> QED BY <1>3, <1>5, <2>1
<1> QED BY <1>8, <1>10 DEF Keeps

\* A level of a price that no level has.
IsNew(levels, new) ==
    /\ new \in Level /\ new.orders # <<>>
    /\ \A i \in 1..Len(levels) : levels[i].price # new.price

\* A level of a new price at the end of a side.
LEMMA LevelAppended ==
    ASSUME NEW side \in Sides, NEW levels, GoodLevels(levels, side), NEW new, IsNew(levels, new)
    PROVE  /\ Mixed(Append(levels, new), Len(levels) + 1)
           /\ \A i \in 1..Len(levels) : /\ i \in 1..(Len(levels) + 1)
                                        /\ Append(levels, new)[i] = levels[i]
           /\ Len(levels) + 1 \in 1..(Len(levels) + 1)
           /\ Append(levels, new)[Len(levels) + 1] = new
<1> DEFINE s == Append(levels, new)
           n == Len(levels) + 1
<1>0. /\ new \in Level /\ new.orders # <<>>
      /\ \A i \in 1..Len(levels) : levels[i].price # new.price
  BY DEF IsNew
<1>1. levels \in Seq(Level) /\ Len(levels) \in Nat
  BY DEF GoodLevels
<1>2. /\ s \in Seq(Level) /\ Len(s) = n
      /\ \A i \in 1..Len(levels) : s[i] = levels[i]
      /\ s[n] = new
  BY <1>0, <1>1, AppendProperties
<1>3. /\ \A i \in 1..n : i \in 1..Len(levels) \/ i = n
      /\ \A i \in 1..Len(levels) : i \in 1..n
  BY <1>1
<1>4. \A i \in 1..n : s[i].price \in Nat /\ s[i].orders # <<>>
  <2>1. \A i \in 1..n : s[i].orders # <<>>
    BY <1>0, <1>2, <1>3 DEF GoodLevels
  <2> QED BY <1>2, <2>1, LevelTypes
<1>5. \A i, j \in 1..Len(levels) : i # j => levels[i].price # levels[j].price
  <2>1. ASSUME NEW i \in 1..Len(levels), NEW j \in 1..Len(levels), i < j
        PROVE  levels[i].price # levels[j].price
    <3>1. Prefers(Other(side), levels[i].price, levels[j].price)
      BY <2>1 DEF GoodLevels
    <3>2. levels[i].price \in Nat /\ levels[j].price \in Nat /\ Other(side) \in Sides
      BY <1>1, LevelTypes, PreferenceIsOrder
    <3> QED BY <3>1, <3>2, PreferenceIsOrder
  <2>2. \A i, j \in 1..Len(levels) : i # j => i < j \/ j < i
    OBVIOUS
  <2> QED BY <2>1, <2>2
<1>6. \A i, j \in 1..n : s[i].price = s[j].price => i = j
  BY <1>0, <1>2, <1>3, <1>5
<1>7. DOMAIN s = 1..n
  BY <1>2, LenProperties
<1> QED BY <1>1, <1>2, <1>3, <1>4, <1>6, <1>7 DEF Mixed

\* A level of a new price, sorted in (orderbook.go:63-70).
LEMMA SortsLevelIn ==
    ASSUME NEW side \in Sides, NEW levels, GoodLevels(levels, side), NEW id \in Nat,
           NEW price \in Nat, \A i \in 1..Len(levels) : levels[i].price # price
    PROVE  Adds(levels, side, price, id,
                Sort(Append(levels, [price |-> price, orders |-> <<id>>]),
                     LAMBDA l, m : Prefers(Other(side), l.price, m.price)))
<1> DEFINE new == [price |-> price, orders |-> <<id>>]
           s == Append(levels, new)
           n == Len(levels) + 1
           c == CHOOSE p \in [DOMAIN s -> DOMAIN s] : \A i, j \in DOMAIN s : i < j =>
                   p[i] # p[j] /\ ~Prefers(Other(side), s[p[j]].price, s[p[i]].price)
           out == [i \in DOMAIN s |-> s[c[i]]]
<1>1. out = Sort(s, LAMBDA l, m : Prefers(Other(side), l.price, m.price))
  BY DEF Sort
<1>2. /\ new \in Level /\ new.price = price /\ new.orders = <<id>> /\ new.orders # <<>>
      /\ Contains(new.orders, id)
  BY DEF Level, Contains
<1>3. Len(levels) \in Nat /\ n \in Nat
  BY DEF GoodLevels
<1> HIDE DEF new
<1> HIDE DEF c, out
<1>4. /\ Mixed(s, n)
      /\ \A i \in 1..Len(levels) : i \in 1..n /\ s[i] = levels[i]
      /\ n \in 1..n /\ s[n] = new
  <2>1. IsNew(levels, new)
    BY <1>2 DEF IsNew
  <2> QED BY <2>1, LevelAppended
<1> HIDE DEF s, n
<1>5. DOMAIN s = 1..n
  BY <1>4 DEF Mixed
<1>6. c \in [1..n -> 1..n] /\ BestFirst(s, side, c)
  <2>1. \E p \in [1..n -> 1..n] : BestFirst(s, side, p)
    BY <1>3, <1>4, LevelsHaveOrder
  <2>2. \E p \in [DOMAIN s -> DOMAIN s] : \A i, j \in DOMAIN s : i < j =>
           p[i] # p[j] /\ ~Prefers(Other(side), s[p[j]].price, s[p[i]].price)
    BY <1>5, <2>1 DEF BestFirst
  <2>3. /\ c \in [DOMAIN s -> DOMAIN s]
        /\ \A i, j \in DOMAIN s : i < j =>
              c[i] # c[j] /\ ~Prefers(Other(side), s[c[j]].price, s[c[i]].price)
    BY <2>2 DEF c
  <2> QED BY <1>5, <2>3 DEF BestFirst
<1>7. out = [i \in 1..n |-> s[c[i]]]
  BY <1>5 DEF out
<1>8. /\ GoodLevels(out, side)
      /\ Keeps(s, n, out)
  <2>1. Arranged(s, n, side, c, out)
    BY <1>6, <1>7 DEF Arranged
  <2> QED BY <1>3, <1>4, <2>1, LevelsInOrder
<1>9. Rests(out, price, id)
  <2>1. PICK j \in 1..Len(out) : out[j] = new
    BY <1>4, <1>8 DEF Keeps
  <2> QED BY <1>2, <2>1 DEF Rests
<1>10. ASSUME NEW q, NEW x, Rests(levels, q, x) PROVE Rests(out, q, x)
  <2>1. PICK i \in 1..Len(levels) : levels[i].price = q /\ Contains(levels[i].orders, x)
    BY <1>10 DEF Rests
  <2>2. PICK j \in 1..Len(out) : out[j] = s[i]
    BY <1>4, <1>8 DEF Keeps
  <2>3. out[j] = levels[i]
    BY <1>4, <2>2
  <2> QED BY <2>1, <2>3 DEF Rests
<1>11. Adds(levels, side, price, id, out)
  BY <1>8, <1>9, <1>10 DEF Adds
<1> QED BY <1>1, <1>11 DEF s, new

\* An order goes to the level of its price, or to a level of its own (orderbook.go:56-71).
LEMMA InsertsOrder ==
    ASSUME NEW side \in Sides, NEW levels, GoodLevels(levels, side), NEW id \in Nat, NEW price \in Nat
    PROVE  Adds(levels, side, price, id, insertLevel(levels, id, price, side))
<1> DEFINE I == {i \in 1..Len(levels) : levels[i].price = price}
           i == SelectInSeq(levels, LAMBDA l : l.price = price)
           joined == [levels EXCEPT ![i].orders = Append(@, id)]
           sorted == Sort(Append(levels, [price |-> price, orders |-> <<id>>]),
                          LAMBDA l, m : Prefers(Other(side), l.price, m.price))
<1>1. insertLevel(levels, id, price, side) = IF i # 0 THEN joined ELSE sorted
  BY DEF insertLevel
<1>2. i = IF I # {} THEN Min(I) ELSE 0
  BY DEF SelectInSeq
<1>3. Len(levels) \in Nat /\ levels \in Seq(Level)
  BY DEF GoodLevels
<1>4. i # 0 => i \in 1..Len(levels) /\ levels[i].price = price
  <2>1. I \in SUBSET (1..Len(levels))
    OBVIOUS
  <2>2. I # {} => Min(I) \in I
    BY <1>3, <2>1, FirstIndex
  <2> HIDE DEF i
  <2> QED BY <1>2, <2>2
<1>5. i = 0 => \A j \in 1..Len(levels) : levels[j].price # price
  <2>1. I \in SUBSET (1..Len(levels))
    OBVIOUS
  <2>2. I # {} => Min(I) \in 1..Len(levels)
    BY <1>3, <2>1, FirstIndex
  <2> HIDE DEF i
  <2> QED BY <1>2, <2>2
<1> HIDE DEF i
<1>6. CASE i # 0
  <2> DEFINE more == Append(levels[i].orders, id)
             l == [levels[i] EXCEPT !.orders = more]
  <2>1. joined = [levels EXCEPT ![i] = l]
    OBVIOUS
  <2> HIDE DEF more, l
  <2>2. more = Append(levels[i].orders, id) /\ l = [levels[i] EXCEPT !.orders = more]
    BY DEF more, l
  <2>3. Adds(levels, side, levels[i].price, id, joined)
    <3> HIDE DEF joined
    <3> QED BY <1>4, <1>6, <2>1, <2>2, JoinsLevel
  <2> QED BY <1>1, <1>4, <1>6, <2>3
<1>7. CASE i = 0
  <2>1. Adds(levels, side, price, id, sorted)
    BY <1>5, <1>7, SortsLevelIn
  <2> HIDE DEF sorted
  <2> QED BY <1>1, <1>7, <2>1
<1> QED BY <1>6, <1>7

\* What comes of a cancel: the orders of the other ids stay.
Takes(levels, side, id, out) ==
    /\ GoodLevels(out, side)
    /\ \A p, x : x # id /\ Rests(levels, p, x) => Rests(out, p, x)

\* The level that offered only this order goes (orderbook.go:78-80).
LEMMA LevelGoes ==
    ASSUME NEW side \in Sides, NEW levels, GoodLevels(levels, side), NEW id,
           NEW i \in 1..Len(levels), Contains(levels[i].orders, id), Len(levels[i].orders) = 1
    PROVE  Takes(levels, side, id, RemoveAt(levels, i))
<1> DEFINE out == RemoveAt(levels, i)
           m == Len(levels) - 1
<1>1. levels \in Seq(Level) /\ Len(levels) \in Nat /\ m \in Nat
  BY DEF GoodLevels
<1>2. /\ out \in Seq(Level) /\ Len(out) = m
      /\ \A j \in 1..m : out[j] = IF j < i THEN levels[j] ELSE levels[j+1]
  BY <1>1, RemovedAt
<1> HIDE DEF out
<1>3. ASSUME NEW j \in 1..m PROVE out[j].orders # <<>>
  <2>1. j \in 1..Len(levels) /\ j+1 \in 1..Len(levels)
    BY <1>1
  <2> QED BY <1>2, <2>1 DEF GoodLevels
<1>4. ASSUME NEW j \in 1..m, NEW k \in 1..m, j < k
      PROVE  Prefers(Other(side), out[j].price, out[k].price)
  <2>1. PICK a \in 1..Len(levels) : out[j] = levels[a] /\ a = IF j < i THEN j ELSE j+1
    BY <1>1, <1>2
  <2>2. PICK b \in 1..Len(levels) : out[k] = levels[b] /\ b = IF k < i THEN k ELSE k+1
    BY <1>1, <1>2
  <2>3. a < b
    BY <1>4, <2>1, <2>2
  <2> QED BY <2>1, <2>2, <2>3 DEF GoodLevels
<1>5. GoodLevels(out, side)
  BY <1>1, <1>2, <1>3, <1>4 DEF GoodLevels
<1>6. ASSUME NEW p, NEW x, x # id, Rests(levels, p, x) PROVE Rests(out, p, x)
  <2>1. PICK j \in 1..Len(levels) : levels[j].price = p /\ Contains(levels[j].orders, x)
    BY <1>6 DEF Rests
  <2>2. j # i
    <3>1. \A k \in 1..Len(levels[i].orders) : k = 1
      OBVIOUS
    <3>2. \A y : Contains(levels[i].orders, y) => y = levels[i].orders[1]
      BY <3>1 DEF Contains
    <3> QED BY <1>6, <2>1, <3>2
  <2>3. PICK k \in 1..m : out[k] = levels[j]
    <3>1. CASE j < i
      <4>1. j \in 1..m
        BY <1>1, <3>1
      <4> QED BY <1>2, <3>1, <4>1
    <3>2. CASE j > i
      <4>1. j-1 \in 1..m /\ ~(j-1 < i) /\ (j-1)+1 = j
        BY <1>1, <3>2
      <4> QED BY <1>2, <4>1
    <3> QED BY <2>2, <3>1, <3>2
  <2> QED BY <1>2, <2>1, <2>3 DEF Rests
<1> QED BY <1>5, <1>6 DEF Takes, out

\* The order goes from a level that offers others (orderbook.go:77-81).
LEMMA LevelStays ==
    ASSUME NEW side \in Sides, NEW levels, GoodLevels(levels, side), NEW id,
           NEW i \in 1..Len(levels), Contains(levels[i].orders, id), Len(levels[i].orders) # 1,
           NEW l, l = [levels[i] EXCEPT !.orders = RemoveFirst(levels[i].orders, id)],
           NEW out, out = [levels EXCEPT ![i] = l]
    PROVE  Takes(levels, side, id, out)
<1>1. levels \in Seq(Level) /\ Len(levels) \in Nat
  BY DEF GoodLevels
<1>2. levels[i] \in Level /\ levels[i].orders \in Seq(Nat) /\ Len(levels[i].orders) \in Nat
  BY <1>1, LevelTypes
<1> DEFINE fewer == RemoveFirst(levels[i].orders, id)
<1>3. /\ fewer \in Seq(Nat) /\ Len(fewer) = Len(levels[i].orders) - 1
      /\ \A x : x # id /\ Contains(levels[i].orders, x) => Contains(fewer, x)
  BY <1>2, RemovedFirst
<1>4. l.price = levels[i].price /\ l.orders = fewer /\ l \in Level
  BY <1>2, <1>3 DEF Level
<1> HIDE DEF fewer
<1>5. fewer # <<>>
  <2>1. Len(levels[i].orders) # 0
    BY <1>1, <1>2 DEF Contains
  <2>2. Len(fewer) # 0
    BY <1>2, <1>3, <2>1
  <2> QED BY <2>2
<1>6. /\ out \in Seq(Level) /\ Len(out) = Len(levels)
      /\ \A j \in 1..Len(levels) : out[j] = IF j = i THEN l ELSE levels[j]
  BY <1>1, <1>4, ExceptSeq
<1>7. \A j \in 1..Len(levels) : out[j].price = levels[j].price
  BY <1>4, <1>6
<1>8. \A j \in 1..Len(levels) : out[j].orders # <<>>
  BY <1>4, <1>5, <1>6 DEF GoodLevels
<1>9. GoodLevels(out, side)
  BY <1>6, <1>7, <1>8 DEF GoodLevels
<1>10. ASSUME NEW p, NEW x, x # id, Rests(levels, p, x) PROVE Rests(out, p, x)
  <2>1. PICK j \in 1..Len(levels) : levels[j].price = p /\ Contains(levels[j].orders, x)
    BY <1>10 DEF Rests
  <2>2. out[j].price = p /\ Contains(out[j].orders, x) /\ j \in 1..Len(out)
    BY <1>3, <1>4, <1>6, <1>7, <1>10, <2>1
  <2> QED BY <2>2 DEF Rests
<1> QED BY <1>9, <1>10 DEF Takes

\* A cancel takes its order from the first level that has it, and no other (orderbook.go:73-86).
LEMMA RemovesOrder ==
    ASSUME NEW side \in Sides, NEW levels, GoodLevels(levels, side), NEW id
    PROVE  Takes(levels, side, id, removeFromLevels(levels, id))
<1> DEFINE I == {i \in 1..Len(levels) : Contains(levels[i].orders, id)}
           i == SelectInSeq(levels, LAMBDA l : Contains(l.orders, id))
           l == [levels[i] EXCEPT !.orders = RemoveFirst(levels[i].orders, id)]
           out == [levels EXCEPT ![i] = l]
<1>1. removeFromLevels(levels, id) =
         IF i = 0 THEN levels ELSE IF Len(levels[i].orders) = 1 THEN RemoveAt(levels, i) ELSE out
  BY DEF removeFromLevels
<1>2. i = IF I # {} THEN Min(I) ELSE 0
  BY DEF SelectInSeq
<1>3. Len(levels) \in Nat
  BY DEF GoodLevels
<1>4. i # 0 => i \in 1..Len(levels) /\ Contains(levels[i].orders, id)
  <2>1. I \in SUBSET (1..Len(levels))
    OBVIOUS
  <2>2. I # {} => Min(I) \in I
    BY <1>3, <2>1, FirstIndex
  <2> HIDE DEF i
  <2> QED BY <1>2, <2>2
<1> HIDE DEF i
<1>5. CASE i = 0
  BY <1>1, <1>5 DEF Takes
<1>6. CASE i # 0 /\ Len(levels[i].orders) = 1
  BY <1>1, <1>4, <1>6, LevelGoes
<1>7. CASE i # 0 /\ Len(levels[i].orders) # 1
  <2>1. Takes(levels, side, id, out)
    <3> HIDE DEF l, out
    <3>1. /\ l = [levels[i] EXCEPT !.orders = RemoveFirst(levels[i].orders, id)]
          /\ out = [levels EXCEPT ![i] = l]
      BY DEF l, out
    <3> QED BY <1>4, <1>7, <3>1, LevelStays
  <2> HIDE DEF out
  <2> QED BY <1>1, <1>7, <2>1
<1> QED BY <1>5, <1>6, <1>7

---------------------------------------------------------------------------
(* The book and the verdict *)

Event == [id : Nat, side : Sides, type : Types, price : Nat, sentAt : Nat, filled : BOOLEAN]
Verdict == [book : [Sides -> Seq(Level)], total : SUBSET Nat, correct : SUBSET Nat]

GoodBook(book) ==
    /\ book \in [Sides -> Seq(Level)]
    /\ \A side \in Sides : GoodLevels(book[side], side)

\* A limit order rests, on its side, and nothing else goes (orderbook.go:29-35).
LEMMA AddsLimit ==
    ASSUME NEW book, GoodBook(book), NEW e \in Event
    PROVE  /\ GoodBook(AddLimit(book, e))
           /\ Rests(AddLimit(book, e)[e.side], e.price, e.id)
           /\ \A side \in Sides : side # e.side => AddLimit(book, e)[side] = book[side]
           /\ \A side \in Sides : \A p, x :
                 Rests(book[side], p, x) => Rests(AddLimit(book, e)[side], p, x)
<1> DEFINE put == insertLevel(book[e.side], e.id, e.price, e.side)
           out == AddLimit(book, e)
<1>1. e.side \in Sides /\ e.price \in Nat /\ e.id \in Nat
  BY DEF Event
<1>2. Adds(book[e.side], e.side, e.price, e.id, put)
  BY <1>1, InsertsOrder DEF GoodBook
<1>3. out = [book EXCEPT ![e.side] = put]
  BY DEF AddLimit
<1> HIDE DEF put, out
<1>4. /\ \A side \in Sides : out[side] = IF side = e.side THEN put ELSE book[side]
      /\ out \in [Sides -> Seq(Level)]
  BY <1>1, <1>2, <1>3 DEF GoodBook, Adds, GoodLevels
<1>5. GoodBook(out)
  BY <1>2, <1>4 DEF GoodBook, Adds
<1>6. Rests(out[e.side], e.price, e.id)
  BY <1>1, <1>2, <1>4 DEF Adds
<1>7. ASSUME NEW side \in Sides, NEW p, NEW x, Rests(book[side], p, x) PROVE Rests(out[side], p, x)
  BY <1>2, <1>4, <1>7 DEF Adds
<1> QED BY <1>4, <1>5, <1>6, <1>7 DEF out

\* A cancel takes orders of its id alone, whichever their side (orderbook.go:51-54).
LEMMA RemovesFromBook ==
    ASSUME NEW book, GoodBook(book), NEW id
    PROVE  /\ GoodBook(RemoveOrder(book, id))
           /\ \A side \in Sides : \A p, x :
                 x # id /\ Rests(book[side], p, x) => Rests(RemoveOrder(book, id)[side], p, x)
<1> DEFINE out == RemoveOrder(book, id)
<1>1. \A side \in Sides : Takes(book[side], side, id, removeFromLevels(book[side], id))
  BY RemovesOrder DEF GoodBook
<1>2. out = [side \in Sides |-> removeFromLevels(book[side], id)]
  BY DEF RemoveOrder
<1> HIDE DEF out
<1>3. \A side \in Sides : Takes(book[side], side, id, out[side])
  BY <1>1, <1>2
<1>4. GoodBook(out)
  <2>1. \A side \in Sides : GoodLevels(out[side], side)
    BY <1>3 DEF Takes
  <2>2. \A side \in Sides : out[side] \in Seq(Level)
    BY <2>1 DEF GoodLevels
  <2>3. out = [side \in Sides |-> out[side]]
    BY <1>2
  <2> QED BY <2>1, <2>2, <2>3 DEF GoodBook
<1> QED BY <1>3, <1>4 DEF Takes, out

\* What one turn of the loop keeps (validator.go:39-75).
Judged(v, e, w) ==
    /\ w \in Verdict /\ GoodBook(w.book)
    /\ v.correct \subseteq w.correct
    /\ e.type = "limit" => Rests(w.book[e.side], e.price, e.id)
    /\ \A side \in Sides : \A p, x :
          Rests(v.book[side], p, x) /\ ~(e.type = "cancel" /\ e.id = x) => Rests(w.book[side], p, x)

\* One turn of the loop, whatever the event (validator.go:39-75).
LEMMA TurnOfLoop ==
    ASSUME NEW v \in Verdict, GoodBook(v.book), NEW e \in Event
    PROVE  Judged(v, e, Judge(v, e))
<1> DEFINE w == Judge(v, e)
<1>1. /\ e.type \in Types /\ e.sentAt \in Nat
      /\ v.total \in SUBSET Nat /\ v.correct \in SUBSET Nat
      /\ v = [book |-> v.book, total |-> v.total, correct |-> v.correct]
  BY DEF Event, Verdict
<1>2. CASE e.type = "limit"
  <2> DEFINE book == AddLimit(v.book, e)
  <2>1. w = [book    |-> book,
             total   |-> IF e.filled THEN v.total \cup {e.sentAt} ELSE v.total,
             correct |-> IF e.filled /\ shouldFill(book, e) THEN v.correct \cup {e.sentAt}
                         ELSE v.correct]
    BY <1>2 DEF Judge
  <2> HIDE DEF w, book
  <2>2. /\ GoodBook(book)
        /\ Rests(book[e.side], e.price, e.id)
        /\ \A side \in Sides : \A p, x : Rests(v.book[side], p, x) => Rests(book[side], p, x)
    BY AddsLimit DEF book
  <2>3. w.book = book /\ w \in Verdict /\ v.correct \subseteq w.correct
    BY <1>1, <2>1, <2>2 DEF Verdict, GoodBook
  <2> QED BY <2>2, <2>3 DEF Judged, w
<1>3. CASE e.type = "market"
  <2>1. w = [v EXCEPT !.total = @ \cup {e.sentAt},
                      !.correct = IF e.filled <=> hasLiquidity(v.book, e.side)
                                  THEN @ \cup {e.sentAt} ELSE @]
    BY <1>3 DEF Judge
  <2> HIDE DEF w
  <2>2. w.book = v.book /\ w \in Verdict /\ v.correct \subseteq w.correct
    BY <1>1, <2>1 DEF Verdict
  <2> QED BY <1>3, <2>2 DEF Judged, w
<1>4. CASE e.type = "cancel"
  <2>1. w = [v EXCEPT !.book = RemoveOrder(@, e.id)]
    BY <1>4 DEF Judge
  <2> HIDE DEF w
  <2>2. /\ GoodBook(RemoveOrder(v.book, e.id))
        /\ \A side \in Sides : \A p, x :
              x # e.id /\ Rests(v.book[side], p, x) => Rests(RemoveOrder(v.book, e.id)[side], p, x)
    BY RemovesFromBook
  <2>3. w.book = RemoveOrder(v.book, e.id) /\ w \in Verdict /\ w.correct = v.correct
    BY <1>1, <2>1, <2>2 DEF Verdict, GoodBook
  <2> QED BY <1>4, <2>2, <2>3 DEF Judged, w
<1> QED BY <1>1, <1>2, <1>3, <1>4 DEF Types

\* What is first on a side is its best price.
LEMMA FirstIsBest ==
    ASSUME NEW side \in Sides, NEW levels, GoodLevels(levels, side), NEW q, NEW x, Rests(levels, q, x)
    PROVE  /\ levels # <<>> /\ q \in Nat /\ levels[1].price \in Nat
           /\ levels[1].price = q \/ Prefers(Other(side), levels[1].price, q)
<1>1. levels \in Seq(Level) /\ Len(levels) \in Nat
  BY DEF GoodLevels
<1>2. PICK i \in 1..Len(levels) : levels[i].price = q
  BY DEF Rests
<1>3. 1 \in 1..Len(levels) /\ levels # <<>>
  BY <1>1, <1>2
<1>4. q \in Nat /\ levels[1].price \in Nat
  BY <1>1, <1>2, <1>3, LevelTypes
<1>5. i = 1 \/ 1 < i
  BY <1>1, <1>2
<1> QED BY <1>2, <1>3, <1>4, <1>5 DEF GoodLevels

\* A fill for which an order rests that crosses is judged correct (validator.go:44-71, 83-105).
LEMMA FillIsCorrect ==
    ASSUME NEW v \in Verdict, GoodBook(v.book), NEW e \in Event, e.filled, e.type # "cancel",
           NEW q, NEW x, Rests(v.book[Other(e.side)], q, x),
           e.type = "market" \/ Crosses(e.side, e.price, q)
    PROVE  e.sentAt \in Judge(v, e).correct
<1>1. /\ e.side \in Sides /\ Other(e.side) \in Sides /\ e.price \in Nat /\ e.type \in Types
      /\ Other(Other(e.side)) = e.side /\ Other(e.side) # e.side
  BY DEF Event, Sides, Other
<1>2. CASE e.type = "market"
  <2>1. hasLiquidity(v.book, e.side)
    BY <1>1, FirstIsBest DEF GoodBook, hasLiquidity
  <2> QED BY <1>2, <2>1 DEF Judge, Verdict
<1>3. CASE e.type = "limit"
  <2> DEFINE book == AddLimit(v.book, e)
             levels == book[Other(e.side)]
  <2>1. GoodBook(book) /\ Rests(levels, q, x)
    BY <1>1, AddsLimit
  <2> HIDE DEF book, levels
  <2>2. GoodLevels(levels, Other(e.side))
    BY <1>1, <2>1 DEF GoodBook, levels
  <2>3. /\ levels # <<>> /\ q \in Nat /\ levels[1].price \in Nat
        /\ levels[1].price = q \/ Prefers(e.side, levels[1].price, q)
    BY <1>1, <2>1, <2>2, FirstIsBest
  <2>4. Crosses(e.side, e.price, levels[1].price)
    BY <1>1, <1>3, <2>3 DEF Crosses, Prefers, Sides
  <2>5. shouldFill(book, e)
    BY <2>3, <2>4 DEF shouldFill, hasLiquidity, levels
  <2> QED BY <1>3, <2>5 DEF Judge, book
<1> QED BY <1>1, <1>2, <1>3 DEF Types

---------------------------------------------------------------------------
(* The loop *)

Start == [book |-> EmptyBook, total |-> {}, correct |-> {}]

\* What a function must do to be the loop's first n turns.
Turns(f, events, n) ==
    f = [k \in 0..n |-> IF k = 0 THEN Start ELSE Judge(f[k-1], events[k])]

\* After n turns there is another.
LEMMA OneTurnMore ==
    ASSUME NEW events, NEW n \in Nat, NEW f, Turns(f, events, n)
    PROVE  \E g : Turns(g, events, n+1)
<1> DEFINE last == Judge(f[n], events[n+1])
           g == [k \in 0..(n+1) |-> IF k <= n THEN f[k] ELSE last]
<1>1. f = [k \in 0..n |-> IF k = 0 THEN Start ELSE Judge(f[k-1], events[k])]
  BY DEF Turns
<1>2. /\ \A k \in 0..n : k \in 0..(n+1) /\ k <= n /\ g[k] = f[k]
      /\ n+1 \in 0..(n+1) /\ ~(n+1 <= n) /\ g[n+1] = last
  BY DEF g
<1>3. \A k \in 0..n : f[k] = IF k = 0 THEN Start ELSE Judge(f[k-1], events[k])
  BY <1>1, Zenon
<1>4. ASSUME NEW k \in 0..(n+1)
      PROVE  g[k] = IF k = 0 THEN Start ELSE Judge(g[k-1], events[k])
  <2>1. CASE k = 0
    <3>1. k \in 0..n
      BY <2>1
    <3> QED BY <1>2, <1>3, <2>1, <3>1
  <2>2. CASE k \in 1..n
    <3>1. k \in 0..n /\ k-1 \in 0..n /\ k # 0
      BY <2>2
    <3>2. g[k] = f[k] /\ g[k-1] = f[k-1]
      BY <1>2, <3>1
    <3>3. f[k] = Judge(f[k-1], events[k])
      BY <1>3, <3>1
    <3> QED BY <3>1, <3>2, <3>3
  <2>3. CASE k = n+1
    <3>1. n \in 0..n /\ k # 0 /\ k-1 = n
      BY <2>3
    <3>2. g[k] = last /\ g[k-1] = f[n]
      BY <1>2, <2>3, <3>1
    <3> QED BY <2>3, <3>1, <3>2 DEF last
  <2>4. k = 0 \/ k \in 1..n \/ k = n+1
    OBVIOUS
  <2> QED BY <2>1, <2>2, <2>3, <2>4
<1>5. g = [k \in 0..(n+1) |-> g[k]]
  BY DEF g
<1> HIDE DEF g
<1>6. g = [k \in 0..(n+1) |-> IF k = 0 THEN Start ELSE Judge(g[k-1], events[k])]
  BY <1>4, <1>5
<1> QED BY <1>6 DEF Turns

\* The loop is defined: it starts with an empty book, and each turn judges the next event.
LEMMA LoopTurns ==
    ASSUME NEW events, Len(events) \in Nat
    PROVE  /\ Replay(events)[0] = Start
           /\ \A n \in 1..Len(events) : Replay(events)[n] = Judge(Replay(events)[n-1], events[n])
<1> DEFINE S == {n \in Nat : \E f : Turns(f, events, n)}
<1>1. 0 \in S
  <2>1. Turns([k \in 0..0 |-> Start], events, 0)
    <3>1. \A k \in 0..0 : k = 0
      OBVIOUS
    <3> QED BY <3>1 DEF Turns
  <2> QED BY <2>1
<1>2. ASSUME NEW n \in Nat, n \in S PROVE n+1 \in S
  BY <1>2, OneTurnMore
<1> HIDE DEF S
<1>3. Len(events) \in S
  BY <1>1, <1>2, NatInductionOnSet
<1>4. \E f : Turns(f, events, Len(events))
  BY <1>3 DEF S
<1> DEFINE v == Replay(events)
<1>5. v = CHOOSE f : f = [k \in 0..Len(events) |->
                             IF k = 0 THEN [book |-> EmptyBook, total |-> {}, correct |-> {}]
                             ELSE Judge(f[k-1], events[k])]
  BY DEF Replay
<1> HIDE DEF v
<1>6. Turns(v, events, Len(events))
  BY <1>4, <1>5 DEF Turns, Start
<1>7. v = [k \in 0..Len(events) |-> IF k = 0 THEN Start ELSE Judge(v[k-1], events[k])]
  BY <1>6 DEF Turns
<1>8. \A k \in 0..Len(events) : v[k] = IF k = 0 THEN Start ELSE Judge(v[k-1], events[k])
  BY <1>7, Zenon
<1>9. 0 \in 0..Len(events) /\ \A n \in 1..Len(events) : n \in 0..Len(events) /\ n # 0
  OBVIOUS
<1>10. v[0] = Start /\ \A n \in 1..Len(events) : v[n] = Judge(v[n-1], events[n])
  BY <1>8, <1>9
<1> QED BY <1>10 DEF v

\* After any number of turns the book is good (validator.go:39-75).
LEMMA LoopKeepsBook ==
    ASSUME NEW events \in Seq(Event)
    PROVE  \A n \in 0..Len(events) : Replay(events)[n] \in Verdict /\ GoodBook(Replay(events)[n].book)
<1> DEFINE v == Replay(events)
           S == {n \in Nat : n <= Len(events) => v[n] \in Verdict /\ GoodBook(v[n].book)}
<1>1. Len(events) \in Nat /\ \A n \in 1..Len(events) : events[n] \in Event
  BY ElementOfSeq
<1>2. v[0] = Start /\ \A n \in 1..Len(events) : v[n] = Judge(v[n-1], events[n])
  BY <1>1, LoopTurns
<1> HIDE DEF v
<1>3. Start \in Verdict /\ GoodBook(Start.book)
  <2>1. \A T : <<>> \in Seq(T) /\ Len(<<>>) = 0
    BY EmptySeq
  <2>2. \A side \in Sides : EmptyBook[side] = <<>>
    BY DEF EmptyBook
  <2>3. EmptyBook \in [Sides -> Seq(Level)]
    BY <2>1 DEF EmptyBook
  <2>4. \A side \in Sides : GoodLevels(<<>>, side)
    BY <2>1 DEF GoodLevels
  <2> QED BY <2>2, <2>3, <2>4 DEF Start, Verdict, GoodBook
<1>4. 0 \in S
  BY <1>2, <1>3
<1>5. ASSUME NEW n \in Nat, n \in S PROVE n+1 \in S
  <2>1. ASSUME n+1 <= Len(events) PROVE v[n+1] \in Verdict /\ GoodBook(v[n+1].book)
    <3>1. n+1 \in 1..Len(events) /\ (n+1)-1 = n /\ n <= Len(events)
      BY <1>1, <2>1
    <3>2. v[n+1] = Judge(v[n], events[n+1]) /\ events[n+1] \in Event
      BY <1>1, <1>2, <3>1
    <3>3. v[n] \in Verdict /\ GoodBook(v[n].book)
      BY <1>5, <3>1
    <3> QED BY <3>2, <3>3, TurnOfLoop DEF Judged
  <2> QED BY <2>1
<1>6. \A n \in Nat : n \in S
  <2> HIDE DEF S
  <2> QED BY <1>4, <1>5, NatInductionOnSet
<1> QED BY <1>1, <1>6 DEF v

\* Turn n of the loop over a list.
LEMMA LoopJudges ==
    ASSUME NEW events \in Seq(Event), NEW n \in 1..Len(events)
    PROVE  /\ Replay(events)[n] = Judge(Replay(events)[n-1], events[n])
           /\ Judged(Replay(events)[n-1], events[n], Replay(events)[n])
           /\ Replay(events)[n-1] \in Verdict /\ GoodBook(Replay(events)[n-1].book)
           /\ events[n] \in Event
<1>1. Len(events) \in Nat /\ events[n] \in Event /\ n-1 \in 0..Len(events)
  BY ElementOfSeq
<1>2. Replay(events)[n] = Judge(Replay(events)[n-1], events[n])
  BY <1>1, LoopTurns
<1>3. Replay(events)[n-1] \in Verdict /\ GoodBook(Replay(events)[n-1].book)
  BY <1>1, LoopKeepsBook
<1> QED BY <1>1, <1>2, <1>3, TurnOfLoop

\* What is judged correct stays so.
LEMMA CorrectStays ==
    ASSUME NEW events \in Seq(Event), NEW m \in 1..Len(events), NEW x, x \in Replay(events)[m].correct
    PROVE  x \in Replay(events)[Len(events)].correct
<1> DEFINE v == Replay(events)
           S == {n \in Nat : m <= n /\ n <= Len(events) => x \in v[n].correct}
<1>1. Len(events) \in Nat
  OBVIOUS
<1>2. \A n \in 1..Len(events) : v[n-1].correct \subseteq v[n].correct
  BY LoopJudges DEF Judged
<1>3. x \in v[m].correct
  OBVIOUS
<1> HIDE DEF v
<1>4. 0 \in S
  OBVIOUS
<1>5. ASSUME NEW n \in Nat, n \in S PROVE n+1 \in S
  <2>1. ASSUME m <= n+1, n+1 <= Len(events) PROVE x \in v[n+1].correct
    <3>1. n+1 \in 1..Len(events) /\ (n+1)-1 = n /\ n <= Len(events)
      BY <1>1, <2>1
    <3>2. CASE m = n+1
      BY <1>3, <3>2
    <3>3. CASE m <= n
      <4>1. x \in v[n].correct
        BY <1>5, <3>1, <3>3
      <4>2. v[n].correct \subseteq v[n+1].correct
        BY <1>2, <3>1
      <4> QED BY <4>1, <4>2
    <3> QED BY <2>1, <3>2, <3>3
  <2> QED BY <2>1
<1>6. \A n \in Nat : n \in S
  <2> HIDE DEF S
  <2> QED BY <1>4, <1>5, NatInductionOnSet
<1> QED BY <1>1, <1>6 DEF v

\* A limit order rests until a cancel of its id.
LEMMA OrderRests ==
    ASSUME NEW events \in Seq(Event), NEW k \in 1..Len(events), NEW m \in 1..Len(events), k <= m,
           events[k].type = "limit",
           \A j \in 1..Len(events) : k < j /\ j <= m =>
              ~(events[j].type = "cancel" /\ events[j].id = events[k].id)
    PROVE  Rests(Replay(events)[m].book[events[k].side], events[k].price, events[k].id)
<1> DEFINE v == Replay(events)
           There(n) == Rests(v[n].book[events[k].side], events[k].price, events[k].id)
           S == {n \in Nat : k <= n /\ n <= m => There(n)}
<1>1. Len(events) \in Nat /\ events[k].side \in Sides
  <2>1. events[k] \in Event
    BY ElementOfSeq
  <2>2. events[k].side \in Sides
    BY <2>1 DEF Event
  <2>3. Len(events) \in Nat
    OBVIOUS
  <2> QED BY <2>2, <2>3
<1>2. There(k)
  BY LoopJudges DEF Judged
<1>3. ASSUME NEW n \in 1..Len(events), k < n, n <= m, There(n-1) PROVE There(n)
  <2>1. Judged(v[n-1], events[n], v[n])
    BY LoopJudges
  <2> HIDE DEF v
  <2> QED BY <1>1, <1>3, <2>1 DEF Judged
<1> HIDE DEF There
<1>4. 0 \in S
  OBVIOUS
<1>5. ASSUME NEW n \in Nat, n \in S PROVE n+1 \in S
  <2>1. ASSUME k <= n+1, n+1 <= m PROVE There(n+1)
    <3>1. n+1 \in 1..Len(events) /\ (n+1)-1 = n /\ n <= m
      BY <1>1, <2>1
    <3>2. CASE k = n+1
      BY <1>2, <3>2
    <3>3. CASE k <= n
      <4>1. There(n) /\ k < n+1
        BY <1>5, <3>1, <3>3
      <4> QED BY <1>3, <2>1, <3>1, <4>1
    <3> QED BY <2>1, <3>2, <3>3
  <2> QED BY <2>1
<1>6. \A n \in Nat : n \in S
  <2> HIDE DEF S
  <2> QED BY <1>4, <1>5, NatInductionOnSet
<1>7. There(m)
  BY <1>6
<1> QED BY <1>7 DEF There

---------------------------------------------------------------------------
(* The verdict on a fill list *)

\* No two events of a list have the same stamp.
Stamped(events) ==
    \A i, j \in 1..Len(events) : events[i].sentAt = events[j].sentAt => i = j

\* The same events, in the order of their stamps.
InOrderSent(events, sorted) ==
    /\ sorted \in Seq(Event) /\ Len(sorted) = Len(events)
    /\ \A i, j \in 1..Len(events) : i < j => sorted[i].sentAt < sorted[j].sentAt
    /\ \A i \in 1..Len(events) : \E j \in 1..Len(events) : sorted[j] = events[i]
    /\ \A j \in 1..Len(events) : \E i \in 1..Len(events) : sorted[j] = events[i]

\* Validate sorts by the stamps first (validator.go:32-34).
LEMMA ListIsSorted ==
    ASSUME NEW events \in Seq(Event), Stamped(events)
    PROVE  InOrderSent(events, Sort(events, LAMBDA e, f : e.sentAt < f.sentAt))
<1> DEFINE n == Len(events)
           k == [i \in 1..n |-> events[i].sentAt]
           c == CHOOSE p \in [DOMAIN events -> DOMAIN events] : \A i, j \in DOMAIN events : i < j =>
                   p[i] # p[j] /\ ~(events[p[j]].sentAt < events[p[i]].sentAt)
           out == [i \in DOMAIN events |-> events[c[i]]]
<1>1. out = Sort(events, LAMBDA e, f : e.sentAt < f.sentAt)
  BY DEF Sort
<1> HIDE DEF c, out
<1>2. n \in Nat /\ DOMAIN events = 1..n /\ \A i \in 1..n : events[i] \in Event
  BY ElementOfSeq
<1>3. \A i \in 1..n : events[i].sentAt \in Nat
  BY <1>2 DEF Event
<1>4. \A i, j \in 1..n : events[i].sentAt = events[j].sentAt => i = j
  BY DEF Stamped
<1>5. k \in [1..n -> Int] /\ \A i, j \in 1..n : k[i] = k[j] => i = j
  BY <1>3, <1>4
<1>6. \A i \in 1..n : k[i] = events[i].sentAt
  OBVIOUS
<1> HIDE DEF n, k
<1>7. PICK p \in [1..n -> 1..n] : \A i, j \in 1..n : i < j => p[i] # p[j] /\ k[p[i]] < k[p[j]]
  BY <1>2, <1>5, OrderOfKeys
<1>8. ASSUME NEW i \in 1..n, NEW j \in 1..n, i < j
      PROVE  p[i] # p[j] /\ ~(events[p[j]].sentAt < events[p[i]].sentAt)
  <2>1. p[i] \in 1..n /\ p[j] \in 1..n /\ p[i] # p[j] /\ k[p[i]] < k[p[j]]
    BY <1>7, <1>8
  <2>2. events[p[i]].sentAt < events[p[j]].sentAt
    BY <1>6, <2>1
  <2>3. events[p[i]].sentAt \in Nat /\ events[p[j]].sentAt \in Nat
    BY <1>3, <2>1
  <2> QED BY <2>1, <2>2, <2>3
<1>9. /\ c \in [DOMAIN events -> DOMAIN events]
      /\ \A i, j \in DOMAIN events : i < j =>
            c[i] # c[j] /\ ~(events[c[j]].sentAt < events[c[i]].sentAt)
  <2>1. \E q \in [DOMAIN events -> DOMAIN events] : \A i, j \in DOMAIN events : i < j =>
           q[i] # q[j] /\ ~(events[q[j]].sentAt < events[q[i]].sentAt)
    BY <1>2, <1>8
  <2> QED BY <2>1 DEF c
<1>10. c \in [1..n -> 1..n] /\ \A i, j \in 1..n : i < j => c[i] # c[j]
  BY <1>2, <1>9
<1>11. \A i \in 1..n : c[i] \in 1..n /\ out[i] = events[c[i]] /\ events[c[i]] \in Event
  BY <1>2, <1>10 DEF out
<1>12. out \in Seq(Event) /\ Len(out) = n
  <2>1. out \in [1..n -> Event]
    BY <1>2, <1>11 DEF out
  <2> QED BY <1>2, <2>1, FunctionIsSeq
<1>13. ASSUME NEW i \in 1..n, NEW j \in 1..n, i < j PROVE out[i].sentAt < out[j].sentAt
  <2>1. c[i] \in 1..n /\ c[j] \in 1..n /\ c[i] # c[j]
    BY <1>10, <1>13
  <2>2. ~(events[c[j]].sentAt < events[c[i]].sentAt)
    BY <1>2, <1>9, <1>13
  <2>3. /\ events[c[i]].sentAt \in Nat /\ events[c[j]].sentAt \in Nat
        /\ events[c[i]].sentAt # events[c[j]].sentAt
    BY <1>3, <1>4, <2>1
  <2>4. ASSUME NEW x \in Nat, NEW y \in Nat, x # y, ~(y < x) PROVE x < y
    BY <2>4
  <2>5. events[c[i]].sentAt < events[c[j]].sentAt
    BY <2>2, <2>3, <2>4
  <2>6. out[i] = events[c[i]] /\ out[j] = events[c[j]]
    BY <1>11
  <2> QED BY <2>5, <2>6
<1>14. \A i \in 1..n : \E j \in 1..n : out[j] = events[i]
  <2>1. ASSUME NEW i \in 1..n PROVE \E j \in 1..n : out[j] = events[i]
    <3>1. PICK j \in 1..n : c[j] = i
      BY <1>2, <1>10, OrderIsOnto
    <3>2. out[j] = events[c[j]]
      BY <1>11
    <3> QED BY <3>1, <3>2
  <2> QED BY <2>1
<1>15. InOrderSent(events, out)
  BY <1>11, <1>12, <1>13, <1>14 DEF InOrderSent, n
<1> QED BY <1>1, <1>15

\* For every list of events: the book of the replay has its best price first on each side,
\* and every level of it offers an order (orderbook.go:29-86, validator.go:31-75).
THEOREM ReplayKeepsBestFirst ==
    ASSUME NEW events \in Seq(Event), Stamped(events)
    PROVE  GoodBook(Validate(events).book)
<1> DEFINE sorted == Sort(events, LAMBDA e, f : e.sentAt < f.sentAt)
<1>1. Validate(events) = Replay(sorted)[Len(events)]
  BY DEF Validate
<1>2. InOrderSent(events, sorted)
  BY ListIsSorted
<1> HIDE DEF sorted
<1>3. sorted \in Seq(Event) /\ Len(events) = Len(sorted) /\ Len(events) \in 0..Len(sorted)
  BY <1>2 DEF InOrderSent
<1> QED BY <1>1, <1>3, LoopKeepsBook

\* For every list of events: a fill is judged correct if a limit order of the other side
\* that it crosses is on the list, was sent before it, and no cancel of that order's id was
\* sent between the two (validator.go:31-105).
THEOREM CrossingFillIsCorrect ==
    ASSUME NEW events \in Seq(Event), Stamped(events),
           NEW i \in 1..Len(events), events[i].filled, events[i].type # "cancel",
           NEW k \in 1..Len(events), events[k].type = "limit",
           events[k].side = Other(events[i].side), events[k].sentAt < events[i].sentAt,
           events[i].type = "market" \/ Crosses(events[i].side, events[i].price, events[k].price),
           \A j \in 1..Len(events) :
              ~ /\ events[j].type = "cancel" /\ events[j].id = events[k].id
                /\ events[j].sentAt \in events[k].sentAt..events[i].sentAt
    PROVE  events[i].sentAt \in Validate(events).correct
<1> DEFINE sorted == Sort(events, LAMBDA e, f : e.sentAt < f.sentAt)
           v == Replay(sorted)
<1>1. Validate(events) = v[Len(events)]
  BY DEF Validate
<1>2. InOrderSent(events, sorted)
  BY ListIsSorted
<1> HIDE DEF sorted
<1>3. /\ sorted \in Seq(Event) /\ Len(events) = Len(sorted) /\ Len(events) \in Nat
      /\ \A a \in 1..Len(events) : sorted[a].sentAt \in Nat
  <2>1. sorted \in Seq(Event) /\ Len(events) = Len(sorted)
    BY <1>2 DEF InOrderSent
  <2>2. \A a \in 1..Len(events) : sorted[a] \in Event
    BY <2>1, ElementOfSeq
  <2> QED BY <2>1, <2>2 DEF Event
<1>4. PICK a \in 1..Len(events) : sorted[a] = events[k]
  BY <1>2 DEF InOrderSent
<1>5. PICK b \in 1..Len(events) : sorted[b] = events[i]
  BY <1>2 DEF InOrderSent
<1>6. a < b
  <2>1. b < a => sorted[b].sentAt < sorted[a].sentAt
    BY <1>2 DEF InOrderSent
  <2>2. sorted[a].sentAt < sorted[b].sentAt
    BY <1>4, <1>5
  <2>3. sorted[a].sentAt \in Nat /\ sorted[b].sentAt \in Nat
    BY <1>3
  <2>4. a # b /\ ~(b < a)
    BY <2>1, <2>2, <2>3
  <2> QED BY <2>4
<1>7. b-1 \in 1..Len(sorted) /\ a <= b-1 /\ a \in 1..Len(sorted) /\ b \in 1..Len(sorted)
  BY <1>3, <1>6
<1>8. ASSUME NEW j \in 1..Len(sorted), a < j, j <= b-1
      PROVE  ~(sorted[j].type = "cancel" /\ sorted[j].id = sorted[a].id)
  <2>1. PICK e \in 1..Len(events) : sorted[j] = events[e]
    BY <1>2, <1>3 DEF InOrderSent
  <2>2. j \in 1..Len(events) /\ j < b
    BY <1>3, <1>7, <1>8
  <2>3. sorted[a].sentAt < sorted[j].sentAt /\ sorted[j].sentAt < sorted[b].sentAt
    BY <1>2, <1>8, <2>2 DEF InOrderSent
  <2>4. sorted[a].sentAt \in Nat /\ sorted[j].sentAt \in Nat /\ sorted[b].sentAt \in Nat
    BY <1>3, <2>2
  <2>5. sorted[j].sentAt \in sorted[a].sentAt..sorted[b].sentAt
    <3>1. \A lo, mid, hi \in Nat : lo < mid /\ mid < hi => mid \in lo..hi
      OBVIOUS
    <3> QED BY <2>3, <2>4, <3>1
  <2>6. events[e].sentAt \in events[k].sentAt..events[i].sentAt
    BY <1>4, <1>5, <2>1, <2>5
  <2> QED BY <1>4, <2>1, <2>6
<1>9. Rests(v[b-1].book[sorted[a].side], sorted[a].price, sorted[a].id)
  BY <1>3, <1>4, <1>7, <1>8, OrderRests
<1>10. /\ v[b] = Judge(v[b-1], sorted[b]) /\ v[b-1] \in Verdict /\ GoodBook(v[b-1].book)
       /\ sorted[b] \in Event
  BY <1>3, <1>7, LoopJudges
<1>11. sorted[b].sentAt \in v[b].correct
  <2> HIDE DEF v
  <2>1. Rests(v[b-1].book[Other(sorted[b].side)], events[k].price, events[k].id)
    BY <1>4, <1>5, <1>9
  <2>2. /\ sorted[b].filled /\ sorted[b].type # "cancel"
        /\ sorted[b].type = "market" \/ Crosses(sorted[b].side, sorted[b].price, events[k].price)
    BY <1>5
  <2>3. sorted[b].sentAt \in Judge(v[b-1], sorted[b]).correct
    BY <1>10, <2>1, <2>2, FillIsCorrect
  <2> QED BY <1>10, <2>3
<1>12. sorted[b].sentAt \in v[Len(sorted)].correct
  BY <1>3, <1>7, <1>11, CorrectStays
<1> QED BY <1>1, <1>3, <1>5, <1>12

---------------------------------------------------------------------------
(* Nothing rests but what was put there *)

\* Every element of a list is on it once.
Once(s) == \A a, b \in 1..Len(s) : s[a] = s[b] => a = b

\* No level lists an order twice.
OnceEach(levels) == \A i \in 1..Len(levels) : Once(levels[i].orders)

\* What comes of putting an order at a price: nothing else comes.
AddsOnly(levels, price, id, out) ==
    /\ \A p, x : Rests(out, p, x) => Rests(levels, p, x) \/ (p = price /\ x = id)
    /\ OnceEach(levels) /\ (\A p : ~Rests(levels, p, id)) => OnceEach(out)

\* What comes of a cancel: nothing comes, and of an order that rests once nothing is left.
TakesOnly(levels, id, out) ==
    /\ \A p, x : Rests(out, p, x) => Rests(levels, p, x)
    /\ OnceEach(levels) => OnceEach(out)
    /\ OnceEach(levels) /\ (\A p, q : Rests(levels, p, id) /\ Rests(levels, q, id) => p = q)
          => \A p : ~Rests(out, p, id)

\* RemoveFirst adds nothing, and takes away what was there once.
LEMMA RemovedOnly ==
    ASSUME NEW S, NEW s \in Seq(S), NEW e, Contains(s, e)
    PROVE  /\ \A x : Contains(RemoveFirst(s, e), x) => Contains(s, x)
           /\ Once(s) => Once(RemoveFirst(s, e)) /\ ~Contains(RemoveFirst(s, e), e)
<1> DEFINE I == {i \in 1..Len(s) : s[i] = e}
           m == Len(s) - 1
<1>1. I \in SUBSET (1..Len(s)) /\ I # {} /\ Len(s) \in Nat
  BY DEF Contains
<1>2. SelectInSeq(s, LAMBDA v : v = e) = Min(I)
  BY <1>1 DEF SelectInSeq
<1>3. PICK k \in 1..Len(s) : k = Min(I) /\ s[k] = e
  <2>1. Min(I) \in I
    BY <1>1, FirstIndex
  <2> QED BY <2>1
<1> DEFINE out == RemoveAt(s, k)
<1>4. RemoveFirst(s, e) = out
  BY <1>2, <1>3 DEF RemoveFirst
<1>5. Len(out) = m /\ \A j \in 1..m : out[j] = IF j < k THEN s[j] ELSE s[j+1]
  BY RemovedAt
<1> HIDE DEF out
<1>6. ASSUME NEW j \in 1..m
      PROVE  \E i \in 1..Len(s) : i # k /\ i = (IF j < k THEN j ELSE j+1) /\ out[j] = s[i]
  <2>1. CASE j < k
    <3>1. j \in 1..Len(s) /\ j # k
      BY <1>1, <2>1
    <3> QED BY <1>5, <2>1, <3>1
  <2>2. CASE ~(j < k)
    <3>1. j+1 \in 1..Len(s) /\ j+1 # k
      BY <1>1, <2>2
    <3> QED BY <1>5, <2>2, <3>1
  <2> QED BY <2>1, <2>2
<1>7. ASSUME NEW x, Contains(out, x) PROVE \E i \in 1..Len(s) : i # k /\ s[i] = x
  <2>1. PICK j \in 1..m : out[j] = x
    BY <1>5, <1>7 DEF Contains
  <2> QED BY <1>6, <2>1
<1>8. ASSUME Once(s), NEW a \in 1..m, NEW b \in 1..m, out[a] = out[b] PROVE a = b
  <2>1. PICK i \in 1..Len(s) : i = (IF a < k THEN a ELSE a+1) /\ out[a] = s[i]
    BY <1>6
  <2>2. PICK j \in 1..Len(s) : j = (IF b < k THEN b ELSE b+1) /\ out[b] = s[j]
    BY <1>6
  <2>3. i = j
    BY <1>8, <2>1, <2>2 DEF Once
  <2> QED BY <1>1, <2>1, <2>2, <2>3
<1>9. \A x : Contains(out, x) => Contains(s, x)
  BY <1>7 DEF Contains
<1>10. Once(s) => ~Contains(out, e)
  BY <1>3, <1>7 DEF Once
<1>11. Once(s) => Once(out)
  BY <1>5, <1>8 DEF Once
<1> QED BY <1>4, <1>9, <1>10, <1>11

\* The level of a price is one.
LEMMA LevelOfPrice ==
    ASSUME NEW side \in Sides, NEW levels, GoodLevels(levels, side),
           NEW i \in 1..Len(levels), NEW j \in 1..Len(levels), levels[i].price = levels[j].price
    PROVE  i = j
<1>1. Len(levels) \in Nat /\ levels[i].price \in Nat
  BY LevelTypes DEF GoodLevels
<1>2. ~Prefers(Other(side), levels[i].price, levels[i].price)
  <2>1. Other(side) \in Sides
    BY <1>1, PreferenceIsOrder
  <2> QED BY <1>1, <2>1, PreferenceIsOrder
<1>3. ~(i < j) /\ ~(j < i)
  BY <1>2 DEF GoodLevels
<1> QED BY <1>1, <1>3

\* An order that joins the level of its price (orderbook.go:57-62).
LEMMA JoinsOnly ==
    ASSUME NEW side \in Sides, NEW levels, GoodLevels(levels, side), NEW id \in Nat,
           NEW i \in 1..Len(levels), NEW more, more = Append(levels[i].orders, id),
           NEW l, l = [levels[i] EXCEPT !.orders = more],
           NEW out, out = [levels EXCEPT ![i] = l]
    PROVE  AddsOnly(levels, levels[i].price, id, out)
<1>1. levels \in Seq(Level) /\ Len(levels) \in Nat
  BY DEF GoodLevels
<1>2. levels[i] \in Level /\ levels[i].orders \in Seq(Nat) /\ levels[i].price \in Nat
  BY <1>1, LevelTypes
<1> DEFINE n == Len(levels[i].orders)
<1>3. /\ n \in Nat /\ more \in Seq(Nat) /\ Len(more) = n + 1
      /\ \A k \in 1..n : more[k] = levels[i].orders[k]
      /\ more[n+1] = id
  BY <1>2, AppendProperties
<1>4. l \in Level /\ l.price = levels[i].price /\ l.orders = more
  BY <1>2, <1>3 DEF Level
<1>5. /\ Len(out) = Len(levels)
      /\ \A j \in 1..Len(levels) : out[j] = IF j = i THEN l ELSE levels[j]
  BY <1>1, <1>4, ExceptSeq
<1> HIDE DEF n
<1>6. \A k \in 1..(n+1) : k \in 1..n \/ k = n+1
  BY <1>3
<1>7. \A x : Contains(more, x) => Contains(levels[i].orders, x) \/ x = id
  BY <1>3, <1>6 DEF Contains, n
<1>8. ASSUME NEW p, NEW x, Rests(out, p, x)
      PROVE  Rests(levels, p, x) \/ (p = levels[i].price /\ x = id)
  <2>1. PICK j \in 1..Len(levels) : out[j].price = p /\ Contains(out[j].orders, x)
    BY <1>5, <1>8 DEF Rests
  <2>2. CASE j = i
    BY <1>4, <1>5, <1>7, <2>1, <2>2 DEF Rests
  <2>3. CASE j # i
    BY <1>5, <2>1, <2>3 DEF Rests
  <2> QED BY <2>2, <2>3
<1>9. ASSUME OnceEach(levels), \A p : ~Rests(levels, p, id) PROVE OnceEach(out)
  <2>1. ~Contains(levels[i].orders, id)
    BY <1>9 DEF Rests
  <2>2. \A k \in 1..n : more[k] # id
    BY <1>3, <2>1 DEF Contains, n
  <2>3. \A a, b \in 1..n : more[a] = more[b] => a = b
    BY <1>3, <1>9 DEF OnceEach, Once, n
  <2>4. Once(more)
    <3>1. Len(more) = n + 1 /\ more[n+1] = id
      BY <1>3, <1>6
    <3>2. ASSUME NEW a \in 1..Len(more), NEW b \in 1..Len(more), more[a] = more[b] PROVE a = b
      BY <2>2, <2>3, <3>1, <3>2, <1>6
    <3> QED BY <3>2 DEF Once
  <2>5. \A j \in 1..Len(levels) : Once(levels[j].orders)
    BY <1>9 DEF OnceEach
  <2>6. \A j \in 1..Len(levels) : Once(out[j].orders)
    BY <1>4, <1>5, <2>4, <2>5
  <2> QED BY <1>5, <2>6 DEF OnceEach
<1> QED BY <1>8, <1>9 DEF AddsOnly

\* A level of a new price, sorted in (orderbook.go:63-70).
LEMMA SortsOnly ==
    ASSUME NEW side \in Sides, NEW levels, GoodLevels(levels, side), NEW id \in Nat,
           NEW price \in Nat, \A i \in 1..Len(levels) : levels[i].price # price
    PROVE  AddsOnly(levels, price, id,
                    Sort(Append(levels, [price |-> price, orders |-> <<id>>]),
                         LAMBDA l, m : Prefers(Other(side), l.price, m.price)))
<1> DEFINE new == [price |-> price, orders |-> <<id>>]
           s == Append(levels, new)
           n == Len(levels) + 1
           c == CHOOSE p \in [DOMAIN s -> DOMAIN s] : \A i, j \in DOMAIN s : i < j =>
                   p[i] # p[j] /\ ~Prefers(Other(side), s[p[j]].price, s[p[i]].price)
           out == [i \in DOMAIN s |-> s[c[i]]]
<1>1. out = Sort(s, LAMBDA l, m : Prefers(Other(side), l.price, m.price))
  BY DEF Sort
<1>2. /\ new \in Level /\ new.price = price /\ new.orders = <<id>> /\ new.orders # <<>>
      /\ Once(new.orders) /\ \A x : Contains(new.orders, x) => x = id
  BY DEF Level, Contains, Once
<1>3. Len(levels) \in Nat /\ n \in Nat
  BY DEF GoodLevels
<1> HIDE DEF new
<1> HIDE DEF c, out
<1>4. /\ Mixed(s, n)
      /\ \A i \in 1..Len(levels) : i \in 1..n /\ s[i] = levels[i]
      /\ n \in 1..n /\ s[n] = new
  <2>1. IsNew(levels, new)
    BY <1>2 DEF IsNew
  <2> QED BY <2>1, LevelAppended
<1>5. \A i \in 1..n : i \in 1..Len(levels) \/ i = n
  BY <1>3
<1> HIDE DEF s, n
<1>6. DOMAIN s = 1..n
  BY <1>4 DEF Mixed
<1>7. c \in [1..n -> 1..n]
  <2>1. \E p \in [1..n -> 1..n] : BestFirst(s, side, p)
    BY <1>3, <1>4, LevelsHaveOrder
  <2>2. \E p \in [DOMAIN s -> DOMAIN s] : \A i, j \in DOMAIN s : i < j =>
           p[i] # p[j] /\ ~Prefers(Other(side), s[p[j]].price, s[p[i]].price)
    BY <1>6, <2>1 DEF BestFirst
  <2> QED BY <1>6, <2>2 DEF c
<1>8. Len(out) = n /\ \A j \in 1..n : c[j] \in 1..n /\ out[j] = s[c[j]]
  <2>1. out = [i \in 1..n |-> s[c[i]]]
    BY <1>6 DEF out
  <2>2. \A i \in 1..n : s[i] \in Level
    BY <1>4, ElementOfSeq DEF Mixed
  <2>3. out \in [1..n -> Level]
    BY <1>7, <2>1, <2>2
  <2>4. Len(out) = n
    BY <1>3, <2>3, FunctionIsSeq
  <2> QED BY <1>7, <2>1, <2>4
<1>9. ASSUME NEW j \in 1..n
      PROVE  (\E i \in 1..Len(levels) : out[j] = levels[i]) \/ out[j] = new
  BY <1>4, <1>5, <1>8
<1>10. ASSUME NEW p, NEW x, Rests(out, p, x)
       PROVE  Rests(levels, p, x) \/ (p = price /\ x = id)
  <2>1. PICK j \in 1..n : out[j].price = p /\ Contains(out[j].orders, x)
    BY <1>8, <1>10 DEF Rests
  <2> QED BY <1>2, <1>9, <2>1 DEF Rests
<1>11. OnceEach(levels) => OnceEach(out)
  BY <1>2, <1>8, <1>9 DEF OnceEach
<1>12. AddsOnly(levels, price, id, out)
  BY <1>10, <1>11 DEF AddsOnly
<1> QED BY <1>1, <1>12 DEF s, new

\* Putting an order on a side puts nothing else there (orderbook.go:56-71).
LEMMA InsertsOnly ==
    ASSUME NEW side \in Sides, NEW levels, GoodLevels(levels, side), NEW id \in Nat, NEW price \in Nat
    PROVE  AddsOnly(levels, price, id, insertLevel(levels, id, price, side))
<1> DEFINE I == {i \in 1..Len(levels) : levels[i].price = price}
           i == SelectInSeq(levels, LAMBDA l : l.price = price)
           joined == [levels EXCEPT ![i].orders = Append(@, id)]
           sorted == Sort(Append(levels, [price |-> price, orders |-> <<id>>]),
                          LAMBDA l, m : Prefers(Other(side), l.price, m.price))
<1>1. insertLevel(levels, id, price, side) = IF i # 0 THEN joined ELSE sorted
  BY DEF insertLevel
<1>2. i = IF I # {} THEN Min(I) ELSE 0
  BY DEF SelectInSeq
<1>3. Len(levels) \in Nat /\ I \in SUBSET (1..Len(levels))
  BY DEF GoodLevels
<1>4. I # {} => Min(I) \in I
  BY <1>3, FirstIndex
<1>5. i # 0 => i \in 1..Len(levels) /\ levels[i].price = price
  <2> HIDE DEF i
  <2> QED BY <1>2, <1>4
<1>6. i = 0 => \A j \in 1..Len(levels) : levels[j].price # price
  <2>1. \A k \in I : k # 0
    BY <1>3
  <2> HIDE DEF i
  <2>2. i = 0 => I = {}
    <3> HIDE DEF I
    <3> QED BY <1>2, <1>4, <2>1
  <2> QED BY <2>2
<1> HIDE DEF i
<1>7. CASE i # 0
  <2> DEFINE more == Append(levels[i].orders, id)
             l == [levels[i] EXCEPT !.orders = more]
             out == [levels EXCEPT ![i] = l]
  <2>1. joined = out
    OBVIOUS
  <2>2. AddsOnly(levels, price, id, out)
    <3> HIDE DEF l, more, out
    <3>1. /\ more = Append(levels[i].orders, id) /\ l = [levels[i] EXCEPT !.orders = more]
          /\ out = [levels EXCEPT ![i] = l]
      BY DEF out, l, more
    <3>2. AddsOnly(levels, levels[i].price, id, out)
      BY <1>5, <1>7, <3>1, JoinsOnly
    <3> QED BY <1>5, <1>7, <3>2
  <2> HIDE DEF out, joined
  <2> QED BY <1>1, <1>7, <2>1, <2>2
<1>8. CASE i = 0
  <2>1. AddsOnly(levels, price, id, sorted)
    BY <1>6, <1>8, SortsOnly
  <2> HIDE DEF joined, sorted
  <2> QED BY <1>1, <1>8, <2>1
<1> QED BY <1>7, <1>8

\* The level that offered only the cancelled order goes (orderbook.go:78-80).
LEMMA GoesOnly ==
    ASSUME NEW side \in Sides, NEW levels, GoodLevels(levels, side), NEW id,
           NEW i \in 1..Len(levels), Contains(levels[i].orders, id)
    PROVE  TakesOnly(levels, id, RemoveAt(levels, i))
<1> DEFINE out == RemoveAt(levels, i)
           m == Len(levels) - 1
<1>1. levels \in Seq(Level) /\ Len(levels) \in Nat
  BY DEF GoodLevels
<1>2. Len(out) = m /\ \A j \in 1..m : out[j] = IF j < i THEN levels[j] ELSE levels[j+1]
  BY <1>1, RemovedAt
<1> HIDE DEF out
<1>3. ASSUME NEW j \in 1..m PROVE \E k \in 1..Len(levels) : k # i /\ out[j] = levels[k]
  <2>1. CASE j < i
    <3>1. j \in 1..Len(levels) /\ j # i
      BY <1>1, <2>1
    <3> QED BY <1>2, <2>1, <3>1
  <2>2. CASE ~(j < i)
    <3>1. j+1 \in 1..Len(levels) /\ j+1 # i
      BY <1>1, <2>2
    <3> QED BY <1>2, <2>2, <3>1
  <2> QED BY <2>1, <2>2
<1>4. ASSUME NEW p, NEW x, Rests(out, p, x)
      PROVE  \E k \in 1..Len(levels) : k # i /\ levels[k].price = p /\ Contains(levels[k].orders, x)
  <2>1. PICK j \in 1..m : out[j].price = p /\ Contains(out[j].orders, x)
    BY <1>2, <1>4 DEF Rests
  <2> QED BY <1>3, <2>1
<1>5. \A p, x : Rests(out, p, x) => Rests(levels, p, x)
  BY <1>4 DEF Rests
<1>6. OnceEach(levels) => OnceEach(out)
  BY <1>2, <1>3 DEF OnceEach
<1>7. ASSUME \A p, q : Rests(levels, p, id) /\ Rests(levels, q, id) => p = q, NEW p, Rests(out, p, id)
      PROVE  FALSE
  <2>1. PICK k \in 1..Len(levels) : k # i /\ levels[k].price = p /\ Contains(levels[k].orders, id)
    BY <1>4, <1>7
  <2>2. levels[k].price = levels[i].price
    BY <1>7, <2>1 DEF Rests
  <2> QED BY <2>1, <2>2, LevelOfPrice
<1> QED BY <1>5, <1>6, <1>7 DEF TakesOnly, out

\* The cancelled order goes from a level that offers others (orderbook.go:77-81).
LEMMA StaysOnly ==
    ASSUME NEW side \in Sides, NEW levels, GoodLevels(levels, side), NEW id,
           NEW i \in 1..Len(levels), Contains(levels[i].orders, id),
           NEW l, l = [levels[i] EXCEPT !.orders = RemoveFirst(levels[i].orders, id)],
           NEW out, out = [levels EXCEPT ![i] = l]
    PROVE  TakesOnly(levels, id, out)
<1>1. levels \in Seq(Level) /\ Len(levels) \in Nat
  BY DEF GoodLevels
<1>2. levels[i] \in Level /\ levels[i].orders \in Seq(Nat)
  BY <1>1, LevelTypes
<1> DEFINE fewer == RemoveFirst(levels[i].orders, id)
<1>3. /\ fewer \in Seq(Nat)
      /\ \A x : Contains(fewer, x) => Contains(levels[i].orders, x)
      /\ Once(levels[i].orders) => Once(fewer) /\ ~Contains(fewer, id)
  BY <1>2, RemovedFirst, RemovedOnly
<1>4. l.price = levels[i].price /\ l.orders = fewer /\ l \in Level
  BY <1>2, <1>3 DEF Level
<1> HIDE DEF fewer
<1>5. Len(out) = Len(levels) /\ \A j \in 1..Len(levels) : out[j] = IF j = i THEN l ELSE levels[j]
  BY <1>1, <1>4, ExceptSeq
<1>6. \A j \in 1..Len(levels) : /\ out[j].price = levels[j].price
                                /\ \A x : Contains(out[j].orders, x) => Contains(levels[j].orders, x)
  BY <1>3, <1>4, <1>5
<1>7. \A p, x : Rests(out, p, x) => Rests(levels, p, x)
  BY <1>5, <1>6 DEF Rests
<1>8. OnceEach(levels) => OnceEach(out)
  BY <1>3, <1>4, <1>5 DEF OnceEach
<1>9. ASSUME OnceEach(levels), \A p, q : Rests(levels, p, id) /\ Rests(levels, q, id) => p = q,
             NEW p, Rests(out, p, id)
      PROVE  FALSE
  <2>1. PICK j \in 1..Len(levels) : out[j].price = p /\ Contains(out[j].orders, id)
    BY <1>5, <1>9 DEF Rests
  <2>2. Rests(levels, levels[j].price, id) /\ Rests(levels, levels[i].price, id)
    BY <1>6, <2>1 DEF Rests
  <2>3. j = i
    BY <1>9, <2>2, LevelOfPrice
  <2>4. ~Contains(fewer, id)
    BY <1>3, <1>9 DEF OnceEach
  <2> QED BY <1>4, <1>5, <2>1, <2>3, <2>4
<1> QED BY <1>7, <1>8, <1>9 DEF TakesOnly

\* A cancel leaves nothing of an order that rests once (orderbook.go:73-86).
LEMMA RemovesOnly ==
    ASSUME NEW side \in Sides, NEW levels, GoodLevels(levels, side), NEW id
    PROVE  TakesOnly(levels, id, removeFromLevels(levels, id))
<1> DEFINE I == {i \in 1..Len(levels) : Contains(levels[i].orders, id)}
           i == SelectInSeq(levels, LAMBDA l : Contains(l.orders, id))
           l == [levels[i] EXCEPT !.orders = RemoveFirst(levels[i].orders, id)]
           out == [levels EXCEPT ![i] = l]
<1>1. removeFromLevels(levels, id) =
         IF i = 0 THEN levels ELSE IF Len(levels[i].orders) = 1 THEN RemoveAt(levels, i) ELSE out
  BY DEF removeFromLevels
<1>2. i = IF I # {} THEN Min(I) ELSE 0
  BY DEF SelectInSeq
<1>3. Len(levels) \in Nat /\ I \in SUBSET (1..Len(levels))
  BY DEF GoodLevels
<1>4. I # {} => Min(I) \in I
  BY <1>3, FirstIndex
<1>5. i # 0 => i \in 1..Len(levels) /\ Contains(levels[i].orders, id)
  <2> HIDE DEF i
  <2> QED BY <1>2, <1>4
<1>6. i = 0 => \A p : ~Rests(levels, p, id)
  <2>1. \A k \in I : k # 0
    BY <1>3
  <2> HIDE DEF i
  <2>2. i = 0 => I = {}
    <3> HIDE DEF I
    <3> QED BY <1>2, <1>4, <2>1
  <2> QED BY <2>2 DEF Rests
<1> HIDE DEF i
<1>7. CASE i = 0
  BY <1>1, <1>6, <1>7 DEF TakesOnly
<1>8. CASE i # 0 /\ Len(levels[i].orders) = 1
  BY <1>1, <1>5, <1>8, GoesOnly
<1>9. CASE i # 0 /\ Len(levels[i].orders) # 1
  <2>1. TakesOnly(levels, id, out)
    <3> HIDE DEF l, out
    <3>1. /\ l = [levels[i] EXCEPT !.orders = RemoveFirst(levels[i].orders, id)]
          /\ out = [levels EXCEPT ![i] = l]
      BY DEF l, out
    <3> QED BY <1>5, <1>9, <3>1, StaysOnly
  <2> HIDE DEF out
  <2> QED BY <1>1, <1>9, <2>1
<1> QED BY <1>7, <1>8, <1>9

\* No side lists an order twice at one price.
BookOnce(book) == \A side \in Sides : OnceEach(book[side])

\* No side offers an order at two prices.
OnePrice(book, id) ==
    \A side \in Sides : \A p, q : Rests(book[side], p, id) /\ Rests(book[side], q, id) => p = q

\* What one turn of the loop puts into the book, and what it takes away.
TurnsOnly(book, e, out) ==
    /\ \A side \in Sides : \A p, x :
          Rests(out[side], p, x) =>
             \/ Rests(book[side], p, x)
             \/ e.type = "limit" /\ side = e.side /\ p = e.price /\ x = e.id
    /\ BookOnce(book) /\ (e.type = "limit" => \A p : ~Rests(book[e.side], p, e.id)) => BookOnce(out)
    /\ e.type = "cancel" /\ BookOnce(book) /\ OnePrice(book, e.id) =>
          \A side \in Sides : \A p : ~Rests(out[side], p, e.id)

\* A turn of the loop rests a limit order, and a cancel takes one away (validator.go:39-75).
LEMMA TurnAddsOnly ==
    ASSUME NEW v \in Verdict, GoodBook(v.book), NEW e \in Event
    PROVE  TurnsOnly(v.book, e, Judge(v, e).book)
<1> DEFINE book == v.book
           out == Judge(v, e).book
<1>1. /\ e.side \in Sides /\ e.price \in Nat /\ e.id \in Nat /\ e.type \in Types
      /\ book \in [Sides -> Seq(Level)] /\ \A side \in Sides : GoodLevels(book[side], side)
      /\ v = [book |-> v.book, total |-> v.total, correct |-> v.correct]
  BY DEF Event, Verdict, GoodBook
<1>2. CASE e.type = "limit"
  <2> DEFINE put == insertLevel(book[e.side], e.id, e.price, e.side)
  <2>1. out = [book EXCEPT ![e.side] = put]
    BY <1>2 DEF Judge, AddLimit
  <2>2. AddsOnly(book[e.side], e.price, e.id, put)
    BY <1>1, InsertsOnly
  <2> HIDE DEF put, book, out
  <2>3. \A side \in Sides : out[side] = IF side = e.side THEN put ELSE book[side]
    BY <1>1, <2>1
  <2>4. ASSUME NEW side \in Sides, NEW p, NEW x, Rests(out[side], p, x)
        PROVE  Rests(book[side], p, x) \/ (side = e.side /\ p = e.price /\ x = e.id)
    BY <2>2, <2>3, <2>4 DEF AddsOnly
  <2>5. ASSUME BookOnce(book), \A p : ~Rests(book[e.side], p, e.id) PROVE BookOnce(out)
    BY <1>1, <2>2, <2>3, <2>5 DEF AddsOnly, BookOnce
  <2>6. TurnsOnly(book, e, out)
    BY <1>2, <2>4, <2>5 DEF TurnsOnly
  <2> QED BY <2>6 DEF book, out
<1>3. CASE e.type = "market"
  <2>1. out = book
    BY <1>1, <1>3 DEF Judge
  <2> HIDE DEF book, out
  <2>2. TurnsOnly(book, e, out)
    BY <1>3, <2>1 DEF TurnsOnly
  <2> QED BY <2>2 DEF book, out
<1>4. CASE e.type = "cancel"
  <2>1. out = RemoveOrder(book, e.id)
    BY <1>1, <1>4 DEF Judge
  <2> HIDE DEF book, out
  <2>2. \A side \in Sides : TakesOnly(book[side], e.id, out[side])
    <3>1. \A side \in Sides : TakesOnly(book[side], e.id, removeFromLevels(book[side], e.id))
      BY <1>1, RemovesOnly
    <3>2. \A side \in Sides : out[side] = removeFromLevels(book[side], e.id)
      BY <2>1 DEF RemoveOrder
    <3> QED BY <3>1, <3>2
  <2>3. \A side \in Sides : \A p, x : Rests(out[side], p, x) => Rests(book[side], p, x)
    BY <2>2 DEF TakesOnly
  <2>4. BookOnce(book) => BookOnce(out)
    BY <2>2 DEF TakesOnly, BookOnce
  <2>5. ASSUME BookOnce(book), OnePrice(book, e.id), NEW side \in Sides, NEW p
        PROVE  ~Rests(out[side], p, e.id)
    <3>1. \A a, b : Rests(book[side], a, e.id) /\ Rests(book[side], b, e.id) => a = b
      BY <2>5 DEF OnePrice
    <3>2. OnceEach(book[side])
      BY <2>5 DEF BookOnce
    <3> QED BY <2>2, <3>1, <3>2 DEF TakesOnly
  <2>6. TurnsOnly(book, e, out)
    BY <1>4, <2>3, <2>4, <2>5 DEF TurnsOnly
  <2> QED BY <2>6 DEF book, out
<1> QED BY <1>1, <1>2, <1>3, <1>4 DEF Types

\* No two limit orders of a list have the same id.
OwnIds(events) ==
    \A j, k \in 1..Len(events) :
       events[j].type = "limit" /\ events[k].type = "limit" /\ events[j].id = events[k].id => j = k

\* Event k put an order on a side and, if ids differ, none of the next up to n cancels it.
Source(events, k, n, side, p, x) ==
    /\ events[k].type = "limit" /\ events[k].side = side
    /\ events[k].price = p /\ events[k].id = x
    /\ OwnIds(events) => \A j \in (k+1)..n : ~(events[j].type = "cancel" /\ events[j].id = x)

\* What rests after n events was put there by one of them.
Sourced(events, n, book) ==
    \A side \in Sides : \A p, x :
       Rests(book[side], p, x) => \E k \in 1..n : Source(events, k, n, side, p, x)

\* One event more.
LEMMA SourcedTurn ==
    ASSUME NEW events \in Seq(Event), NEW n \in 1..Len(events), NEW book, NEW out,
           Sourced(events, n-1, book), OwnIds(events) => BookOnce(book),
           TurnsOnly(book, events[n], out)
    PROVE  Sourced(events, n, out) /\ (OwnIds(events) => BookOnce(out))
<1> DEFINE e == events[n]
<1>1. Len(events) \in Nat /\ n \in Nat /\ e \in Event /\ e.side \in Sides
  <2>1. e \in Event
    BY ElementOfSeq
  <2> QED BY <2>1 DEF Event
<1>2. ASSUME NEW k \in 1..(n-1)
      PROVE  /\ k \in 1..n /\ k \in 1..Len(events) /\ k # n
             /\ \A j \in (k+1)..n : j = n \/ j \in (k+1)..(n-1)
  BY <1>1
<1>3. ASSUME NEW side \in Sides, NEW p, NEW x, Rests(book[side], p, x)
      PROVE  \E k \in 1..(n-1) : Source(events, k, n-1, side, p, x)
  BY <1>3 DEF Sourced
<1>4. ASSUME OwnIds(events), NEW id PROVE OnePrice(book, id)
  <2> SUFFICES ASSUME NEW side \in Sides, NEW p, NEW q, Rests(book[side], p, id), Rests(book[side], q, id)
               PROVE  p = q
    BY DEF OnePrice
  <2>1. PICK k \in 1..(n-1) : Source(events, k, n-1, side, p, id)
    BY <1>3
  <2>2. PICK j \in 1..(n-1) : Source(events, j, n-1, side, q, id)
    BY <1>3
  <2>3. k \in 1..Len(events) /\ j \in 1..Len(events)
    BY <1>2
  <2>4. /\ events[k].type = "limit" /\ events[k].price = p /\ events[k].id = id
        /\ events[j].type = "limit" /\ events[j].price = q /\ events[j].id = id
    BY <2>1, <2>2 DEF Source
  <2> QED BY <1>4, <2>3, <2>4 DEF OwnIds
<1>5. ASSUME OwnIds(events), e.type = "limit", NEW p, Rests(book[e.side], p, e.id) PROVE FALSE
  <2>1. PICK k \in 1..(n-1) : Source(events, k, n-1, e.side, p, e.id)
    BY <1>1, <1>3, <1>5
  <2>2. k \in 1..Len(events) /\ k # n
    BY <1>2
  <2>3. events[k].type = "limit" /\ events[k].id = e.id
    BY <2>1 DEF Source
  <2> QED BY <1>5, <2>2, <2>3 DEF OwnIds
<1>6. OwnIds(events) => BookOnce(out)
  BY <1>5 DEF TurnsOnly
<1>7. ASSUME NEW side \in Sides, NEW p, NEW x, Rests(out[side], p, x)
      PROVE  \E k \in 1..n : Source(events, k, n, side, p, x)
  <2>1. CASE e.type = "limit" /\ side = e.side /\ p = e.price /\ x = e.id
    <3>1. n \in 1..n /\ \A j \in (n+1)..n : FALSE
      BY <1>1
    <3>2. Source(events, n, n, side, p, x)
      BY <2>1, <3>1 DEF Source
    <3> QED BY <3>1, <3>2
  <2>2. CASE Rests(book[side], p, x)
    <3>1. PICK k \in 1..(n-1) : Source(events, k, n-1, side, p, x)
      BY <1>3, <2>2
    <3>2. OwnIds(events) => ~(e.type = "cancel" /\ e.id = x)
      <4> SUFFICES ASSUME OwnIds(events), e.type = "cancel", e.id = x PROVE FALSE
        OBVIOUS
      <4>1. \A q : ~Rests(out[side], q, e.id)
        BY <1>4 DEF TurnsOnly
      <4> QED BY <1>7, <4>1
    <3>3. Source(events, k, n, side, p, x)
      BY <1>2, <3>1, <3>2 DEF Source
    <3>4. k \in 1..n
      BY <1>2
    <3> QED BY <3>3, <3>4
  <2> QED BY <1>7, <2>1, <2>2 DEF TurnsOnly
<1> QED BY <1>6, <1>7 DEF Sourced

\* What is judged correct after a turn was before, or is the event of this turn.
JudgedCorrect(v, e) ==
    \/ e.type = "limit" /\ e.filled /\ shouldFill(AddLimit(v.book, e), e)
    \/ e.type = "market" /\ (e.filled <=> hasLiquidity(v.book, e.side))

\* A turn judges its own event (validator.go:53-70).
LEMMA TurnJudgesOne ==
    ASSUME NEW v \in Verdict, NEW e \in Event, NEW x \in Judge(v, e).correct
    PROVE  x \in v.correct \/ (x = e.sentAt /\ JudgedCorrect(v, e))
<1>1. v = [book |-> v.book, total |-> v.total, correct |-> v.correct] /\ e.type \in Types
  BY DEF Event, Verdict
<1>2. CASE e.type = "limit"
  <2> DEFINE ok == e.filled /\ shouldFill(AddLimit(v.book, e), e)
  <2>1. Judge(v, e).correct = IF ok THEN v.correct \cup {e.sentAt} ELSE v.correct
    BY <1>2 DEF Judge
  <2>2. ok => JudgedCorrect(v, e)
    BY <1>2 DEF JudgedCorrect
  <2> HIDE DEF ok
  <2> QED BY <2>1, <2>2
<1>3. CASE e.type = "market"
  <2> DEFINE ok == e.filled <=> hasLiquidity(v.book, e.side)
  <2>1. Judge(v, e).correct = IF ok THEN v.correct \cup {e.sentAt} ELSE v.correct
    BY <1>1, <1>3 DEF Judge
  <2>2. ok => JudgedCorrect(v, e)
    BY <1>3 DEF JudgedCorrect
  <2> HIDE DEF ok
  <2> QED BY <2>1, <2>2
<1>4. CASE e.type = "cancel"
  BY <1>1, <1>4 DEF Judge
<1> QED BY <1>1, <1>2, <1>3, <1>4 DEF Types

\* A fill that is judged correct crosses an order that rests (validator.go:83-105).
LEMMA CorrectHasOrder ==
    ASSUME NEW v \in Verdict, GoodBook(v.book), NEW e \in Event, e.filled, JudgedCorrect(v, e)
    PROVE  \E q, x : /\ Rests(v.book[Other(e.side)], q, x)
                     /\ e.type = "market" \/ Crosses(e.side, e.price, q)
<1> DEFINE levels == v.book[Other(e.side)]
<1>1. /\ e.side \in Sides /\ Other(e.side) \in Sides /\ Other(e.side) # e.side
      /\ v.book \in [Sides -> Seq(Level)] /\ GoodLevels(levels, Other(e.side))
  BY DEF Event, Sides, Other, GoodBook
<1>2. AddLimit(v.book, e)[Other(e.side)] = levels
  BY <1>1 DEF AddLimit
<1>3. levels # <<>> /\ (e.type = "market" \/ Crosses(e.side, e.price, levels[1].price))
  <2>1. CASE e.type = "limit"
    BY <1>2, <2>1 DEF JudgedCorrect, shouldFill, hasLiquidity
  <2>2. CASE e.type = "market"
    BY <2>2 DEF JudgedCorrect, hasLiquidity
  <2> QED BY <2>1, <2>2 DEF JudgedCorrect
<1> HIDE DEF levels
<1>4. 1 \in 1..Len(levels)
  BY <1>1, <1>3 DEF GoodLevels
<1>5. levels[1].orders \in Seq(Nat) /\ levels[1].orders # <<>>
  BY <1>1, <1>4, LevelTypes DEF GoodLevels
<1>6. 1 \in 1..Len(levels[1].orders)
  BY <1>5
<1>7. Rests(levels, levels[1].price, levels[1].orders[1])
  BY <1>4, <1>6 DEF Rests, Contains
<1> QED BY <1>3, <1>7 DEF levels

\* After any number of turns, what rests has a source, and what is judged correct was so in
\* the turn of its event.
LEMMA LoopHasSources ==
    ASSUME NEW events \in Seq(Event)
    PROVE  \A n \in 0..Len(events) :
              /\ Sourced(events, n, Replay(events)[n].book)
              /\ \A x \in Replay(events)[n].correct :
                    \E k \in 1..n : x = events[k].sentAt /\ JudgedCorrect(Replay(events)[k-1], events[k])
<1> DEFINE v == Replay(events)
           Judged1(n) == \A x \in v[n].correct :
                            \E k \in 1..n : x = events[k].sentAt /\ JudgedCorrect(v[k-1], events[k])
           Holds(n) == /\ Sourced(events, n, v[n].book) /\ (OwnIds(events) => BookOnce(v[n].book))
                       /\ Judged1(n)
           S == {n \in Nat : n <= Len(events) => Holds(n)}
<1>1. Len(events) \in Nat
  OBVIOUS
<1>2. v[0] = Start
  BY <1>1, LoopTurns
<1>3. ASSUME NEW n \in 1..Len(events)
      PROVE  /\ v[n] = Judge(v[n-1], events[n]) /\ v[n-1] \in Verdict /\ GoodBook(v[n-1].book)
             /\ events[n] \in Event
  BY LoopJudges
<1> HIDE DEF v
<1>4. Holds(0)
  <2>1. \A side \in Sides : EmptyBook[side] = <<>>
    BY DEF EmptyBook
  <2>2. v[0].book = EmptyBook /\ v[0].correct = {}
    BY <1>2 DEF Start
  <2>3. \A p, x : ~Rests(<<>>, p, x)
    BY EmptySeq DEF Rests
  <2>4. OnceEach(<<>>)
    BY EmptySeq DEF OnceEach
  <2>5. Sourced(events, 0, v[0].book) /\ BookOnce(v[0].book)
    BY <2>1, <2>2, <2>3, <2>4 DEF Sourced, BookOnce
  <2> QED BY <2>2, <2>5
<1>5. ASSUME NEW n \in 1..Len(events), Holds(n-1) PROVE Holds(n)
  <2>1. Sourced(events, n-1, v[n-1].book) /\ (OwnIds(events) => BookOnce(v[n-1].book)) /\ Judged1(n-1)
    BY <1>5
  <2>2. TurnsOnly(v[n-1].book, events[n], v[n].book)
    BY <1>3, TurnAddsOnly
  <2>3. Sourced(events, n, v[n].book) /\ (OwnIds(events) => BookOnce(v[n].book))
    <3>1. \A book, out :
             /\ Sourced(events, n-1, book) /\ (OwnIds(events) => BookOnce(book))
             /\ TurnsOnly(book, events[n], out)
             => Sourced(events, n, out) /\ (OwnIds(events) => BookOnce(out))
      BY SourcedTurn
    <3>2. Sourced(events, n-1, v[n-1].book) /\ (OwnIds(events) => BookOnce(v[n-1].book))
      BY <2>1
    <3> QED BY <2>2, <3>1, <3>2
  <2>4. ASSUME NEW x \in v[n].correct
        PROVE  \E k \in 1..n : x = events[k].sentAt /\ JudgedCorrect(v[k-1], events[k])
    <3>1. x \in v[n-1].correct \/ (x = events[n].sentAt /\ JudgedCorrect(v[n-1], events[n]))
      BY <1>3, <2>4, TurnJudgesOne
    <3>2. n \in 1..n /\ \A k \in 1..(n-1) : k \in 1..n
      BY <1>1
    <3> QED BY <2>1, <3>1, <3>2
  <2> QED BY <2>3, <2>4
<1> HIDE DEF Holds
<1>6. 0 \in S
  BY <1>4
<1>7. ASSUME NEW n \in Nat, n \in S PROVE n+1 \in S
  <2>1. ASSUME n+1 <= Len(events) PROVE Holds(n+1)
    <3>1. n+1 \in 1..Len(events) /\ (n+1)-1 = n /\ Holds(n)
      BY <1>1, <1>7, <2>1
    <3>2. Holds((n+1)-1)
      BY <3>1
    <3> QED BY <1>5, <3>1, <3>2
  <2> QED BY <2>1
<1>8. \A n \in Nat : n \in S
  <2> HIDE DEF S
  <2> QED BY <1>6, <1>7, NatInductionOnSet
<1>9. \A n \in 0..Len(events) : Holds(n)
  BY <1>1, <1>8
<1> QED BY <1>9 DEF Holds, v

\* For every list of events: a fill that is judged correct crosses a limit order of the other
\* side that was sent before it and, if no two limit orders have the same id, had not been
\* cancelled in between (validator.go:31-105).
THEOREM CorrectFillCrosses ==
    ASSUME NEW events \in Seq(Event), Stamped(events),
           NEW i \in 1..Len(events), events[i].filled,
           events[i].sentAt \in Validate(events).correct
    PROVE  \E k \in 1..Len(events) :
              /\ events[k].type = "limit" /\ events[k].side = Other(events[i].side)
              /\ events[k].sentAt < events[i].sentAt
              /\ events[i].type = "market" \/ Crosses(events[i].side, events[i].price, events[k].price)
              /\ OwnIds(events) => \A j \in 1..Len(events) :
                    ~ /\ events[j].type = "cancel" /\ events[j].id = events[k].id
                      /\ events[j].sentAt \in events[k].sentAt..events[i].sentAt
<1> DEFINE n == Len(events)
           sorted == Sort(events, LAMBDA e, f : e.sentAt < f.sentAt)
           v == Replay(sorted)
<1>1. Validate(events) = v[n]
  BY DEF Validate
<1>2. InOrderSent(events, sorted)
  BY ListIsSorted
<1> HIDE DEF sorted, v, n
<1>3. /\ sorted \in Seq(Event) /\ Len(sorted) = n /\ n \in Nat
      /\ \A a \in 1..n : events[a].sentAt \in Nat
  <2>1. \A a \in 1..n : events[a] \in Event
    BY ElementOfSeq DEF n
  <2> QED BY <1>2, <2>1 DEF InOrderSent, Event, n
<1>4. /\ \A a, b \in 1..n : a < b => sorted[a].sentAt < sorted[b].sentAt
      /\ \A a \in 1..n : \E b \in 1..n : sorted[b] = events[a]
      /\ \A b \in 1..n : \E a \in 1..n : sorted[b] = events[a]
  BY <1>2 DEF InOrderSent, n
<1>5. \A a, b \in 1..n : events[a].sentAt = events[b].sentAt => a = b
  BY DEF Stamped, n
<1>6. ASSUME NEW a \in 1..n, NEW b \in 1..n
      PROVE  sorted[a].sentAt < sorted[b].sentAt <=> a < b
  <2>1. sorted[a].sentAt \in Nat /\ sorted[b].sentAt \in Nat
    BY <1>3, <1>4
  <2>2. a < b => sorted[a].sentAt < sorted[b].sentAt
    BY <1>4
  <2>3. b < a => sorted[b].sentAt < sorted[a].sentAt
    BY <1>4
  <2> QED BY <2>1, <2>2, <2>3
<1>7. n \in 0..Len(sorted)
  BY <1>3
<1>8. PICK b \in 1..n : /\ events[i].sentAt = sorted[b].sentAt
                        /\ JudgedCorrect(v[b-1], sorted[b])
  BY <1>1, <1>3, <1>7, LoopHasSources DEF v
<1>9. sorted[b] = events[i]
  <2>1. PICK a \in 1..n : sorted[b] = events[a]
    BY <1>4
  <2> QED BY <1>5, <1>8, <2>1 DEF n
<1>10. PICK q, x : /\ Rests(v[b-1].book[Other(events[i].side)], q, x)
                   /\ events[i].type = "market" \/ Crosses(events[i].side, events[i].price, q)
  <2>1. v[b-1] \in Verdict /\ GoodBook(v[b-1].book) /\ sorted[b] \in Event
    BY <1>3, LoopJudges DEF v
  <2> QED BY <1>8, <1>9, <2>1, CorrectHasOrder
<1>11. PICK a \in 1..(b-1) : Source(sorted, a, b-1, Other(events[i].side), q, x)
  <2>1. b-1 \in 0..Len(sorted)
    BY <1>3
  <2>2. Sourced(sorted, b-1, v[b-1].book)
    BY <1>3, <2>1, LoopHasSources DEF v
  <2>3. Other(events[i].side) \in Sides
    BY DEF Sides, Other
  <2> QED BY <1>10, <2>2, <2>3 DEF Sourced
<1>12. a \in 1..n /\ a < b
  BY <1>3
<1>13. PICK k \in 1..n : sorted[a] = events[k]
  BY <1>4, <1>12
<1>14. OwnIds(events) => OwnIds(sorted)
  <2> SUFFICES ASSUME OwnIds(events), NEW c \in 1..n, NEW d \in 1..n,
                      sorted[c].type = "limit", sorted[d].type = "limit", sorted[c].id = sorted[d].id
               PROVE  c = d
    BY <1>3 DEF OwnIds
  <2>1. PICK e \in 1..n : sorted[c] = events[e]
    BY <1>4
  <2>2. PICK f \in 1..n : sorted[d] = events[f]
    BY <1>4
  <2>3. e = f
    BY <2>1, <2>2 DEF OwnIds, n
  <2>4. ~(c < d) /\ ~(d < c)
    BY <1>3, <1>6, <2>1, <2>2, <2>3
  <2> QED BY <1>3, <2>4
<1>15. ASSUME OwnIds(events), NEW j \in 1..n, events[j].type = "cancel", events[j].id = events[k].id,
              events[j].sentAt \in events[k].sentAt..events[i].sentAt
       PROVE  FALSE
  <2>1. PICK c \in 1..n : sorted[c] = events[j]
    BY <1>4
  <2>2. /\ events[k].type = "limit" /\ events[k].id = x
        /\ \A d \in (a+1)..(b-1) : ~(sorted[d].type = "cancel" /\ sorted[d].id = x)
    BY <1>11, <1>13, <1>14, <1>15 DEF Source
  <2>3. ~(c < a) /\ ~(b < c)
    <3>1. c < a => events[j].sentAt < events[k].sentAt
      BY <1>6, <1>12, <1>13, <2>1
    <3>2. b < c => events[i].sentAt < events[j].sentAt
      BY <1>6, <1>9, <2>1
    <3>3. events[j].sentAt \in Nat /\ events[k].sentAt \in Nat /\ events[i].sentAt \in Nat
      BY <1>3 DEF n
    <3>4. ~(events[j].sentAt < events[k].sentAt) /\ ~(events[i].sentAt < events[j].sentAt)
      <4>1. \A lo, mid, hi \in Nat : mid \in lo..hi => ~(mid < lo) /\ ~(hi < mid)
        OBVIOUS
      <4> QED BY <1>15, <3>3, <4>1
    <3> QED BY <3>1, <3>2, <3>4
  <2>4. c # a
    BY <1>13, <1>15, <2>1, <2>2
  <2>5. c # b
    BY <1>8, <1>9, <1>15, <2>1 DEF JudgedCorrect
  <2>6. c \in (a+1)..(b-1)
    BY <1>3, <1>12, <2>3, <2>4, <2>5
  <2> QED BY <1>15, <2>1, <2>2, <2>6
<1>16. events[k].sentAt < events[i].sentAt
  BY <1>6, <1>9, <1>12, <1>13
<1>17. events[k].type = "limit" /\ events[k].side = Other(events[i].side) /\ events[k].price = q
  BY <1>11, <1>13 DEF Source
<1> QED BY <1>10, <1>13, <1>15, <1>16, <1>17 DEF n

---------------------------------------------------------------------------
(* Types *)

\* The records of orders and the answers of the telemetry.
Orders == [type : Types, id : Nat, side : Sides, price : Nat, bot : Bots]
Answers == {"none", "filled", "unfilled", "rejected"}

\* A worker that has an order whose event is not in the channel yet.
Busy(b) == At(b) \in {"calling", "sending"}

\* The types, of the histories as sequences, which are as long as each other.
Typed ==
    /\ orders \in Seq(Orders) /\ Len(orders) <= MaxOrders
    /\ \A n \in 1..Len(orders) : orders[n].id \in 1..n
    /\ bot \in [Bots -> [at : {"idle", "calling", "sending", "done"}, order : 0..Len(orders)]]
    /\ \A b \in Bots : Busy(b) => bot[b].order > 0
    /\ overdue \cup resting \cup missed \cup topic \subseteq 1..Len(orders)
    /\ hit \in Seq(Nat) /\ Len(hit) = Len(orders)
    /\ \A n \in 1..Len(orders) : hit[n] <= Len(orders)
    /\ answer \in Seq(Answers) /\ Len(answer) = Len(orders)
    /\ channel \in Seq(Nat) /\ Len(channel) <= ChannelCap
    /\ \A i \in 1..Len(channel) : channel[i] \in 1..Len(orders)
    /\ closed \in BOOLEAN

\* The sequences are functions on the orders.
LEMMA TypedGivesTypeOK == Typed => TypeOK
<1> SUFFICES ASSUME Typed PROVE TypeOK
  OBVIOUS
<1> USE DEF Typed
<1>1. DOMAIN orders = 1..Len(orders) /\ DOMAIN hit = 1..Len(orders) /\ DOMAIN answer = 1..Len(orders)
  OBVIOUS
<1>2. ASSUME NEW n \in DOMAIN orders
      PROVE  orders[n] \in [type : Types, id : 1..n, side : Sides, price : Nat, bot : Bots]
  <2>1. orders[n] \in Orders /\ orders[n].id \in 1..n
    BY <1>1, ElementOfSeq
  <2> QED BY <2>1 DEF Orders
<1>3. hit \in [DOMAIN orders -> 0..Len(orders)]
  <2>1. \A n \in 1..Len(orders) : hit[n] \in 0..Len(orders)
    BY ElementOfSeq
  <2>2. hit = [n \in 1..Len(orders) |-> hit[n]]
    BY <1>1
  <2> QED BY <1>1, <2>1, <2>2
<1>4. answer \in [DOMAIN orders -> Answers]
  BY <1>1
<1>5. ToSet(channel) \subseteq DOMAIN orders
  BY <1>1 DEF ToSet
<1> QED BY <1>1, <1>2, <1>3, <1>4, <1>5 DEF TypeOK, Answers

\* What Generate draws is an order, and its id the number of one so far (generator.go:25-62).
LEMMA GeneratedOrder ==
    ASSUME Typed, NEW b \in Bots, NEW o \in Generate(b)
    PROVE  /\ o \in Orders /\ o.id \in 1..(Len(orders) + 1) /\ o.bot = b
           /\ o.type # "cancel" => o.id = Len(orders) + 1
<1> DEFINE n == Len(orders) + 1
<1>1. PICK d \in Drawn \X (1..n) :
         /\ d[1].type = "cancel" \/ d[2] = n
         /\ o = [type |-> d[1].type, side |-> d[1].side, price |-> d[1].price, id |-> d[2], bot |-> b]
  BY DEF Generate
<1>2. d[1] \in [type : Types, side : Sides, price : Nat] /\ d[2] \in 1..n /\ n \in Nat
  BY ConstantsAssumption DEF Typed
<1> QED BY <1>1, <1>2 DEF Orders

\* What a report writes, and that it leaves the rest (bot.go:66-97).
LEMMA Reported ==
    ASSUME Typed, NEW b \in Bots, NEW a \in Answers, NEW x \in 0..Len(orders), Report(b, a, x)
    PROVE  /\ answer' \in Seq(Answers) /\ Len(answer') = Len(orders)
           /\ hit' \in Seq(Nat) /\ Len(hit') = Len(orders)
           /\ \A n \in 1..Len(orders) : hit'[n] \in 0..Len(orders)
           /\ \A n \in 1..Len(orders) :
                 n # bot[b].order => hit'[n] = hit[n] /\ answer'[n] = answer[n]
           /\ hit'[bot[b].order] = x /\ answer'[bot[b].order] = a
           /\ bot[b].order \in 1..Len(orders) /\ Busy(b) /\ Busy(b)'
           /\ \A c \in Bots : bot'[c].order = bot[c].order /\ (c # b => bot'[c] = bot[c])
           /\ bot' \in [Bots -> [at : {"idle", "calling", "sending", "done"}, order : 0..Len(orders)]]
           /\ orders' = orders
<1> USE DEF Typed
<1>1. bot[b].order \in 1..Len(orders) /\ At(b) = "calling" /\ bot[b].at = "calling"
  BY DEF Report, Busy, At
<1>2. /\ answer' = [answer EXCEPT ![bot[b].order] = a] /\ hit' = [hit EXCEPT ![bot[b].order] = x]
      /\ bot' = [bot EXCEPT ![b].at = "sending"] /\ orders' = orders
  BY DEF Report
<1>3. x \in Nat /\ x <= Len(orders)
  OBVIOUS
<1>4. /\ answer' \in Seq(Answers) /\ Len(answer') = Len(orders)
      /\ \A n \in 1..Len(orders) : answer'[n] = IF n = bot[b].order THEN a ELSE answer[n]
  BY <1>1, <1>2, ExceptSeq
<1>5. /\ hit' \in Seq(Nat) /\ Len(hit') = Len(orders)
      /\ \A n \in 1..Len(orders) : hit'[n] = IF n = bot[b].order THEN x ELSE hit[n]
  BY <1>1, <1>2, <1>3, ExceptSeq
<1>6. \A n \in 1..Len(orders) : hit[n] \in 0..Len(orders)
  BY ElementOfSeq
<1>7. /\ \A c \in Bots : bot'[c].order = bot[c].order /\ (c # b => bot'[c] = bot[c])
      /\ bot' \in [Bots -> [at : {"idle", "calling", "sending", "done"}, order : 0..Len(orders)]]
      /\ bot'[b].at = "sending"
  BY <1>2
<1>8. Busy(b) /\ Busy(b)'
  BY <1>1, <1>7 DEF Busy, At
<1> QED BY <1>1, <1>2, <1>3, <1>4, <1>5, <1>6, <1>7, <1>8

\* Nothing was sent.
LEMMA TypedInit == Init => Typed
<1> SUFFICES ASSUME Init PROVE Typed
  OBVIOUS
<1>1. /\ \A S : <<>> \in Seq(S)
      /\ Len(orders) = 0 /\ Len(hit) = 0 /\ Len(answer) = 0 /\ Len(channel) = 0
  BY EmptySeq DEF Init
<1>2. /\ orders \in Seq(Orders) /\ hit \in Seq(Nat) /\ answer \in Seq(Answers)
      /\ channel \in Seq(Nat) /\ Len(orders) <= MaxOrders /\ Len(channel) <= ChannelCap
  BY <1>1, ConstantsAssumption DEF Init
<1>3. /\ bot \in [Bots -> [at : {"idle", "calling", "sending", "done"}, order : 0..0]]
      /\ \A b \in Bots : ~Busy(b)
  BY DEF Init, Doing, Busy, At
<1>4. /\ overdue \cup resting \cup missed \cup topic \subseteq 1..Len(orders)
      /\ closed \in BOOLEAN
  BY DEF Init
<1>5. \A n \in 1..0 : FALSE
  OBVIOUS
<1> QED BY <1>1, <1>2, <1>3, <1>4, <1>5 DEF Typed

\* Every step keeps the types.
LEMMA TypedStep == Typed /\ [Next]_vars => Typed'
<1> SUFFICES ASSUME Typed, [Next]_vars PROVE Typed'
  OBVIOUS
<1>0. Len(orders) \in Nat /\ DOMAIN orders = 1..Len(orders)
  BY DEF Typed
<1>1. ASSUME NEW b \in Bots, SendOrder(b) PROVE Typed'
  <2>1. PICK o \in Generate(b) : orders' = Append(orders, o)
    BY <1>1 DEF SendOrder
  <2>2. o \in Orders /\ o.id \in 1..(Len(orders) + 1)
    BY GeneratedOrder
  <2>3. /\ orders' \in Seq(Orders) /\ Len(orders') = Len(orders) + 1
        /\ \A n \in 1..Len(orders) : orders'[n] = orders[n]
        /\ orders'[Len(orders) + 1] = o
    BY <2>1, <2>2, AppendProperties DEF Typed
  <2>4. \A n \in 1..Len(orders') : orders'[n].id \in 1..n
    <3>1. \A n \in 1..Len(orders) : orders[n].id \in 1..n
      BY DEF Typed
    <3>2. \A n \in 1..Len(orders') : n \in 1..Len(orders) \/ n = Len(orders) + 1
      BY <1>0, <2>3
    <3> QED BY <2>2, <2>3, <3>1, <3>2
  <2>5. Len(orders') <= MaxOrders
    BY <1>0, <1>1, <2>3, ConstantsAssumption DEF SendOrder
  <2>6. /\ hit' \in Seq(Nat) /\ Len(hit') = Len(orders')
        /\ \A n \in 1..Len(orders) : hit'[n] = hit[n]
        /\ hit'[Len(orders) + 1] = 0
    BY <1>1, <2>3, AppendProperties DEF SendOrder, Typed
  <2>7. \A n \in 1..Len(orders') : hit'[n] <= Len(orders')
    <3>1. \A n \in 1..Len(orders) : hit[n] \in Nat /\ hit[n] <= Len(orders)
      BY ElementOfSeq DEF Typed
    <3> QED BY <1>0, <2>3, <2>6, <3>1
  <2>8. answer' \in Seq(Answers) /\ Len(answer') = Len(orders')
    BY <1>1, <2>3, AppendProperties DEF SendOrder, Typed, Answers
  <2>9. /\ bot' \in [Bots -> [at : {"idle", "calling", "sending", "done"}, order : 0..Len(orders')]]
        /\ \A c \in Bots : c # b => bot'[c] = bot[c]
        /\ bot'[b].order > 0
    BY <1>0, <1>1, <2>3 DEF SendOrder, Typed, Doing
  <2>10. \A c \in Bots : Busy(c)' => bot'[c].order > 0
    BY <2>9 DEF Typed, Busy, At
  <2>11. UNCHANGED <<overdue, resting, channel, closed, topic, missed>>
    BY <1>1 DEF SendOrder, pathVars
  <2>12. 1..Len(orders) \subseteq 1..Len(orders')
    BY <1>0, <2>3
  <2>13. /\ overdue' \cup resting' \cup missed' \cup topic' \subseteq 1..Len(orders')
         /\ \A i \in 1..Len(channel') : channel'[i] \in 1..Len(orders')
         /\ channel' \in Seq(Nat) /\ Len(channel') <= ChannelCap /\ closed' \in BOOLEAN
    BY <2>11, <2>12 DEF Typed
  <2> QED BY <2>3, <2>4, <2>5, <2>6, <2>7, <2>8, <2>9, <2>10, <2>13 DEF Typed
<1>2. ASSUME NEW b \in Bots, NEW a \in Answers, NEW x \in 0..Len(orders), Report(b, a, x),
             overdue' \cup resting' \subseteq 1..Len(orders)
      PROVE  Typed'
  <2>1. /\ answer' \in Seq(Answers) /\ Len(answer') = Len(orders)
        /\ hit' \in Seq(Nat) /\ Len(hit') = Len(orders)
        /\ \A n \in 1..Len(orders) : hit'[n] <= Len(orders)
        /\ bot' \in [Bots -> [at : {"idle", "calling", "sending", "done"}, order : 0..Len(orders)]]
        /\ orders' = orders
    BY <1>0, <1>2, Reported
  <2>2. \A c \in Bots : Busy(c)' => bot'[c].order > 0
    <3>1. /\ Busy(b) /\ \A c \in Bots : bot'[c].order = bot[c].order /\ (c # b => bot'[c] = bot[c])
      BY <1>2, Reported
    <3> QED BY <3>1 DEF Typed, Busy, At
  <2>3. UNCHANGED <<channel, closed, topic, missed>>
    BY <1>2 DEF Report, pathVars
  <2> QED BY <1>2, <2>1, <2>2, <2>3 DEF Typed
<1>3. ASSUME NEW n, NEW x, Match(n, x), n \in 1..Len(orders) PROVE resting' \subseteq 1..Len(orders)
  BY <1>3 DEF Match, Typed
<1>4. ASSUME NEW b \in Bots, Answered(b) PROVE Typed'
  <2>1. PICK x \in {0} \cup resting :
           /\ At(b) = "calling"
           /\ Match(bot[b].order, x)
           /\ Report(b, IF x > 0 THEN "filled" ELSE "unfilled", x) \/ Report(b, "filled", x)
           /\ UNCHANGED overdue
    BY <1>4 DEF Answered
  <2>2. x \in 0..Len(orders) /\ bot[b].order \in 1..Len(orders)
    BY <1>0, <2>1 DEF Typed, Busy, At
  <2>3. overdue' \cup resting' \subseteq 1..Len(orders)
    BY <1>3, <2>1, <2>2 DEF Typed
  <2>4. PICK a \in Answers : Report(b, a, x)
    BY <2>1 DEF Answers
  <2> QED BY <1>2, <2>2, <2>3, <2>4
<1>5. ASSUME NEW b \in Bots, Refused(b) PROVE Typed'
  <2>1. Report(b, "rejected", 0) /\ overdue' = overdue \cup {bot[b].order} /\ resting' = resting
    BY <1>5 DEF Refused
  <2>2. bot[b].order \in 1..Len(orders)
    BY <1>0, <2>1 DEF Report, Typed, Busy, At
  <2>3. overdue' \cup resting' \subseteq 1..Len(orders)
    BY <2>1, <2>2 DEF Typed
  <2>4. "rejected" \in Answers /\ 0 \in 0..Len(orders)
    BY <1>0 DEF Answers
  <2> QED BY <1>2, <2>1, <2>3, <2>4
<1>6. ASSUME NEW b \in Bots, Deliver(b) PROVE Typed'
  <2>1. bot[b].order \in 1..Len(orders)
    BY <1>0, <1>6 DEF Deliver, Typed, Busy, At
  <2>2. /\ channel' \in Seq(Nat) /\ Len(channel') = Len(channel) + 1
        /\ \A i \in 1..Len(channel) : channel'[i] = channel[i]
        /\ channel'[Len(channel) + 1] = bot[b].order
    BY <1>6, <2>1, AppendProperties DEF Deliver, Typed
  <2>3. Len(channel) \in Nat /\ Len(channel) < ChannelCap
    BY <1>6 DEF Deliver, Typed
  <2>4. /\ Len(channel') <= ChannelCap
        /\ \A i \in 1..Len(channel') : channel'[i] \in 1..Len(orders)
    <3>1. \A i \in 1..Len(channel) : channel[i] \in 1..Len(orders)
      BY DEF Typed
    <3>2. \A i \in 1..Len(channel') : i \in 1..Len(channel) \/ i = Len(channel) + 1
      BY <2>2, <2>3
    <3> QED BY <2>1, <2>2, <2>3, <3>1, <3>2, ConstantsAssumption
  <2>5. /\ bot' \in [Bots -> [at : {"idle", "calling", "sending", "done"}, order : 0..Len(orders)]]
        /\ \A c \in Bots : Busy(c)' => bot'[c].order > 0
    BY <1>0, <1>6 DEF Deliver, Doing, Typed, Busy, At
  <2>6. UNCHANGED <<orders, overdue, resting, hit, answer, closed, topic, missed>>
    BY <1>6 DEF Deliver
  <2> QED BY <2>2, <2>4, <2>5, <2>6 DEF Typed
<1>7. ASSUME NEW b \in Bots, Return(b) PROVE Typed'
  <2>1. /\ bot' \in [Bots -> [at : {"idle", "calling", "sending", "done"}, order : 0..Len(orders)]]
        /\ \A c \in Bots : Busy(c)' => bot'[c].order > 0
    BY <1>0, <1>7 DEF Return, Doing, Typed, Busy, At
  <2>2. UNCHANGED <<orders, overdue, resting, hit, answer, channel, closed, topic, missed>>
    BY <1>7 DEF Return, pathVars
  <2> QED BY <2>1, <2>2 DEF Typed
<1>8. ASSUME NEW n \in overdue, MatchOverdue(n) PROVE Typed'
  <2>1. resting' \subseteq 1..Len(orders)
    BY <1>3, <1>8 DEF MatchOverdue, Typed
  <2>2. UNCHANGED <<orders, bot, hit, answer, channel, closed, topic, missed>> /\ overdue' \subseteq overdue
    BY <1>8 DEF MatchOverdue, pathVars
  <2> QED BY <2>1, <2>2 DEF Typed, Busy, At
<1>9. CASE Publish
  <2>1. /\ Head(channel) = channel[1] /\ 1 \in 1..Len(channel)
        /\ channel' \in Seq(Nat) /\ Len(channel') = Len(channel) - 1
        /\ \A i \in 1..Len(channel') : channel'[i] = channel[i+1]
    BY <1>9, HeadTailProperties DEF Publish, Typed
  <2>2. /\ Len(channel') <= ChannelCap
        /\ \A i \in 1..Len(channel') : channel'[i] \in 1..Len(orders)
    <3>1. \A i \in 1..Len(channel) : channel[i] \in 1..Len(orders)
      BY DEF Typed
    <3>2. Len(channel) \in Nat /\ Len(channel) <= ChannelCap
      BY DEF Typed
    <3>3. \A i \in 1..Len(channel') : i+1 \in 1..Len(channel)
      BY <2>1, <3>2
    <3>4. Len(channel') <= ChannelCap
      BY <2>1, <3>2, ConstantsAssumption
    <3> QED BY <2>1, <3>1, <3>3, <3>4
  <2>3. missed' \cup topic' \subseteq 1..Len(orders)
    BY <1>9, <2>1 DEF Publish, Typed
  <2>4. UNCHANGED <<orders, bot, overdue, resting, hit, answer, closed>>
    BY <1>9 DEF Publish
  <2> QED BY <2>1, <2>2, <2>3, <2>4 DEF Typed, Busy, At
<1>10. CASE Close
  BY <1>10 DEF Close, Typed, Busy, At
<1>11. CASE UNCHANGED vars
  BY <1>11 DEF vars, pathVars, Typed, Busy, At
<1> QED BY <1>1, <1>4, <1>5, <1>6, <1>7, <1>8, <1>9, <1>10, <1>11 DEF Next, Worker

\* The histories are as long as each other, and the channel no longer than its capacity.
LEMMA TypedInvariant == Spec => []Typed
BY TypedInit, TypedStep, PTL DEF Spec

\* The types, and that the channel never holds more than its capacity
\* (orchestrator.go:52-69, bot.go:37-98, consumer/kafka.go:100).
THEOREM TypeCorrect == Spec => []TypeOK
BY TypedInvariant, TypedGivesTypeOK, PTL

---------------------------------------------------------------------------
(* Where the event of an order is *)

BusyBots == {b \in Bots : Busy(b)}
InChannel(n) == \E i \in 1..Len(channel) : channel[i] = n

\* The event of an order is in one place at most.
Apart ==
    /\ \A b, c \in Bots : Busy(b) /\ Busy(c) /\ bot[b].order = bot[c].order => b = c
    /\ \A i, j \in 1..Len(channel) : channel[i] = channel[j] => i = j
    /\ \A b \in Bots : Busy(b) =>
          ~InChannel(bot[b].order) /\ bot[b].order \notin topic /\ bot[b].order \notin missed
    /\ \A n \in topic \cup missed : ~InChannel(n)
    /\ topic \cap missed = {}

\* It is in one place at least.
Placed ==
    \A n \in 1..Len(orders) : \/ \E b \in Bots : Busy(b) /\ bot[b].order = n
                              \/ InChannel(n)
                              \/ n \in topic \cup missed

\* The places hold as many as there are orders.
Counted ==
    /\ IsFiniteSet(BusyBots) /\ IsFiniteSet(topic) /\ IsFiniteSet(missed)
    /\ Cardinality(BusyBots) + Len(channel) + Cardinality(topic) + Cardinality(missed)
          = Len(orders)

Conserved == Typed /\ Apart /\ Placed /\ Counted

\* The places, counted and together.
LEMMA ConservedGives == Conserved => EventsAreConserved
<1> SUFFICES ASSUME Conserved PROVE EventsAreConserved
  OBVIOUS
<1>1. {b \in Bots : At(b) \in {"calling", "sending"}} = BusyBots
  BY DEF BusyBots, Busy
<1>2. DOMAIN orders = 1..Len(orders) /\ DOMAIN channel = 1..Len(channel)
  BY DEF Conserved, Typed
<1>3. \A n : n \in ToSet(channel) <=> InChannel(n)
  BY <1>2 DEF ToSet, InChannel
<1>4. ASSUME NEW n \in 1..Len(orders)
      PROVE  n \in {bot[b].order : b \in BusyBots} \cup ToSet(channel) \cup topic \cup missed
  BY <1>3 DEF Conserved, Placed, BusyBots
<1>5. ASSUME NEW n \in {bot[b].order : b \in BusyBots} \cup ToSet(channel) \cup topic \cup missed
      PROVE  n \in 1..Len(orders)
  <2>1. CASE n \in {bot[b].order : b \in BusyBots}
    BY <2>1 DEF Conserved, Typed, BusyBots
  <2>2. CASE n \in ToSet(channel)
    BY <1>3, <2>2 DEF Conserved, Typed, InChannel
  <2>3. CASE n \in topic \cup missed
    BY <2>3 DEF Conserved, Typed
  <2> QED BY <1>5, <2>1, <2>2, <2>3
<1>6. {bot[b].order : b \in BusyBots} \cup ToSet(channel) \cup topic \cup missed = DOMAIN orders
  BY <1>2, <1>4, <1>5
<1> QED BY <1>1, <1>6 DEF EventsAreConserved, Conserved, Counted

\* Nothing is anywhere.
LEMMA ConservedInit == Init => Conserved
<1> SUFFICES ASSUME Init PROVE Conserved
  OBVIOUS
<1>1. BusyBots = {} /\ \A b \in Bots : ~Busy(b)
  BY DEF Init, BusyBots, Busy, At, Doing
<1>2. \A n : ~InChannel(n)
  BY EmptySeq DEF Init, InChannel
<1>3. Len(channel) = 0 /\ Len(orders) = 0 /\ topic = {} /\ missed = {}
  BY DEF Init
<1>4. Apart
  BY <1>1, <1>2, <1>3 DEF Apart
<1>5. Placed
  BY <1>3 DEF Placed
<1>6. Counted
  BY <1>1, <1>3, FS_EmptySet DEF Counted
<1> QED BY <1>4, <1>5, <1>6, TypedInit DEF Conserved

\* A step in which the workers stay as busy as they are, with the same orders, and no event moves.
LEMMA NoEventMoves ==
    ASSUME Conserved, Typed', UNCHANGED <<orders, channel, topic, missed>>,
           \A b \in Bots : (Busy(b)' <=> Busy(b)) /\ (Busy(b) => bot'[b].order = bot[b].order)
    PROVE  Conserved'
<1>1. BusyBots' = BusyBots
  BY DEF BusyBots
<1>2. \A n : InChannel(n)' <=> InChannel(n)
  BY DEF InChannel
<1>3. Apart'
  BY <1>2 DEF Conserved, Apart
<1>4. Placed'
  BY <1>2 DEF Conserved, Placed
<1>5. Counted'
  BY <1>1 DEF Conserved, Counted
<1> QED BY <1>3, <1>4, <1>5 DEF Conserved

\* A step takes an event from one place to the next, or makes one with its order.
LEMMA ConservedStep == Conserved /\ [Next]_vars => Conserved'
<1> SUFFICES ASSUME Conserved, [Next]_vars PROVE Conserved'
  OBVIOUS
<1>0. /\ Typed /\ Typed' /\ Len(orders) \in Nat /\ Len(channel) \in Nat
      /\ Cardinality(BusyBots) \in Nat /\ Cardinality(topic) \in Nat /\ Cardinality(missed) \in Nat
  <2>1. Typed /\ Typed'
    BY TypedStep DEF Conserved
  <2>2. Len(orders) \in Nat /\ Len(channel) \in Nat
    BY <2>1 DEF Typed
  <2>3. IsFiniteSet(BusyBots) /\ IsFiniteSet(topic) /\ IsFiniteSet(missed)
    BY DEF Conserved, Counted
  <2> QED BY <2>1, <2>2, <2>3, FS_CardinalityType
<1>1. ASSUME NEW b \in Bots, SendOrder(b) PROVE Conserved'
  <2>1. /\ Len(orders') = Len(orders) + 1
        /\ UNCHANGED <<channel, topic, missed>>
    BY <1>0, <1>1, GeneratedOrder, AppendProperties DEF SendOrder, pathVars, Typed
  <2>2. /\ ~Busy(b) /\ Busy(b)' /\ bot'[b].order = Len(orders) + 1
        /\ \A c \in Bots : c # b => bot'[c] = bot[c] /\ (Busy(c)' <=> Busy(c))
    BY <1>0, <1>1 DEF SendOrder, Typed, Busy, At, Doing
  <2>3. \A n : InChannel(n)' <=> InChannel(n)
    BY <2>1 DEF InChannel
  <2>4. /\ \A n \in topic \cup missed : n # Len(orders) + 1
        /\ \A n : InChannel(n) => n # Len(orders) + 1
        /\ \A c \in Bots : bot[c].order # Len(orders) + 1
    <3>1. \A n \in 1..Len(orders) : n # Len(orders) + 1
      BY <1>0
    <3>2. \A c \in Bots : bot[c].order \in 0..Len(orders)
      BY <1>0 DEF Typed
    <3> QED BY <1>0, <3>1, <3>2 DEF Typed, InChannel
  <2>5. Apart'
    BY <2>1, <2>2, <2>3, <2>4 DEF Conserved, Apart
  <2>6. Placed'
    <3>1. \A n \in 1..Len(orders') : n \in 1..Len(orders) \/ n = bot'[b].order
      BY <1>0, <2>1, <2>2
    <3> QED BY <2>1, <2>2, <2>3, <3>1 DEF Conserved, Placed
  <2>7. BusyBots' = BusyBots \cup {b} /\ b \notin BusyBots
    BY <2>2 DEF BusyBots
  <2>8. Counted'
    <3>1. IsFiniteSet(BusyBots') /\ Cardinality(BusyBots') = Cardinality(BusyBots) + 1
      BY <2>7, FS_AddElement DEF Conserved, Counted
    <3>2. Cardinality(BusyBots) + Len(channel) + Cardinality(topic) + Cardinality(missed) = Len(orders)
      BY DEF Conserved, Counted
    <3>3. Cardinality(BusyBots') + Len(channel) + Cardinality(topic) + Cardinality(missed) = Len(orders')
      <4>1. /\ Cardinality(BusyBots) \in Nat /\ Len(channel) \in Nat
            /\ Cardinality(topic) \in Nat /\ Cardinality(missed) \in Nat /\ Len(orders) \in Nat
        BY <1>0, FS_CardinalityType DEF Conserved, Counted, Typed
      <4>2. Len(orders') = Len(orders) + 1
        BY <1>0, <2>1
      <4> DEFINE u == Cardinality(BusyBots)  c == Len(channel)    o == Len(orders)
                 t == Cardinality(topic)     m == Cardinality(missed)
      <4>3. u \in Nat /\ c \in Nat /\ t \in Nat /\ m \in Nat /\ o \in Nat /\ u + c + t + m = o
        BY <3>2, <4>1
      <4>4. Cardinality(BusyBots') = u + 1 /\ Len(orders') = o + 1
        BY <3>1, <4>2
      <4> HIDE DEF u, c, t, m, o
      <4>5. (u + 1) + c + t + m = o + 1
        BY <4>3
      <4> QED BY <4>4, <4>5 DEF c, t, m
    <3> QED BY <2>1, <3>1, <3>3 DEF Conserved, Counted
  <2> QED BY <1>0, <2>5, <2>6, <2>8 DEF Conserved
<1>2. ASSUME NEW b \in Bots, Answered(b) \/ Refused(b) PROVE Conserved'
  <2>1. /\ bot' = [bot EXCEPT ![b].at = "sending"] /\ At(b) = "calling"
        /\ UNCHANGED <<orders, pathVars>>
    BY <1>2 DEF Answered, Refused, Report
  <2>2. \A c \in Bots : (Busy(c)' <=> Busy(c)) /\ (Busy(c) => bot'[c].order = bot[c].order)
    BY <1>0, <2>1 DEF Typed, Busy, At
  <2> QED BY <1>0, <2>1, <2>2, NoEventMoves DEF pathVars
<1>3. ASSUME NEW b \in Bots, Deliver(b) PROVE Conserved'
  <2>1. bot[b].order \in Nat
    BY <1>0 DEF Typed
  <2>2. /\ Len(channel') = Len(channel) + 1
        /\ \A i \in 1..Len(channel) : channel'[i] = channel[i]
        /\ channel'[Len(channel) + 1] = bot[b].order
        /\ UNCHANGED <<orders, topic, missed>>
    BY <1>0, <1>3, <2>1, AppendProperties DEF Deliver, Typed
  <2>3. /\ Busy(b) /\ ~Busy(b)'
        /\ \A c \in Bots : c # b => bot'[c] = bot[c] /\ (Busy(c)' <=> Busy(c))
    BY <1>0, <1>3 DEF Deliver, Typed, Busy, At, Doing
  <2>4. \A i \in 1..Len(channel') : i \in 1..Len(channel) \/ i = Len(channel) + 1
    BY <1>0, <2>2
  <2>5. 1..Len(channel) \subseteq 1..Len(channel') /\ Len(channel) + 1 \in 1..Len(channel')
    BY <1>0, <2>2
  <2>6. \A n : InChannel(n)' <=> InChannel(n) \/ n = bot[b].order
    BY <2>2, <2>4, <2>5 DEF InChannel
  <2>7. \A i, j \in 1..Len(channel') : channel'[i] = channel'[j] => i = j
    BY <2>2, <2>3, <2>4 DEF Conserved, Apart, InChannel
  <2>8. Apart'
    BY <2>2, <2>3, <2>6, <2>7 DEF Conserved, Apart
  <2>9. Placed'
    BY <2>2, <2>3, <2>6 DEF Conserved, Placed
  <2>10. BusyBots' = BusyBots \ {b} /\ b \in BusyBots
    BY <2>3 DEF BusyBots
  <2>11. Counted'
    <3>1. IsFiniteSet(BusyBots') /\ Cardinality(BusyBots') = Cardinality(BusyBots) - 1
      BY <2>10, FS_RemoveElement DEF Conserved, Counted
    <3> QED BY <1>0, <2>2, <3>1 DEF Conserved, Counted
  <2> QED BY <1>0, <2>8, <2>9, <2>11 DEF Conserved
<1>4. ASSUME NEW b \in Bots, Return(b) PROVE Conserved'
  <2>1. /\ \A c \in Bots : (Busy(c)' <=> Busy(c)) /\ (Busy(c) => bot'[c].order = bot[c].order)
        /\ UNCHANGED <<orders, channel, topic, missed>>
    BY <1>0, <1>4 DEF Return, Typed, Busy, At, Doing, pathVars
  <2> QED BY <1>0, <2>1, NoEventMoves
<1>5. ASSUME NEW n \in overdue, MatchOverdue(n) PROVE Conserved'
  BY <1>0, <1>5, NoEventMoves DEF MatchOverdue, pathVars, Busy, At
<1>6. CASE Publish
  <2>1. /\ Head(channel) = channel[1] /\ 1 \in 1..Len(channel)
        /\ Len(channel') = Len(channel) - 1
        /\ \A i \in 1..Len(channel') : channel'[i] = channel[i+1]
        /\ UNCHANGED <<orders, bot>>
    BY <1>0, <1>6, HeadTailProperties DEF Publish, Typed
  <2>2. /\ \A i \in 1..Len(channel') : i+1 \in 1..Len(channel) /\ i+1 # 1
        /\ \A i \in 1..Len(channel) : i = 1 \/ (i-1 \in 1..Len(channel') /\ (i-1)+1 = i)
    BY <1>0, <2>1
  <2>3. ASSUME NEW n PROVE InChannel(n) <=> InChannel(n)' \/ n = channel[1]
    <3>1. ASSUME NEW i \in 1..Len(channel), channel[i] = n PROVE InChannel(n)' \/ n = channel[1]
      <4>1. CASE i = 1
        BY <3>1, <4>1
      <4>2. CASE i-1 \in 1..Len(channel') /\ (i-1)+1 = i
        <5>1. channel'[i-1] = n
          BY <2>1, <3>1, <4>2
        <5> QED BY <4>2, <5>1 DEF InChannel
      <4> QED BY <2>2, <4>1, <4>2
    <3>2. ASSUME NEW i \in 1..Len(channel'), channel'[i] = n PROVE InChannel(n)
      BY <2>1, <2>2, <3>2 DEF InChannel
    <3>3. InChannel(channel[1])
      BY <2>1 DEF InChannel
    <3> QED BY <3>1, <3>2, <3>3 DEF InChannel
  <2>4. \A i \in 1..Len(channel') : channel'[i] # channel[1]
    BY <2>1, <2>2 DEF Conserved, Apart
  <2>5. \A i, j \in 1..Len(channel') : channel'[i] = channel'[j] => i = j
    <3>1. \A i, j \in 1..Len(channel') : i+1 = j+1 => i = j
      BY <1>0, <2>1
    <3> QED BY <2>1, <2>2, <3>1 DEF Conserved, Apart
  <2>6. /\ channel[1] \notin topic /\ channel[1] \notin missed
        /\ \/ topic' = topic \cup {channel[1]} /\ missed' = missed
           \/ missed' = missed \cup {channel[1]} /\ topic' = topic
    BY <1>6, <2>1, <2>3 DEF Publish, Conserved, Apart
  <2>7. \A b \in Bots : Busy(b)' <=> Busy(b)
    BY <2>1 DEF Busy, At
  <2>8. Apart'
    <3>1. \A b \in Bots : Busy(b) => bot[b].order # channel[1]
      BY <2>3 DEF Conserved, Apart
    <3>2. /\ \A b, c \in Bots : Busy(b)' /\ Busy(c)' /\ bot'[b].order = bot'[c].order => b = c
          /\ topic' \cap missed' = {}
      BY <2>1, <2>6, <2>7 DEF Conserved, Apart
    <3>3. \A b \in Bots : Busy(b)' =>
             ~InChannel(bot[b].order)' /\ bot'[b].order \notin topic' /\ bot'[b].order \notin missed'
      BY <2>1, <2>3, <2>6, <2>7, <3>1 DEF Conserved, Apart
    <3>4. ASSUME NEW n \in topic' \cup missed' PROVE ~InChannel(n)'
      <4>1. n # channel[1] => ~InChannel(n)
        BY <2>6, <3>4 DEF Conserved, Apart
      <4>2. InChannel(n)' => n # channel[1]
        BY <2>4 DEF InChannel
      <4> QED BY <2>3, <4>1, <4>2
    <3> QED BY <2>5, <3>2, <3>3, <3>4 DEF Apart
  <2>9. Placed'
    BY <2>1, <2>3, <2>6, <2>7 DEF Conserved, Placed
  <2>10. BusyBots' = BusyBots
    BY <2>7 DEF BusyBots
  <2>11. Counted'
    <3>0. /\ Cardinality(BusyBots) \in Nat /\ Cardinality(topic) \in Nat
          /\ Cardinality(missed) \in Nat /\ Len(channel) \in Nat
      BY FS_CardinalityType DEF Conserved, Counted, Typed
    <3>1. Cardinality(BusyBots) + Len(channel) + Cardinality(topic) + Cardinality(missed) = Len(orders)
      BY DEF Conserved, Counted
    <3>2. Len(channel') = Len(channel) - 1 /\ orders' = orders
      BY <2>1
    <3>4. Len(orders) \in Nat
      BY <1>0 DEF Typed
    <3>6. /\ Cardinality(BusyBots) + (Len(channel) - 1) + (Cardinality(topic) + 1)
                + Cardinality(missed) = Len(orders)
          /\ Cardinality(BusyBots) + (Len(channel) - 1) + Cardinality(topic)
                + (Cardinality(missed) + 1) = Len(orders)
      <4> DEFINE u == Cardinality(BusyBots)  c == Len(channel)    o == Len(orders)
                 t == Cardinality(topic)     m == Cardinality(missed)
      <4>1. u \in Nat /\ c \in Nat /\ t \in Nat /\ m \in Nat /\ o \in Nat /\ u + c + t + m = o
        BY <3>0, <3>1, <3>4
      <4> HIDE DEF u, c, t, m, o
      <4>2. u + (c - 1) + (t + 1) + m = o /\ u + (c - 1) + t + (m + 1) = o
        BY <4>1
      <4> QED BY <4>2 DEF u, c, t, m, o
    <3>3. CASE topic' = topic \cup {channel[1]} /\ missed' = missed
      <4>1. IsFiniteSet(topic') /\ Cardinality(topic') = Cardinality(topic) + 1
        BY <2>6, <3>3, FS_AddElement DEF Conserved, Counted
      <4>2. Cardinality(BusyBots) + Len(channel') + Cardinality(topic') + Cardinality(missed) = Len(orders)
        BY <3>2, <3>6, <4>1, Zenon
      <4> QED BY <2>10, <3>2, <3>3, <4>1, <4>2 DEF Conserved, Counted
    <3>7. CASE missed' = missed \cup {channel[1]} /\ topic' = topic
      <4>1. IsFiniteSet(missed') /\ Cardinality(missed') = Cardinality(missed) + 1
        BY <2>6, <3>7, FS_AddElement DEF Conserved, Counted
      <4>2. Cardinality(BusyBots) + Len(channel') + Cardinality(topic) + Cardinality(missed') = Len(orders)
        BY <3>2, <3>6, <4>1, Zenon
      <4> QED BY <2>10, <3>2, <3>7, <4>1, <4>2 DEF Conserved, Counted
    <3> QED BY <2>6, <3>3, <3>7
  <2> QED BY <1>0, <2>8, <2>9, <2>11 DEF Conserved
<1>7. CASE Close
  BY <1>0, <1>7, NoEventMoves DEF Close, Busy, At
<1>8. CASE UNCHANGED vars
  BY <1>0, <1>8, NoEventMoves DEF vars, pathVars, Busy, At
<1> QED BY <1>1, <1>2, <1>3, <1>4, <1>5, <1>6, <1>7, <1>8 DEF Next, Worker

\* An event is in one place, and one only.
LEMMA ConservedInvariant == Spec => []Conserved
BY ConservedInit, ConservedStep, PTL DEF Spec

\* No event is lost but by the writer, and none is doubled: what a full channel does not
\* take stays with its worker (orchestrator.go:58-63, publisher/kafka.go:30-57).
THEOREM Conservation == Spec => []EventsAreConserved
BY ConservedInvariant, ConservedGives, PTL

---------------------------------------------------------------------------
(* The engine *)

\* What the engine reports: an order that it matched hit a limit order of the other side,
\* which it crosses, and which is an earlier one if the same bot sent it.
Traded(n, x) ==
    /\ orders[n].type # "cancel" /\ orders[x].type = "limit"
    /\ orders[x].side # orders[n].side
    /\ orders[n].type = "market" \/ Crosses(orders[n].side, orders[n].price, orders[x].price)
    /\ orders[x].bot = orders[n].bot => x < n

\* What rests are limit orders, what was hit was there to be hit, and a worker that waits
\* for an answer has sent nothing since.
Engine ==
    /\ \A x \in resting : orders[x].type = "limit"
    /\ \A n \in 1..Len(orders) : hit[n] > 0 => Traded(n, hit[n])
    /\ \A b \in Bots : At(b) = "calling" =>
          /\ orders[bot[b].order].bot = b
          /\ \A n \in 1..Len(orders) : orders[n].bot = b => n <= bot[b].order

\* What a match rests and hits.
LEMMA MatchedOrder ==
    ASSUME Typed, Engine, NEW n \in 1..Len(orders), NEW x \in {0} \cup resting, Match(n, x)
    PROVE  /\ \A y \in resting' : orders[y].type = "limit"
           /\ x > 0 => /\ x \in 1..Len(orders) /\ orders[x].type = "limit"
                       /\ orders[n].type # "cancel" /\ orders[x].side # orders[n].side /\ x # n
                       /\ \/ orders[n].type = "market"
                          \/ Crosses(orders[n].side, orders[n].price, orders[x].price)
<1>1. \A y \in resting : orders[y].type = "limit"
  BY DEF Engine
<1>2. resting \subseteq 1..Len(orders)
  BY DEF Typed
<1>3. \A y \in resting' : orders[y].type = "limit"
  BY <1>1 DEF Match
<1>4. ASSUME x > 0
      PROVE  /\ x \in 1..Len(orders) /\ orders[x].type = "limit"
             /\ orders[n].type # "cancel" /\ orders[x].side # orders[n].side /\ x # n
             /\ \/ orders[n].type = "market"
                \/ Crosses(orders[n].side, orders[n].price, orders[x].price)
  <2>1. x \in resting /\ x # 0
    BY <1>2, <1>4
  <2>2. orders[n].type # "cancel" /\ x \in Crossing(orders[n])
    BY <2>1 DEF Match
  <2> QED BY <1>1, <1>2, <2>1, <2>2 DEF Crossing
<1> QED BY <1>3, <1>4

\* Nothing rests.
LEMMA EngineInit == Init => Engine
<1> SUFFICES ASSUME Init PROVE Engine
  OBVIOUS
<1>1. Len(orders) = 0 /\ \A b \in Bots : At(b) # "calling"
  BY DEF Init, At, Doing
<1>2. \A n \in 1..0 : FALSE
  OBVIOUS
<1> QED BY <1>1, <1>2 DEF Init, Engine

\* A step of the engine that no worker hears of, or of the channel.
LEMMA EngineUnheard ==
    ASSUME Typed, Engine, UNCHANGED <<orders, hit>>,
           \A y \in resting' : orders[y].type = "limit",
           \A b \in Bots : At(b)' = "calling" => At(b) = "calling" /\ bot'[b].order = bot[b].order
    PROVE  Engine'
<1>1. \A n \in 1..Len(orders) : hit'[n] > 0 => Traded(n, hit[n])'
  BY DEF Engine, Traded
<1> QED BY <1>1 DEF Engine

\* Every step keeps it: a worker's order is its last one (bot.go:37-66).
LEMMA EngineStep == Typed /\ Engine /\ [Next]_vars => Engine'
<1> SUFFICES ASSUME Typed, Engine, [Next]_vars PROVE Engine'
  OBVIOUS
<1>0. Len(orders) \in Nat
  BY DEF Typed
<1>1. ASSUME NEW b \in Bots, SendOrder(b) PROVE Engine'
  <2>1. PICK o \in Generate(b) : orders' = Append(orders, o)
    BY <1>1 DEF SendOrder
  <2>2. o \in Orders /\ o.bot = b
    BY GeneratedOrder
  <2>3. /\ Len(orders') = Len(orders) + 1
        /\ \A n \in 1..Len(orders) : orders'[n] = orders[n]
        /\ orders'[Len(orders) + 1] = o
    BY <2>1, <2>2, AppendProperties DEF Typed
  <2>4. /\ \A n \in 1..Len(orders) : hit'[n] = hit[n]
        /\ hit'[Len(orders) + 1] = 0
    BY <1>1, AppendProperties DEF SendOrder, Typed
  <2>5. \A n \in 1..Len(orders') : n \in 1..Len(orders) \/ n = Len(orders) + 1
    BY <1>0, <2>3
  <2>6. resting' = resting /\ resting \subseteq 1..Len(orders)
    BY <1>1 DEF SendOrder, Typed
  <2>7. \A y \in resting' : orders'[y].type = "limit"
    BY <2>3, <2>6 DEF Engine
  <2>8. ASSUME NEW n \in 1..Len(orders'), hit'[n] > 0 PROVE Traded(n, hit[n])'
    <3>1. n # Len(orders) + 1
      BY <2>4, <2>8
    <3>2. n \in 1..Len(orders) /\ hit'[n] = hit[n]
      BY <2>4, <2>5, <3>1
    <3>3. hit[n] \in 1..Len(orders)
      <4>1. hit[n] \in Nat /\ hit[n] <= Len(orders)
        BY <3>2, ElementOfSeq DEF Typed
      <4> QED BY <1>0, <2>8, <3>2, <4>1
    <3>4. Traded(n, hit[n])
      BY <2>8, <3>2 DEF Engine
    <3> QED BY <2>3, <3>2, <3>3, <3>4 DEF Traded
  <2>9. /\ \A c \in Bots : c # b => bot'[c] = bot[c]
        /\ bot'[b].order = Len(orders) + 1
    BY <1>1 DEF SendOrder, Typed, Doing
  <2>10. ASSUME NEW c \in Bots, At(c)' = "calling"
         PROVE  /\ orders'[bot'[c].order].bot = c
                /\ \A n \in 1..Len(orders') : orders'[n].bot = c => n <= bot'[c].order
    <3>1. CASE c = b
      <4>1. \A n \in 1..Len(orders') : n <= Len(orders) + 1
        BY <1>0, <2>3
      <4> QED BY <2>2, <2>3, <2>9, <3>1, <4>1
    <3>2. CASE c # b
      <4>1. At(c) = "calling" /\ bot'[c] = bot[c]
        BY <2>9, <2>10, <3>2 DEF At
      <4>2. bot[c].order \in 1..Len(orders)
        BY <1>0, <4>1 DEF Typed, Busy
      <4>3. /\ orders[bot[c].order].bot = c
            /\ \A n \in 1..Len(orders) : orders[n].bot = c => n <= bot[c].order
        BY <4>1 DEF Engine
      <4>4. orders'[Len(orders) + 1].bot # c
        BY <2>2, <2>3, <3>2
      <4> QED BY <2>3, <2>5, <4>1, <4>2, <4>3, <4>4
    <3> QED BY <3>1, <3>2
  <2> QED BY <2>7, <2>8, <2>10 DEF Engine
<1>2. ASSUME NEW b \in Bots, NEW a \in Answers, NEW x \in 0..Len(orders), Report(b, a, x),
             x > 0 => Traded(bot[b].order, x), \A y \in resting' : orders[y].type = "limit"
      PROVE  Engine'
  <2>1. /\ \A n \in 1..Len(orders) : n # bot[b].order => hit'[n] = hit[n]
        /\ hit'[bot[b].order] = x /\ orders' = orders
        /\ \A c \in Bots : bot'[c].order = bot[c].order /\ (c # b => bot'[c] = bot[c])
    <3>1. Report(b, a, x)
      BY <1>2
    <3> HIDE DEF Report
    <3> QED BY <1>0, <3>1, Reported
  <2>2. ASSUME NEW n \in 1..Len(orders), hit'[n] > 0 PROVE Traded(n, hit[n])'
    <3>1. Traded(n, hit'[n])
      BY <1>2, <2>1, <2>2 DEF Engine
    <3> QED BY <2>1, <3>1 DEF Traded
  <2>3. \A c \in Bots : At(c)' = "calling" => At(c) = "calling"
    BY <1>2, <2>1 DEF At, Report
  <2> QED BY <1>2, <2>1, <2>2, <2>3 DEF Engine
<1>3. ASSUME NEW b \in Bots, Answered(b) PROVE Engine'
  <2>1. PICK x \in {0} \cup resting :
           /\ At(b) = "calling"
           /\ Match(bot[b].order, x)
           /\ Report(b, IF x > 0 THEN "filled" ELSE "unfilled", x) \/ Report(b, "filled", x)
    BY <1>3 DEF Answered
  <2>2. x \in 0..Len(orders) /\ bot[b].order \in 1..Len(orders)
    BY <1>0, <2>1 DEF Typed, Busy
  <2>3. PICK a \in Answers : Report(b, a, x)
    BY <2>1 DEF Answers
  <2>4. x > 0 => Traded(bot[b].order, x)
    <3>1. ASSUME x > 0, orders[x].bot = orders[bot[b].order].bot PROVE x < bot[b].order
      <4>1. x \in 1..Len(orders) /\ x # bot[b].order
        BY <2>1, <2>2, <3>1, MatchedOrder
      <4>2. x <= bot[b].order
        BY <2>1, <3>1, <4>1 DEF Engine
      <4> QED BY <2>2, <4>1, <4>2
    <3> QED BY <2>1, <2>2, <3>1, MatchedOrder DEF Traded
  <2>5. \A y \in resting' : orders[y].type = "limit"
    BY <2>1, <2>2, MatchedOrder
  <2> QED BY <1>2, <2>2, <2>3, <2>4, <2>5
<1>4. ASSUME NEW b \in Bots, Refused(b) PROVE Engine'
  <2>1. /\ Report(b, "rejected", 0) /\ resting' = resting
        /\ "rejected" \in Answers /\ ~(0 > 0) /\ 0 \in 0..Len(orders)
    BY <1>0, <1>4 DEF Refused, Answers
  <2> QED BY <1>2, <2>1 DEF Engine
<1>5. ASSUME NEW b \in Bots, Deliver(b) \/ Return(b) PROVE Engine'
  <2>1. UNCHANGED <<orders, hit, resting>>
    BY <1>5 DEF Deliver, Return
  <2>2. \A c \in Bots : At(c)' = "calling" => At(c) = "calling" /\ bot'[c].order = bot[c].order
    <3>1. /\ \A c \in Bots : c # b => bot'[c] = bot[c]
          /\ bot'[b].at # "calling"
      BY <1>5 DEF Deliver, Return, Typed, Doing
    <3> QED BY <3>1 DEF At
  <2> QED BY <2>1, <2>2, EngineUnheard DEF Engine
<1>6. ASSUME NEW n \in overdue, MatchOverdue(n) PROVE Engine'
  <2>1. UNCHANGED <<orders, bot, hit>> /\ n \in 1..Len(orders)
    BY <1>6 DEF MatchOverdue, Typed
  <2>2. \A y \in resting' : orders[y].type = "limit"
    BY <1>6, <2>1, MatchedOrder DEF MatchOverdue
  <2> QED BY <2>1, <2>2, EngineUnheard DEF At
<1>7. CASE Publish \/ Close \/ UNCHANGED vars
  <2>1. UNCHANGED <<orders, bot, hit, resting>>
    BY <1>7 DEF Publish, Close, vars
  <2> QED BY <2>1, EngineUnheard DEF At, Engine
<1> QED BY <1>1, <1>3, <1>4, <1>5, <1>6, <1>7 DEF Next, Worker

\* The engine is a correct one, and the workers wait for their answers.
LEMMA EngineInvariant == Spec => [](Typed /\ Engine)
<1>1. Init => Typed /\ Engine
  BY TypedInit, EngineInit
<1>2. Typed /\ Engine /\ [Next]_vars => Typed' /\ Engine'
  BY TypedStep, EngineStep
<1> QED BY <1>1, <1>2, PTL DEF Spec

---------------------------------------------------------------------------
(* The fill list of the window *)

\* The events of a window that are listed, each once.
Listing(received) ==
    /\ received \in [1..Cardinality(Listed) -> Listed]
    /\ \A i, j \in DOMAIN received : received[i] = received[j] => i = j

\* What is listed are orders, and finitely many.
LEMMA ListedAreOrders ==
    Typed => Listed \subseteq 1..Len(orders) /\ IsFiniteSet(Listed) /\ Cardinality(Listed) \in Nat
<1> SUFFICES ASSUME Typed
             PROVE  Listed \subseteq 1..Len(orders) /\ IsFiniteSet(Listed) /\ Cardinality(Listed) \in Nat
  OBVIOUS
<1>1. Listed \subseteq 1..Len(orders) /\ Len(orders) \in Nat
  BY DEF Typed, Listed
<1>2. IsFiniteSet(1..Len(orders))
  BY <1>1, FS_Interval
<1>3. IsFiniteSet(Listed)
  BY <1>1, <1>2, FS_Subset
<1> QED BY <1>1, <1>3, FS_CardinalityType

\* The fill list says of each order what was sent (window.go:95-106).
LEMMA FillsOfListing ==
    ASSUME Typed, NEW received, Listing(received)
    PROVE  /\ fills(received) \in Seq(Event) /\ Stamped(fills(received))
           /\ Len(fills(received)) \in Nat /\ DOMAIN fills(received) = 1..Len(fills(received))
           /\ \A i \in 1..Len(fills(received)) :
                 LET e == fills(received)[i]
                     o == orders[e.sentAt]
                 IN /\ e.sentAt \in 1..Len(orders) /\ e.id = o.id /\ e.side = o.side /\ e.type = o.type
                    /\ e.price = o.price
<1> DEFINE list == fills(received)
           n == Cardinality(Listed)
<1>1. n \in Nat /\ Listed \subseteq 1..Len(orders)
  BY ListedAreOrders
<1>2. /\ DOMAIN received = 1..n /\ \A i \in 1..n : received[i] \in 1..Len(orders)
      /\ \A i, j \in 1..n : received[i] = received[j] => i = j
  BY <1>1 DEF Listing
<1>3. list = [i \in 1..n |->
                [id |-> orders[received[i]].id, side |-> orders[received[i]].side,
                 type |-> orders[received[i]].type, price |-> orders[received[i]].price,
                 sentAt |-> received[i], filled |-> answer[received[i]] = "filled"]]
  BY <1>2 DEF fills
<1> HIDE DEF list, n
<1>4. ASSUME NEW i \in 1..n
      PROVE  /\ list[i] \in Event /\ list[i].sentAt = received[i] /\ received[i] \in 1..Len(orders)
             /\ list[i].id = orders[received[i]].id /\ list[i].side = orders[received[i]].side
             /\ list[i].type = orders[received[i]].type /\ list[i].price = orders[received[i]].price
  <2>1. orders[received[i]] \in Orders /\ received[i] \in Nat /\ received[i] \in 1..Len(orders)
    BY <1>2, ElementOfSeq DEF Typed
  <2>2. /\ orders[received[i]].id \in Nat /\ orders[received[i]].side \in Sides
        /\ orders[received[i]].type \in Types /\ orders[received[i]].price \in Nat
    BY <2>1 DEF Orders
  <2>3. (answer[received[i]] = "filled") \in BOOLEAN
    OBVIOUS
  <2> QED BY <1>3, <2>1, <2>2, <2>3 DEF Event
<1>5. list \in Seq(Event) /\ Len(list) = n /\ DOMAIN list = 1..n
  <2>1. list \in [1..n -> Event]
    BY <1>3, <1>4
  <2> QED BY <1>1, <2>1, FunctionIsSeq
<1>6. Stamped(list)
  BY <1>2, <1>4, <1>5 DEF Stamped
<1> QED BY <1>1, <1>4, <1>5, <1>6 DEF list

\* The first level of each side of the replay's book is its best, whatever was received
\* and in whatever order it was sent (orderbook.go:37-86).
THEOREM BestLevelIsFirst == Spec => []FirstLevelIsBest
<1>1. Typed => FirstLevelIsBest
  <2> SUFFICES ASSUME Typed PROVE FirstLevelIsBest
    OBVIOUS
  <2> DEFINE received == SetToSeq(Listed)
             book == Validate(fills(received)).book
  <2>1. Listing(received)
    <3>1. \E f \in [1..Cardinality(Listed) -> Listed] : IsInjective(f)
      BY ListedAreOrders, FS_CardinalityType DEF ExistsBijection, Bijection, Injection
    <3>2. received \in [1..Cardinality(Listed) -> Listed] /\ IsInjective(received)
      BY <3>1 DEF SetToSeq
    <3> QED BY <3>2 DEF Listing, IsInjective
  <2>2. GoodBook(book)
    BY <2>1, FillsOfListing, ReplayKeepsBestFirst
  <2> HIDE DEF book
  <2>3. ASSUME NEW side \in Sides, NEW i \in DOMAIN book[side]
        PROVE  /\ book[side][i].orders # <<>>
               /\ i > 1 => Prefers(Other(side), book[side][1].price, book[side][i].price)
    <3>1. GoodLevels(book[side], side) /\ Len(book[side]) \in Nat /\ DOMAIN book[side] = 1..Len(book[side])
      BY <2>2 DEF GoodBook, GoodLevels
    <3>2. i > 1 => 1 \in 1..Len(book[side]) /\ 1 < i
      BY <3>1
    <3> QED BY <3>1, <3>2 DEF GoodLevels
  <2> QED BY <2>3 DEF FirstLevelIsBest, book
<1> QED BY <1>1, TypedInvariant, PTL

\* A fill of a correct engine that the ingester judges wrong has one of the three causes
\* (validator.go:31-105, orderbook.go:29-86, bot.go:37-97, window.go:95-106).
THEOREM WrongFillsAreExplained == Spec => []WrongFillsHaveACause
<1>1. Typed /\ Engine => WrongFillsHaveACause
  <2> SUFFICES ASSUME Typed, Engine, NEW received \in SetToSeqs(Listed)
               PROVE  LET list == fills(received)
                          On(n) == \E i \in DOMAIN list : list[i].sentAt = n
                          Wrong(e) == e.filled /\ e.sentAt \notin Validate(list).correct
                      IN \A i \in DOMAIN list :
                            LET e == list[i]
                                x == hit[e.sentAt]
                            IN x > 0 /\ Wrong(e) =>
                                  \/ ~ On(x)
                                  \/ x > e.sentAt /\ orders[x].bot # orders[e.sentAt].bot
                                  \/ \E j \in DOMAIN list : /\ list[j].type = "cancel"
                                                            /\ list[j].id = orders[x].id
                                                            /\ list[j].sentAt \in x..e.sentAt
    BY DEF WrongFillsHaveACause
  <2> DEFINE list == fills(received)
             n == Len(list)
  <2>1. Listing(received)
    BY DEF SetToSeqs, Listing
  <2>2. /\ list \in Seq(Event) /\ Stamped(list) /\ n \in Nat /\ DOMAIN list = 1..n
        /\ \A i \in 1..n : LET e == list[i]
                               o == orders[e.sentAt]
                           IN /\ e.sentAt \in 1..Len(orders) /\ e.id = o.id /\ e.side = o.side
                              /\ e.type = o.type /\ e.price = o.price
    BY <2>1, FillsOfListing
  <2> HIDE DEF list
  <2>3. ASSUME NEW i \in 1..n, hit[list[i].sentAt] > 0, list[i].filled,
               NEW k \in 1..n, list[k].sentAt = hit[list[i].sentAt],
               ~(list[k].sentAt > list[i].sentAt /\ orders[list[k].sentAt].bot # orders[list[i].sentAt].bot),
               \A j \in 1..n : ~(list[j].type = "cancel" /\ list[j].id = list[k].id
                                   /\ list[j].sentAt \in list[k].sentAt..list[i].sentAt)
        PROVE  list[i].sentAt \in Validate(list).correct
    <3> DEFINE e == list[i].sentAt
               x == list[k].sentAt
    <3>1. /\ e \in 1..Len(orders) /\ x \in 1..Len(orders)
          /\ list[i].side = orders[e].side /\ list[i].type = orders[e].type /\ list[i].price = orders[e].price
          /\ list[k].side = orders[x].side /\ list[k].type = orders[x].type /\ list[k].price = orders[x].price
      BY <2>2
    <3>2. Traded(e, x)
      BY <2>3, <3>1 DEF Engine
    <3>3. list[i].type # "cancel" /\ list[k].type = "limit" /\ list[k].side # list[i].side
      BY <3>1, <3>2 DEF Traded
    <3>4. list[i].type = "market" \/ Crosses(list[i].side, list[i].price, list[k].price)
      BY <3>1, <3>2 DEF Traded
    <3>5. x < e
      <4>1. x # e
        BY <3>2 DEF Traded
      <4> QED BY <2>3, <3>1, <3>2, <4>1 DEF Traded
    <3>6. list[k].side = Other(list[i].side)
      <4>1. list[k] \in Event /\ list[i] \in Event
        BY <2>2, ElementOfSeq
      <4> QED BY <3>3, <4>1 DEF Event, Sides, Other
    <3> QED BY <2>2, <2>3, <3>3, <3>4, <3>5, <3>6, CrossingFillIsCorrect
  <2>4. ASSUME NEW i \in DOMAIN list,
               hit[list[i].sentAt] > 0, list[i].filled, list[i].sentAt \notin Validate(list).correct,
               NEW k \in DOMAIN list, list[k].sentAt = hit[list[i].sentAt],
               ~(hit[list[i].sentAt] > list[i].sentAt
                   /\ orders[hit[list[i].sentAt]].bot # orders[list[i].sentAt].bot)
        PROVE  \E j \in DOMAIN list : /\ list[j].type = "cancel"
                                      /\ list[j].id = orders[hit[list[i].sentAt]].id
                                      /\ list[j].sentAt \in hit[list[i].sentAt]..list[i].sentAt
    <3>1. i \in 1..n /\ k \in 1..n /\ list[k].id = orders[list[k].sentAt].id
      BY <2>2
    <3>2. \E j \in 1..n : /\ list[j].type = "cancel" /\ list[j].id = list[k].id
                          /\ list[j].sentAt \in list[k].sentAt..list[i].sentAt
      BY <2>3, <2>4, <3>1
    <3> QED BY <2>2, <2>4, <3>1, <3>2
  <2> QED BY <2>4 DEF list
<1> QED BY <1>1, EngineInvariant, PTL
=============================================================================
