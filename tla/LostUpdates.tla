----------------------------- MODULE LostUpdates -----------------------------
(***************************************************************************)
(* Arithmetic of a counter that two writers read and write in separate     *)
(* statements, as RateLimit's and the attempts of Notifications: how often *)
(* it can still be read below its limit.  A writer is given by the number  *)
(* it has read and not written; l or more stands for none.  All numbers of *)
(* Rest are doubled, so that no division is needed.                        *)
(***************************************************************************)
EXTENDS Integers, TLAPS

Climb(l, n) == IF n < l THEN l - n ELSE 0

\* Nobody has read: to climb from n, and before each value to fall back to it once.
Rest(l, n) == Climb(l, n) * (Climb(l, n) + 3)

\* One writer has read x: the other climbs to the limit before x + 1 is written.
RestOne(l, x, n) ==
    CASE x >= l -> Rest(l, n)
      [] x < l /\ x < n -> 2 * Climb(l, n) + Rest(l, x + 1)
      [] x < l /\ x >= n -> Rest(l, n) - 2

\* Two writers that both have read: one of them the number the counter has.
Consistent(l, x, y, n) == x < l /\ y < l => n = x \/ n = y

RestTwo(l, x, y, n) ==
    CASE x >= l -> RestOne(l, y, n)
      [] x < l /\ y >= l -> RestOne(l, x, n)
      [] x < l /\ y < l /\ y = n -> RestOne(l, x, n) - 2
      [] x < l /\ y < l /\ y # n -> RestOne(l, y, n) - 2

-----------------------------------------------------------------------------

LEMMA RestOfCount ==
    ASSUME NEW l \in Nat, NEW n \in Nat
    PROVE  /\ Climb(l, n) \in Nat /\ Rest(l, n) \in Nat
           /\ n >= l => Climb(l, n) = 0 /\ Rest(l, n) = 0
           /\ n < l => /\ Climb(l, n) = l - n /\ Rest(l, n) >= 4
                       /\ Rest(l, n) = 2 + 2 * (l - n) + Rest(l, n + 1)
           /\ Rest(l, 0) = l * l + 3 * l
<1>0. Rest(l, 0) = l * l + 3 * l
  BY DEF Rest, Climb
<1>1. CASE n >= l
  BY <1>0, <1>1 DEF Climb, Rest
<1>2. CASE n < l
  <2> DEFINE j == l - n
  <2>1. j \in Nat /\ j >= 1 /\ Climb(l, n) = j
    BY <1>2 DEF Climb
  <2>2. Climb(l, n + 1) = j - 1
    BY <1>2 DEF Climb
  <2> HIDE DEF j
  <2>3. Rest(l, n) = j * (j + 3) /\ Rest(l, n + 1) = (j - 1) * (j + 2)
    BY <2>1, <2>2 DEF Rest
  <2>4. j * (j + 3) = j * j + 3 * j
    BY <2>1
  <2>5. (j - 1) * (j + 2) = j * j + j - 2
    BY <2>1
  <2>6. j * j \in Nat /\ j * j >= j
    BY <2>1
  <2>7. Rest(l, n) >= 4 /\ Rest(l, n) = 2 + 2 * j + Rest(l, n + 1) /\ Rest(l, n) \in Nat
    BY <2>1, <2>3, <2>4, <2>5, <2>6
  <2> QED BY <1>0, <1>2, <2>1, <2>7 DEF j
<1> QED BY <1>0, <1>1, <1>2

LEMMA RestFalls ==
    ASSUME NEW l \in Nat, NEW n \in Nat, NEW m \in Nat, n <= m
    PROVE  Rest(l, m) <= Rest(l, n)
<1> DEFINE j == Climb(l, n)
           k == Climb(l, m)
<1>1. j \in Nat /\ k \in Nat /\ k <= j
  BY DEF Climb
<1> HIDE DEF j, k
<1>2. k * (k + 3) <= j * (j + 3)
  BY <1>1
<1> QED BY <1>2 DEF Rest, j, k

\* What is left is a number, the same from either writer's side.
LEMMA RestIsCount ==
    ASSUME NEW l \in Nat, NEW x \in Nat, NEW y \in Nat, NEW n \in Nat, Consistent(l, x, y, n)
    PROVE  /\ RestTwo(l, x, y, n) \in Nat
           /\ RestTwo(l, x, y, n) = RestTwo(l, y, x, n)
           /\ n < l /\ y >= l => RestTwo(l, x, y, n) >= 2
           /\ Consistent(l, y, x, n)
<1>1. \A k \in Nat : /\ Rest(l, k) \in Nat /\ Climb(l, k) \in Nat
                     /\ k < l => Climb(l, k) = l - k /\ Rest(l, k) >= 4
  BY RestOfCount
<1>2. x + 1 \in Nat /\ y + 1 \in Nat
  OBVIOUS
<1> QED BY <1>1, <1>2 DEF RestTwo, RestOne, Consistent

\* Reading below the limit takes one from what is left.
LEMMA ReadCounts ==
    ASSUME NEW l \in Nat, NEW x \in Nat, NEW y \in Nat, NEW n \in Nat, n < l, x >= l
    PROVE  /\ RestTwo(l, n, y, n) = RestTwo(l, x, y, n) - 2
           /\ Consistent(l, n, y, n)
<1>1. \A k \in Nat : Rest(l, k) \in Nat /\ Climb(l, k) \in Nat
  BY RestOfCount
<1>2. y + 1 \in Nat
  OBVIOUS
<1> QED BY <1>1, <1>2 DEF RestTwo, RestOne, Consistent

\* Writing leaves no more than there was, also with another writer that reads only now.
LEMMA WriteFalls ==
    ASSUME NEW l \in Nat, NEW x \in Nat, NEW y \in Nat, NEW n \in Nat, Consistent(l, x, y, n)
    PROVE  /\ RestTwo(l, l, y, x + 1) <= RestTwo(l, x, y, n)
           /\ y = n => RestTwo(l, l, x + 1, x + 1) <= RestTwo(l, x, y, n)
<1>1. \A k \in Nat : /\ Rest(l, k) \in Nat /\ Climb(l, k) \in Nat
                     /\ k >= l => Climb(l, k) = 0 /\ Rest(l, k) = 0
                     /\ k < l => /\ Climb(l, k) = l - k /\ Rest(l, k) >= 4
                                 /\ Rest(l, k) = 2 + 2 * (l - k) + Rest(l, k + 1)
  BY RestOfCount
<1>2. \A k, m \in Nat : k <= m => Rest(l, m) <= Rest(l, k)
  BY RestFalls
<1>3. n + 1 \in Nat /\ x + 1 \in Nat /\ y + 1 \in Nat
  OBVIOUS
<1> HIDE DEF Rest, Climb
<1>4. CASE x >= l
  BY <1>1, <1>2, <1>3, <1>4 DEF RestTwo, RestOne, Consistent
<1>5. CASE x < l /\ y >= l
  BY <1>1, <1>2, <1>3, <1>5 DEF RestTwo, RestOne, Consistent
<1>6. CASE x < l /\ y < l /\ y = n
  BY <1>1, <1>2, <1>3, <1>6 DEF RestTwo, RestOne, Consistent
<1>7. CASE x < l /\ y < l /\ y # n
  <2>1. x = n /\ ~(l < l)
    BY <1>7 DEF Consistent
  <2>2. RestTwo(l, x, y, n) = RestOne(l, y, n) - 2
    BY <1>7, <2>1 DEF RestTwo
  <2>3. RestTwo(l, l, y, x + 1) = RestOne(l, y, n + 1)
    BY <2>1 DEF RestTwo
  <2>4. /\ Climb(l, n) = l - n /\ Rest(l, n) = 2 + 2 * (l - n) + Rest(l, n + 1)
        /\ Climb(l, n + 1) = IF n + 1 < l THEN l - (n + 1) ELSE 0
        /\ Rest(l, n) \in Nat /\ Rest(l, n + 1) \in Nat /\ Rest(l, y + 1) \in Nat
    BY <1>1, <1>3, <1>7, <2>1 DEF Climb
  <2>5. CASE y < n
    <3>1. RestOne(l, y, n) = 2 * Climb(l, n) + Rest(l, y + 1)
      BY <1>7, <2>5 DEF RestOne
    <3>2. RestOne(l, y, n + 1) = 2 * Climb(l, n + 1) + Rest(l, y + 1)
      BY <1>7, <2>5 DEF RestOne
    <3> QED BY <1>7, <2>1, <2>2, <2>3, <2>4, <3>1, <3>2
  <2>6. CASE y > n
    <3>1. RestOne(l, y, n) = Rest(l, n) - 2
      BY <1>7, <2>6 DEF RestOne
    <3>2. RestOne(l, y, n + 1) = Rest(l, n + 1) - 2
      BY <1>7, <2>6 DEF RestOne
    <3> QED BY <1>7, <2>1, <2>2, <2>3, <2>4, <3>1, <3>2
  <2> QED BY <1>7, <2>5, <2>6
<1> QED BY <1>4, <1>5, <1>6, <1>7

\* A writer that is gone leaves at most its own read to another.
LEMMA ForgetFrees ==
    ASSUME NEW l \in Nat, NEW x \in Nat, NEW y \in Nat, NEW n \in Nat, Consistent(l, x, y, n)
    PROVE  RestTwo(l, l, y, n) <= RestTwo(l, x, y, n) + (IF x < l THEN 2 ELSE 0)
<1>1. \A k \in Nat : /\ Rest(l, k) \in Nat /\ Climb(l, k) \in Nat
                     /\ k >= l => Climb(l, k) = 0 /\ Rest(l, k) = 0
                     /\ k < l => /\ Climb(l, k) = l - k /\ Rest(l, k) >= 4
                                 /\ Rest(l, k) = 2 + 2 * (l - k) + Rest(l, k + 1)
  BY RestOfCount
<1>2. \A k, m \in Nat : k <= m => Rest(l, m) <= Rest(l, k)
  BY RestFalls
<1>3. n + 1 \in Nat /\ x + 1 \in Nat /\ y + 1 \in Nat
  OBVIOUS
<1>4. CASE x >= l
  BY <1>1, <1>3, <1>4 DEF RestTwo, RestOne
<1>5. CASE x < l /\ y >= l
  BY <1>1, <1>2, <1>3, <1>5, SMTT(20) DEF RestTwo, RestOne
<1>6. CASE x < l /\ y < l /\ y = n
  BY <1>1, <1>2, <1>3, <1>6 DEF RestTwo, RestOne
<1>7. CASE x < l /\ y < l /\ y # n
  BY <1>1, <1>2, <1>3, <1>7 DEF RestTwo, RestOne, Consistent
<1> QED BY <1>4, <1>5, <1>6, <1>7

\* From zero there is the most, and that before anybody has read.
LEMMA RestFromZero ==
    ASSUME NEW l \in Nat, NEW x \in Nat, NEW y \in Nat
    PROVE  RestTwo(l, x, y, 0) <= l * l + 3 * l
<1>1. Rest(l, 0) \in Nat /\ Rest(l, 0) = l * l + 3 * l
  BY RestOfCount
<1>2. RestTwo(l, x, y, 0) <= Rest(l, 0)
  BY <1>1 DEF RestTwo, RestOne
<1> QED BY <1>1, <1>2

\* The bound without the doubling.
LEMMA HalfOfBound ==
    ASSUME NEW l \in Nat, NEW g \in Nat, 2 * g <= l * l + 3 * l
    PROVE  g <= l + (l * (l + 1)) \div 2
<1> DEFINE p == l * (l + 1)
<1>1. p \in Nat /\ l * l + 3 * l = p + 2 * l
  OBVIOUS
<1> HIDE DEF p
<1>2. p \div 2 \in Int /\ p < 2 * (p \div 2) + 2
  BY <1>1
<1> QED BY <1>1, <1>2 DEF p
=============================================================================
