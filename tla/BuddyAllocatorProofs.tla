----------------------- MODULE BuddyAllocatorProofs -----------------------
(***************************************************************************)
(* Proofs about BuddyAllocator, for regions of any size and any number of  *)
(* orders: the blocks, free and handed out, partition the usable pages of  *)
(* every region, no two buddies are both free, and the allocator           *)
(* implements PageAllocator.                                               *)
(*                                                                         *)
(* Stale bytes of page_order need no invariant of their own: when free     *)
(* reads the byte of a buddy that says free and of its order, the buddy is *)
(* covered by some block (Tiling).  That block starts there, or the byte   *)
(* is stale and the block is larger, but then it covers the block that is  *)
(* being freed too.                                                        *)
(***************************************************************************)
EXTENDS BuddyAllocator, FiniteSetTheorems, WellFoundedInduction, TLAPS

-----------------------------------------------------------------------------
(* A set of natural numbers that has an element has a least one.           *)
LEMMA Least == \A T \in SUBSET Nat : T # {} => \E x \in T : \A y \in T : x <= y
<1> SUFFICES ASSUME NEW T \in SUBSET Nat, NEW n \in T PROVE \E x \in T : \A y \in T : x <= y
  OBVIOUS
<1> DEFINE R == StrictSubsetOrdering(0 .. n)
           C == {0 .. k : k \in {j \in T : j <= n}}
<1>1. IsFiniteSet(0 .. n)
  BY FS_Interval
<1>2. IsWellFoundedOn(R, SUBSET (0 .. n))
  BY <1>1, FS_StrictSubsetOrderingWellFounded, FS_FiniteSubsetsOfFinite
<1>3. C \subseteq SUBSET (0 .. n) /\ C # {}
   OBVIOUS
<1>4. PICK x \in C : \A y \in C : ~(<<y, x>> \in R)
  <2> HIDE DEF R, C
  <2> QED BY <1>2, <1>3, WFMin
<1>5. PICK m \in T : m <= n /\ x = 0 .. m
  BY <1>4
<1>6. ASSUME NEW y \in T, y < m PROVE FALSE
  <2>1. 0 .. y \in C
    BY <1>5, <1>6
  <2>2. 0 .. y \in SUBSET (0 .. n) /\ 0 .. m \in SUBSET (0 .. n)
    BY <1>5, <1>6
  <2>3. 0 .. y \subseteq 0 .. m /\ 0 .. y # 0 .. m
    BY <1>5, <1>6
  <2>4. <<0 .. y, 0 .. m>> \in R
    BY <2>2, <2>3 DEF StrictSubsetOrdering
  <2> QED BY <2>4, <2>1, <1>4, <1>5
<1> QED BY <1>5, <1>6

(* Induction, for a set.                                                   *)
LEMMA UpFromZero ==
    \A S \in SUBSET Nat : 0 \in S /\ (\A n \in S : n + 1 \in S) => S = Nat
<1> SUFFICES ASSUME NEW S \in SUBSET Nat, 0 \in S, \A n \in S : n + 1 \in S, NEW m \in Nat \ S
             PROVE  FALSE
  OBVIOUS
<1>1. PICK x \in Nat \ S : \A y \in Nat \ S : x <= y
  <2> DEFINE T == Nat \ S
  <2>1. T \in SUBSET Nat /\ T # {}
    OBVIOUS
  <2> HIDE DEF T
  <2>2. \E x \in T : \A y \in T : x <= y
    BY <2>1, Least
  <2> QED BY <2>2 DEF T
<1>2. x # 0 /\ x - 1 \in Nat
  BY <1>1
<1>3. x - 1 \in S
  BY <1>1, <1>2
<1> QED BY <1>1, <1>2, <1>3

LEMMA MinOf == \A T \in SUBSET Nat : T # {} => Min(T) \in T /\ \A y \in T : Min(T) <= y
  BY Least DEF Min

LEMMA MaxOf ==
    ASSUME NEW n \in Nat, NEW T \in SUBSET (0 .. n), T # {}
    PROVE  Max(T) \in T /\ \A y \in T : Max(T) >= y
<1> DEFINE U == {k \in 0 .. n : n - k \in T}
<1>1. U \in SUBSET Nat /\ U # {}
  <2>1. PICK t \in T : TRUE
    OBVIOUS
  <2>2. n - t \in U
    BY <2>1
  <2> QED BY <2>2
<1>2. PICK u \in U : \A y \in U : u <= y
  <2> HIDE DEF U
  <2> QED BY <1>1, Least
<1>3. n - u \in T /\ \A y \in T : n - u >= y
  <2>1. n - u \in T /\ u \in 0 .. n
    BY <1>2
  <2>2. ASSUME NEW y \in T PROVE n - u >= y
    <3>1. y \in 0 .. n /\ n - y \in U
      BY <2>2
    <3> QED BY <1>2, <2>1, <3>1
  <2> QED BY <2>1, <2>2
<1> QED BY <1>3 DEF Max

-----------------------------------------------------------------------------
(* Powers of two, up to the largest order and one more.                    *)
LEMMA Powers == \A n \in 0 .. MaxOrder + 1 : 2^n \in Nat \ {0}
<1> DEFINE S == {n \in Nat : n <= MaxOrder + 1 => 2^n \in Nat \ {0}}
<1>0. MaxOrder \in Nat
  BY BuddyAssumption DEF AllocBit, NoEntry
<1>1. 0 \in S
  BY PowersOfTwo
<1>2. ASSUME NEW n \in S PROVE n + 1 \in S
  <2>1. CASE n <= MaxOrder
    <3>1. n \in 0 .. MaxOrder /\ 2^n \in Nat \ {0}
      BY <1>0, <2>1
    <3>2. 2^(n + 1) = 2 * 2^n
      BY <3>1, PowersOfTwo
    <3> QED BY <3>1, <3>2
  <2>2. CASE ~(n <= MaxOrder)
    BY <1>0, <2>2
  <2> QED BY <2>1, <2>2
<1>3. S = Nat
  <2> HIDE DEF S
  <2>1. S \in SUBSET Nat
    BY DEF S
  <2> QED BY <1>1, <1>2, <2>1, UpFromZero
<1>4. ASSUME NEW n \in 0 .. MaxOrder + 1 PROVE 2^n \in Nat \ {0}
  <2>1. n \in S
    <3> HIDE DEF S
    <3> QED BY <1>0, <1>3
  <2> QED BY <1>0, <2>1
<1> QED BY <1>4

(* A larger power is a multiple of a smaller one.                          *)
LEMMA PowersDivide ==
    \A n \in 0 .. MaxOrder + 1 : \A m \in 0 .. n : \E k \in Nat \ {0} : 2^n = k * 2^m
<1> DEFINE S == {n \in Nat : n <= MaxOrder + 1 => \A m \in 0 .. n : \E k \in Nat \ {0} : 2^n = k * 2^m}
<1>0. MaxOrder \in Nat
  BY BuddyAssumption DEF AllocBit, NoEntry
<1>1. 0 \in S
  <2> SUFFICES ASSUME NEW m \in 0 .. 0 PROVE \E k \in Nat \ {0} : 2^0 = k * 2^m
    OBVIOUS
  <2>1. 1 \in Nat \ {0} /\ 2^0 = 1 * 2^m
    <3>1. m = 0
      OBVIOUS
    <3> QED BY <3>1, PowersOfTwo
  <2> QED BY <2>1
<1>2. ASSUME NEW n \in S PROVE n + 1 \in S
  <2> SUFFICES ASSUME n + 1 <= MaxOrder + 1, NEW m \in 0 .. n + 1
               PROVE  \E k \in Nat \ {0} : 2^(n + 1) = k * 2^m
    OBVIOUS
  <2>1. n \in 0 .. MaxOrder /\ 2^(n + 1) = 2 * 2^n /\ 2^n \in Nat /\ 2^m \in Nat /\ 2^(n + 1) \in Nat
    <3>1. n \in 0 .. MaxOrder /\ n \in 0 .. MaxOrder + 1 /\ m \in 0 .. MaxOrder + 1 /\ n + 1 \in 0 .. MaxOrder + 1
      BY <1>0
    <3> QED BY <3>1, Powers, PowersOfTwo
  <2>2. CASE m = n + 1
    <3>1. 2^(n + 1) = 1 * 2^m
      BY <2>1, <2>2
    <3> QED BY <3>1
  <2>3. CASE m # n + 1
    <3>1. m \in 0 .. n /\ n <= MaxOrder + 1
      BY <1>0, <2>1, <2>3
    <3>2. PICK k \in Nat \ {0} : 2^n = k * 2^m
      BY <3>1
    <3> DEFINE x == 2^m
    <3>3. 2 * (k * x) = (2 * k) * x
      BY <2>1
    <3>4. 2^(n + 1) = (2 * k) * 2^m /\ 2 * k \in Nat \ {0}
      BY <2>1, <3>2, <3>3
    <3> QED BY <3>4
  <2> QED BY <2>2, <2>3
<1>3. S = Nat
  <2> HIDE DEF S
  <2>1. S \in SUBSET Nat
    BY DEF S
  <2> QED BY <1>1, <1>2, <2>1, UpFromZero
<1>4. ASSUME NEW n \in 0 .. MaxOrder + 1 PROVE \A m \in 0 .. n : \E k \in Nat \ {0} : 2^n = k * 2^m
  <2>1. n \in S
    <3> HIDE DEF S
    <3> QED BY <1>0, <1>3
  <2> QED BY <1>0, <2>1
<1> QED BY <1>4

LEMMA Multiple == \A m \in Nat, k \in Int : k >= 1 => m * k >= m
  OBVIOUS

LEMMA PowersGrow ==
    \A n \in 0 .. MaxOrder + 1 : \A m \in 0 .. n : 2^m <= 2^n /\ (m < n => 2 * 2^m <= 2^n)
<1> SUFFICES ASSUME NEW n \in 0 .. MaxOrder + 1, NEW m \in 0 .. n
             PROVE  2^m <= 2^n /\ (m < n => 2 * 2^m <= 2^n)
  OBVIOUS
<1>0. MaxOrder \in Nat /\ m \in 0 .. MaxOrder + 1 /\ 2^m \in Nat /\ 2^n \in Nat
  <2>1. MaxOrder \in Nat
    BY BuddyAssumption DEF AllocBit, NoEntry
  <2>2. m \in 0 .. MaxOrder + 1
    BY <2>1
  <2> QED BY <2>1, <2>2, Powers
<1>1. \A j \in 0 .. n : 2^j \in Nat => 2^j <= 2^n
  <2> SUFFICES ASSUME NEW j \in 0 .. n, 2^j \in Nat PROVE 2^j <= 2^n
    OBVIOUS
  <2>1. PICK k \in Nat \ {0} : 2^n = k * 2^j
    BY PowersDivide
  <2> DEFINE x == 2^j
             y == 2^n
  <2>2. x \in Nat /\ y = k * x /\ k >= 1
    BY <2>1
  <2> HIDE DEF x, y
  <2>3. y >= x
    BY <2>2, Multiple
  <2> QED BY <1>0, <2>3 DEF x, y
<1>2. ASSUME m < n PROVE 2 * 2^m <= 2^n
  <2>1. m \in 0 .. MaxOrder /\ m + 1 \in 0 .. n
    BY <1>0, <1>2
  <2>2. 2^(m + 1) = 2 * 2^m
    BY <2>1, PowersOfTwo
  <2> QED BY <1>0, <1>1, <2>1, <2>2
<1> QED BY <1>0, <1>1, <1>2

-----------------------------------------------------------------------------
(* Multiples.                                                              *)
LEMMA Parts ==
    \A m \in Nat \ {0}, a \in Nat : /\ a \div m \in Nat /\ a % m \in 0 .. m - 1
                                    /\ a = m * (a \div m) + (a % m)
  OBVIOUS

LEMMA IsMultiple == \A m \in Nat \ {0}, k \in Nat : (m * k) % m = 0
<1> SUFFICES ASSUME NEW m \in Nat \ {0}, NEW k \in Nat PROVE (m * k) % m = 0
  OBVIOUS
<1> DEFINE a == m * k
           q == a \div m
           d == k - q
<1>1. a \in Nat /\ q \in Nat /\ a % m \in 0 .. m - 1 /\ a = m * q + (a % m)
  <2>1. a \in Nat
    OBVIOUS
  <2> HIDE DEF a
  <2> QED BY <2>1, Parts
<1> HIDE DEF q
<1>2. a % m = m * k - m * q /\ m * k - m * q = m * d /\ d \in Int
  BY <1>1
<1> HIDE DEF a, d
<1>3. CASE d >= 1
  BY <1>1, <1>2, <1>3, Multiple
<1>4. CASE d < 1
  <2>1. m * d <= 0
    BY <1>2, <1>4
  <2> QED BY <1>1, <1>2, <2>1 DEF a
<1> QED BY <1>2, <1>3, <1>4

(* Multiples of m are at least m apart.                                    *)
LEMMA Gap ==
    \A m \in Nat \ {0}, a \in Nat, b \in Nat : a % m = 0 /\ b % m = 0 /\ a < b => a + m <= b
<1> SUFFICES ASSUME NEW m \in Nat \ {0}, NEW a \in Nat, NEW b \in Nat, a % m = 0, b % m = 0, a < b
             PROVE  a + m <= b
  OBVIOUS
<1> DEFINE p == a \div m
           q == b \div m
           d == q - p
<1>1. p \in Nat /\ q \in Nat /\ a = m * p /\ b = m * q
  BY Parts
<1> HIDE DEF p, q
<1>2. b - a = m * d /\ d \in Int
  BY <1>1
<1> HIDE DEF d
<1>3. CASE d >= 1
  BY <1>2, <1>3, Multiple
<1>4. CASE d < 1
  <2>1. m * d <= 0
    BY <1>2, <1>4
  <2> QED BY <1>2, <2>1
<1> QED BY <1>2, <1>3, <1>4

LEMMA SumOfMultiples ==
    \A m \in Nat \ {0}, a \in Nat, b \in Nat :
        a % m = 0 /\ b % m = 0 => (a + b) % m = 0 /\ (b <= a => (a - b) % m = 0)
<1> SUFFICES ASSUME NEW m \in Nat \ {0}, NEW a \in Nat, NEW b \in Nat, a % m = 0, b % m = 0
             PROVE  (a + b) % m = 0 /\ (b <= a => (a - b) % m = 0)
  OBVIOUS
<1> DEFINE p == a \div m
           q == b \div m
<1>1. p \in Nat /\ q \in Nat /\ a = m * p /\ b = m * q
  BY Parts
<1> HIDE DEF p, q
<1>2. a + b = m * (p + q) /\ a - b = m * (p - q)
  BY <1>1
<1>3. (m * (p + q)) % m = 0
  BY <1>1, IsMultiple
<1>4. ASSUME b <= a PROVE (a - b) % m = 0
  <2>1. p >= q
    <3> SUFFICES ASSUME p < q PROVE FALSE
      BY <1>1
    <3>1. q - p >= 1 /\ q - p \in Int
      BY <1>1
    <3>2. m * (q - p) >= m
      BY <3>1, Multiple
    <3>3. m * (q - p) = m * q - m * p
      BY <1>1
    <3> QED BY <1>1, <1>4, <3>2, <3>3
  <2>2. p - q \in Nat
    BY <1>1, <2>1
  <2> QED BY <1>2, <2>2, IsMultiple
<1> QED BY <1>2, <1>3, <1>4

LEMMA MultipleOfMultiple ==
    \A m \in Nat \ {0}, k \in Nat \ {0}, a \in Nat : a % (k * m) = 0 => a % m = 0
<1> SUFFICES ASSUME NEW m \in Nat \ {0}, NEW k \in Nat \ {0}, NEW a \in Nat, a % (k * m) = 0
             PROVE  a % m = 0
  OBVIOUS
<1> DEFINE n == k * m
           p == a \div n
<1>1. n \in Nat \ {0}
  <2>1. m * k >= m /\ k * m = m * k
    BY Multiple
  <2> QED BY <2>1
<1>2. p \in Nat /\ a = n * p
  <2> HIDE DEF n
  <2>1. a % n = 0
    BY DEF n
  <2> QED BY <1>1, <2>1, Parts
<1> HIDE DEF p
<1>3. a = m * (k * p) /\ k * p \in Nat
  BY <1>2
<1> QED BY <1>3, IsMultiple

-----------------------------------------------------------------------------
(* Blocks of pages, aligned to their size.                                 *)
AnyOrder == 0 .. MaxOrder + 1

In(p, first, o) == first <= p /\ p < first + 2^o

LEMMA Orders == /\ MaxOrder \in Nat /\ MaxOrder + AllocBit < NoEntry
                /\ Order \subseteq AnyOrder /\ \A o \in Order : o \in Nat /\ o + 1 \in AnyOrder
                /\ \A o \in AnyOrder : o \in Nat /\ 2^o \in Nat \ {0} /\ 2^o >= 1
                /\ \A o \in Order : 2^(o + 1) = 2^o + 2^o
<1>1. MaxOrder \in Nat /\ MaxOrder + AllocBit < NoEntry
  BY BuddyAssumption DEF AllocBit, NoEntry
<1>2. /\ Order \subseteq AnyOrder /\ \A o \in Order : o \in Nat /\ o + 1 \in AnyOrder
      /\ \A o \in AnyOrder : o \in Nat
  BY <1>1 DEF Order, AnyOrder
<1>3. \A o \in AnyOrder : 2^o \in Nat \ {0} /\ 2^o >= 1
  <2>1. \A x \in Nat \ {0} : x >= 1
    OBVIOUS
  <2> QED BY <2>1, Powers DEF AnyOrder
<1>4. \A o \in Order : 2^(o + 1) = 2^o + 2^o
  <2>1. \A x \in Nat : 2 * x = x + x
    OBVIOUS
  <2> SUFFICES ASSUME NEW o \in Order PROVE 2^(o + 1) = 2^o + 2^o
    OBVIOUS
  <2>2. 2^o \in Nat /\ 2^(o + 1) = 2 * 2^o
    BY <1>2, <1>3, PowersOfTwo DEF Order
  <2> QED BY <2>1, <2>2
<1> QED BY <1>1, <1>2, <1>3, <1>4

LEMMA Finer ==
    ASSUME NEW j \in AnyOrder, NEW i \in 0 .. j
    PROVE  /\ i \in AnyOrder /\ 2^i <= 2^j /\ (2^j) % (2^i) = 0
           /\ \A a \in Nat : a % 2^j = 0 => a % 2^i = 0
<1>1. i \in AnyOrder /\ 2^i \in Nat \ {0} /\ 2^j \in Nat \ {0}
  <2>1. i \in AnyOrder
    BY Orders DEF AnyOrder
  <2> QED BY <2>1, Orders
<1>2. PICK k \in Nat \ {0} : 2^j = k * 2^i
  BY PowersDivide DEF AnyOrder
<1>3. 2^i <= 2^j
  BY PowersGrow DEF AnyOrder
<1> DEFINE m == 2^i
           n == 2^j
<1>4. m \in Nat \ {0} /\ n = k * m
  BY <1>1, <1>2
<1> HIDE DEF m, n
<1>5. n % m = 0
  <2>1. k * m = m * k
    BY <1>4
  <2> QED BY <1>4, <2>1, IsMultiple
<1>6. \A a \in Nat : a % n = 0 => a % m = 0
  BY <1>4, MultipleOfMultiple
<1> QED BY <1>1, <1>3, <1>5, <1>6 DEF m, n

(* The block of an order that a page is in.                                *)
LEMMA Start ==
    ASSUME NEW o \in AnyOrder, NEW p \in Nat
    PROVE  /\ BlockStart(p, o) \in Nat /\ BlockStart(p, o) % 2^o = 0 /\ In(p, BlockStart(p, o), o)
           /\ \A a \in Nat : a % 2^o = 0 /\ In(p, a, o) => a = BlockStart(p, o)
<1> DEFINE m == 2^o
           b == p - (p % m)
<1>1. m \in Nat \ {0}
  BY Orders
<1> HIDE DEF m
<1>2. p \div m \in Nat /\ p % m \in 0 .. m - 1 /\ p = m * (p \div m) + (p % m)
  BY <1>1, Parts
<1>3. b = m * (p \div m) /\ b \in Nat /\ b <= p /\ p < b + m
  <2>1. m * (p \div m) \in Nat
    BY <1>1, <1>2
  <2> QED BY <1>1, <1>2, <2>1
<1>4. b % m = 0
  BY <1>1, <1>2, <1>3, IsMultiple
<1> HIDE DEF b
<1>5. ASSUME NEW a \in Nat, a % m = 0, a <= p, p < a + m PROVE a = b
  <2>1. CASE a < b
    <3>1. a + m <= b
      BY <1>1, <1>3, <1>4, <1>5, <2>1, Gap
    <3> QED BY <1>1, <1>3, <1>5, <3>1
  <2>2. CASE b < a
    <3>1. b + m <= a
      BY <1>1, <1>3, <1>4, <1>5, <2>2, Gap
    <3> QED BY <1>1, <1>3, <1>5, <3>1
  <2> QED BY <1>3, <2>1, <2>2
<1> QED BY <1>3, <1>4, <1>5 DEF m, b, In, BlockStart

(* Of two blocks that share a page the smaller lies within the larger.     *)
LEMMA Nested ==
    ASSUME NEW j \in AnyOrder, NEW i \in 0 .. j, NEW a \in Nat, NEW b \in Nat, NEW p \in Nat,
           a % 2^i = 0, b % 2^j = 0, In(p, a, i), In(p, b, j)
    PROVE  b <= a /\ a + 2^i <= b + 2^j
<1> DEFINE m == 2^i
           n == 2^j
<1>1. m \in Nat \ {0} /\ n \in Nat \ {0} /\ a % m = 0 /\ b % m = 0 /\ n % m = 0
  BY Finer, Orders
<1>2. a <= p /\ p < a + m /\ b <= p /\ p < b + n
  BY DEF In
<1> HIDE DEF m, n
<1>3. (b + n) % m = 0
  BY <1>1, SumOfMultiples
<1>4. b <= a
  <2> SUFFICES ASSUME a < b PROVE FALSE
    OBVIOUS
  <2>1. a + m <= b
    BY <1>1, Gap
  <2> QED BY <1>1, <1>2, <2>1
<1>5. a + m <= b + n
  <2> DEFINE e == b + n
  <2>1. a < e /\ e \in Nat /\ e % m = 0
    BY <1>1, <1>2, <1>3
  <2> HIDE DEF e
  <2>2. a + m <= e
    BY <1>1, <2>1, Gap
  <2> QED BY <2>2 DEF e
<1> QED BY <1>4, <1>5 DEF m, n

LEMMA StartOfPart ==
    ASSUME NEW j \in AnyOrder, NEW i \in 0 .. j, NEW p \in Nat
    PROVE  /\ BlockStart(p, j) <= BlockStart(p, i)
           /\ BlockStart(p, i) + 2^i <= BlockStart(p, j) + 2^j
           /\ \A x \in Nat : In(x, BlockStart(p, i), i) => In(x, BlockStart(p, j), j)
<1>1. i \in AnyOrder
  BY Finer
<1>2. /\ BlockStart(p, i) \in Nat /\ BlockStart(p, i) % 2^i = 0 /\ In(p, BlockStart(p, i), i)
      /\ BlockStart(p, j) \in Nat /\ BlockStart(p, j) % 2^j = 0 /\ In(p, BlockStart(p, j), j)
  BY <1>1, Start
<1>3. /\ BlockStart(p, j) <= BlockStart(p, i)
      /\ BlockStart(p, i) + 2^i <= BlockStart(p, j) + 2^j
  BY <1>2, Nested
<1>4. 2^i \in Nat /\ 2^j \in Nat
  BY <1>1, Orders
<1> QED BY <1>2, <1>3, <1>4 DEF In

(* A block and its buddy are the halves of the block of the next order.    *)
LEMMA Halves ==
    ASSUME NEW o \in Order, NEW s \in Nat, s % 2^o = 0
    PROVE  /\ Buddy(s, o) \in Nat /\ Buddy(s, o) % 2^o = 0 /\ Buddy(s, o) # s
           /\ \A p \in Nat : In(p, BlockStart(s, o + 1), o + 1) <=> In(p, s, o) \/ In(p, Buddy(s, o), o)
           /\ Buddy(Buddy(s, o), o) = s
<1> DEFINE m == 2^o
           n == 2^(o + 1)
           t == BlockStart(s, o + 1)
<1>1. m \in Nat \ {0} /\ n = m + m /\ n \in Nat \ {0} /\ o \in AnyOrder /\ o + 1 \in AnyOrder /\ o \in 0 .. o + 1
  BY Orders
<1>2. t \in Nat /\ t % n = 0 /\ t <= s /\ s < t + n
  BY <1>1, Start DEF In
<1>3. t % m = 0 /\ m % m = 0
  BY <1>1, <1>2, Finer
<1>4. s % n = 0 => s = t
  <2>1. s % n = 0 => s \in Nat /\ In(s, s, o + 1)
    BY <1>1 DEF In
  <2> QED BY <1>1, <2>1, Start
<1> DEFINE y == Buddy(s, o)
<1>5. y = IF s % n = 0 THEN s + m ELSE s - m
  BY DEF Buddy
<1> HIDE DEF m, n, t, y
<1>6. s % m = 0
  BY DEF m
<1>7. CASE s % n = 0
  <2>1. s = t /\ y = t + m
    BY <1>4, <1>5, <1>7
  <2>2. y \in Nat /\ y % m = 0 /\ y # s
    <3>a. m \in Nat \ {0} /\ t \in Nat /\ m \in Nat /\ t % m = 0 /\ m % m = 0
      BY <1>1, <1>2, <1>3
    <3>1. (t + m) % m = 0
      BY <3>a, SumOfMultiples, Zenon
    <3> QED BY <1>1, <1>2, <2>1, <3>1
  <2>3. y % n # 0
    <3> SUFFICES ASSUME y % n = 0 PROVE FALSE
      OBVIOUS
    <3>1. t + n <= y
      BY <1>1, <1>2, <2>1, <2>2, Gap
    <3> QED BY <1>1, <1>2, <2>1, <3>1
  <2>4. Buddy(y, o) = s
    <3>1. Buddy(y, o) = y - m
      BY <2>3 DEF Buddy, m, n
    <3> QED BY <1>1, <1>2, <2>1, <3>1
  <2>5. \A p \in Nat : (t <= p /\ p < t + n) <=> (s <= p /\ p < s + m) \/ (y <= p /\ p < y + m)
    BY <1>1, <1>2, <2>1
  <2> QED BY <2>2, <2>4, <2>5 DEF In, m, n, t, y
<1>8. CASE s % n # 0
  <2>1. t # s
    BY <1>2, <1>8
  <2>2. t + m <= s
    <3>1. t < s
      BY <1>2, <2>1
    <3> QED BY <1>1, <1>2, <1>3, <1>6, <3>1, Gap
  <2>3. s = t + m
    <3> SUFFICES ASSUME t + m < s PROVE FALSE
      BY <1>1, <1>2, <2>2
    <3>a. m \in Nat \ {0} /\ t \in Nat /\ m \in Nat /\ t % m = 0 /\ m % m = 0
      BY <1>1, <1>2, <1>3
    <3>1. (t + m) % m = 0 /\ t + m \in Nat
      <4>1. (t + m) % m = 0
        BY <3>a, SumOfMultiples, Zenon
      <4> QED BY <3>a, <4>1
    <3>2. (t + m) + m <= s
      BY <1>1, <1>6, <3>1, Gap
    <3> QED BY <1>1, <1>2, <3>2
  <2>4. y = t
    BY <1>1, <1>2, <1>5, <1>8, <2>3
  <2>5. Buddy(y, o) = y + m
    BY <1>2, <2>4 DEF Buddy, m, n
  <2>6. \A p \in Nat : (t <= p /\ p < t + n) <=> (s <= p /\ p < s + m) \/ (y <= p /\ p < y + m)
    BY <1>1, <1>2, <2>3, <2>4
  <2> QED BY <1>2, <1>3, <2>1, <2>3, <2>4, <2>5, <2>6 DEF In, m, n, t, y
<1> QED BY <1>7, <1>8

-----------------------------------------------------------------------------
(* The inductive invariant.                                                *)
TypeOK ==
    /\ freeLists \in [Region -> [Order -> SUBSET Nat]]
    /\ DOMAIN pageOrder = Region
    /\ \A r \in Region : pageOrder[r] \in [Pages(r) -> 0 .. NoEntry]

Usable(r) == MetadataPages[r] .. (TotalPages[r] - 1)

Inside(r, b) ==
    /\ b \in Nat \X Order /\ b[1] % 2^b[2] = 0
    /\ MetadataPages[r] <= b[1] /\ b[1] + 2^b[2] <= TotalPages[r]

(* Every usable page is in exactly one of the blocks.                      *)
Tiling(r, blocks) ==
    /\ \A b \in blocks : Inside(r, b)
    /\ \A b, c \in blocks : \A p \in Usable(r) : Covers(b, p) /\ Covers(c, p) => b = c
    /\ \A p \in Usable(r) : \E b \in blocks : Covers(b, p)

Blocks(r) == FreeBlocks(r) \cup AllocBlocks(r)

(* What is on a list is marked as such, and no merge reaches below the     *)
(* first block.                                                            *)
Marked(r) ==
    /\ \A o \in Order : \A p \in freeLists[r][o] : pageOrder[r][p] = o
    /\ \A p \in 0 .. MetadataPages[r] - 1 : pageOrder[r][p] = NoEntry

IInv == TypeOK /\ \A r \in Region : Tiling(r, Blocks(r)) /\ Marked(r)

LEMMA Regions ==
    ASSUME NEW r \in Region
    PROVE  /\ TotalPages[r] \in Nat /\ MetadataPages[r] \in Nat
           /\ 1 <= MetadataPages[r] /\ MetadataPages[r] < TotalPages[r]
           /\ Usable(r) \subseteq Pages(r) /\ Pages(r) \subseteq Nat
           /\ \A p \in Pages(r) : p \in Usable(r) \/ p \in 0 .. MetadataPages[r] - 1
  BY BuddyAssumption DEF Usable, Pages

LEMMA FreeBlock ==
    \A r, b : b \in FreeBlocks(r) <=> \E o \in Order : \E p \in freeLists[r][o] : b = <<p, o>>
  BY DEF FreeBlocks

LEMMA AllocBlock ==
    \A r, b : b \in AllocBlocks(r) <=>
        \E p \in Pages(r) : /\ pageOrder[r][p] \in AllocBit .. NoEntry - 1
                            /\ b = <<p, pageOrder[r][p] - AllocBit>>
  BY DEF AllocBlocks

(* The pages of a block are usable ones, and its first is one of them.     *)
LEMMA BlockPages ==
    ASSUME NEW r \in Region, NEW b, Inside(r, b)
    PROVE  /\ b[1] \in Nat /\ b[2] \in Order /\ b = <<b[1], b[2]>> /\ b[1] \in Usable(r)
           /\ Covers(b, b[1])
           /\ \A p \in Nat : Covers(b, p) => p \in Usable(r)
           /\ \A p : Covers(b, p) <=> In(p, b[1], b[2])
<1>1. b[1] \in Nat /\ b[2] \in Order /\ b = <<b[1], b[2]>>
  BY DEF Inside
<1>2. 2^b[2] \in Nat /\ 2^b[2] >= 1
  BY <1>1, Orders
<1>3. MetadataPages[r] <= b[1] /\ b[1] + 2^b[2] <= TotalPages[r]
  BY DEF Inside
<1> QED BY <1>1, <1>2, <1>3, Regions DEF Covers, Usable, In

(* Blocks are replaced by others that cover the same pages.                *)
LEMMA Recut ==
    ASSUME NEW r \in Region, NEW blocks, NEW old \in SUBSET blocks, NEW new,
           Tiling(r, blocks),
           \A b \in new : Inside(r, b),
           \A b, c \in new : \A p \in Usable(r) : Covers(b, p) /\ Covers(c, p) => b = c,
           \A p \in Usable(r) : (\E b \in old : Covers(b, p)) <=> (\E b \in new : Covers(b, p))
    PROVE  Tiling(r, (blocks \ old) \cup new)
<1> DEFINE after == (blocks \ old) \cup new
<1>1. \A b \in after : Inside(r, b)
  BY DEF Tiling
<1>2. ASSUME NEW b \in after, NEW c \in after, NEW p \in Usable(r), Covers(b, p), Covers(c, p)
      PROVE  b = c
  <2>1. CASE b \in blocks \ old /\ c \in blocks \ old
    BY <1>2, <2>1 DEF Tiling
  <2>2. CASE b \in new /\ c \in new
    BY <1>2, <2>2
  <2>3. CASE b \in blocks \ old /\ c \in new
    <3>1. PICK d \in old : Covers(d, p)
      BY <1>2, <2>3
    <3> QED BY <1>2, <2>3, <3>1 DEF Tiling
  <2>4. CASE b \in new /\ c \in blocks \ old
    <3>1. PICK d \in old : Covers(d, p)
      BY <1>2, <2>4
    <3> QED BY <1>2, <2>4, <3>1 DEF Tiling
  <2> QED BY <2>1, <2>2, <2>3, <2>4
<1>3. ASSUME NEW p \in Usable(r) PROVE \E b \in after : Covers(b, p)
  <2>1. PICK b \in blocks : Covers(b, p)
    BY DEF Tiling
  <2>2. CASE b \in old
    BY <2>1, <2>2
  <2>3. CASE b \notin old
    BY <2>1, <2>3
  <2> QED BY <2>2, <2>3
<1> QED BY <1>1, <1>2, <1>3 DEF Tiling

(* A block that is free is not handed out, and blocks are told apart by    *)
(* their first page.                                                       *)
LEMMA BlocksApart ==
    ASSUME IInv, NEW r \in Region
    PROVE  /\ \A b \in FreeBlocks(r) : Inside(r, b) /\ pageOrder[r][b[1]] = b[2] /\ b \notin AllocBlocks(r)
           /\ \A b \in AllocBlocks(r) : Inside(r, b) /\ pageOrder[r][b[1]] = b[2] + AllocBit
           /\ \A b, c \in Blocks(r) : \A p \in Usable(r) : Covers(b, p) /\ Covers(c, p) => b = c
<1>1. Tiling(r, Blocks(r)) /\ Marked(r)
  BY DEF IInv
<1>2. \A b \in Blocks(r) : Inside(r, b)
  BY <1>1 DEF Tiling
<1>3. \A b \in FreeBlocks(r) : pageOrder[r][b[1]] = b[2] /\ b[2] \in Order
  <2> SUFFICES ASSUME NEW b \in FreeBlocks(r) PROVE pageOrder[r][b[1]] = b[2] /\ b[2] \in Order
    OBVIOUS
  <2>1. PICK o \in Order : \E p \in freeLists[r][o] : b = <<p, o>>
    BY FreeBlock
  <2>2. PICK p \in freeLists[r][o] : b = <<p, o>>
    BY <2>1
  <2> QED BY <1>1, <2>2 DEF Marked
<1>4. \A b \in AllocBlocks(r) : /\ pageOrder[r][b[1]] = b[2] + AllocBit
                                /\ pageOrder[r][b[1]] \in AllocBit .. NoEntry - 1
  <2> SUFFICES ASSUME NEW b \in AllocBlocks(r)
               PROVE  /\ pageOrder[r][b[1]] = b[2] + AllocBit
                      /\ pageOrder[r][b[1]] \in AllocBit .. NoEntry - 1
    OBVIOUS
  <2>1. PICK p \in Pages(r) : /\ pageOrder[r][p] \in AllocBit .. NoEntry - 1
                              /\ b = <<p, pageOrder[r][p] - AllocBit>>
    BY AllocBlock
  <2> QED BY <2>1 DEF AllocBit, NoEntry
<1>5. \A b \in FreeBlocks(r) : b \notin AllocBlocks(r)
  BY <1>3, <1>4, Orders DEF Order, AllocBit
<1>6. \A b, c \in Blocks(r) : \A p \in Usable(r) : Covers(b, p) /\ Covers(c, p) => b = c
  BY <1>1 DEF Tiling
<1> QED BY <1>2, <1>3, <1>4, <1>5, <1>6 DEF Blocks

LEMMA TilingIsPartition == IInv => Partition
<1> SUFFICES ASSUME IInv, NEW r \in Region, NEW p \in Pages(r)
             PROVE  Cardinality({b \in FreeBlocks(r) \cup AllocBlocks(r) : Covers(b, p)})
                        = IF p < MetadataPages[r] THEN 0 ELSE 1
  BY DEF Partition
<1> DEFINE C == {b \in Blocks(r) : Covers(b, p)}
<1>1. Tiling(r, Blocks(r)) /\ p \in Nat
  BY Regions DEF IInv
<1>2. CASE p < MetadataPages[r]
  <2>1. C = {}
    <3> SUFFICES ASSUME NEW b \in Blocks(r), Covers(b, p) PROVE FALSE
      OBVIOUS
    <3>1. p \in Usable(r)
      BY <1>1, BlockPages DEF Tiling
    <3> QED BY <1>2, <3>1, Regions DEF Usable
  <2> QED BY <1>2, <2>1, FS_EmptySet DEF Blocks
<1>3. CASE ~(p < MetadataPages[r])
  <2>1. p \in Usable(r)
    BY <1>1, <1>3, Regions DEF Usable, Pages
  <2>2. PICK b \in Blocks(r) : Covers(b, p)
    BY <1>1, <2>1 DEF Tiling
  <2>3. C = {b}
    BY <1>1, <2>1, <2>2 DEF Tiling
  <2> QED BY <1>3, <2>3, FS_Singleton DEF Blocks
<1> QED BY <1>2, <1>3

-----------------------------------------------------------------------------
(* Init: the greedy blocks.                                                *)
LEMMA Greedy ==
    ASSUME NEW r \in Region, NEW p \in Usable(r)
    PROVE  /\ InitOrder(r, p) \in Order
           /\ Fits(r, BlockStart(p, InitOrder(r, p)), InitOrder(r, p))
           /\ \A o \in Order : Fits(r, BlockStart(p, o), o) => o <= InitOrder(r, p)
<1> DEFINE T == {o \in Order : Fits(r, BlockStart(p, o), o)}
<1>0. p \in Nat /\ MetadataPages[r] <= p /\ p < TotalPages[r] /\ TotalPages[r] \in Nat
  BY Regions DEF Usable
<1>1. 0 \in T
  <2>1. 0 \in Order /\ 0 \in AnyOrder /\ 2^0 = 1
    BY Orders, PowersOfTwo DEF Order, AnyOrder
  <2>2. BlockStart(p, 0) = p /\ p % 2^0 = 0
    BY <1>0, <2>1 DEF BlockStart
  <2> QED BY <1>0, <2>1, <2>2 DEF Fits
<1>2. T \in SUBSET (0 .. MaxOrder) /\ MaxOrder \in Nat
  BY Orders DEF Order
<1>3. InitOrder(r, p) = Max(T)
  BY DEF InitOrder
<1>4. Max(T) \in T /\ \A o \in T : Max(T) >= o
  <2> HIDE DEF T
  <2> QED BY <1>1, <1>2, MaxOf
<1> QED BY <1>2, <1>3, <1>4, Orders

LEMMA GreedyHead ==
    ASSUME NEW r \in Region, NEW o \in Order, NEW p \in InitHeads(r, o)
    PROVE  /\ p \in Usable(r) /\ InitOrder(r, p) = o /\ p % 2^o = 0
           /\ Inside(r, <<p, o>>) /\ BlockStart(p, o) = p
<1>1. p \in Usable(r) /\ InitOrder(r, p) = o /\ p % 2^o = 0
  BY DEF InitHeads, Usable
<1>2. p \in Nat /\ o \in AnyOrder /\ 2^o \in Nat /\ 2^o >= 1
  BY <1>1, Orders, Regions
<1>3. In(p, p, o)
  BY <1>2 DEF In
<1>4. BlockStart(p, o) = p
  BY <1>1, <1>2, <1>3, Start
<1>5. Fits(r, p, o)
  BY <1>1, <1>4, Greedy
<1> QED BY <1>1, <1>2, <1>4, <1>5 DEF Fits, Inside

(* Every page is in the block that starts where its largest block does.    *)
LEMMA GreedyCovers ==
    ASSUME NEW r \in Region, NEW p \in Usable(r)
    PROVE  \E o \in Order : \E q \in InitHeads(r, o) : In(p, q, o)
<1> DEFINE o == InitOrder(r, p)
           q == BlockStart(p, o)
<1>1. o \in Order /\ Fits(r, q, o) /\ \A k \in Order : Fits(r, BlockStart(p, k), k) => k <= o
  BY Greedy
<1> HIDE DEF o
<1>2. p \in Nat /\ o \in AnyOrder /\ 2^o \in Nat /\ 2^o >= 1 /\ o \in Nat
  BY <1>1, Orders, Regions
<1>3. q \in Nat /\ q % 2^o = 0 /\ In(p, q, o)
  BY <1>2, Start
<1> HIDE DEF q
<1>4. q \in Usable(r)
  BY <1>1, <1>2, <1>3, Regions DEF Fits, Usable
<1>5. BlockStart(q, o) = q
  <2>1. In(q, q, o)
    BY <1>2, <1>3 DEF In
  <2> QED BY <1>2, <1>3, <2>1, Start
<1> DEFINE j == InitOrder(r, q)
<1>6. j \in Order /\ Fits(r, BlockStart(q, j), j) /\ o <= j
  BY <1>1, <1>4, <1>5, Greedy
<1> HIDE DEF j
<1>7. j <= o
  <2>1. j \in AnyOrder /\ o \in 0 .. j
    BY <1>2, <1>6, Orders DEF Order
  <2> DEFINE b == BlockStart(q, j)
  <2>2. b \in Nat /\ b % 2^j = 0 /\ In(q, b, j) /\ 2^j \in Nat
    BY <1>3, <2>1, Start, Orders
  <2>3. In(q, q, o)
    BY <1>2, <1>3 DEF In
  <2> HIDE DEF b
  <2>4. b <= q /\ q + 2^o <= b + 2^j
    BY <1>3, <2>1, <2>2, <2>3, Nested
  <2>5. In(p, b, j)
    BY <1>2, <1>3, <2>2, <2>4 DEF In
  <2>6. b = BlockStart(p, j)
    BY <1>2, <2>1, <2>2, <2>5, Start
  <2> QED BY <1>1, <1>6, <2>6 DEF b
<1>8. InitOrder(r, q) = o
  <2>1. j \in Nat
    BY <1>6, Orders
  <2>2. j = o
    BY <1>2, <1>6, <1>7, <2>1
  <2> QED BY <2>2 DEF j
<1>9. q \in InitHeads(r, o)
  BY <1>3, <1>4, <1>8 DEF InitHeads, Usable
<1> QED BY <1>1, <1>3, <1>9

(* Two greedy blocks share no page.                                        *)
LEMMA GreedyApart ==
    ASSUME NEW r \in Region, NEW i \in Order, NEW j \in Order, NEW a \in InitHeads(r, i),
           NEW b \in InitHeads(r, j), NEW p \in Nat, In(p, a, i), In(p, b, j), i <= j
    PROVE  a = b /\ i = j
<1>1. /\ a \in Usable(r) /\ InitOrder(r, a) = i /\ a % 2^i = 0 /\ a \in Nat
      /\ b \in Usable(r) /\ InitOrder(r, b) = j /\ b % 2^j = 0 /\ b \in Nat
      /\ Inside(r, <<b, j>>)
  BY GreedyHead, Regions
<1>2. /\ i \in Nat /\ j \in Nat /\ i \in AnyOrder /\ j \in AnyOrder /\ i \in 0 .. j
      /\ 2^i \in Nat /\ 2^j \in Nat /\ 2^i >= 1
  BY Orders
<1>3. b <= a /\ a + 2^i <= b + 2^j
  BY <1>1, <1>2, Nested
<1>4. In(a, b, j)
  BY <1>1, <1>2, <1>3 DEF In
<1>5. BlockStart(a, j) = b
  BY <1>1, <1>2, <1>4, Start
<1>6. Fits(r, b, j)
  BY <1>1 DEF Inside, Fits
<1>7. i = j
  BY <1>1, <1>2, <1>5, <1>6, Greedy
<1> QED BY <1>5, <1>7, GreedyHead

LEMMA InitIInv == Init => IInv
<1> SUFFICES ASSUME Init PROVE IInv
  OBVIOUS
<1>1. /\ freeLists = [r \in Region |-> [o \in Order |-> InitHeads(r, o)]]
      /\ pageOrder = [r \in Region |-> [p \in Pages(r) |->
                        IF \E o \in Order : p \in InitHeads(r, o) THEN InitOrder(r, p) ELSE NoEntry]]
  BY DEF Init
<1>2. \A r \in Region : \A o \in Order : \A p \in InitHeads(r, o) :
          p \in Usable(r) /\ p \in Nat /\ p \in Pages(r) /\ InitOrder(r, p) = o /\ Inside(r, <<p, o>>)
  BY GreedyHead, Regions
<1>3. \A o \in Order : o \in 0 .. NoEntry /\ o < AllocBit /\ o # NoEntry
  BY Orders DEF Order, AllocBit, NoEntry
<1>4. TypeOK
  <2>1. freeLists \in [Region -> [Order -> SUBSET Nat]]
    BY <1>1, <1>2
  <2>2. ASSUME NEW r \in Region PROVE pageOrder[r] \in [Pages(r) -> 0 .. NoEntry]
    <3>1. NoEntry \in 0 .. NoEntry
      BY DEF NoEntry
    <3> QED BY <1>1, <1>2, <1>3, <3>1
  <2> QED BY <1>1, <2>1, <2>2 DEF TypeOK
<1>5. ASSUME NEW r \in Region PROVE Tiling(r, Blocks(r)) /\ Marked(r)
  <2>1. \A o \in Order : freeLists[r][o] = InitHeads(r, o)
    BY <1>1
  <2>2. \A p \in Pages(r) : pageOrder[r][p] = NoEntry \/ pageOrder[r][p] \in Order
    BY <1>1, <1>2
  <2>3. AllocBlocks(r) = {}
    <3> SUFFICES ASSUME NEW p \in Pages(r), pageOrder[r][p] \in AllocBit .. NoEntry - 1 PROVE FALSE
      BY AllocBlock
    <3> QED BY <2>2, <1>3, Orders DEF AllocBit, NoEntry, Order
  <2>4. \A b : b \in Blocks(r) <=> \E o \in Order : \E p \in InitHeads(r, o) : b = <<p, o>>
    BY <2>1, <2>3, FreeBlock DEF Blocks
  <2>5. \A b \in Blocks(r) : Inside(r, b)
    BY <1>2, <2>4
  <2>6. ASSUME NEW b \in Blocks(r), NEW c \in Blocks(r), NEW p \in Usable(r), Covers(b, p), Covers(c, p)
        PROVE  b = c
    <3>1. PICK i \in Order : \E a \in InitHeads(r, i) : b = <<a, i>>
      BY <2>4
    <3>2. PICK a \in InitHeads(r, i) : b = <<a, i>>
      BY <3>1
    <3>3. PICK j \in Order : \E d \in InitHeads(r, j) : c = <<d, j>>
      BY <2>4
    <3>4. PICK d \in InitHeads(r, j) : c = <<d, j>>
      BY <3>3
    <3>5. In(p, a, i) /\ In(p, d, j) /\ p \in Nat
      BY <2>5, <2>6, <3>2, <3>4, BlockPages, Regions
    <3>6. i <= j \/ j <= i
      BY Orders
    <3>7. a = d /\ i = j
      BY <3>5, <3>6, GreedyApart
    <3> QED BY <3>2, <3>4, <3>7
  <2>7. ASSUME NEW p \in Usable(r) PROVE \E b \in Blocks(r) : Covers(b, p)
    <3>a. PICK o \in Order : \E q \in InitHeads(r, o) : In(p, q, o)
      BY GreedyCovers
    <3>1. PICK q \in InitHeads(r, o) : In(p, q, o)
      BY <3>a
    <3>2. <<q, o>> \in Blocks(r)
      BY <2>4
    <3>3. Covers(<<q, o>>, p)
      BY <3>1 DEF In, Covers
    <3> QED BY <3>2, <3>3
  <2>8. Marked(r)
    <3>1. \A o \in Order : \A p \in freeLists[r][o] : pageOrder[r][p] = o
      BY <1>1, <1>2, <2>1
    <3>2. ASSUME NEW p \in 0 .. MetadataPages[r] - 1 PROVE pageOrder[r][p] = NoEntry
      <4>1. p \in Pages(r) /\ p \notin Usable(r)
        BY Regions DEF Pages, Usable
      <4>2. ~ \E o \in Order : p \in InitHeads(r, o)
        BY <1>2, <4>1
      <4> QED BY <1>1, <4>1, <4>2
    <3> QED BY <3>1, <3>2 DEF Marked
  <2> QED BY <2>5, <2>6, <2>7, <2>8 DEF Tiling
<1> QED BY <1>4, <1>5 DEF IInv

LEMMA InitCoalesced == Init => FullyCoalesced
<1> SUFFICES ASSUME Init, NEW r \in Region, NEW o \in 0 .. MaxOrder - 1, NEW p \in freeLists[r][o],
                    p % 2^(o + 1) = 0, p + 2^o \in freeLists[r][o]
             PROVE  FALSE
  BY DEF FullyCoalesced
<1>1. /\ o \in Order /\ o + 1 \in Order /\ o + 1 \in AnyOrder /\ o \in Nat
      /\ 2^(o + 1) = 2^o + 2^o /\ 2^o \in Nat /\ 2^o >= 1
  BY Orders DEF Order
<1>2. p \in InitHeads(r, o) /\ p + 2^o \in InitHeads(r, o)
  BY <1>1 DEF Init
<1>3. /\ p \in Usable(r) /\ p \in Nat /\ InitOrder(r, p) = o
      /\ Inside(r, <<p, o>>) /\ Inside(r, <<p + 2^o, o>>)
  BY <1>1, <1>2, GreedyHead, Regions
<1> DEFINE m == 2^o
           n == 2^(o + 1)
<1>4. /\ MetadataPages[r] <= p /\ (p + m) + m <= TotalPages[r]
      /\ p % n = 0 /\ n = m + m /\ m \in Nat /\ m >= 1
  BY <1>1, <1>3 DEF Inside
<1>5. Fits(r, p, o + 1)
  <2>1. p + n <= TotalPages[r]
    <3> HIDE DEF m, n
    <3> QED BY <1>3, <1>4, Regions
  <2> QED BY <1>4, <2>1 DEF Fits
<1>6. BlockStart(p, o + 1) = p
  <2>1. In(p, p, o + 1)
    <3>1. p <= p /\ p < p + n
      <4> HIDE DEF m, n
      <4> QED BY <1>3, <1>4
    <3> QED BY <3>1 DEF In
  <2> QED BY <1>1, <1>3, <2>1, Start
<1>7. o + 1 <= o
  BY <1>1, <1>3, <1>5, <1>6, Greedy
<1> QED BY <1>1, <1>7

-----------------------------------------------------------------------------
(* A region of which nothing changed.                                      *)
LEMMA Untouched ==
    ASSUME NEW r \in Region, Tiling(r, Blocks(r)) /\ Marked(r),
           freeLists'[r] = freeLists[r], pageOrder'[r] = pageOrder[r]
    PROVE  /\ Tiling(r, Blocks(r)') /\ Marked(r)' /\ AllocBlocks(r)' = AllocBlocks(r)
<1>1. FreeBlocks(r)' = FreeBlocks(r) /\ AllocBlocks(r)' = AllocBlocks(r)
  BY DEF FreeBlocks, AllocBlocks
<1> QED BY <1>1 DEF Marked, Blocks

(* What malloc does, in the terms of the proofs.                           *)
Splits(r, order, c, page) ==
    /\ r \in Region /\ order \in Order /\ c \in order .. MaxOrder
    /\ page \in freeLists[r][c]
    /\ \A o \in order .. c - 1 : freeLists[r][o] = {}
    /\ freeLists' = [freeLists EXCEPT ![r] = SplitLists(r, order, c, page)]
    /\ pageOrder' = [pageOrder EXCEPT ![r] = SplitBytes(r, order, c, page)]

LEMMA MallocSplits ==
    ASSUME NEW size, malloc(size)
    PROVE  \E r \in Region : \E order, c, page : Splits(r, order, c, page)
<1> DEFINE order == OrderFor(size)
<1>1. /\ order <= MaxOrder
      /\ \E r \in Region :
           /\ CanServe(r, order)
           /\ LET c == Min({o \in order .. MaxOrder : freeLists[r][o] # {}})
              IN \E page \in freeLists[r][c] :
                   /\ freeLists' = [freeLists EXCEPT ![r] = SplitLists(r, order, c, page)]
                   /\ pageOrder' = [pageOrder EXCEPT ![r] = SplitBytes(r, order, c, page)]
  BY DEF malloc
<1>2. order \in Order
  <2> DEFINE T == {o \in 0 .. (MaxOrder + 1) : 2^o >= PagesNeeded(size)} \cup {MaxOrder + 1}
  <2>1. T \in SUBSET Nat /\ T # {}
    BY Orders
  <2>2. order = Min(T)
    BY DEF OrderFor
  <2> HIDE DEF T
  <2>3. order \in Nat
    BY <2>1, <2>2, MinOf
  <2> QED BY <1>1, <2>3, Orders DEF Order
<1> HIDE DEF order
<1>3. PICK r \in Region :
           /\ CanServe(r, order)
           /\ LET c == Min({o \in order .. MaxOrder : freeLists[r][o] # {}})
              IN \E page \in freeLists[r][c] :
                   /\ freeLists' = [freeLists EXCEPT ![r] = SplitLists(r, order, c, page)]
                   /\ pageOrder' = [pageOrder EXCEPT ![r] = SplitBytes(r, order, c, page)]
  BY <1>1
<1> DEFINE T == {o \in order .. MaxOrder : freeLists[r][o] # {}}
           c == Min(T)
<1>4. PICK page \in freeLists[r][c] :
                   /\ freeLists' = [freeLists EXCEPT ![r] = SplitLists(r, order, c, page)]
                   /\ pageOrder' = [pageOrder EXCEPT ![r] = SplitBytes(r, order, c, page)]
  BY <1>3
<1>5. c \in T /\ \A o \in T : c <= o
  <2>1. T \in SUBSET Nat /\ T # {}
    BY <1>2, <1>3, Orders DEF CanServe
  <2> HIDE DEF T
  <2> QED BY <2>1, MinOf
<1> HIDE DEF c
<1>6. c \in order .. MaxOrder /\ order \in Nat
  BY <1>2, <1>5, Orders
<1>7. \A o \in order .. c - 1 : freeLists[r][o] = {}
  BY <1>5, <1>6, Orders
<1>8. Splits(r, order, c, page)
  BY <1>2, <1>4, <1>6, <1>7 DEF Splits
<1> QED BY <1>8

LEMMA SplitFacts ==
    ASSUME IInv, NEW r, NEW order, NEW c, NEW page, Splits(r, order, c, page)
    PROVE  /\ r \in Region /\ order \in Order /\ c \in Order /\ order <= c
           /\ \A o \in order .. c - 1 : /\ o \in Order /\ o + 1 \in AnyOrder /\ o + 1 \in 0 .. c
                                        /\ o \in 0 .. c /\ o + 1 \in Order /\ o + 1 <= c
           /\ page \in Nat /\ <<page, c>> \in FreeBlocks(r) /\ Inside(r, <<page, c>>)
           /\ page % 2^c = 0 /\ pageOrder[r][page] = c
           /\ page \in Usable(r) /\ page \in Pages(r)
           /\ order \in Nat /\ c \in Nat /\ c \in AnyOrder /\ order \in 0 .. c
<1>1. r \in Region /\ order \in Order /\ c \in order .. MaxOrder /\ page \in freeLists[r][c]
  BY DEF Splits
<1>2. order \in Nat /\ c \in Nat /\ c \in AnyOrder /\ c \in Order /\ order \in 0 .. c /\ order <= c
  BY <1>1, Orders DEF Order
<1>3. <<page, c>> \in FreeBlocks(r)
  BY <1>1, <1>2, FreeBlock
<1>4. Inside(r, <<page, c>>) /\ pageOrder[r][page] = c
  BY <1>1, <1>3, BlocksApart
<1>5. page \in Nat /\ page \in Usable(r) /\ page % 2^c = 0 /\ page \in Pages(r)
  BY <1>1, <1>4, BlockPages, Regions DEF Inside
<1>6. \A o \in order .. c - 1 : /\ o \in Order /\ o + 1 \in AnyOrder /\ o + 1 \in 0 .. c
                                /\ o \in 0 .. c /\ o + 1 \in Order /\ o + 1 <= c
  BY <1>2, Orders DEF Order, AnyOrder
<1> QED BY <1>1, <1>2, <1>3, <1>4, <1>5, <1>6

(* The pieces a block is split into.                                       *)
Pieces(order, c, page) == {<<page, order>>} \cup {<<page + 2^o, o>> : o \in order .. c - 1}

LEMMA PiecesInside ==
    ASSUME IInv, NEW r, NEW order, NEW c, NEW page, Splits(r, order, c, page)
    PROVE  \A b \in Pieces(order, c, page) :
               Inside(r, b) /\ page <= b[1] /\ b[1] + 2^b[2] <= page + 2^c
<1>0. /\ r \in Region /\ order \in Order /\ c \in Order /\ order <= c
      /\ \A o \in order .. c - 1 : /\ o \in Order /\ o + 1 \in AnyOrder /\ o + 1 \in 0 .. c
                                   /\ o \in 0 .. c
      /\ page \in Nat /\ Inside(r, <<page, c>>) /\ page % 2^c = 0
      /\ order \in Nat /\ c \in Nat /\ c \in AnyOrder /\ order \in 0 .. c
  BY SplitFacts
<1>1. MetadataPages[r] <= page /\ page + 2^c <= TotalPages[r] /\ 2^c \in Nat
  BY <1>0, Orders DEF Inside
<1>2. Inside(r, <<page, order>>) /\ page + 2^order <= page + 2^c
  <2>1. 2^order <= 2^c /\ page % 2^order = 0 /\ order \in AnyOrder /\ 2^order \in Nat
    BY <1>0, Finer, Orders
  <2> QED BY <1>0, <1>1, <2>1, Regions DEF Inside
<1>3. ASSUME NEW o \in order .. c - 1
      PROVE  /\ Inside(r, <<page + 2^o, o>>)
             /\ page <= page + 2^o /\ (page + 2^o) + 2^o <= page + 2^c
  <2>1. /\ o \in Order /\ page % 2^o = 0 /\ 2^o \in Nat \ {0} /\ (2^o) % (2^o) = 0
        /\ 2^(o + 1) <= 2^c /\ 2^(o + 1) = 2^o + 2^o
    <3>1. o \in Order /\ o \in AnyOrder /\ o \in 0 .. c /\ o + 1 \in 0 .. c /\ o \in 0 .. o
      BY <1>0, Orders
    <3> QED BY <1>0, <3>1, Finer, Orders
  <2> DEFINE m == 2^o
             n == 2^c
  <2>2. m \in Nat \ {0} /\ page % m = 0 /\ m % m = 0 /\ m + m <= n /\ n \in Nat
    BY <1>1, <2>1
  <2>3. MetadataPages[r] <= page /\ page + n <= TotalPages[r]
    BY <1>1
  <2> HIDE DEF m, n
  <2>4. (page + m) % m = 0
    BY <1>0, <2>2, SumOfMultiples
  <2>5. /\ page + m \in Nat /\ MetadataPages[r] <= page + m /\ (page + m) + m <= TotalPages[r]
        /\ page <= page + m /\ (page + m) + m <= page + n
    BY <1>0, <2>2, <2>3, Regions
  <2> QED BY <2>1, <2>4, <2>5 DEF Inside, m, n
<1>4. ASSUME NEW b \in Pieces(order, c, page)
      PROVE  Inside(r, b) /\ page <= b[1] /\ b[1] + 2^b[2] <= page + 2^c
  <2>1. CASE b = <<page, order>>
    BY <1>0, <1>2, <2>1
  <2>2. CASE b # <<page, order>>
    <3>1. PICK o \in order .. c - 1 : b = <<page + 2^o, o>>
      BY <2>2 DEF Pieces
    <3> QED BY <1>3, <3>1
  <2> QED BY <2>1, <2>2
<1> QED BY <1>4

(* The pieces cover what the block did, each page once.                    *)
LEMMA PiecesCover ==
    ASSUME IInv, NEW r, NEW order, NEW c, NEW page, Splits(r, order, c, page)
    PROVE  /\ \A p \in Nat : In(p, page, c) <=> \E b \in Pieces(order, c, page) : Covers(b, p)
           /\ \A b, d \in Pieces(order, c, page) : \A p \in Nat : Covers(b, p) /\ Covers(d, p) => b = d
<1>0. /\ r \in Region /\ order \in Order /\ c \in Order /\ order <= c
      /\ \A o \in order .. c - 1 : /\ o \in Order /\ o + 1 \in AnyOrder /\ o + 1 \in 0 .. c
                                   /\ o \in 0 .. c /\ o \in Nat
      /\ page \in Nat /\ 2^c \in Nat /\ 2^order \in Nat
      /\ order \in Nat /\ c \in Nat /\ c \in AnyOrder /\ order \in 0 .. c
  BY SplitFacts, Orders
<1> DEFINE upper(o) == <<page + 2^o, o>>
<1>1. \A o \in order .. c - 1 : /\ 2^o \in Nat /\ 2^(o + 1) = 2^o + 2^o /\ 2^order <= 2^o
                                /\ \A p : Covers(upper(o), p) <=> page + 2^o <= p /\ p < page + 2^(o + 1)
  <2> SUFFICES ASSUME NEW o \in order .. c - 1
               PROVE  /\ 2^o \in Nat /\ 2^(o + 1) = 2^o + 2^o /\ 2^order <= 2^o
                      /\ \A p : Covers(upper(o), p) <=> page + 2^o <= p /\ p < page + 2^(o + 1)
    OBVIOUS
  <2>1. o \in Order /\ o \in AnyOrder /\ order \in 0 .. o
    BY <1>0, Orders
  <2>2. 2^o \in Nat /\ 2^(o + 1) = 2^o + 2^o /\ 2^order <= 2^o
    BY <2>1, Orders, Finer
  <2>3. (page + 2^o) + 2^o = page + 2^(o + 1)
    <3> DEFINE m == 2^o
    <3>1. m \in Nat /\ 2^(o + 1) = m + m
      BY <2>2
    <3> HIDE DEF m
    <3>2. (page + m) + m = page + (m + m)
      BY <1>0, <3>1
    <3> QED BY <3>1, <3>2 DEF m
  <2> QED BY <2>2, <2>3 DEF Covers
<1>2. \A p : Covers(<<page, order>>, p) <=> page <= p /\ p < page + 2^order
  BY DEF Covers
<1>3. ASSUME NEW p \in Nat, In(p, page, c) PROVE \E b \in Pieces(order, c, page) : Covers(b, p)
  <2> DEFINE T == {o \in order .. c : p < page + 2^o}
  <2>1. T \in SUBSET Nat /\ c \in T
    BY <1>0, <1>3 DEF In
  <2>2. PICK o \in T : \A k \in T : o <= k
    <3> HIDE DEF T
    <3> QED BY <2>1, Least
  <2>3. o \in order .. c /\ p < page + 2^o
    BY <2>2
  <2>4. CASE o = order
    <3>1. Covers(<<page, order>>, p)
      BY <1>2, <1>3, <2>3, <2>4 DEF In
    <3> QED BY <3>1 DEF Pieces
  <2>5. CASE o # order
    <3>1. o - 1 \in order .. c - 1 /\ (o - 1) + 1 = o /\ o - 1 \in order .. c
      BY <1>0, <2>3, <2>5
    <3>2. o - 1 \notin T
      BY <1>0, <2>2, <2>3
    <3>3. page + 2^(o - 1) <= p
      BY <1>0, <1>1, <3>1, <3>2
    <3>4. Covers(upper(o - 1), p)
      BY <1>1, <2>3, <3>1, <3>3
    <3>5. upper(o - 1) \in Pieces(order, c, page)
      BY <3>1 DEF Pieces
    <3> QED BY <3>4, <3>5
  <2> QED BY <2>4, <2>5
<1>4. ASSUME NEW p \in Nat, NEW b \in Pieces(order, c, page), Covers(b, p) PROVE In(p, page, c)
  <2>1. b[1] \in Nat /\ b[2] \in AnyOrder /\ page <= b[1] /\ b[1] + 2^b[2] <= page + 2^c
    BY <1>0, PiecesInside, BlockPages, Orders
  <2>2. b[1] <= p /\ p < b[1] + 2^b[2]
    BY <1>4 DEF Covers
  <2>3. 2^b[2] \in Nat
    BY <2>1, Orders
  <2> QED BY <1>0, <2>1, <2>2, <2>3 DEF In
<1>5. ASSUME NEW i \in order .. c - 1, NEW j \in order .. c - 1, i < j, NEW p \in Nat,
             Covers(upper(i), p), Covers(upper(j), p)
      PROVE  FALSE
  <2>1. 2^(i + 1) <= 2^j /\ 2^(i + 1) \in Nat /\ 2^j \in Nat
    <3>1. j \in AnyOrder /\ i + 1 \in 0 .. j
      BY <1>0, <1>5, Orders
    <3> QED BY <3>1, Finer, Orders
  <2>2. p < page + 2^(i + 1) /\ page + 2^j <= p
    BY <1>1, <1>5
  <2> QED BY <1>0, <2>1, <2>2
<1>6. ASSUME NEW o \in order .. c - 1, NEW p \in Nat, Covers(upper(o), p), Covers(<<page, order>>, p)
      PROVE  FALSE
  <2>1. page + 2^o <= p /\ p < page + 2^order /\ 2^order <= 2^o /\ 2^o \in Nat
    BY <1>1, <1>2, <1>6
  <2> QED BY <1>0, <2>1
<1>7. ASSUME NEW b \in Pieces(order, c, page), NEW d \in Pieces(order, c, page), NEW p \in Nat,
             Covers(b, p), Covers(d, p)
      PROVE  b = d
  <2>1. b = <<page, order>> \/ \E i \in order .. c - 1 : b = upper(i)
    BY DEF Pieces
  <2>2. d = <<page, order>> \/ \E i \in order .. c - 1 : d = upper(i)
    BY DEF Pieces
  <2> HIDE DEF upper
  <2>3. ASSUME NEW i \in order .. c - 1, NEW j \in order .. c - 1, b = upper(i), d = upper(j)
        PROVE  b = d
    <3>1. ~(i < j) /\ ~(j < i)
      BY <1>5, <1>7, <2>3
    <3>2. i = j
      BY <1>0, <3>1
    <3> QED BY <2>3, <3>2
  <2> QED BY <1>6, <1>7, <2>1, <2>2, <2>3
<1> QED BY <1>3, <1>4, <1>7

(* The bytes after a split: the pieces are marked, and no other block's    *)
(* byte has changed.                                                       *)
LEMMA SplitMarks ==
    ASSUME IInv, NEW r, NEW order, NEW c, NEW page, Splits(r, order, c, page)
    PROVE  /\ pageOrder' = [pageOrder EXCEPT ![r] = SplitBytes(r, order, c, page)]
           /\ pageOrder'[r] \in [Pages(r) -> 0 .. NoEntry]
           /\ pageOrder'[r][page] = order + AllocBit
           /\ \A o \in order .. c - 1 : /\ page + 2^o \in Pages(r) /\ page + 2^o # page
                                        /\ pageOrder'[r][page + 2^o] = o
           /\ \A p \in Pages(r) : \/ p = page
                                  \/ \E o \in order .. c - 1 : p = page + 2^o
                                  \/ pageOrder'[r][p] = pageOrder[r][p]
           /\ \A p \in Pages(r) : ~In(p, page, c) => pageOrder'[r][p] = pageOrder[r][p]
<1>0. /\ r \in Region /\ order \in Order /\ c \in Order /\ page \in Nat /\ page \in Pages(r)
      /\ \A o \in order .. c - 1 : o \in Order /\ o \in AnyOrder /\ o \in 0 .. c /\ o \in Nat
      /\ c \in AnyOrder /\ order \in 0 .. c /\ order \in Nat /\ c \in Nat
  BY SplitFacts, Orders
<1>1. pageOrder' = [pageOrder EXCEPT ![r] = SplitBytes(r, order, c, page)]
  BY DEF Splits
<1>2. DOMAIN pageOrder = Region /\ pageOrder[r] \in [Pages(r) -> 0 .. NoEntry]
  BY <1>0 DEF IInv, TypeOK
<1> DEFINE Y == SplitBytes(r, order, c, page)
<1>3. pageOrder'[r] = Y
  BY <1>0, <1>1, <1>2
<1>4. ASSUME NEW o \in order .. c - 1
      PROVE  page + 2^o \in Pages(r) /\ page + 2^o # page /\ In(page + 2^o, page, c)
  <2>1. Inside(r, <<page + 2^o, o>>) /\ (page + 2^o) + 2^o <= page + 2^c
    BY PiecesInside DEF Pieces
  <2>2. page + 2^o \in Usable(r) /\ 2^o \in Nat \ {0} /\ 2^c \in Nat
    BY <1>0, <2>1, BlockPages, Orders
  <2>3. page + 2^o \in Pages(r) /\ page + 2^o # page /\ page <= page + 2^o /\ page + 2^o < page + 2^c
    BY <1>0, <2>1, <2>2, Regions
  <2> QED BY <2>3 DEF In
<1>5. \A i, j \in order .. c - 1 : page + 2^i = page + 2^j => i = j
  <2>1. ASSUME NEW i \in order .. c - 1, NEW j \in order .. c - 1, i < j PROVE page + 2^i # page + 2^j
    <3>1. i \in 0 .. j /\ j \in AnyOrder /\ 2^i \in Nat \ {0} /\ 2^j \in Nat
      BY <1>0, <2>1, Orders
    <3>2. 2 * 2^i <= 2^j
      BY <2>1, <3>1, PowersGrow DEF AnyOrder
    <3>3. 2^i < 2^j
      BY <3>1, <3>2
    <3> QED BY <1>0, <3>1, <3>3
  <2> SUFFICES ASSUME NEW i \in order .. c - 1, NEW j \in order .. c - 1, page + 2^i = page + 2^j
               PROVE  i = j
    OBVIOUS
  <2>2. ~(i < j) /\ ~(j < i)
    BY <2>1
  <2> QED BY <1>0, <2>2
<1>6. Y = [p \in Pages(r) |->
            IF p = page THEN order + AllocBit
            ELSE IF \E o \in order .. (c - 1) : p = page + 2^o
                 THEN CHOOSE o \in order .. (c - 1) : p = page + 2^o
                 ELSE pageOrder[r][p]]
  BY DEF SplitBytes
<1> HIDE DEF Y
<1>7. Y[page] = order + AllocBit
  BY <1>0, <1>6
<1>8. ASSUME NEW o \in order .. c - 1 PROVE Y[page + 2^o] = o
  <2> DEFINE q == page + 2^o
  <2>1. q \in Pages(r) /\ q # page /\ \E k \in order .. c - 1 : q = page + 2^k
    BY <1>4
  <2>2. Y[q] = CHOOSE k \in order .. c - 1 : q = page + 2^k
    <3> HIDE DEF q
    <3> QED BY <1>6, <2>1
  <2>3. \A k \in order .. c - 1 : q = page + 2^k => k = o
    BY <1>5
  <2> HIDE DEF q
  <2>4. Y[q] = o
    BY <2>1, <2>2, <2>3
  <2> QED BY <2>4 DEF q
<1>9. ASSUME NEW p \in Pages(r), p # page, ~ \E o \in order .. c - 1 : p = page + 2^o
      PROVE  Y[p] = pageOrder[r][p]
  BY <1>6, <1>9
<1>10. Y \in [Pages(r) -> 0 .. NoEntry]
  <2>1. DOMAIN Y = Pages(r) /\ Y = [p \in Pages(r) |-> Y[p]]
    BY <1>6
  <2>2. ASSUME NEW p \in Pages(r) PROVE Y[p] \in 0 .. NoEntry
    <3>1. CASE p = page
      <4>1. order + AllocBit \in 0 .. NoEntry
        BY <1>0, Orders DEF Order, AllocBit, NoEntry
      <4> QED BY <1>7, <3>1, <4>1
    <3>2. CASE \E o \in order .. c - 1 : p = page + 2^o
      <4>1. PICK o \in order .. c - 1 : p = page + 2^o
        BY <3>2
      <4>2. o \in 0 .. NoEntry
        BY <1>0, Orders DEF Order, AllocBit, NoEntry
      <4> QED BY <1>8, <4>1, <4>2
    <3>3. CASE p # page /\ ~ \E o \in order .. c - 1 : p = page + 2^o
      BY <1>2, <1>9, <3>3
    <3> QED BY <3>1, <3>2, <3>3
  <2> QED BY <2>1, <2>2
<1>11. In(page, page, c)
  <2>1. 2^c \in Nat /\ 2^c >= 1
    BY <1>0, Orders
  <2> QED BY <1>0, <2>1 DEF In
<1>12. ASSUME NEW p \in Pages(r), ~In(p, page, c) PROVE Y[p] = pageOrder[r][p]
  BY <1>4, <1>9, <1>11, <1>12
<1> QED BY <1>1, <1>3, <1>4, <1>7, <1>8, <1>9, <1>10, <1>12

LEMMA SplitBlocks ==
    ASSUME IInv, NEW r, NEW order, NEW c, NEW page, Splits(r, order, c, page)
    PROVE  /\ freeLists' \in [Region -> [Order -> SUBSET Nat]]
           /\ \A o \in Order : freeLists'[r][o] =
                 IF o = c THEN freeLists[r][o] \ {page}
                 ELSE IF o \in order .. c - 1 THEN {page + 2^o} ELSE freeLists[r][o]
           /\ \A b : b \in FreeBlocks(r)' <=>
                 \/ b \in FreeBlocks(r) /\ b # <<page, c>>
                 \/ \E o \in order .. c - 1 : b = <<page + 2^o, o>>
           /\ AllocBlocks(r)' = AllocBlocks(r) \cup {<<page, order>>}
<1>0. /\ r \in Region /\ order \in Order /\ c \in Order /\ page \in Nat /\ page \in Pages(r)
      /\ \A o \in order .. c - 1 : o \in Order /\ o \in AnyOrder /\ o # c /\ 2^o \in Nat
      /\ order \in Nat /\ c \in Nat
      /\ \A o \in order .. c - 1 : freeLists[r][o] = {}
  BY SplitFacts, Orders DEF Splits
<1>1. freeLists \in [Region -> [Order -> SUBSET Nat]]
  BY DEF IInv, TypeOK
<1>2. freeLists' = [freeLists EXCEPT ![r] = SplitLists(r, order, c, page)]
  BY DEF Splits
<1> DEFINE X == SplitLists(r, order, c, page)
<1>3. X = [o \in Order |-> IF o = c THEN freeLists[r][o] \ {page}
                           ELSE IF o \in order .. (c - 1) THEN freeLists[r][o] \cup {page + 2^o}
                           ELSE freeLists[r][o]]
  BY DEF SplitLists
<1> HIDE DEF X
<1>4. X \in [Order -> SUBSET Nat]
  <2>1. \A o \in order .. c - 1 : page + 2^o \in Nat
    BY <1>0
  <2>2. \A o \in Order : X[o] \in SUBSET Nat
    BY <1>0, <1>1, <1>3, <2>1
  <2> QED BY <1>3, <2>2
<1>5. freeLists' \in [Region -> [Order -> SUBSET Nat]] /\ freeLists'[r] = X
  BY <1>0, <1>1, <1>2, <1>4 DEF X
<1>6. \A o \in Order : freeLists'[r][o] =
          IF o = c THEN freeLists[r][o] \ {page}
          ELSE IF o \in order .. c - 1 THEN {page + 2^o} ELSE freeLists[r][o]
  BY <1>0, <1>3, <1>5
<1>7. \A b : b \in FreeBlocks(r)' <=> \E o \in Order : \E p \in freeLists'[r][o] : b = <<p, o>>
  BY DEF FreeBlocks
<1>8. ASSUME NEW b, b \in FreeBlocks(r)'
      PROVE  \/ b \in FreeBlocks(r) /\ b # <<page, c>>
             \/ \E o \in order .. c - 1 : b = <<page + 2^o, o>>
  <2>1. PICK o \in Order : \E p \in freeLists'[r][o] : b = <<p, o>>
    BY <1>7, <1>8
  <2>2. PICK p \in freeLists'[r][o] : b = <<p, o>>
    BY <2>1
  <2>3. CASE o = c
    <3>1. p \in freeLists[r][o] /\ p # page
      BY <1>6, <2>3
    <3> QED BY <2>2, <3>1, FreeBlock
  <2>4. CASE o # c /\ o \in order .. c - 1
    BY <1>6, <2>2, <2>4
  <2>5. CASE o # c /\ o \notin order .. c - 1
    <3>1. p \in freeLists[r][o]
      BY <1>6, <2>5
    <3> QED BY <2>2, <2>5, <3>1, FreeBlock
  <2> QED BY <2>3, <2>4, <2>5
<1>9. ASSUME NEW o \in order .. c - 1 PROVE <<page + 2^o, o>> \in FreeBlocks(r)'
  <2>1. page + 2^o \in freeLists'[r][o] /\ o \in Order
    BY <1>0, <1>6
  <2> QED BY <1>7, <2>1
<1>10. ASSUME NEW b \in FreeBlocks(r), b # <<page, c>> PROVE b \in FreeBlocks(r)'
  <2>1. PICK o \in Order : \E p \in freeLists[r][o] : b = <<p, o>>
    BY FreeBlock
  <2>2. PICK p \in freeLists[r][o] : b = <<p, o>>
    BY <2>1
  <2>3. o \notin order .. c - 1
    BY <1>0, <2>2
  <2>4. p \in freeLists'[r][o]
    BY <1>6, <1>10, <2>2, <2>3
  <2> QED BY <1>7, <2>2, <2>4
<1>11. AllocBlocks(r)' = AllocBlocks(r) \cup {<<page, order>>}
  <2>0. \A b : b \in AllocBlocks(r)' <=>
          \E p \in Pages(r) : /\ pageOrder'[r][p] \in AllocBit .. NoEntry - 1
                              /\ b = <<p, pageOrder'[r][p] - AllocBit>>
    BY DEF AllocBlocks
  <2>1. ASSUME NEW b \in AllocBlocks(r)' PROVE b \in AllocBlocks(r) \cup {<<page, order>>}
    <3>1. PICK p \in Pages(r) : /\ pageOrder'[r][p] \in AllocBit .. NoEntry - 1
                                /\ b = <<p, pageOrder'[r][p] - AllocBit>>
      BY <2>0
    <3>2. CASE p = page
      <4>1. b = <<page, (order + AllocBit) - AllocBit>>
        BY <3>1, <3>2, SplitMarks
      <4> QED BY <1>0, <4>1 DEF AllocBit
    <3>3. CASE \E o \in order .. c - 1 : p = page + 2^o
      <4>1. PICK o \in order .. c - 1 : p = page + 2^o
        BY <3>3
      <4>2. o \in AllocBit .. NoEntry - 1
        BY <3>1, <4>1, SplitMarks
      <4> QED BY <1>0, <4>2, Orders DEF Order, AllocBit, NoEntry
    <3>4. CASE pageOrder'[r][p] = pageOrder[r][p]
      BY <3>1, <3>4, AllocBlock
    <3> QED BY <3>2, <3>3, <3>4, SplitMarks
  <2>2. <<page, order>> \in AllocBlocks(r)'
    <3>1. /\ pageOrder'[r][page] = order + AllocBit
          /\ order + AllocBit \in AllocBit .. NoEntry - 1 /\ (order + AllocBit) - AllocBit = order
      BY <1>0, SplitMarks, Orders DEF Order, AllocBit, NoEntry
    <3> QED BY <1>0, <2>0, <3>1
  <2>3. ASSUME NEW b \in AllocBlocks(r) PROVE b \in AllocBlocks(r)'
    <3>1. PICK p \in Pages(r) : /\ pageOrder[r][p] \in AllocBit .. NoEntry - 1
                                /\ b = <<p, pageOrder[r][p] - AllocBit>>
      BY AllocBlock
    <3>2. /\ Inside(r, b) /\ Covers(b, p) /\ p \in Usable(r) /\ p \in Nat
      BY <1>0, <3>1, BlocksApart, BlockPages
    <3>3. ~In(p, page, c)
      <4> SUFFICES ASSUME In(p, page, c) PROVE FALSE
        OBVIOUS
      <4>1. <<page, c>> \in FreeBlocks(r) /\ Covers(<<page, c>>, p)
        BY SplitFacts DEF In, Covers
      <4>2. b = <<page, c>>
        BY <1>0, <3>2, <4>1, BlocksApart DEF Blocks
      <4> QED BY <1>0, <4>1, <4>2, BlocksApart
    <3>4. pageOrder'[r][p] = pageOrder[r][p]
      BY <3>3, SplitMarks
    <3> QED BY <2>0, <3>1, <3>4
  <2> QED BY <2>1, <2>2, <2>3
<1> QED BY <1>5, <1>6, <1>8, <1>9, <1>10, <1>11

(* The lists after a split.                                                *)
LEMMA SplitHeads ==
    ASSUME IInv, NEW r, NEW order, NEW c, NEW page, Splits(r, order, c, page)
    PROVE  /\ \A o \in order .. c - 1 : freeLists'[r][o] = {page + 2^o}
           /\ \A o \in Order : /\ o \notin order .. c - 1 => freeLists'[r][o] \subseteq freeLists[r][o]
                               /\ o = c => page \notin freeLists'[r][o]
<1>0. /\ r \in Region /\ c \in Order /\ order \in Nat /\ c \in Nat
      /\ \A o \in order .. c - 1 : o \in Order /\ o # c /\ freeLists[r][o] = {}
  BY SplitFacts DEF Splits
<1>1. freeLists' = [freeLists EXCEPT ![r] = SplitLists(r, order, c, page)]
  BY DEF Splits
<1>2. freeLists'[r] = SplitLists(r, order, c, page)
  BY <1>0, <1>1 DEF IInv, TypeOK
<1>3. \A o \in Order : freeLists'[r][o] =
          IF o = c THEN freeLists[r][o] \ {page}
          ELSE IF o \in order .. (c - 1) THEN freeLists[r][o] \cup {page + 2^o} ELSE freeLists[r][o]
  BY <1>2 DEF SplitLists
<1> QED BY <1>0, <1>3

LEMMA SplitIInv ==
    ASSUME IInv, NEW r, NEW order, NEW c, NEW page, Splits(r, order, c, page)
    PROVE  IInv'
<1>0. /\ r \in Region /\ order \in Order /\ c \in Order /\ page \in Nat /\ page \in Usable(r)
      /\ <<page, c>> \in FreeBlocks(r) /\ Inside(r, <<page, c>>)
      /\ \A o \in order .. c - 1 : o \in Order
  BY SplitFacts
<1>n. order \in Nat /\ c \in Nat /\ page \in Nat
  BY SplitFacts
<1>o. \A o \in order .. c - 1 : o \in Order
  BY SplitFacts
<1>l. /\ \A o \in order .. c - 1 : freeLists'[r][o] = {page + 2^o}
      /\ \A o \in Order : /\ o \notin order .. c - 1 => freeLists'[r][o] \subseteq freeLists[r][o]
                          /\ o = c => page \notin freeLists'[r][o]
  BY SplitHeads
<1>1. \A q \in Region \ {r} : freeLists'[q] = freeLists[q] /\ pageOrder'[q] = pageOrder[q]
  BY DEF Splits, IInv, TypeOK
<1>2. TypeOK'
  <2>1. DOMAIN pageOrder' = Region
    BY SplitMarks DEF IInv, TypeOK
  <2>2. \A q \in Region : pageOrder'[q] \in [Pages(q) -> 0 .. NoEntry]
    BY <1>1, SplitMarks DEF IInv, TypeOK
  <2> QED BY <2>1, <2>2, SplitBlocks DEF TypeOK
<1>3. \A p : Covers(<<page, c>>, p) <=> In(p, page, c)
  BY DEF Covers, In
<1>4. Tiling(r, Blocks(r)')
  <2> DEFINE old == {<<page, c>>}
             new == Pieces(order, c, page)
             all == Blocks(r)
  <2>1. Blocks(r)' = (all \ old) \cup new
    <3>1. <<page, c>> \notin AllocBlocks(r)
      BY <1>0, BlocksApart
    <3>2. \A b : b \in Blocks(r)' <=> \/ b \in FreeBlocks(r) /\ b # <<page, c>>
                                      \/ \E o \in order .. c - 1 : b = <<page + 2^o, o>>
                                      \/ b \in AllocBlocks(r) \/ b = <<page, order>>
      BY SplitBlocks DEF Blocks
    <3>3. \A b : b \in new <=> b = <<page, order>> \/ \E o \in order .. c - 1 : b = <<page + 2^o, o>>
      BY DEF Pieces
    <3> HIDE DEF new
    <3> QED BY <3>1, <3>2, <3>3 DEF Blocks
  <2>2. old \in SUBSET all
    BY <1>0 DEF Blocks
  <2>3. Tiling(r, all)
    BY <1>0 DEF IInv
  <2>4. \A b \in new : Inside(r, b)
    BY PiecesInside
  <2>5. \A b, d \in new : \A p \in Usable(r) : Covers(b, p) /\ Covers(d, p) => b = d
    BY <1>0, PiecesCover, Regions
  <2>6. \A p \in Usable(r) : (\E b \in old : Covers(b, p)) <=> (\E b \in new : Covers(b, p))
    BY <1>0, <1>3, PiecesCover, Regions
  <2> HIDE DEF old, new, all
  <2>7. Tiling(r, (all \ old) \cup new)
    BY <1>0, <2>2, <2>3, <2>4, <2>5, <2>6, Recut
  <2> QED BY <2>1, <2>7
<1>5. Marked(r)'
  <2>1. ASSUME NEW o \in Order, NEW p \in freeLists'[r][o] PROVE pageOrder'[r][p] = o
    <3>1. CASE o \in order .. c - 1
      <4>1. o # c
        BY <1>n, <3>1
      <4>2. p = page + 2^o
        BY <1>l, <3>1, <4>1
      <4> QED BY <3>1, <4>2, SplitMarks
    <3>2. CASE o \notin order .. c - 1
      <4>1. p \in freeLists[r][o] /\ <<p, o>> # <<page, c>>
        BY <1>l, <3>2
      <4>2. <<p, o>> \in FreeBlocks(r)
        BY <4>1, FreeBlock
      <4>3. /\ Inside(r, <<p, o>>) /\ Covers(<<p, o>>, p) /\ p \in Usable(r) /\ p \in Pages(r)
            /\ pageOrder[r][p] = o
        BY <1>0, <4>2, BlocksApart, BlockPages, Regions
      <4>4. ~In(p, page, c)
        BY <1>0, <1>3, <4>1, <4>2, <4>3, BlocksApart DEF Blocks
      <4> QED BY <4>3, <4>4, SplitMarks
    <3> QED BY <3>1, <3>2
  <2>2. ASSUME NEW p \in 0 .. MetadataPages[r] - 1 PROVE pageOrder'[r][p] = NoEntry
    <3>1. p \in Pages(r) /\ p < page
      BY <1>0, Regions DEF Pages, Usable
    <3>2. ~In(p, page, c)
      BY <1>0, <3>1, Regions DEF In, Pages
    <3>3. pageOrder[r][p] = NoEntry
      BY <1>0 DEF IInv, Marked
    <3> QED BY <3>1, <3>2, <3>3, SplitMarks
  <2> QED BY <2>1, <2>2 DEF Marked
<1>6. ASSUME NEW q \in Region, q # r PROVE Tiling(q, Blocks(q)') /\ Marked(q)'
  <2>1. freeLists'[q] = freeLists[q] /\ pageOrder'[q] = pageOrder[q]
    BY <1>1, <1>6
  <2>2. Tiling(q, Blocks(q)) /\ Marked(q)
    BY DEF IInv
  <2> QED BY <2>1, <2>2, Untouched
<1>7. \A q \in Region : Tiling(q, Blocks(q)') /\ Marked(q)'
  BY <1>4, <1>5, <1>6
<1>8. \A q \in Region : Tiling(q, Blocks(q))' <=> Tiling(q, Blocks(q)')
  BY DEF Tiling, Inside, Covers, Usable
<1> QED BY <1>2, <1>7, <1>8 DEF IInv

(* The lists below the block that is split were empty, and its pieces are  *)
(* of different orders.                                                    *)
LEMMA SplitCoalesced ==
    ASSUME IInv, FullyCoalesced, NEW r, NEW order, NEW c, NEW page, Splits(r, order, c, page)
    PROVE  FullyCoalesced'
<1>n. order \in Nat /\ c \in Nat /\ page \in Nat
  BY SplitFacts
<1>o. \A o \in order .. c - 1 : o \in Order
  BY SplitFacts
<1>l. /\ \A o \in order .. c - 1 : freeLists'[r][o] = {page + 2^o}
      /\ \A o \in Order : /\ o \notin order .. c - 1 => freeLists'[r][o] \subseteq freeLists[r][o]
                          /\ o = c => page \notin freeLists'[r][o]
  BY SplitHeads
<1>1. \A q \in Region \ {r} : freeLists'[q] = freeLists[q]
  BY DEF Splits, IInv, TypeOK
<1> SUFFICES ASSUME NEW q \in Region, NEW o \in 0 .. MaxOrder - 1, NEW p \in freeLists'[q][o],
                    p % 2^(o + 1) = 0, p + 2^o \in freeLists'[q][o]
             PROVE  FALSE
  BY DEF FullyCoalesced
<1>2. ~(p \in freeLists[q][o] /\ p + 2^o \in freeLists[q][o])
  BY DEF FullyCoalesced
<1>3. CASE q # r
  BY <1>1, <1>2, <1>3
<1>4. CASE q = r /\ o \in order .. c - 1
  <2>1. o # c /\ page \in Nat /\ o \in Order
    BY <1>n, <1>o, <1>4
  <2>2. p = page + 2^o /\ p + 2^o = page + 2^o
    BY <1>l, <1>4, <2>1
  <2>3. 2^o \in Nat \ {0}
    BY <2>1, Orders
  <2> DEFINE m == 2^o
  <2>4. m \in Nat \ {0} /\ p = page + m /\ p + m = page + m
    BY <2>2, <2>3
  <2> HIDE DEF m
  <2> QED BY <2>1, <2>4
<1>5. CASE q = r /\ o \notin order .. c - 1
  <2>1. o \in Order
    BY Orders DEF Order
  <2>2. freeLists'[r][o] \subseteq freeLists[r][o]
    BY <1>l, <1>5, <2>1
  <2> QED BY <1>2, <1>5, <2>2
<1> QED BY <1>3, <1>4, <1>5

-----------------------------------------------------------------------------
(* What free does, in the terms of the proofs.                             *)
Sibling(page, o) == Buddy(BlockStart(page, o), o)

Merges(r, page, order, top) ==
    /\ r \in Region /\ page \in Pages(r) /\ order \in Order
    /\ <<page, order>> \in AllocBlocks(r)
    /\ top \in order .. MaxOrder /\ ~Mergeable(r, page, top)
    /\ \A o \in order .. top - 1 : Mergeable(r, page, o)
    /\ freeLists' = [freeLists EXCEPT ![r] = [o \in Order |->
          IF o = top THEN freeLists[r][o] \cup {BlockStart(page, top)}
          ELSE IF o \in order .. (top - 1) THEN freeLists[r][o] \ {Sibling(page, o)}
          ELSE freeLists[r][o]]]
    /\ pageOrder' = [pageOrder EXCEPT ![r] =
          [[@ EXCEPT ![page] = order] EXCEPT ![BlockStart(page, top)] = top]]

LEMMA FreeMerges ==
    ASSUME IInv, NEW r \in Region, NEW page \in Pages(r), free(r, page)
    PROVE  \E order, top : Merges(r, page, order, top)
<1> DEFINE order == pageOrder[r][page] - AllocBit
           T == {o \in order .. MaxOrder : ~Mergeable(r, page, o)}
           top == Min(T)
<1>1. /\ pageOrder[r][page] # NoEntry /\ pageOrder[r][page] >= AllocBit
      /\ pageOrder[r][page] \in 0 .. NoEntry
  BY DEF free, IInv, TypeOK
<1>2. /\ freeLists' = [freeLists EXCEPT ![r] = [o \in Order |->
            IF o = top THEN freeLists[r][o] \cup {BlockStart(page, top)}
            ELSE IF o \in order .. (top - 1) THEN freeLists[r][o] \ {Sibling(page, o)}
            ELSE freeLists[r][o]]]
      /\ pageOrder' = [pageOrder EXCEPT ![r] =
            [[@ EXCEPT ![page] = order] EXCEPT ![BlockStart(page, top)] = top]]
  BY DEF free, Sibling
<1>3. pageOrder[r][page] \in AllocBit .. NoEntry - 1
  BY <1>1 DEF AllocBit, NoEntry
<1>4. <<page, order>> \in AllocBlocks(r)
  BY <1>3, AllocBlock
<1> HIDE DEF order
<1>5. order \in Order
  BY <1>4, BlocksApart, BlockPages
<1>6. top \in T /\ \A o \in T : top <= o
  <2>1. ~Mergeable(r, page, MaxOrder)
    BY Orders DEF Mergeable
  <2>2. T \in SUBSET Nat /\ MaxOrder \in T
    BY <1>5, <2>1, Orders DEF Order
  <2> HIDE DEF T
  <2> QED BY <2>2, MinOf
<1> HIDE DEF top
<1>7. top \in order .. MaxOrder /\ ~Mergeable(r, page, top) /\ order \in Nat
  BY <1>5, <1>6, Orders
<1>8. \A o \in order .. top - 1 : Mergeable(r, page, o)
  BY <1>6, <1>7, Orders
<1>9. Merges(r, page, order, top)
  BY <1>2, <1>4, <1>5, <1>7, <1>8 DEF Merges
<1> QED BY <1>9

LEMMA MergeFacts ==
    ASSUME IInv, NEW r, NEW page, NEW order, NEW top, Merges(r, page, order, top)
    PROVE  /\ r \in Region /\ order \in Order /\ top \in Order /\ order <= top
           /\ order \in Nat /\ top \in Nat /\ top \in AnyOrder /\ order \in 0 .. top
           /\ \A o \in order .. top - 1 : /\ o \in Order /\ o + 1 \in Order /\ o + 1 \in 0 .. top
                                          /\ o \in Nat /\ o # top
           /\ page \in Nat /\ page \in Usable(r) /\ page \in Pages(r) /\ page % 2^order = 0
           /\ <<page, order>> \in AllocBlocks(r) /\ Inside(r, <<page, order>>)
<1>1. r \in Region /\ order \in Order /\ page \in Pages(r) /\ top \in order .. MaxOrder /\ <<page, order>> \in AllocBlocks(r)
  BY DEF Merges
<1>2. /\ order \in Nat /\ top \in Nat /\ top \in Order /\ top \in AnyOrder /\ order \in 0 .. top
      /\ order <= top
  BY <1>1, Orders DEF Order
<1>3. \A o \in order .. top - 1 : /\ o \in Order /\ o + 1 \in Order /\ o + 1 \in 0 .. top
                                  /\ o \in Nat /\ o # top
  BY <1>2, Orders DEF Order
<1>4. Inside(r, <<page, order>>)
  BY <1>1, BlocksApart
<1>5. page \in Nat /\ page \in Usable(r) /\ page % 2^order = 0
  BY <1>1, <1>4, BlockPages DEF Inside
<1> QED BY <1>1, <1>2, <1>3, <1>4, <1>5

(* A buddy whose byte says free and of this order is on the list of this   *)
(* order: the byte is not stale.                                           *)
LEMMA SiblingIsFree ==
    ASSUME IInv, NEW r \in Region, NEW page \in Nat, NEW order \in Order, NEW o \in Order,
           order <= o, <<page, order>> \in AllocBlocks(r), Mergeable(r, page, o)
    PROVE  Sibling(page, o) \in freeLists[r][o]
<1> DEFINE s == BlockStart(page, o)
           y == Buddy(s, o)
           t == BlockStart(s, o + 1)
<1>0. /\ o \in AnyOrder /\ o + 1 \in AnyOrder /\ o \in Nat /\ order \in Nat
      /\ 2^o \in Nat /\ 2^o >= 1 /\ 2^(o + 1) \in Nat
  BY Orders
<1>1. s \in Nat /\ s % 2^o = 0 /\ In(page, s, o)
  BY <1>0, Start
<1>2. y < TotalPages[r] /\ pageOrder[r][y] = o
  BY DEF Mergeable
<1>3. y = Sibling(page, o)
  BY DEF Sibling
<1> HIDE DEF s
<1>4. /\ y \in Nat /\ y % 2^o = 0
      /\ \A p \in Nat : In(p, t, o + 1) <=> In(p, s, o) \/ In(p, y, o)
  BY <1>1, Halves
<1>5. t \in Nat /\ t % 2^(o + 1) = 0
  BY <1>0, <1>1, Start
<1> HIDE DEF y, t
<1>6. y \in Usable(r)
  <2>1. pageOrder[r][y] # NoEntry
    BY <1>2, Orders DEF Order, AllocBit, NoEntry
  <2>2. y \in Pages(r)
    BY <1>2, <1>4, Regions DEF Pages
  <2>3. y \notin 0 .. MetadataPages[r] - 1
    BY <2>1 DEF IInv, Marked
  <2> QED BY <2>2, <2>3, Regions
<1>7. PICK b \in Blocks(r) : Covers(b, y)
  BY <1>6 DEF IInv, Tiling
<1>8. Inside(r, b)
  BY <1>7, BlocksApart DEF Blocks
<1>9. /\ b[1] \in Nat /\ b[2] \in Order /\ b[2] \in AnyOrder /\ b[2] \in Nat /\ b[1] % 2^b[2] = 0
      /\ b = <<b[1], b[2]>> /\ In(y, b[1], b[2]) /\ 2^b[2] \in Nat
  BY <1>7, <1>8, BlockPages, Orders DEF Inside
<1>10. In(y, y, o)
  BY <1>0, <1>4 DEF In
<1>11. b[2] <= o
  <2> SUFFICES ASSUME ~(b[2] <= o) PROVE FALSE
    OBVIOUS
  <2>1. o + 1 \in 0 .. b[2]
    BY <1>0, <1>9
  <2>2. In(y, t, o + 1) /\ In(page, t, o + 1)
    BY <1>1, <1>4, <1>10
  <2>3. b[1] <= t /\ t + 2^(o + 1) <= b[1] + 2^b[2]
    BY <1>4, <1>5, <1>9, <2>1, <2>2, Nested
  <2>4. In(page, b[1], b[2])
    BY <1>0, <1>5, <1>9, <2>2, <2>3 DEF In
  <2>5. Covers(b, page)
    BY <2>4 DEF In, Covers
  <2>6. Inside(r, <<page, order>>)
    BY BlocksApart
  <2>7. Covers(<<page, order>>, page) /\ page \in Usable(r)
    BY <2>6, BlockPages
  <2>8. b = <<page, order>>
    BY <1>7, <2>5, <2>7, BlocksApart DEF Blocks
  <2> QED BY <1>0, <2>1, <2>8
<1>12. b[1] = y
  <2>1. b[2] \in 0 .. o
    BY <1>0, <1>9, <1>11
  <2>2. y <= b[1]
    BY <1>0, <1>4, <1>9, <1>10, <2>1, Nested
  <2> QED BY <1>4, <1>9, <2>2 DEF In
<1>13. b \in FreeBlocks(r)
  <2> SUFFICES ASSUME b \in AllocBlocks(r) PROVE FALSE
    BY <1>7 DEF Blocks
  <2>1. o = b[2] + AllocBit
    BY <1>2, <1>12, BlocksApart
  <2> QED BY <1>9, <2>1, Orders DEF Order, AllocBit, NoEntry
<1>14. b[2] = o
  BY <1>2, <1>12, <1>13, BlocksApart
<1>15. <<y, o>> \in FreeBlocks(r)
  BY <1>9, <1>12, <1>13, <1>14
<1>16. PICK k \in Order : \E p \in freeLists[r][k] : <<y, o>> = <<p, k>>
  BY <1>15, FreeBlock
<1> QED BY <1>3, <1>16

(* The block freed and the buddies it meets make up the block it grows to. *)
LEMMA MergeCover ==
    ASSUME NEW order \in Order, NEW top \in Order, order <= top, NEW page \in Nat, page % 2^order = 0
    PROVE  \A p \in Nat : In(p, BlockStart(page, top), top) <=>
               In(p, page, order) \/ \E o \in order .. top - 1 : In(p, Sibling(page, o), o)
<1>0. /\ order \in Nat /\ top \in Nat /\ order \in AnyOrder /\ top \in AnyOrder /\ order \in 0 .. top
      /\ top \in order .. top
  BY Orders
<1>1. \A o \in order .. top - 1 : /\ o \in Order /\ o \in AnyOrder /\ o + 1 \in AnyOrder /\ o \in 0 .. o + 1
                                  /\ o + 1 \in 0 .. top /\ o + 1 \in order .. top
  BY <1>0, Orders DEF Order
<1>2. BlockStart(page, order) = page
  <2>1. 2^order \in Nat /\ 2^order >= 1
    BY <1>0, Orders
  <2>2. In(page, page, order)
    BY <2>1 DEF In
  <2> QED BY <1>0, <2>2, Start
<1>3. ASSUME NEW o \in order .. top - 1, NEW p \in Nat
      PROVE  In(p, BlockStart(page, o + 1), o + 1) <=>
                 In(p, BlockStart(page, o), o) \/ In(p, Sibling(page, o), o)
  <2> DEFINE s == BlockStart(page, o)
             t == BlockStart(page, o + 1)
  <2>1. /\ s \in Nat /\ s % 2^o = 0
        /\ t \in Nat /\ t % 2^(o + 1) = 0
        /\ t <= s /\ s + 2^o <= t + 2^(o + 1)
        /\ 2^o \in Nat /\ 2^o >= 1 /\ 2^(o + 1) \in Nat
    BY <1>1, Start, StartOfPart, Orders
  <2>2. Sibling(page, o) = Buddy(s, o)
    BY DEF Sibling
  <2> HIDE DEF s, t
  <2>3. In(s, t, o + 1)
    BY <2>1 DEF In
  <2>4. t = BlockStart(s, o + 1)
    BY <1>1, <2>1, <2>3, Start
  <2>5. In(p, BlockStart(s, o + 1), o + 1) <=> In(p, s, o) \/ In(p, Buddy(s, o), o)
    BY <1>1, <2>1, Halves
  <2> QED BY <2>2, <2>4, <2>5 DEF s, t
<1>4. \A i \in 0 .. top : \A p \in Nat : In(p, BlockStart(page, i), i) => In(p, BlockStart(page, top), top)
  BY <1>0, StartOfPart
<1>5. ASSUME NEW p \in Nat, In(p, BlockStart(page, top), top)
      PROVE  In(p, page, order) \/ \E o \in order .. top - 1 : In(p, Sibling(page, o), o)
  <2> DEFINE T == {o \in order .. top : In(p, BlockStart(page, o), o)}
  <2>1. T \in SUBSET Nat /\ top \in T
    BY <1>0, <1>5
  <2>2. PICK o \in T : \A k \in T : o <= k
    <3> HIDE DEF T
    <3> QED BY <2>1, Least
  <2>3. o \in order .. top /\ In(p, BlockStart(page, o), o)
    BY <2>2
  <2>4. CASE o = order
    BY <1>2, <2>3, <2>4
  <2>5. CASE o # order
    <3>1. o - 1 \in order .. top - 1 /\ (o - 1) + 1 = o /\ o - 1 \in order .. top
      BY <1>0, <2>3, <2>5
    <3>2. o - 1 \notin T
      BY <1>0, <2>2, <2>3
    <3>3. ~In(p, BlockStart(page, o - 1), o - 1)
      BY <3>1, <3>2
    <3>4. In(p, Sibling(page, o - 1), o - 1)
      BY <1>3, <2>3, <3>1, <3>3
    <3> QED BY <3>1, <3>4
  <2> QED BY <2>4, <2>5
<1>6. ASSUME NEW p \in Nat, In(p, page, order) PROVE In(p, BlockStart(page, top), top)
  BY <1>0, <1>2, <1>4, <1>6
<1>7. ASSUME NEW p \in Nat, NEW o \in order .. top - 1, In(p, Sibling(page, o), o)
      PROVE  In(p, BlockStart(page, top), top)
  BY <1>1, <1>3, <1>4, <1>7
<1> QED BY <1>5, <1>6, <1>7

(* The blocks that free joins, and the block they become.                  *)
Merged(page, order, top) == {<<page, order>>} \cup {<<Sibling(page, o), o>> : o \in order .. top - 1}

LEMMA MergedBlocks ==
    ASSUME IInv, NEW r, NEW page, NEW order, NEW top, Merges(r, page, order, top)
    PROVE  /\ \A o \in order .. top - 1 : <<Sibling(page, o), o>> \in FreeBlocks(r)
           /\ Merged(page, order, top) \in SUBSET Blocks(r)
           /\ BlockStart(page, top) \in Nat
           /\ Inside(r, <<BlockStart(page, top), top>>)
           /\ \A p \in Usable(r) : In(p, BlockStart(page, top), top) <=>
                 \E b \in Merged(page, order, top) : Covers(b, p)
           /\ In(page, BlockStart(page, top), top)
           /\ In(BlockStart(page, top), BlockStart(page, top), top)
<1>0. /\ r \in Region /\ order \in Order /\ top \in Order /\ order <= top /\ order \in Nat
      /\ top \in AnyOrder /\ page \in Nat /\ page % 2^order = 0
      /\ \A o \in order .. top - 1 : o \in Order /\ o \in Nat
      /\ <<page, order>> \in AllocBlocks(r)
  BY MergeFacts
<1>1. ASSUME NEW o \in order .. top - 1 PROVE <<Sibling(page, o), o>> \in FreeBlocks(r)
  <2>1. Mergeable(r, page, o)
    BY DEF Merges
  <2>2. Sibling(page, o) \in freeLists[r][o]
    BY <1>0, <2>1, SiblingIsFree
  <2> QED BY <1>0, <2>2, FreeBlock
<1>2. Merged(page, order, top) \in SUBSET Blocks(r)
  BY <1>0, <1>1 DEF Merged, Blocks
<1> DEFINE start == BlockStart(page, top)
<1>3. start \in Nat /\ start % 2^top = 0 /\ In(page, start, top) /\ 2^top \in Nat /\ 2^top >= 1
  BY <1>0, Start, Orders
<1>4. ASSUME NEW p \in Nat
      PROVE  In(p, start, top) <=> \E b \in Merged(page, order, top) : Covers(b, p)
  <2>1. In(p, start, top) <=> In(p, page, order) \/ \E o \in order .. top - 1 : In(p, Sibling(page, o), o)
    BY <1>0, MergeCover
  <2>2. In(p, page, order) <=> Covers(<<page, order>>, p)
    BY DEF In, Covers
  <2>3. \A o \in order .. top - 1 : In(p, Sibling(page, o), o) <=> Covers(<<Sibling(page, o), o>>, p)
    BY DEF In, Covers
  <2>4. (\E b \in Merged(page, order, top) : Covers(b, p)) <=>
           Covers(<<page, order>>, p) \/ \E o \in order .. top - 1 : Covers(<<Sibling(page, o), o>>, p)
    BY DEF Merged
  <2> HIDE DEF start
  <2> QED BY <2>1, <2>2, <2>3, <2>4
<1> HIDE DEF start
<1>5. In(start, start, top)
  BY <1>3 DEF In
<1>6. \A p \in Nat : In(p, start, top) => p \in Usable(r)
  <2> SUFFICES ASSUME NEW p \in Nat, In(p, start, top) PROVE p \in Usable(r)
    OBVIOUS
  <2>1. PICK b \in Merged(page, order, top) : Covers(b, p)
    BY <1>4
  <2>2. Inside(r, b)
    BY <1>0, <1>2, <2>1, BlocksApart DEF Blocks
  <2> QED BY <1>0, <2>1, <2>2, BlockPages
<1>7. Inside(r, <<start, top>>)
  <2> DEFINE m == 2^top
  <2>1. m \in Nat /\ m >= 1
    BY <1>3
  <2>2. start + (m - 1) \in Nat /\ In(start + (m - 1), start, top)
    <3>1. start + (m - 1) \in Nat /\ start <= start + (m - 1) /\ start + (m - 1) < start + m
      <4> HIDE DEF m
      <4> QED BY <1>3, <2>1
    <3> QED BY <3>1 DEF In
  <2>3. start \in Usable(r) /\ start + (m - 1) \in Usable(r)
    BY <1>3, <1>5, <1>6, <2>2
  <2>4. MetadataPages[r] <= start /\ start + m <= TotalPages[r]
    <3> HIDE DEF m
    <3> QED BY <1>0, <1>3, <2>1, <2>3, Regions DEF Usable
  <2> QED BY <1>0, <1>3, <2>4 DEF Inside
<1> QED BY <1>0, <1>1, <1>2, <1>3, <1>4, <1>5, <1>7, Regions DEF start

(* No other block has a page in the block free makes, and no other byte    *)
(* than those of two of its pages changes.                                 *)
LEMMA MergeMarks ==
    ASSUME IInv, NEW r, NEW page, NEW order, NEW top, Merges(r, page, order, top)
    PROVE  /\ \A b \in Blocks(r) \ Merged(page, order, top) :
                 \A p \in Usable(r) : Covers(b, p) => ~In(p, BlockStart(page, top), top)
           /\ pageOrder'[r] \in [Pages(r) -> 0 .. NoEntry]
           /\ pageOrder'[r][BlockStart(page, top)] = top
           /\ pageOrder'[r][page] \in Order
           /\ \A p \in Pages(r) : \/ p = page \/ p = BlockStart(page, top)
                                  \/ pageOrder'[r][p] = pageOrder[r][p]
           /\ \A p \in Pages(r) : ~In(p, BlockStart(page, top), top) => pageOrder'[r][p] = pageOrder[r][p]
<1> DEFINE start == BlockStart(page, top)
           old == Merged(page, order, top)
<1>0. /\ r \in Region /\ order \in Order /\ top \in Order /\ page \in Pages(r)
  BY MergeFacts
<1>1. /\ old \in SUBSET Blocks(r) /\ Inside(r, <<start, top>>)
      /\ \A p \in Usable(r) : In(p, start, top) <=> \E b \in old : Covers(b, p)
      /\ In(page, start, top) /\ In(start, start, top)
  BY MergedBlocks
<1>2. start \in Pages(r)
  BY <1>0, <1>1, BlockPages, Regions
<1>3. pageOrder' = [pageOrder EXCEPT ![r] = [[@ EXCEPT ![page] = order] EXCEPT ![start] = top]]
  BY DEF Merges
<1> HIDE DEF start, old
<1>4. ASSUME NEW b \in Blocks(r) \ old, NEW p \in Usable(r), Covers(b, p), In(p, start, top) PROVE FALSE
  <2>1. PICK d \in old : Covers(d, p)
    BY <1>1, <1>4
  <2>2. b = d
    BY <1>0, <1>1, <1>4, <2>1, BlocksApart
  <2> QED BY <1>4, <2>1, <2>2
<1>5. pageOrder[r] \in [Pages(r) -> 0 .. NoEntry] /\ DOMAIN pageOrder = Region
  BY <1>0 DEF IInv, TypeOK
<1>6. pageOrder'[r] = [[pageOrder[r] EXCEPT ![page] = order] EXCEPT ![start] = top]
  BY <1>0, <1>3, <1>5
<1>7. order \in 0 .. NoEntry /\ top \in 0 .. NoEntry
  BY <1>0, Orders DEF Order, AllocBit, NoEntry
<1>8. /\ pageOrder'[r] \in [Pages(r) -> 0 .. NoEntry]
      /\ pageOrder'[r][start] = top /\ pageOrder'[r][page] \in Order
      /\ \A p \in Pages(r) : p = page \/ p = start \/ pageOrder'[r][p] = pageOrder[r][p]
  BY <1>0, <1>2, <1>5, <1>6, <1>7
<1>9. \A p \in Pages(r) : ~In(p, start, top) => pageOrder'[r][p] = pageOrder[r][p]
  BY <1>1, <1>8
<1> QED BY <1>4, <1>8, <1>9 DEF start, old

LEMMA MergeHeads ==
    ASSUME IInv, NEW r, NEW page, NEW order, NEW top, Merges(r, page, order, top)
    PROVE  /\ freeLists' \in [Region -> [Order -> SUBSET Nat]]
           /\ freeLists'[r][top] = freeLists[r][top] \cup {BlockStart(page, top)}
           /\ \A o \in order .. top - 1 : freeLists'[r][o] = freeLists[r][o] \ {Sibling(page, o)}
           /\ \A o \in Order : o # top /\ o \notin order .. top - 1 => freeLists'[r][o] = freeLists[r][o]
<1> DEFINE start == BlockStart(page, top)
           X == [o \in Order |-> IF o = top THEN freeLists[r][o] \cup {start}
                                 ELSE IF o \in order .. (top - 1) THEN freeLists[r][o] \ {Sibling(page, o)}
                                 ELSE freeLists[r][o]]
<1>0. /\ r \in Region /\ top \in Order /\ start \in Nat
      /\ \A o \in order .. top - 1 : o \in Order /\ o # top
  BY MergeFacts, MergedBlocks
<1>1. freeLists' = [freeLists EXCEPT ![r] = X]
  BY DEF Merges
<1>2. freeLists \in [Region -> [Order -> SUBSET Nat]]
  BY DEF IInv, TypeOK
<1> HIDE DEF start
<1>3. X \in [Order -> SUBSET Nat]
  BY <1>0, <1>2
<1>4. \A o \in Order : X[o] = IF o = top THEN freeLists[r][o] \cup {start}
                              ELSE IF o \in order .. (top - 1) THEN freeLists[r][o] \ {Sibling(page, o)}
                              ELSE freeLists[r][o]
  OBVIOUS
<1> HIDE DEF X
<1>5. freeLists' \in [Region -> [Order -> SUBSET Nat]] /\ freeLists'[r] = X
  BY <1>0, <1>1, <1>2, <1>3
<1> QED BY <1>0, <1>4, <1>5 DEF start

LEMMA MergeBlocks ==
    ASSUME IInv, NEW r, NEW page, NEW order, NEW top, Merges(r, page, order, top)
    PROVE  /\ AllocBlocks(r)' = AllocBlocks(r) \ {<<page, order>>}
           /\ \A b : b \in FreeBlocks(r)' <=>
                 \/ b \in FreeBlocks(r) /\ b \notin Merged(page, order, top)
                 \/ b = <<BlockStart(page, top), top>>
<1> DEFINE start == BlockStart(page, top)
           old == Merged(page, order, top)
<1>0. /\ r \in Region /\ order \in Order /\ top \in Order /\ page \in Pages(r)
      /\ <<page, order>> \in AllocBlocks(r)
      /\ \A o \in order .. top - 1 : o \in Order /\ o # top
  BY MergeFacts
<1>1. /\ \A o \in order .. top - 1 : <<Sibling(page, o), o>> \in FreeBlocks(r)
      /\ Inside(r, <<start, top>>) /\ start \in Nat
      /\ In(page, start, top) /\ In(start, start, top)
  BY MergedBlocks
<1>2. /\ \A b \in Blocks(r) \ old : \A p \in Usable(r) : Covers(b, p) => ~In(p, start, top)
      /\ pageOrder'[r][start] = top /\ pageOrder'[r][page] \in Order
      /\ \A p \in Pages(r) : p = page \/ p = start \/ pageOrder'[r][p] = pageOrder[r][p]
      /\ \A p \in Pages(r) : ~In(p, start, top) => pageOrder'[r][p] = pageOrder[r][p]
  BY MergeMarks
<1>3. /\ freeLists'[r][top] = freeLists[r][top] \cup {start}
      /\ \A o \in order .. top - 1 : freeLists'[r][o] = freeLists[r][o] \ {Sibling(page, o)}
      /\ \A o \in Order : o # top /\ o \notin order .. top - 1 => freeLists'[r][o] = freeLists[r][o]
  BY MergeHeads
<1>4. \A b : b \in old <=> b = <<page, order>> \/ \E o \in order .. top - 1 : b = <<Sibling(page, o), o>>
  BY DEF Merged
<1> HIDE DEF start, old
<1>5. \A b \in AllocBlocks(r) : b \in old => b = <<page, order>>
  BY <1>0, <1>1, <1>4, BlocksApart
<1>6. \A o \in Order : o \notin AllocBit .. NoEntry - 1
  BY Orders DEF Order, AllocBit, NoEntry
<1>7. \A b : b \in AllocBlocks(r)' <=>
          \E p \in Pages(r) : /\ pageOrder'[r][p] \in AllocBit .. NoEntry - 1
                              /\ b = <<p, pageOrder'[r][p] - AllocBit>>
  BY DEF AllocBlocks
<1>8. ASSUME NEW b \in AllocBlocks(r)' PROVE b \in AllocBlocks(r) /\ b # <<page, order>>
  <2>1. PICK p \in Pages(r) : /\ pageOrder'[r][p] \in AllocBit .. NoEntry - 1
                              /\ b = <<p, pageOrder'[r][p] - AllocBit>>
    BY <1>7
  <2>2. p # page /\ p # start
    BY <1>0, <1>2, <1>6, <2>1
  <2>3. pageOrder'[r][p] = pageOrder[r][p]
    BY <1>2, <2>2
  <2> QED BY <2>1, <2>2, <2>3, AllocBlock
<1>9. ASSUME NEW b \in AllocBlocks(r), b # <<page, order>> PROVE b \in AllocBlocks(r)'
  <2>1. PICK p \in Pages(r) : /\ pageOrder[r][p] \in AllocBit .. NoEntry - 1
                              /\ b = <<p, pageOrder[r][p] - AllocBit>>
    BY AllocBlock
  <2>2. b \in Blocks(r) \ old
    BY <1>5, <1>9 DEF Blocks
  <2>3. Covers(b, p) /\ p \in Usable(r)
    BY <1>0, <2>1, BlocksApart, BlockPages
  <2>4. pageOrder'[r][p] = pageOrder[r][p]
    BY <1>2, <2>2, <2>3
  <2> QED BY <1>7, <2>1, <2>4
<1>10. \A b : b \in FreeBlocks(r)' <=> \E o \in Order : \E p \in freeLists'[r][o] : b = <<p, o>>
  BY DEF FreeBlocks
<1>11. ASSUME NEW b, b \in FreeBlocks(r)'
       PROVE  (b \in FreeBlocks(r) /\ b \notin old) \/ b = <<start, top>>
  <2>1. PICK o \in Order : \E p \in freeLists'[r][o] : b = <<p, o>>
    BY <1>10, <1>11
  <2>2. PICK p \in freeLists'[r][o] : b = <<p, o>>
    BY <2>1
  <2> SUFFICES ASSUME b # <<start, top>> PROVE b \in FreeBlocks(r) /\ b \notin old
    OBVIOUS
  <2>3. p \in freeLists[r][o]
    BY <1>3, <2>2
  <2>4. b \in FreeBlocks(r)
    BY <2>2, <2>3, FreeBlock
  <2>5. b # <<page, order>>
    BY <1>0, <2>4, BlocksApart
  <2>6. ASSUME NEW k \in order .. top - 1, b = <<Sibling(page, k), k>> PROVE FALSE
    <3>1. o = k /\ p = Sibling(page, k)
      BY <2>2, <2>6
    <3> QED BY <1>3, <2>2, <3>1
  <2> QED BY <1>4, <2>4, <2>5, <2>6
<1>12. <<start, top>> \in FreeBlocks(r)'
  <2>1. start \in freeLists'[r][top]
    BY <1>3
  <2> QED BY <1>0, <1>10, <2>1
<1>13. ASSUME NEW b \in FreeBlocks(r), b \notin old PROVE b \in FreeBlocks(r)'
  <2>1. PICK o \in Order : \E p \in freeLists[r][o] : b = <<p, o>>
    BY FreeBlock
  <2>2. PICK p \in freeLists[r][o] : b = <<p, o>>
    BY <2>1
  <2>3. o \in order .. top - 1 => p # Sibling(page, o)
    BY <1>4, <1>13, <2>2
  <2>4. p \in freeLists'[r][o]
    BY <1>3, <2>2, <2>3
  <2> QED BY <1>10, <2>2, <2>4
<1>14. AllocBlocks(r)' = AllocBlocks(r) \ {<<page, order>>}
  BY <1>8, <1>9
<1> QED BY <1>11, <1>12, <1>13, <1>14 DEF start, old

LEMMA MergeIInv ==
    ASSUME IInv, NEW r, NEW page, NEW order, NEW top, Merges(r, page, order, top)
    PROVE  IInv'
<1> DEFINE start == BlockStart(page, top)
           old == Merged(page, order, top)
           new == {<<start, top>>}
           all == Blocks(r)
<1>0. /\ r \in Region /\ order \in Order /\ top \in Order /\ page \in Pages(r)
      /\ <<page, order>> \in AllocBlocks(r)
      /\ \A o \in order .. top - 1 : o \in Order /\ o # top
  BY MergeFacts
<1>1. \A q \in Region \ {r} : freeLists'[q] = freeLists[q] /\ pageOrder'[q] = pageOrder[q]
  BY DEF Merges, IInv, TypeOK
<1>2. /\ old \in SUBSET all /\ Inside(r, <<start, top>>) /\ start \in Nat
      /\ \A p \in Usable(r) : In(p, start, top) <=> \E b \in old : Covers(b, p)
      /\ \A o \in order .. top - 1 : <<Sibling(page, o), o>> \in FreeBlocks(r)
      /\ In(page, start, top) /\ In(start, start, top)
  BY MergedBlocks
<1>3. /\ \A b \in all \ old : \A p \in Usable(r) : Covers(b, p) => ~In(p, start, top)
      /\ pageOrder'[r] \in [Pages(r) -> 0 .. NoEntry]
      /\ pageOrder'[r][start] = top
      /\ \A p \in Pages(r) : ~In(p, start, top) => pageOrder'[r][p] = pageOrder[r][p]
  BY MergeMarks
<1>4. /\ AllocBlocks(r)' = AllocBlocks(r) \ {<<page, order>>}
      /\ \A b : b \in FreeBlocks(r)' <=> (b \in FreeBlocks(r) /\ b \notin old) \/ b = <<start, top>>
  BY MergeBlocks
<1>5. \A b : b \in old <=> b = <<page, order>> \/ \E o \in order .. top - 1 : b = <<Sibling(page, o), o>>
  BY DEF Merged
<1>6. TypeOK'
  <2>1. DOMAIN pageOrder' = Region
    BY DEF Merges, IInv, TypeOK
  <2>2. \A q \in Region : pageOrder'[q] \in [Pages(q) -> 0 .. NoEntry]
    BY <1>1, <1>3 DEF IInv, TypeOK
  <2> QED BY <2>1, <2>2, MergeHeads DEF TypeOK
<1> HIDE DEF start, old
<1>7. Tiling(r, Blocks(r)')
  <2>1. Blocks(r)' = (all \ old) \cup new
    <3>1. \A b \in AllocBlocks(r) : b \in old <=> b = <<page, order>>
      BY <1>0, <1>2, <1>5, BlocksApart
    <3>2. \A b : b \in Blocks(r)' <=> b \in FreeBlocks(r)' \/ b \in AllocBlocks(r)'
      BY DEF Blocks
    <3> QED BY <1>4, <3>1, <3>2 DEF Blocks
  <2>2. Tiling(r, all)
    BY <1>0 DEF IInv
  <2>3. \A b \in new : Inside(r, b)
    BY <1>2
  <2>4. \A b, d \in new : \A p \in Usable(r) : Covers(b, p) /\ Covers(d, p) => b = d
    OBVIOUS
  <2>5. \A p \in Usable(r) : (\E b \in old : Covers(b, p)) <=> (\E b \in new : Covers(b, p))
    <3>1. \A p : Covers(<<start, top>>, p) <=> In(p, start, top)
      BY DEF Covers, In
    <3> QED BY <1>2, <3>1
  <2> HIDE DEF new, all
  <2>6. old \in SUBSET all
    BY <1>2
  <2>7. Tiling(r, (all \ old) \cup new)
    BY <1>0, <2>2, <2>3, <2>4, <2>5, <2>6, Recut
  <2> QED BY <2>1, <2>7
<1>8. Marked(r)'
  <2>1. ASSUME NEW o \in Order, NEW p \in freeLists'[r][o] PROVE pageOrder'[r][p] = o
    <3>1. <<p, o>> \in FreeBlocks(r)'
      BY <2>1 DEF FreeBlocks
    <3>2. CASE <<p, o>> = <<start, top>>
      BY <1>3, <3>2
    <3>3. CASE <<p, o>> \in FreeBlocks(r) /\ <<p, o>> \notin old
      <4>1. /\ Inside(r, <<p, o>>) /\ Covers(<<p, o>>, p) /\ p \in Usable(r) /\ p \in Pages(r)
            /\ pageOrder[r][p] = o
        BY <1>0, <3>3, BlocksApart, BlockPages, Regions
      <4>2. ~In(p, start, top)
        BY <1>3, <3>3, <4>1 DEF Blocks
      <4> QED BY <1>3, <4>1, <4>2
    <3> QED BY <1>4, <3>1, <3>2, <3>3
  <2>2. ASSUME NEW p \in 0 .. MetadataPages[r] - 1 PROVE pageOrder'[r][p] = NoEntry
    <3>1. p \in Pages(r)
      BY <1>0, Regions DEF Pages
    <3>2. ~In(p, start, top)
      BY <1>0, <1>2, Regions DEF In, Inside
    <3>3. pageOrder[r][p] = NoEntry
      BY <1>0 DEF IInv, Marked
    <3> QED BY <1>3, <3>1, <3>2, <3>3
  <2> QED BY <2>1, <2>2 DEF Marked
<1>9. ASSUME NEW q \in Region, q # r PROVE Tiling(q, Blocks(q)') /\ Marked(q)'
  <2>1. freeLists'[q] = freeLists[q] /\ pageOrder'[q] = pageOrder[q]
    BY <1>1, <1>9
  <2>2. Tiling(q, Blocks(q)) /\ Marked(q)
    BY DEF IInv
  <2> QED BY <2>1, <2>2, Untouched
<1>10. \A q \in Region : Tiling(q, Blocks(q)') /\ Marked(q)'
  BY <1>7, <1>8, <1>9
<1>11. \A q \in Region : Tiling(q, Blocks(q))' <=> Tiling(q, Blocks(q)')
  BY DEF Tiling, Inside, Covers, Usable
<1> QED BY <1>6, <1>10, <1>11 DEF IInv

(* The merge went on until the buddy was not free.                         *)
LEMMA MergeCoalesced ==
    ASSUME IInv, FullyCoalesced, NEW r, NEW page, NEW order, NEW top, Merges(r, page, order, top)
    PROVE  FullyCoalesced'
<1> DEFINE start == BlockStart(page, top)
<1>0. /\ r \in Region /\ top \in Order /\ top \in Nat /\ top \in AnyOrder /\ page \in Nat
      /\ start \in Nat /\ start % 2^top = 0
  BY MergeFacts, MergedBlocks, Start
<1>1. \A q \in Region \ {r} : freeLists'[q] = freeLists[q]
  BY DEF Merges, IInv, TypeOK
<1>2. /\ freeLists'[r][top] = freeLists[r][top] \cup {start}
      /\ \A o \in order .. top - 1 : freeLists'[r][o] = freeLists[r][o] \ {Sibling(page, o)}
      /\ \A o \in Order : o # top /\ o \notin order .. top - 1 => freeLists'[r][o] = freeLists[r][o]
  BY MergeHeads
<1> HIDE DEF start
<1>3. ASSUME top < MaxOrder PROVE Buddy(start, top) \notin freeLists[r][top]
  <2> SUFFICES ASSUME Buddy(start, top) \in freeLists[r][top] PROVE FALSE
    OBVIOUS
  <2>1. <<Buddy(start, top), top>> \in FreeBlocks(r)
    BY <1>0, FreeBlock
  <2>2. Inside(r, <<Buddy(start, top), top>>) /\ pageOrder[r][Buddy(start, top)] = top
    BY <1>0, <2>1, BlocksApart
  <2>3. Buddy(start, top) < TotalPages[r]
    <3>1. Buddy(start, top) \in Usable(r)
      BY <1>0, <2>2, BlockPages
    <3> QED BY <1>0, <3>1, Regions DEF Usable
  <2>4. Mergeable(r, page, top)
    BY <1>3, <2>2, <2>3 DEF Mergeable, start
  <2> QED BY <2>4 DEF Merges
<1> SUFFICES ASSUME NEW q \in Region, NEW o \in 0 .. MaxOrder - 1, NEW p \in freeLists'[q][o],
                    p % 2^(o + 1) = 0, p + 2^o \in freeLists'[q][o]
             PROVE  FALSE
  BY DEF FullyCoalesced
<1>4. ~(p \in freeLists[q][o] /\ p + 2^o \in freeLists[q][o])
  BY DEF FullyCoalesced
<1>5. o \in Order /\ o < MaxOrder
  BY Orders DEF Order
<1>6. CASE q # r
  BY <1>1, <1>4, <1>6
<1>7. CASE q = r /\ o # top
  <2>1. freeLists'[r][o] \subseteq freeLists[r][o]
    BY <1>2, <1>5, <1>7
  <2> QED BY <1>4, <1>7, <2>1
<1>8. CASE q = r /\ o = top
  <2>1. Buddy(p, top) = p + 2^top
    BY <1>8 DEF Buddy
  <2>2. \/ p \in freeLists[r][top] /\ p + 2^top = start
        \/ p = start /\ (p + 2^top \in freeLists[r][top] \/ p + 2^top = start)
    BY <1>2, <1>4, <1>8
  <2>3. Buddy(start, top) # start
    BY <1>0, Halves
  <2>4. CASE p = start
    <3>1. p + 2^top = Buddy(start, top)
      BY <2>1, <2>4
    <3> QED BY <1>3, <1>5, <1>8, <2>2, <2>3, <2>4, <3>1
  <2>5. CASE p # start
    <3>1. p \in freeLists[r][top] /\ Buddy(p, top) = start
      BY <2>1, <2>2, <2>5
    <3>2. <<p, top>> \in FreeBlocks(r)
      BY <1>0, <3>1, FreeBlock
    <3>3. Inside(r, <<p, top>>)
      BY <1>0, <3>2, BlocksApart
    <3>4. p \in Nat /\ p % 2^top = 0
      BY <3>3 DEF Inside
    <3>5. Buddy(start, top) = p
      BY <1>0, <3>1, <3>4, Halves
    <3> QED BY <1>3, <1>5, <1>8, <3>1, <3>5
  <2> QED BY <2>4, <2>5
<1> QED BY <1>6, <1>7, <1>8

-----------------------------------------------------------------------------
(* The invariants are inductive.                                           *)
LEMMA NextIInv ==
    ASSUME IInv, [Next]_vars
    PROVE  IInv' /\ (FullyCoalesced => FullyCoalesced')
<1>1. ASSUME NEW size \in Sizes, malloc(size) PROVE IInv' /\ (FullyCoalesced => FullyCoalesced')
  <2>1. PICK r \in Region : \E order, c, page : Splits(r, order, c, page)
    BY <1>1, MallocSplits
  <2>2. PICK order, c, page : Splits(r, order, c, page)
    BY <2>1
  <2> QED BY <2>2, SplitIInv, SplitCoalesced
<1>2. ASSUME NEW r \in Region, NEW page \in Pages(r), free(r, page)
      PROVE  IInv' /\ (FullyCoalesced => FullyCoalesced')
  <2>1. PICK order, top : Merges(r, page, order, top)
    BY <1>2, FreeMerges
  <2> QED BY <2>1, MergeIInv, MergeCoalesced
<1>3. CASE UNCHANGED vars
  <2>1. freeLists' = freeLists /\ pageOrder' = pageOrder
    BY <1>3 DEF vars
  <2>2. \A r \in Region : Tiling(r, Blocks(r)') /\ Marked(r)'
    BY <2>1, Untouched DEF IInv
  <2>3. \A r \in Region : Tiling(r, Blocks(r))' <=> Tiling(r, Blocks(r)')
    BY DEF Tiling, Inside, Covers, Usable
  <2>4. TypeOK'
    BY <2>1 DEF IInv, TypeOK
  <2> QED BY <2>1, <2>2, <2>3, <2>4 DEF IInv, FullyCoalesced
<1> QED BY <1>1, <1>2, <1>3 DEF Next

LEMMA Invariance == Spec => []IInv
<1>1. Init => IInv
  BY InitIInv
<1>2. IInv /\ [Next]_vars => IInv'
  BY NextIInv
<1> QED BY <1>1, <1>2, PTL DEF Spec

(* However blocks are split, merged and left with stale bytes, every       *)
(* usable page of a region is in exactly one block, free or handed out,    *)
(* and the metadata pages are in none (BuddyAllocator::malloc and free).   *)
THEOREM PagesArePartitioned == Spec => []Partition
<1>1. IInv => Partition
  BY TilingIsPartition
<1> QED BY <1>1, Invariance, PTL

(* Two buddies are never both free: free merges for as long as it can, and *)
(* malloc splits only when no smaller block would do.                      *)
THEOREM BuddiesAreMerged == Spec => []FullyCoalesced
<1>1. Init => FullyCoalesced
  BY InitCoalesced
<1>2. IInv /\ FullyCoalesced /\ [Next]_vars => FullyCoalesced'
  BY NextIInv
<1> QED BY <1>1, <1>2, Invariance, PTL DEF Spec

-----------------------------------------------------------------------------
(* Refinement.                                                             *)
LEMMA OwnedRun ==
    \A c : c \in Owned <=> \E r \in Region : \E b \in AllocBlocks(r) : c = <<r, b[1], 2^b[2]>>
  BY DEF Owned

LEMMA OwnedRunNext ==
    \A c : c \in Owned' <=> \E r \in Region : \E b \in AllocBlocks(r)' : c = <<r, b[1], 2^b[2]>>
  BY DEF Owned

LEMMA RunInRegion ==
    ASSUME NEW r \in Region, NEW b, Inside(r, b)
    PROVE  b[1] \in 0 .. TotalPages[r] /\ 2^b[2] \in 1 .. (TotalPages[r] - b[1])
<1>1. b[1] \in Nat /\ b[2] \in AnyOrder /\ b[1] + 2^b[2] <= TotalPages[r]
  BY BlockPages, Orders DEF Inside
<1>2. 2^b[2] \in Nat /\ 2^b[2] >= 1 /\ TotalPages[r] \in Nat
  BY <1>1, Orders, Regions
<1> QED BY <1>1, <1>2

(* What malloc hands out overlaps nothing handed out before.               *)
LEMMA SplitAllocates ==
    ASSUME IInv, NEW r, NEW order, NEW c, NEW page, Splits(r, order, c, page)
    PROVE  PageAlloc!Next
<1> DEFINE run == <<r, page, 2^order>>
<1>0. /\ r \in Region /\ order \in Order /\ c \in Order /\ page \in Nat
      /\ c \in AnyOrder /\ order \in AnyOrder /\ order \in 0 .. c
      /\ <<page, c>> \in FreeBlocks(r) /\ Inside(r, <<page, c>>)
  BY SplitFacts, Orders
<1>1. /\ AllocBlocks(r)' = AllocBlocks(r) \cup {<<page, order>>}
      /\ \A q \in Region \ {r} : AllocBlocks(q)' = AllocBlocks(q)
  <2>1. \A q \in Region \ {r} : pageOrder'[q] = pageOrder[q]
    BY DEF Splits, IInv, TypeOK
  <2>2. \A q \in Region \ {r} : AllocBlocks(q)' = AllocBlocks(q)
    BY <2>1 DEF AllocBlocks
  <2> QED BY <2>2, SplitBlocks
<1>2. Owned' = Owned \cup {run}
  <2>1. ASSUME NEW x \in Owned' PROVE x \in Owned \cup {run}
    <3>1. PICK q \in Region : \E b \in AllocBlocks(q)' : x = <<q, b[1], 2^b[2]>>
      BY OwnedRunNext
    <3>2. PICK b \in AllocBlocks(q)' : x = <<q, b[1], 2^b[2]>>
      BY <3>1
    <3>3. CASE q # r
      <4>1. b \in AllocBlocks(q)
        BY <1>1, <3>3
      <4> QED BY <3>2, <4>1, OwnedRun
    <3>4. CASE q = r /\ b \in AllocBlocks(r)
      BY <3>2, <3>4, OwnedRun
    <3>5. CASE q = r /\ b \notin AllocBlocks(r)
      <4>1. b \in AllocBlocks(r)'
        BY <3>5
      <4>2. b = <<page, order>>
        BY <1>1, <3>5, <4>1
      <4> QED BY <3>2, <3>5, <4>2
    <3> QED BY <3>3, <3>4, <3>5
  <2>2. ASSUME NEW x \in Owned \cup {run} PROVE x \in Owned'
    <3>1. CASE x \in Owned
      <4>1. PICK q \in Region : \E b \in AllocBlocks(q) : x = <<q, b[1], 2^b[2]>>
        BY <3>1, OwnedRun
      <4>2. PICK b \in AllocBlocks(q) : x = <<q, b[1], 2^b[2]>>
        BY <4>1
      <4>3. b \in AllocBlocks(q)'
        BY <1>1
      <4> QED BY <4>2, <4>3, OwnedRunNext
    <3>2. CASE x = run
      <4>1. <<page, order>> \in AllocBlocks(r)' /\ x = <<r, <<page, order>>[1], 2^<<page, order>>[2]>>
        BY <1>1, <3>2
      <4> QED BY <1>0, <4>1, OwnedRunNext
    <3> QED BY <3>1, <3>2
  <2> QED BY <2>1, <2>2
<1>3. ASSUME NEW x \in Owned PROVE PageAlloc!Apart(run, x)
  <2>1. PICK q \in Region : \E b \in AllocBlocks(q) : x = <<q, b[1], 2^b[2]>>
    BY OwnedRun
  <2>2. PICK b \in AllocBlocks(q) : x = <<q, b[1], 2^b[2]>>
    BY <2>1
  <2>3. CASE q # r
    BY <2>2, <2>3 DEF PageAlloc!Apart
  <2>4. CASE q = r
    <3>1. Inside(r, b) /\ b # <<page, c>>
      BY <1>0, <2>2, <2>4, BlocksApart
    <3>2. b[1] \in Nat /\ b[2] \in AnyOrder /\ 2^b[2] \in Nat /\ 2^order \in Nat /\ 2^c \in Nat
      BY <1>0, <3>1, BlockPages, Orders
    <3>3. 2^order <= 2^c
      BY <1>0, Finer
    <3>4. page + 2^order <= b[1] \/ b[1] + 2^b[2] <= page
      <4> SUFFICES ASSUME b[1] < page + 2^order, page < b[1] + 2^b[2] PROVE FALSE
        BY <1>0, <3>2
      <4> DEFINE p == IF page <= b[1] THEN b[1] ELSE page
      <4>1. /\ p \in Nat /\ b[1] <= p /\ p < b[1] + 2^b[2] /\ page <= p /\ p < page + 2^c
        <5>1. 2^b[2] >= 1 /\ 2^c >= 1
          BY <1>0, <3>2, Orders
        <5> QED BY <1>0, <3>2, <3>3, <5>1
      <4> HIDE DEF p
      <4>2. Covers(b, p) /\ Covers(<<page, c>>, p)
        BY <4>1 DEF Covers
      <4>3. p \in Usable(r)
        BY <1>0, <3>1, <4>1, <4>2, BlockPages
      <4> QED BY <1>0, <2>2, <2>4, <3>1, <4>2, <4>3, BlocksApart DEF Blocks
    <3> QED BY <2>2, <3>4 DEF PageAlloc!Apart
  <2> QED BY <2>3, <2>4
<1>4. PageAlloc!Alloc(run)
  BY <1>2, <1>3 DEF PageAlloc!Alloc
<1>5. page \in 0 .. TotalPages[r] /\ 2^order \in 1 .. (TotalPages[r] - page)
  <2>1. <<page, order>> \in Pieces(order, c, page)
    BY DEF Pieces
  <2>2. Inside(r, <<page, order>>)
    BY <2>1, PiecesInside
  <2> QED BY <1>0, <2>2, RunInRegion
<1> QED BY <1>0, <1>4, <1>5 DEF PageAlloc!Next

(* What free takes back is one run, and all of it.                         *)
LEMMA MergeReturns ==
    ASSUME IInv, NEW r, NEW page, NEW order, NEW top, Merges(r, page, order, top)
    PROVE  PageAlloc!Next
<1> DEFINE run == <<r, page, 2^order>>
           blk == <<page, order>>
<1>0. r \in Region /\ blk \in AllocBlocks(r) /\ Inside(r, blk) /\ page \in Usable(r)
  BY MergeFacts
<1>1. /\ AllocBlocks(r)' = AllocBlocks(r) \ {blk}
      /\ \A q \in Region \ {r} : AllocBlocks(q)' = AllocBlocks(q)
  <2>1. \A q \in Region \ {r} : pageOrder'[q] = pageOrder[q]
    BY DEF Merges, IInv, TypeOK
  <2>2. \A q \in Region \ {r} : AllocBlocks(q)' = AllocBlocks(q)
    BY <2>1 DEF AllocBlocks
  <2> QED BY <2>2, MergeBlocks
<1>2. run \in Owned
  BY <1>0, OwnedRun
<1>3. Owned' = Owned \ {run}
  <2>1. ASSUME NEW x \in Owned' PROVE x \in Owned /\ x # run
    <3>1. PICK q \in Region : \E b \in AllocBlocks(q)' : x = <<q, b[1], 2^b[2]>>
      BY OwnedRunNext
    <3>2. PICK b \in AllocBlocks(q)' : x = <<q, b[1], 2^b[2]>>
      BY <3>1
    <3>3. b \in AllocBlocks(q) /\ (q = r => b # blk)
      BY <1>1
    <3>4. x \in Owned
      BY <3>2, <3>3, OwnedRun
    <3>5. ASSUME x = run PROVE FALSE
      <4>1. q = r /\ b[1] = page /\ b # blk
        BY <3>2, <3>3, <3>5
      <4>2. Inside(r, b) /\ Covers(b, page) /\ Covers(blk, page)
        BY <1>0, <3>3, <4>1, BlocksApart, BlockPages
      <4> QED BY <1>0, <3>3, <4>1, <4>2, BlocksApart DEF Blocks
    <3> QED BY <3>4, <3>5
  <2>2. ASSUME NEW x \in Owned, x # run PROVE x \in Owned'
    <3>1. PICK q \in Region : \E b \in AllocBlocks(q) : x = <<q, b[1], 2^b[2]>>
      BY OwnedRun
    <3>2. PICK b \in AllocBlocks(q) : x = <<q, b[1], 2^b[2]>>
      BY <3>1
    <3>3. q = r => b # blk
      BY <2>2, <3>2
    <3>4. b \in AllocBlocks(q)'
      BY <1>1, <3>3
    <3> QED BY <3>2, <3>4, OwnedRunNext
  <2> QED BY <2>1, <2>2
<1>4. PageAlloc!Free(run)
  BY <1>2, <1>3 DEF PageAlloc!Free
<1>5. page \in 0 .. TotalPages[r] /\ 2^order \in 1 .. (TotalPages[r] - page)
  BY <1>0, RunInRegion
<1> QED BY <1>0, <1>4, <1>5 DEF PageAlloc!Next

(* BuddyAllocator implements PageAllocator: what malloc hands out overlaps *)
(* nothing handed out before, and free gives back exactly the run that     *)
(* starts at its pointer, or nothing.                                      *)
THEOREM ImplementsPageAllocator == Spec => PageAllocSpec
<1>1. Init => PageAlloc!Init
  <2> SUFFICES ASSUME Init, NEW c \in Owned PROVE FALSE
    BY DEF PageAlloc!Init
  <2>1. PICK r \in Region : \E b \in AllocBlocks(r) : c = <<r, b[1], 2^b[2]>>
    BY OwnedRun
  <2>2. PICK b \in AllocBlocks(r) : TRUE
    BY <2>1
  <2>3. PICK p \in Pages(r) : pageOrder[r][p] \in AllocBit .. NoEntry - 1
    BY <2>2, AllocBlock
  <2>4. pageOrder[r][p] = NoEntry \/ pageOrder[r][p] \in Order
    BY GreedyHead DEF Init
  <2> QED BY <2>3, <2>4, Orders DEF Order, AllocBit, NoEntry
<1>2. IInv /\ [Next]_vars => [PageAlloc!Next]_Owned
  <2> SUFFICES ASSUME IInv, [Next]_vars PROVE [PageAlloc!Next]_Owned
    OBVIOUS
  <2>1. ASSUME NEW size \in Sizes, malloc(size) PROVE PageAlloc!Next
    <3>1. PICK r \in Region : \E order, c, page : Splits(r, order, c, page)
      BY <2>1, MallocSplits
    <3>2. PICK order, c, page : Splits(r, order, c, page)
      BY <3>1
    <3> QED BY <3>2, SplitAllocates
  <2>2. ASSUME NEW r \in Region, NEW page \in Pages(r), free(r, page) PROVE PageAlloc!Next
    <3>1. PICK order, top : Merges(r, page, order, top)
      BY <2>2, FreeMerges
    <3> QED BY <3>1, MergeReturns
  <2>3. CASE UNCHANGED vars
    BY <2>3 DEF vars, Owned, AllocBlocks
  <2> QED BY <2>1, <2>2, <2>3 DEF Next
<1> QED BY <1>1, <1>2, Invariance, PTL DEF Spec, PageAllocSpec, PageAlloc!Spec
=============================================================================
