---------------------------- MODULE StreamProofs -----------------------------
(***************************************************************************)
(* The stream store, for every number and size of blocks, any number of    *)
(* readers and of faults, with and without overwriting, as long as the     *)
(* sequence numbers have not wrapped: an item that was stored stays        *)
(* readable and queued, every restart finds it, and only the oldest items  *)
(* are overwritten.                                                        *)
(*                                                                         *)
(* The invariant says that the blocks in use hold an interval of numbers,  *)
(* written in order; the queue in memory keeps the invariant of            *)
(* QueueProofs. What the scan of find_circular_range chooses is proved by  *)
(* looking at the least number of blocks for which it would be wrong.      *)
(***************************************************************************)
EXTENDS StreamStore, WellFoundedInduction, TLAPS

QP == INSTANCE QueueProofs WITH Capacity <- FragmentCount, Granularity <- FragmentsPerBlock

-----------------------------------------------------------------------------
(* Where fragments are.                                                     *)

(* The sizes of the buffer. *)
LEMMA Sizes ==
  /\ FragmentsPerBlock \in Nat \ {0} /\ BlockCount \in Nat \ {0}
  /\ FragmentCount \in Nat \ {0} /\ FragmentCount = FragmentsPerBlock * BlockCount
  /\ FragmentsPerBlock <= FragmentCount
  /\ SeqMod \in Nat \ {0} /\ SeqMod > 2 * FragmentCount
<1>1. PICK p \in Nat \ {0}, b \in Nat \ {0}, n \in Int :
        p = FragmentsPerBlock /\ b = BlockCount /\ n = b * p
  BY CircularAssumption
<1>2. n = p * b /\ n >= p
  BY <1>1
<1> QED
  BY <1>1, <1>2, CircularAssumption DEF FragmentCount

(* What the queue assumes of its constants. *)
LEMMA QueueConstants == QP!QueueAssumption
BY Sizes, StreamAssumption DEF QP!QueueAssumption

(* What is proved of numbers in QueueProofs: quotient and remainder exist.  *)
LEMMA Division ==
  ASSUME NEW p \in Nat \ {0}, NEW a \in Int
  PROVE  \E q \in Int, r \in 0 .. p - 1 : q = a \div p /\ r = a % p /\ a = p * q + r
BY QP!Division, QueueConstants DEF QP!QueueAssumption

(* Multiples are apart. *)
LEMMA Apart ==
  ASSUME NEW p \in Nat \ {0}, NEW e \in Int, NEW f \in Int, e > f
  PROVE  p * e - p * f >= p
BY QP!Apart, QueueConstants DEF QP!QueueAssumption

(* Quotient and remainder are the only ones. *)
LEMMA DivisionUnique ==
  ASSUME NEW p \in Nat \ {0}, NEW q \in Int, NEW r \in 0 .. p - 1, NEW a \in Int, a = p * q + r
  PROVE  a % p = r /\ a \div p = q
BY QP!DivisionUnique, QueueConstants DEF QP!QueueAssumption

(* The same for natural numbers. *)
LEMMA DivisionNat ==
  ASSUME NEW p \in Nat \ {0}, NEW s \in Nat
  PROVE  \E q \in Int, r \in 0 .. p - 1 : q = s \div p /\ r = s % p /\ s = p * q + r
<1>1. PICK a \in Int : a = s
  OBVIOUS
<1>2. PICK q \in Int, r \in 0 .. p - 1 : q = a \div p /\ r = a % p /\ a = p * q + r
  BY Division
<1> QED
  BY <1>1, <1>2

(* The cell of a fragment is its number modulo the size of the buffer.      *)
LEMMA CellOf ==
  ASSUME NEW s \in Nat
  PROVE  /\ BlockOf(s) \in Blocks /\ SlotOf(s) \in SlotIds
         /\ s % FragmentCount = FragmentsPerBlock * BlockOf(s) + SlotOf(s)
<1>1. PICK p \in Nat \ {0}, b \in Nat \ {0}, n \in Nat \ {0} :
        p = FragmentsPerBlock /\ b = BlockCount /\ n = FragmentCount /\ n = p * b
  BY Sizes
<1>2. PICK q \in Int, r \in 0 .. n - 1 : r = s % n /\ s = n * q + r
  BY ZenonT(30), DivisionNat
<1>3. PICK e \in Int, f \in 0 .. p - 1 : e = r \div p /\ r = p * e + f
  BY SMTT(30), DivisionNat
<1>4. PICK x \in Int, y \in Int, z \in Int : x = p * e /\ y = b * q /\ z = p * y
  OBVIOUS
<1>5. n * q = z
  BY <1>1, <1>2, <1>4
<1>6. PICK k \in Int : k = y + e
  OBVIOUS
<1>7. p * k = z + x
  BY <1>4, <1>6
<1>7a. PICK g \in Int, h \in Int : g = s /\ h = p * k /\ h = z + x
  BY <1>7
<1>7b. s = z + r
  BY <1>2, <1>5
<1>7c. r = x + f
  BY <1>3, <1>4
<1>7d. g = h + f
  BY <1>7a, <1>7b, <1>7c
<1>7e. g = p * k + f
  BY <1>7a, <1>7d
<1>8. s % p = f
  BY <1>7a, <1>7e, DivisionUnique
<1>9. e >= 0
  <2>1. e < 0 => x <= 0 - p
    BY <1>4
  <2> QED
    BY <1>2, <1>3, <1>4, <2>1
<1>10. e < b
  <2>1. e >= b => p * e >= p * b
    BY <1>1, <1>3
  <2> QED
    BY <1>1, <1>2, <1>3, <1>4, <2>1
<1> QED
  BY <1>1, <1>2, <1>3, <1>8, <1>9, <1>10 DEF BlockOf, SlotOf, Blocks, SlotIds

(* A lap of fragments has different cells. *)
LEMMA CellsApart ==
  ASSUME NEW s \in Nat, NEW t \in Nat, s < t, t < s + FragmentCount,
         BlockOf(s) = BlockOf(t), SlotOf(s) = SlotOf(t)
  PROVE  FALSE
<1>1. PICK n \in Nat \ {0} : n = FragmentCount
  BY Sizes
<1>2. s % n = t % n
  BY <1>1, CellOf
<1>3. PICK q \in Int, r \in 0 .. n - 1 : r = s % n /\ s = n * q + r
  BY ZenonT(30), DivisionNat
<1>4. PICK e \in Int, f \in 0 .. n - 1 : f = t % n /\ t = n * e + f
  BY ZenonT(30), DivisionNat
<1>5. PICK x \in Int, y \in Int : x = n * q /\ y = n * e
  OBVIOUS
<1>6. e > q => y - x >= n
  BY <1>5, Apart
<1>7. e < q => x - y >= n
  BY <1>5, Apart
<1> QED
  BY <1>1, <1>2, <1>3, <1>4, <1>5, <1>6, <1>7

(* The first number of a block. *)
Aligned(a) == a % FragmentsPerBlock = 0

(* The fragments of a block follow its first number. *)
LEMMA InBlock ==
  ASSUME NEW a \in Nat, Aligned(a), NEW i \in SlotIds
  PROVE  BlockOf(a + i) = BlockOf(a) /\ SlotOf(a + i) = i
<1>1. PICK p \in Nat \ {0}, b \in Int, n \in Nat \ {0} :
        p = FragmentsPerBlock /\ b = BlockCount /\ n = FragmentCount /\ n = p * b
  BY Sizes
<1>2. /\ BlockOf(a) \in Blocks /\ SlotOf(a) = 0
      /\ a % FragmentCount = FragmentsPerBlock * BlockOf(a) + SlotOf(a)
  BY CellOf DEF Aligned, SlotOf
<1>3. PICK c \in Int, x \in Int, h \in 0 .. p - 1 :
        c = BlockOf(a) /\ 0 <= c /\ c < b /\ x = p * c /\ a % n = x /\ h = i
  BY <1>1, <1>2 DEF Blocks, SlotIds
<1>4. PICK q \in Int, r \in 0 .. n - 1 : r = a % n /\ a = n * q + r
  BY ZenonT(30), DivisionNat
<1>5. p * b - p * c >= p
  BY <1>3, Apart
<1>6. PICK d \in Int, e \in 0 .. n - 1, f \in Int : d = a + h /\ e = x + h /\ f = e
  BY <1>1, <1>3, <1>4, <1>5
<1>6a. PICK u \in Int : u = n * q
  OBVIOUS
<1>6b. a = u + r
  BY <1>4, <1>6a
<1>6c. r = x
  BY <1>3, <1>4
<1>6d. d = u + f
  BY <1>6, <1>6b, <1>6c
<1>7. d = n * q + f
  BY <1>6a, <1>6d
<1>8. d % n = f
  <2>1. d = n * q + e
    BY <1>6, <1>7
  <2>2. d % n = e
    BY <2>1, DivisionUnique
  <2> QED
    BY <1>6, <2>2
<1>9. f = p * c + h
  BY <1>3, <1>6
<1>10. f \div p = c /\ f % p = h
  BY <1>9, DivisionUnique
<1>11. d % p = h
  <2>1. PICK y \in Nat : y = d
    BY <1>3, <1>6
  <2>2. PICK k \in Int, z \in 0 .. p - 1 : k = BlockOf(y) /\ z = SlotOf(y) /\ y % n = p * k + z
    <3>1. BlockOf(y) \in Blocks /\ SlotOf(y) \in SlotIds
          /\ y % FragmentCount = FragmentsPerBlock * BlockOf(y) + SlotOf(y)
      BY CellOf
    <3> QED
      BY <1>1, <3>1 DEF Blocks, SlotIds
  <2>3. f = p * k + z
    BY <1>8, <2>1, <2>2
  <2>4. f % p = z
    BY <2>3, DivisionUnique
  <2> QED
    BY <1>1, <1>10, <2>1, <2>2, <2>4 DEF SlotOf
<1> QED
  BY <1>1, <1>3, <1>6, <1>8, <1>10, <1>11 DEF BlockOf, SlotOf

(* Every fragment is in the block of an aligned number. *)
LEMMA BaseOf ==
  ASSUME NEW s \in Nat
  PROVE  /\ s - SlotOf(s) \in Nat /\ Aligned(s - SlotOf(s)) /\ SlotOf(s) \in SlotIds /\ SlotOf(s) \in Nat
         /\ SlotOf(s) < FragmentsPerBlock /\ SlotOf(s) <= s
         /\ BlockOf(s - SlotOf(s)) = BlockOf(s)
<1>1. PICK p \in Nat \ {0} : p = FragmentsPerBlock
  BY Sizes
<1>2. PICK q \in Int, r \in 0 .. p - 1 : r = s % p /\ s = p * q + r
  BY ZenonT(30), DivisionNat
<1>3. PICK x \in Int, z \in 0 .. p - 1 : x = p * q /\ z = 0 /\ x = p * q + z
  OBVIOUS
<1>4. x % p = 0
  BY <1>3, DivisionUnique
<1>5. x \in Nat
  <2>1. q < 0 => x <= 0 - p
    BY <1>3
  <2>2. q >= 0 => x >= 0
    BY <1>3
  <2> QED
    BY <1>2, <1>3, <2>1, <2>2
<1>6. x = s - SlotOf(s) /\ Aligned(x) /\ SlotOf(s) = r /\ r \in SlotIds
  BY <1>1, <1>2, <1>3, <1>4, <1>5 DEF Aligned, SlotOf, SlotIds
<1>7. BlockOf(x + r) = BlockOf(x)
  BY <1>5, <1>6, InBlock
<1> QED
  BY <1>1, <1>2, <1>3, <1>5, <1>6, <1>7

(* Aligned numbers are at least a block apart. *)
LEMMA AlignedApart ==
  ASSUME NEW a \in Nat, NEW b \in Nat, Aligned(a), Aligned(b), a < b
  PROVE  a + FragmentsPerBlock <= b
<1>1. PICK p \in Nat \ {0} : p = FragmentsPerBlock
  BY Sizes
<1>2. PICK q \in Int, r \in 0 .. p - 1 : r = a % p /\ a = p * q + r
  BY ZenonT(30), DivisionNat
<1>3. PICK e \in Int, f \in 0 .. p - 1 : f = b % p /\ b = p * e + f
  BY ZenonT(30), DivisionNat
<1>4. r = 0 /\ f = 0
  BY <1>1, <1>2, <1>3 DEF Aligned
<1>5. PICK x \in Int, y \in Int : x = p * q /\ y = p * e
  OBVIOUS
<1>6. e > q => y - x >= p
  BY <1>5, Apart
<1>7. e <= q => y <= x
  BY <1>5
<1>8. a = x /\ b = y
  BY <1>2, <1>3, <1>4, <1>5
<1> QED
  BY <1>1, <1>6, <1>7, <1>8

(* The next block is aligned too. *)
LEMMA NextAligned ==
  ASSUME NEW a \in Nat, Aligned(a)
  PROVE  a + FragmentsPerBlock \in Nat /\ Aligned(a + FragmentsPerBlock)
<1>1. PICK p \in Nat \ {0} : p = FragmentsPerBlock
  BY Sizes
<1>2. PICK q \in Int, r \in 0 .. p - 1 : r = a % p /\ a = p * q + r
  BY ZenonT(30), DivisionNat
<1>3. r = 0
  BY <1>1, <1>2 DEF Aligned
<1>4. PICK d \in Int, k \in Int : d = a + p /\ k = q + 1
  OBVIOUS
<1>4a. p * k = p * q + p
  BY <1>4
<1>4b. d = p * k + r
  BY <1>2, <1>4, <1>4a
<1>5. d % p = 0
  BY <1>3, <1>4b, DivisionUnique
<1> QED
  BY <1>1, <1>4, <1>5 DEF Aligned

(* Of the lap before a block, the fragments in the same place are the first. *)
LEMMA LapBefore ==
  ASSUME NEW a \in Nat, Aligned(a), NEW s \in Nat, a - FragmentCount <= s, s < a, BlockOf(s) = BlockOf(a)
  PROVE  s < a - FragmentCount + FragmentsPerBlock
<1>1. PICK z \in Nat : z = s - SlotOf(s) /\ Aligned(z) /\ BlockOf(z) = BlockOf(a) /\ z <= s
                       /\ s < z + FragmentsPerBlock
  BY BaseOf, Sizes DEF Aligned
<1>2. SlotOf(z) = 0 /\ SlotOf(a) = 0
  BY <1>1 DEF Aligned, SlotOf
<1>3. ~ (a < z + FragmentCount)
  BY <1>1, <1>2, CellsApart
<1> QED
  BY <1>1, <1>2, <1>3, Sizes

-----------------------------------------------------------------------------
(* Least and greatest elements, and functions defined step by step.         *)

(* A non-empty set of natural numbers has a least element. *)
LEMMA LeastElement ==
  ASSUME NEW S, NEW x \in S, S \subseteq Nat
  PROVE  \E m \in S : \A n \in S : m <= n
<1> DEFINE R == {ss \in Nat \X Nat : ss[1] < ss[2]}
<1>1. IsWellFoundedOn(R, Nat)
  BY NatLessThanWellFounded DEF OpToRel
<1> HIDE DEF R
<1>2. PICK m \in S : \A n \in S : ~ (<<n, m>> \in R)
  BY <1>1, WFMin
<1>3. \A n \in S : ~ (n < m)
  BY <1>2 DEF R
<1> QED
  BY <1>3

(* A non-empty set of numbers up to N has a greatest element. *)
LEMMA GreatestElement ==
  ASSUME NEW N \in Nat, NEW S, NEW x \in S, S \subseteq 0 .. N
  PROVE  \E m \in S : \A n \in S : n <= m
<1> DEFINE T == {N - n : n \in S}
<1>1. N - x \in T /\ T \subseteq Nat
  OBVIOUS
<1>2. PICK k \in T : \A n \in T : k <= n
  BY <1>1, LeastElement
<1>3. PICK m \in S : k = N - m
  BY <1>2
<1>4. \A n \in S : N - m <= N - n
  BY <1>2, <1>3
<1> QED
  BY <1>3, <1>4

(* Some function has the first value a and steps by g. *)
Stepwise(N, D, a, g) ==
  \E f \in [0 .. N -> D] : f[0] = a /\ \A n \in 1 .. N : f[n] = g[n][f[n - 1]]

(* It exists, for every first value and every steps. *)
LEMMA StepwiseFunction ==
  ASSUME NEW N \in Nat, NEW D, NEW a \in D, NEW g \in [1 .. N -> [D -> D]]
  PROVE  Stepwise(N, D, a, g)
<1> DEFINE Upto(m) == \E f \in [0 .. m -> D] : f[0] = a /\ \A n \in 1 .. m : f[n] = g[n][f[n - 1]]
           Bad == {m \in 0 .. N : ~ Upto(m)}
<1>1. Upto(0)
  <2>1. PICK f \in [0 .. 0 -> D] : f = [n \in 0 .. 0 |-> a]
    OBVIOUS
  <2>2. f[0] = a /\ \A n \in 1 .. 0 : f[n] = g[n][f[n - 1]]
    BY <2>1
  <2> QED
    BY <2>2
<1>2. ASSUME NEW m \in 1 .. N, Upto(m - 1) PROVE Upto(m)
  <2>1. PICK f \in [0 .. m - 1 -> D] : f[0] = a /\ \A n \in 1 .. m - 1 : f[n] = g[n][f[n - 1]]
    BY <1>2
  <2> DEFINE h == [n \in 0 .. m |-> IF n = m THEN g[m][f[m - 1]] ELSE f[n]]
  <2>2. g[m][f[m - 1]] \in D
    BY <2>1
  <2>3. h \in [0 .. m -> D] /\ h[0] = a
    BY <2>1, <2>2
  <2>4. \A n \in 1 .. m : h[n] = g[n][h[n - 1]]
    BY <2>1
  <2> QED
    BY <2>3, <2>4
<1> HIDE DEF Upto
<1>3. Bad = {}
  <2> SUFFICES ASSUME NEW x \in Bad PROVE FALSE
    OBVIOUS
  <2>0. Bad \subseteq Nat
    OBVIOUS
  <2>1. PICK m \in Bad : \A n \in Bad : m <= n
    <3> HIDE DEF Bad
    <3> QED
      BY <2>0, LeastElement
  <2>2. m \in 1 .. N /\ m - 1 \in 0 .. N /\ m - 1 \notin Bad
    BY <1>1, <2>1
  <2> QED
    BY <1>2, <2>1, <2>2
<1>4. Upto(N)
  BY <1>3
<1> QED
  BY <1>4 DEF Upto, Stepwise

-----------------------------------------------------------------------------
(* The scan.                                                                *)

(* The scan for the lowest first number goes through the blocks one by one. *)
LEMMA LowestScan ==
  ASSUME NEW S \in SUBSET Mine
  PROVE  \E f :
           /\ f[0] = Free /\ Lowest(S) = f[BlockCount]
           /\ \A n \in 1 .. BlockCount : 
                f[n] = IF n - 1 \in S /\ (f[n - 1] = Free \/ ~ FragmentGte(block[n - 1].first, f[n - 1]))
                         THEN block[n - 1].first ELSE f[n - 1]
<1> DEFINE D == SeqNo \cup {Free}
           g == [n \in 1 .. BlockCount |->
                   [c \in D |-> IF n - 1 \in S /\ (c = Free \/ ~ FragmentGte(block[n - 1].first, c))
                                  THEN block[n - 1].first ELSE c]]
           IsScan(f) == f = [n \in 0 .. BlockCount |->
             IF n = 0 THEN Free
             ELSE IF n - 1 \in S /\ (f[n - 1] = Free \/ ~ FragmentGte(block[n - 1].first, f[n - 1]))
                    THEN block[n - 1].first ELSE f[n - 1]]
<1>1. g \in [1 .. BlockCount -> [D -> D]]
  <2>1. \A b \in S : block[b].first \in D
    BY DEF Mine
  <2> QED
    BY <2>1
<1>2. BlockCount \in Nat /\ Free \in D
  BY Sizes
<1> HIDE DEF D
<1>3. PICK e \in [0 .. BlockCount -> D] :
        e[0] = Free /\ \A n \in 1 .. BlockCount : e[n] = g[n][e[n - 1]]
  <2> HIDE DEF g
  <2>1. Stepwise(BlockCount, D, Free, g)
    BY <1>1, <1>2, StepwiseFunction
  <2> QED
    BY <2>1 DEF Stepwise
<1>4. IsScan(e)
  <2>1. \A n \in 1 .. BlockCount : n - 1 \in 0 .. BlockCount /\ e[n - 1] \in D
    BY <1>2, <1>3
  <2>2. \A n \in 1 .. BlockCount :
          e[n] = IF n - 1 \in S /\ (e[n - 1] = Free \/ ~ FragmentGte(block[n - 1].first, e[n - 1]))
                   THEN block[n - 1].first ELSE e[n - 1]
    BY <1>3, <2>1
  <2> QED
    BY <1>2, <1>3, <2>2
<1>5. Lowest(S) = (CHOOSE f : IsScan(f))[BlockCount]
  BY DEF Lowest, Scan
<1>6. IsScan(CHOOSE f : IsScan(f))
  <2> HIDE DEF IsScan
  <2> QED
    BY <1>4
<1>7. PICK f : f = (CHOOSE h : IsScan(h))
  OBVIOUS
<1>7a. IsScan(f)
  BY <1>6, <1>7
<1>8. /\ f[0] = Free /\ Lowest(S) = f[BlockCount]
      /\ \A n \in 1 .. BlockCount :
           f[n] = IF n - 1 \in S /\ (f[n - 1] = Free \/ ~ FragmentGte(block[n - 1].first, f[n - 1]))
                    THEN block[n - 1].first ELSE f[n - 1]
  <2>1. Lowest(S) = f[BlockCount]
    BY <1>5, <1>7
  <2>2. f[0] = Free
    BY <1>2, <1>7a
  <2>3. ASSUME NEW n \in 1 .. BlockCount
        PROVE  f[n] = IF n - 1 \in S /\ (f[n - 1] = Free \/ ~ FragmentGte(block[n - 1].first, f[n - 1]))
                        THEN block[n - 1].first ELSE f[n - 1]
    <3>1. n \in 0 .. BlockCount /\ n # 0
      BY <1>2
    <3> QED
      BY <1>7a, <3>1
  <2> QED
    BY <2>1, <2>2, <2>3
<1> QED
  BY <1>8
(* The scan for the highest first number goes through the blocks one by one. *)
LEMMA HighestScan ==
  ASSUME NEW S \in SUBSET Mine
  PROVE  \E f :
           /\ f[0] = Free /\ Highest(S) = f[BlockCount]
           /\ \A n \in 1 .. BlockCount : 
                f[n] = IF n - 1 \in S /\ (f[n - 1] = Free \/ FragmentGte(block[n - 1].first, f[n - 1]))
                         THEN block[n - 1].first ELSE f[n - 1]
<1> DEFINE D == SeqNo \cup {Free}
           g == [n \in 1 .. BlockCount |->
                   [c \in D |-> IF n - 1 \in S /\ (c = Free \/ FragmentGte(block[n - 1].first, c))
                                  THEN block[n - 1].first ELSE c]]
           IsScan(f) == f = [n \in 0 .. BlockCount |->
             IF n = 0 THEN Free
             ELSE IF n - 1 \in S /\ (f[n - 1] = Free \/ FragmentGte(block[n - 1].first, f[n - 1]))
                    THEN block[n - 1].first ELSE f[n - 1]]
<1>1. g \in [1 .. BlockCount -> [D -> D]]
  <2>1. \A b \in S : block[b].first \in D
    BY DEF Mine
  <2> QED
    BY <2>1
<1>2. BlockCount \in Nat /\ Free \in D
  BY Sizes
<1> HIDE DEF D
<1>3. PICK e \in [0 .. BlockCount -> D] :
        e[0] = Free /\ \A n \in 1 .. BlockCount : e[n] = g[n][e[n - 1]]
  <2> HIDE DEF g
  <2>1. Stepwise(BlockCount, D, Free, g)
    BY <1>1, <1>2, StepwiseFunction
  <2> QED
    BY <2>1 DEF Stepwise
<1>4. IsScan(e)
  <2>1. \A n \in 1 .. BlockCount : n - 1 \in 0 .. BlockCount /\ e[n - 1] \in D
    BY <1>2, <1>3
  <2>2. \A n \in 1 .. BlockCount :
          e[n] = IF n - 1 \in S /\ (e[n - 1] = Free \/ FragmentGte(block[n - 1].first, e[n - 1]))
                   THEN block[n - 1].first ELSE e[n - 1]
    BY <1>3, <2>1
  <2> QED
    BY <1>2, <1>3, <2>2
<1>5. Highest(S) = (CHOOSE f : IsScan(f))[BlockCount]
  BY DEF Highest, Scan
<1>6. IsScan(CHOOSE f : IsScan(f))
  <2> HIDE DEF IsScan
  <2> QED
    BY <1>4
<1>7. PICK f : f = (CHOOSE h : IsScan(h))
  OBVIOUS
<1>7a. IsScan(f)
  BY <1>6, <1>7
<1>8. /\ f[0] = Free /\ Highest(S) = f[BlockCount]
      /\ \A n \in 1 .. BlockCount :
           f[n] = IF n - 1 \in S /\ (f[n - 1] = Free \/ FragmentGte(block[n - 1].first, f[n - 1]))
                    THEN block[n - 1].first ELSE f[n - 1]
  <2>1. Highest(S) = f[BlockCount]
    BY <1>5, <1>7
  <2>2. f[0] = Free
    BY <1>2, <1>7a
  <2>3. ASSUME NEW n \in 1 .. BlockCount
        PROVE  f[n] = IF n - 1 \in S /\ (f[n - 1] = Free \/ FragmentGte(block[n - 1].first, f[n - 1]))
                        THEN block[n - 1].first ELSE f[n - 1]
    <3>1. n \in 0 .. BlockCount /\ n # 0
      BY <1>2
    <3> QED
      BY <1>7a, <3>1
  <2> QED
    BY <2>1, <2>2, <2>3
<1> QED
  BY <1>8
(* Numbers of one lap are compared as they are. *)
LEMMA GteIsOrder ==
  ASSUME NEW x \in SeqNo, NEW y \in SeqNo, x - y < FragmentCount, y - x < FragmentCount
  PROVE  FragmentGte(x, y) <=> x >= y
<1>1. QP!Sub(x, y) = IF y <= x THEN x - y ELSE x - y + SeqMod
  BY QP!SubPlain, QueueConstants DEF QP!QueueAssumption, QP!SeqNo, SeqNo
<1>2. Sub(x, y) = IF y <= x THEN x - y ELSE x - y + SeqMod
  BY <1>1 DEF Sub, QP!Sub
<1>3. PICK m \in Int, n \in Int, c \in Int :
        m = MAX_FRAGMENTS_PER_OBJECT /\ n = SeqMod /\ c = FragmentCount /\ n > 2 * c
        /\ 2 * m <= n - 1 /\ n - 1 <= 2 * m + 1 /\ c > 0
  BY Sizes DEF MAX_FRAGMENTS_PER_OBJECT
<1>4. x \in Int /\ y \in Int
  BY Sizes DEF SeqNo
<1> QED
  BY <1>2, <1>3, <1>4 DEF FragmentGte

(* The first numbers of the blocks of S lie within one lap. *)
OneLap(S) == \A b, c \in S : block[b].first - block[c].first < FragmentCount

(* Of blocks of one lap, one scan chooses the lowest first number ... *)
LEMMA LowestOf ==
  ASSUME NEW S \in SUBSET Mine, OneLap(S), S # {}
  PROVE  \E b \in S : /\ Lowest(S) = block[b].first
                      /\ \A c \in S : block[b].first <= block[c].first
<1>1. PICK f :
        /\ f[0] = Free /\ Lowest(S) = f[BlockCount]
        /\ \A n \in 1 .. BlockCount :
             f[n] = IF n - 1 \in S /\ (f[n - 1] = Free \/ ~ FragmentGte(block[n - 1].first, f[n - 1]))
                      THEN block[n - 1].first ELSE f[n - 1]
  BY LowestScan
<1>2. /\ BlockCount \in Nat /\ S \subseteq 0 .. BlockCount - 1 /\ SeqNo \subseteq Int /\ Free \notin SeqNo
      /\ \A b \in S : block[b].first \in SeqNo /\ b \in Int
  BY Sizes, CircularAssumption DEF Mine, Blocks, SeqNo
<1> DEFINE Seen(n) == {b \in S : b < n}
           Good(n) == IF Seen(n) = {} THEN f[n] = Free
                      ELSE \E b \in Seen(n) : /\ f[n] = block[b].first
                                              /\ \A c \in Seen(n) : block[b].first <= block[c].first
           Bad == {n \in 0 .. BlockCount : ~ Good(n)}
<1>3. Good(0)
  <2>0. \A b \in S : ~ (b < 0)
    BY <1>2
  <2>1. Seen(0) = {}
    BY <2>0
  <2> HIDE DEF Seen
  <2> QED
    BY <1>1, <2>1
<1>4. ASSUME NEW n \in 1 .. BlockCount, Good(n - 1) PROVE Good(n)
  <2>1. CASE n - 1 \notin S
    <3>1. Seen(n) = Seen(n - 1)
      <4>1. \A b \in S : b \in Int /\ b # n - 1
        BY <1>2, <2>1
      <4> QED
        BY <4>1
    <3>2. f[n] = f[n - 1]
      BY <1>1, <2>1
    <3> QED
      BY <1>4, <3>1, <3>2
  <2>2. CASE n - 1 \in S
    <3>1. Seen(n) = Seen(n - 1) \cup {n - 1} /\ n - 1 \notin Seen(n - 1)
      <4>1. \A b \in S : b \in Int /\ (b < n <=> b < n - 1 \/ b = n - 1)
        BY <1>2
      <4> QED
        BY <2>2, <4>1
    <3>2. CASE Seen(n - 1) = {}
      <4>1. f[n] = block[n - 1].first
        BY <1>1, <1>4, <2>2, <3>2
      <4>2. Seen(n) = {n - 1}
        BY <3>1, <3>2
      <4>3. block[n - 1].first \in Int
        BY <1>2, <2>2
      <4> HIDE DEF Seen
      <4>4. \A c \in Seen(n) : c = n - 1
        BY <4>2
      <4> QED
        BY <4>1, <4>2, <4>3, <4>4
    <3>3. CASE Seen(n - 1) # {}
      <4>1. PICK b \in Seen(n - 1) : /\ f[n - 1] = block[b].first
                                     /\ \A c \in Seen(n - 1) : block[b].first <= block[c].first
        BY <1>4, <3>3
      <4>2. PICK x \in SeqNo, y \in SeqNo : x = block[n - 1].first /\ y = block[b].first
        BY <1>2, <2>2, <4>1
      <4>3. FragmentGte(x, y) <=> x >= y
        BY <2>2, <4>1, <4>2, GteIsOrder DEF OneLap
      <4>4. f[n] = IF x >= y THEN y ELSE x
        BY <1>1, <1>2, <2>2, <4>1, <4>2, <4>3
      <4>5. \A c \in Seen(n) : block[c].first \in Int
        BY <1>2
      <4> HIDE DEF Seen
      <4>6. CASE x >= y
        BY <3>1, <4>1, <4>2, <4>4, <4>6
      <4>7. CASE x < y
        <5>1. \A c \in Seen(n) : x <= block[c].first
          BY <1>2, <3>1, <4>1, <4>2, <4>5, <4>7
        <5> QED
          BY <1>2, <3>1, <4>2, <4>4, <4>7, <5>1
      <4> QED
        BY <1>2, <4>6, <4>7
    <3> QED
      BY <3>2, <3>3
  <2> QED
    BY <2>1, <2>2
<1>5. Seen(BlockCount) = S
  BY <1>2
<1> HIDE DEF Good
<1>6. Bad = {}
  <2> SUFFICES ASSUME NEW x \in Bad PROVE FALSE
    OBVIOUS
  <2>0. Bad \subseteq Nat
    OBVIOUS
  <2>1. PICK m \in Bad : \A n \in Bad : m <= n
    <3> HIDE DEF Bad
    <3> QED
      BY <2>0, LeastElement
  <2>2. m \in 1 .. BlockCount /\ m - 1 \in 0 .. BlockCount /\ m - 1 \notin Bad
    BY <1>2, <1>3, <2>1
  <2> QED
    BY <1>4, <2>1, <2>2
<1>7. Good(BlockCount)
  BY <1>2, <1>6
<1> QED
  BY <1>1, <1>5, <1>7 DEF Good

(* ... and the other one the highest. *)
LEMMA HighestOf ==
  ASSUME NEW S \in SUBSET Mine, OneLap(S), S # {}
  PROVE  \E b \in S : /\ Highest(S) = block[b].first
                      /\ \A c \in S : block[b].first >= block[c].first
<1>1. PICK f :
        /\ f[0] = Free /\ Highest(S) = f[BlockCount]
        /\ \A n \in 1 .. BlockCount :
             f[n] = IF n - 1 \in S /\ (f[n - 1] = Free \/ FragmentGte(block[n - 1].first, f[n - 1]))
                      THEN block[n - 1].first ELSE f[n - 1]
  BY HighestScan
<1>2. /\ BlockCount \in Nat /\ S \subseteq 0 .. BlockCount - 1 /\ SeqNo \subseteq Int /\ Free \notin SeqNo
      /\ \A b \in S : block[b].first \in SeqNo /\ b \in Int
  BY Sizes, CircularAssumption DEF Mine, Blocks, SeqNo
<1> DEFINE Seen(n) == {b \in S : b < n}
           Good(n) == IF Seen(n) = {} THEN f[n] = Free
                      ELSE \E b \in Seen(n) : /\ f[n] = block[b].first
                                              /\ \A c \in Seen(n) : block[b].first >= block[c].first
           Bad == {n \in 0 .. BlockCount : ~ Good(n)}
<1>3. Good(0)
  <2>0. \A b \in S : ~ (b < 0)
    BY <1>2
  <2>1. Seen(0) = {}
    BY <2>0
  <2> HIDE DEF Seen
  <2> QED
    BY <1>1, <2>1
<1>4. ASSUME NEW n \in 1 .. BlockCount, Good(n - 1) PROVE Good(n)
  <2>1. CASE n - 1 \notin S
    <3>1. Seen(n) = Seen(n - 1)
      <4>1. \A b \in S : b \in Int /\ b # n - 1
        BY <1>2, <2>1
      <4> QED
        BY <4>1
    <3>2. f[n] = f[n - 1]
      BY <1>1, <2>1
    <3> QED
      BY <1>4, <3>1, <3>2
  <2>2. CASE n - 1 \in S
    <3>1. Seen(n) = Seen(n - 1) \cup {n - 1} /\ n - 1 \notin Seen(n - 1)
      <4>1. \A b \in S : b \in Int /\ (b < n <=> b < n - 1 \/ b = n - 1)
        BY <1>2
      <4> QED
        BY <2>2, <4>1
    <3>2. CASE Seen(n - 1) = {}
      <4>1. f[n] = block[n - 1].first
        BY <1>1, <1>4, <2>2, <3>2
      <4>2. Seen(n) = {n - 1}
        BY <3>1, <3>2
      <4>3. block[n - 1].first \in Int
        BY <1>2, <2>2
      <4> HIDE DEF Seen
      <4>4. \A c \in Seen(n) : c = n - 1
        BY <4>2
      <4> QED
        BY <4>1, <4>2, <4>3, <4>4
    <3>3. CASE Seen(n - 1) # {}
      <4>1. PICK b \in Seen(n - 1) : /\ f[n - 1] = block[b].first
                                     /\ \A c \in Seen(n - 1) : block[b].first >= block[c].first
        BY <1>4, <3>3
      <4>2. PICK x \in SeqNo, y \in SeqNo : x = block[n - 1].first /\ y = block[b].first
        BY <1>2, <2>2, <4>1
      <4>3. FragmentGte(x, y) <=> x >= y
        BY <2>2, <4>1, <4>2, GteIsOrder DEF OneLap
      <4>4. f[n] = IF x >= y THEN x ELSE y
        BY <1>1, <1>2, <2>2, <4>1, <4>2, <4>3
      <4>5. \A c \in Seen(n) : block[c].first \in Int
        BY <1>2
      <4> HIDE DEF Seen
      <4>6. CASE x < y
        <5>1. \A c \in Seen(n) : y >= block[c].first
          BY <1>2, <3>1, <4>1, <4>2, <4>5, <4>6
        <5> QED
          BY <1>2, <3>1, <4>1, <4>2, <4>4, <4>6, <5>1
      <4>7. CASE x >= y
        <5>1. \A c \in Seen(n) : x >= block[c].first
          BY <1>2, <3>1, <4>1, <4>2, <4>5, <4>7
        <5> QED
          BY <1>2, <3>1, <4>2, <4>4, <4>7, <5>1
      <4> QED
        BY <1>2, <4>6, <4>7
    <3> QED
      BY <3>2, <3>3
  <2> QED
    BY <2>1, <2>2
<1>5. Seen(BlockCount) = S
  BY <1>2
<1> HIDE DEF Good
<1>6. Bad = {}
  <2> SUFFICES ASSUME NEW x \in Bad PROVE FALSE
    OBVIOUS
  <2>0. Bad \subseteq Nat
    OBVIOUS
  <2>1. PICK m \in Bad : \A n \in Bad : m <= n
    <3> HIDE DEF Bad
    <3> QED
      BY <2>0, LeastElement
  <2>2. m \in 1 .. BlockCount /\ m - 1 \in 0 .. BlockCount /\ m - 1 \notin Bad
    BY <1>2, <1>3, <2>1
  <2> QED
    BY <1>4, <2>1, <2>2
<1>7. Good(BlockCount)
  BY <1>2, <1>6
<1> QED
  BY <1>1, <1>5, <1>7 DEF Good


(* The fragments at the start of a block are counted up to the first that   *)
(* has another status.                                                      *)
LEMMA LeadingOf ==
  ASSUME NEW b, NEW T
  PROVE  /\ Leading(b, T) \in 0 .. FragmentsPerBlock
         /\ \A i \in SlotIds : i < Leading(b, T) => block[b].frag[i] \in T
         /\ Leading(b, T) \in SlotIds => block[b].frag[Leading(b, T)] \notin T
<1> DEFINE Ends == {n \in 0 .. FragmentsPerBlock : n \in SlotIds => block[b].frag[n] \notin T}
           IsLeading(n) == /\ \A i \in SlotIds : i < n => block[b].frag[i] \in T
                           /\ n \in SlotIds => block[b].frag[n] \notin T
<1>1. FragmentsPerBlock \in Ends /\ Ends \subseteq Nat
  BY Sizes DEF SlotIds
<1>2. PICK n \in Ends : \A m \in Ends : n <= m
  <2> HIDE DEF Ends
  <2> QED
    BY <1>1, LeastElement
<1>3. n \in 0 .. FragmentsPerBlock /\ IsLeading(n)
  <2>1. ASSUME NEW i \in SlotIds, i < n PROVE block[b].frag[i] \in T
    <3>1. i \in 0 .. FragmentsPerBlock /\ i \notin Ends
      BY <1>2, <2>1, Sizes DEF SlotIds
    <3> QED
      BY <3>1
  <2> QED
    BY <1>2, <2>1
<1>4. Leading(b, T) = CHOOSE m \in 0 .. FragmentsPerBlock : IsLeading(m)
  BY DEF Leading
<1> HIDE DEF IsLeading
<1>5. Leading(b, T) \in 0 .. FragmentsPerBlock /\ IsLeading(Leading(b, T))
  BY <1>3, <1>4
<1> QED
  BY <1>5 DEF IsLeading

-----------------------------------------------------------------------------
(* The invariant.                                                           *)

(* As long as the sequence numbers have not wrapped. *)
Young == write_index + FragmentsPerBlock < SeqMod

BlocksOK == block \in [Blocks -> BlockType]

(* The blocks in use hold the numbers lo .. hi - 1, at most one lap; the    *)
(* next one is written there or right behind them.                          *)
Layout(lo, hi) ==
  /\ Aligned(lo) /\ Aligned(hi)
  /\ hi - lo <= FragmentCount /\ hi < SeqMod
  /\ write_index \in lo .. hi
  /\ \A b \in Mine : /\ SlotOf(block[b].first) = 0 /\ BlockOf(block[b].first) = b
                     /\ block[b].first \in lo .. hi - 1
  /\ \A s \in lo .. hi - 1 : block[BlockOf(s)].first = s - SlotOf(s)

(* Fragments are written in order. *)
Written(lo, hi) ==
  /\ \A s, t \in lo .. hi - 1 : s < t /\ StatusOf(t) # "Empty" => StatusOf(s) # "Empty"
  /\ \A s \in lo .. write_index - 1 : StatusOf(s) # "Empty"

(* A stored item is valid, and nothing behind it was deleted. *)
Stored(lo, hi) ==
  \A s \in stored : /\ s \in lo .. hi - 1 /\ StatusOf(s) = "Valid"
                    /\ \A t \in s + 1 .. hi - 1 : StatusOf(t) # "Obsolete"

FlashHolds(lo, hi) == Layout(lo, hi) /\ Written(lo, hi) /\ Stored(lo, hi)
Flash == \E lo, hi \in Nat : FlashHolds(lo, hi)

(* The queue has its own invariant and waits for every stored item; only    *)
(* what lies before the oldest item is cleaned up.                          *)
Memory ==
  /\ QP!IInv /\ QP!OrderInv
  /\ stored \subseteq pending
  /\ call \in {"peek", "cleanup"} => oldest \in Nat /\ oldest <= read_index_min

StreamInv == BlocksOK /\ Flash /\ Memory

-----------------------------------------------------------------------------
(* What the layout says of numbers and blocks.                              *)

(* The fragments of a block of the buffer. *)
LEMMA BlockHolds ==
  ASSUME NEW lo \in Nat, NEW hi \in Nat, Layout(lo, hi), NEW b \in Mine, NEW i \in SlotIds
  PROVE  /\ block[b].first \in Nat /\ block[b].first >= lo
         /\ block[b].first + FragmentsPerBlock <= hi /\ Aligned(block[b].first)
         /\ block[b].first + i \in lo .. hi - 1
         /\ BlockOf(block[b].first + i) = b /\ SlotOf(block[b].first + i) = i
         /\ StatusOf(block[b].first + i) = block[b].frag[i]
<1>1. PICK f \in Nat : f = block[b].first /\ f \in lo .. hi - 1 /\ Aligned(f) /\ BlockOf(f) = b
  BY DEF Layout, Aligned, SlotOf
<1>2. f + FragmentsPerBlock <= hi
  BY <1>1, AlignedApart DEF Layout
<1>3. BlockOf(f + i) = b /\ SlotOf(f + i) = i
  BY <1>1, InBlock
<1>4. i \in Nat /\ i < FragmentsPerBlock /\ FragmentsPerBlock \in Nat
  BY Sizes DEF SlotIds
<1> QED
  BY <1>1, <1>2, <1>3, <1>4 DEF StatusOf

(* The block of a number in the buffer. *)
LEMMA NumberHeld ==
  ASSUME BlocksOK, NEW lo \in Nat, NEW hi \in Nat, Layout(lo, hi), NEW s \in lo .. hi - 1
  PROVE  /\ s \in SeqNo /\ BlockOf(s) \in Mine /\ SlotOf(s) \in SlotIds
         /\ block[BlockOf(s)].first + SlotOf(s) = s
<1>1. PICK n \in Nat : n = s /\ n \in SeqNo
  BY Sizes DEF Layout, SeqNo
<1>2. /\ n - SlotOf(n) \in Nat /\ SlotOf(n) \in SlotIds /\ SlotOf(n) \in Nat /\ SlotOf(n) <= n
      /\ BlockOf(n) \in Blocks
  BY BaseOf, CellOf
<1>3. block[BlockOf(n)].first = n - SlotOf(n)
  BY <1>1 DEF Layout
<1>4. n - SlotOf(n) \in SeqNo
  BY <1>1, <1>2, Sizes DEF SeqNo
<1> QED
  BY <1>1, <1>2, <1>3, <1>4 DEF Mine

(* What stands in place of a header is no number. *)
LEMMA NoNumbers == \A x \in SeqNo : x # Free /\ x # Foreign
<1>1. SeqNo \subseteq Int
  BY Sizes DEF SeqNo
<1> QED
  BY <1>1, CircularAssumption

(* find_block_for_seq_no finds exactly the numbers of the buffer. *)
LEMMA Located ==
  ASSUME BlocksOK, NEW lo \in Nat, NEW hi \in Nat, Layout(lo, hi), NEW s \in SeqNo
  PROVE  FindBlock(s) = "Found" <=> s \in lo .. hi - 1
<1>0. PICK n \in Nat : n = s
  BY Sizes DEF SeqNo
<1>1. ASSUME NEW f \in SeqNo, NEW i \in SeqNo, f + i < SeqMod PROVE Add(f, i) = f + i
  <2>1. QP!Add(f, i) = f + i
    BY <1>1, QP!AddPlain, QueueConstants DEF QP!QueueAssumption, QP!SeqNo, SeqNo
  <2> QED
    BY <2>1 DEF QP!Add, Add
<1>2. BlockOf(s) \in Blocks /\ SlotOf(s) \in SlotIds /\ SlotOf(s) \in SeqNo
  <2>1. BlockOf(n) \in Blocks /\ SlotOf(n) \in SlotIds
    BY CellOf
  <2> QED
    BY <1>0, <2>1, Sizes DEF SlotIds, SeqNo
<1>3. ASSUME FindBlock(s) = "Found" PROVE s \in lo .. hi - 1
  <2>1. block[BlockOf(s)].first \notin {Free, Foreign} /\ s = Add(block[BlockOf(s)].first, SlotOf(s))
    BY <1>3 DEF FindBlock
  <2>2. BlockOf(s) \in Mine /\ block[BlockOf(s)].first \in SeqNo
    BY <1>2, <2>1 DEF BlocksOK, BlockType, Mine
  <2>3. block[BlockOf(s)].first + SlotOf(s) \in lo .. hi - 1
    BY <1>2, <2>2, BlockHolds
  <2>4. block[BlockOf(s)].first + SlotOf(s) < SeqMod
    BY <2>3, Sizes DEF Layout
  <2>5. Add(block[BlockOf(s)].first, SlotOf(s)) = block[BlockOf(s)].first + SlotOf(s)
    BY <1>1, <1>2, <2>2, <2>4
  <2> QED
    BY <2>1, <2>3, <2>5
<1>4. ASSUME s \in lo .. hi - 1 PROVE FindBlock(s) = "Found"
  <2>1. BlockOf(s) \in Mine /\ block[BlockOf(s)].first + SlotOf(s) = s
    BY <1>4, NumberHeld
  <2>2. block[BlockOf(s)].first \in SeqNo
    BY <2>1 DEF Mine
  <2>3. Add(block[BlockOf(s)].first, SlotOf(s)) = s
    BY <1>1, <1>2, <2>1, <2>2, Sizes DEF SeqNo
  <2>4. block[BlockOf(s)].first \notin {Free, Foreign}
    BY <2>2, NoNumbers, Zenon
  <2> QED
    BY <2>3, <2>4 DEF FindBlock
<1> QED
  BY <1>3, <1>4


-----------------------------------------------------------------------------
(* What find_circular_range finds.                                          *)

(* The fragments of a block are written in order; a block that may contain  *)
(* data was written to, and one that neither may nor is empty is full.      *)
LEMMA BlockFacts ==
  ASSUME NEW lo \in Nat, NEW hi \in Nat, Layout(lo, hi), Written(lo, hi), NEW b \in Mine
  PROVE  /\ \A i, j \in SlotIds : i < j /\ block[b].frag[j] # "Empty" => block[b].frag[i] # "Empty"
         /\ MayContainData(b) => block[b].frag[0] # "Empty"
         /\ ~ MayContainData(b) /\ ~ AllEmpty(b) => \A i \in SlotIds : block[b].frag[i] # "Empty"
<1>1. ASSUME NEW i \in SlotIds, NEW j \in SlotIds, i < j, block[b].frag[j] # "Empty"
      PROVE  block[b].frag[i] # "Empty"
  <2>1. PICK s \in lo .. hi - 1, t \in lo .. hi - 1 :
          s < t /\ StatusOf(s) = block[b].frag[i] /\ StatusOf(t) = block[b].frag[j]
    <3>1. /\ block[b].first + i \in lo .. hi - 1 /\ StatusOf(block[b].first + i) = block[b].frag[i]
          /\ block[b].first \in Nat
      BY BlockHolds
    <3>2. block[b].first + j \in lo .. hi - 1 /\ StatusOf(block[b].first + j) = block[b].frag[j]
      BY BlockHolds
    <3>3. i \in Int /\ j \in Int
      BY Sizes DEF SlotIds
    <3> QED
      BY <1>1, <3>1, <3>2, <3>3
  <2> QED
    BY <1>1, <2>1 DEF Written
<1>2. /\ 0 \in SlotIds /\ FragmentsPerBlock - 1 \in SlotIds
      /\ \A i \in SlotIds : i \in Int /\ 0 <= i /\ i <= FragmentsPerBlock - 1
  BY Sizes DEF SlotIds
<1>3. MayContainData(b) => block[b].frag[0] # "Empty"
  <2> SUFFICES ASSUME NEW i \in SlotIds, block[b].frag[i] = "Valid" PROVE block[b].frag[0] # "Empty"
    BY DEF MayContainData
  <2>1. CASE i = 0
    BY <2>1
  <2>2. CASE 0 < i
    BY <1>1, <1>2, <2>2
  <2> QED
    BY <1>2, <2>1, <2>2
<1>4. ASSUME ~ MayContainData(b), ~ AllEmpty(b), NEW i \in SlotIds PROVE block[b].frag[i] # "Empty"
  <2> DEFINE e == FragmentsPerBlock - 1
  <2>1. block[b].frag[e] # "Empty"
    <3> SUFFICES ASSUME block[b].frag[e] = "Empty" PROVE FALSE
      OBVIOUS
    <3>1. \A j \in SlotIds : ~ (j > e)
      BY <1>2
    <3>2. Deciding(b, e)
      BY <3>1 DEF Deciding
    <3> QED
      BY <1>2, <1>4, <3>2 DEF MayContainData, AllEmpty
  <2>2. i = e \/ i < e
    BY <1>2, Sizes
  <2> QED
    BY <1>1, <1>2, <2>1, <2>2
<1> QED
  BY <1>1, <1>3, <1>4

(* The block of a stored item may contain data. *)
LEMMA StoredIsData ==
  ASSUME BlocksOK, NEW lo \in Nat, NEW hi \in Nat, FlashHolds(lo, hi), NEW s \in stored
  PROVE  BlockOf(s) \in Mine /\ MayContainData(BlockOf(s))
<1>1. /\ Layout(lo, hi) /\ Written(lo, hi) /\ s \in lo .. hi - 1 /\ StatusOf(s) = "Valid"
      /\ \A t \in s + 1 .. hi - 1 : StatusOf(t) # "Obsolete"
  BY DEF FlashHolds, Stored
<1>2. PICK b \in Mine, k \in SlotIds : b = BlockOf(s) /\ k = SlotOf(s) /\ block[b].first + k = s
  BY <1>1, NumberHeld
<1>3. block[b].frag[k] = "Valid"
  BY <1>1, <1>2 DEF StatusOf
<1> DEFINE S == {i \in SlotIds : block[b].frag[i] # "Invalid"}
<1>4. k \in S /\ S \subseteq 0 .. FragmentsPerBlock - 1 /\ FragmentsPerBlock - 1 \in Nat
  BY <1>3, Sizes DEF SlotIds
<1>5. PICK i \in S : \A j \in S : j <= i
  <2> HIDE DEF S
  <2> QED
    BY <1>4, GreatestElement
<1>6. Deciding(b, i)
  <2>1. \A j \in SlotIds : j > i => j \notin S
    BY <1>4, <1>5, Sizes DEF SlotIds
  <2> QED
    BY <1>5, <2>1 DEF Deciding
<1>7. i \in SlotIds /\ (i = k \/ k < i)
  BY <1>4, <1>5, Sizes DEF SlotIds
<1>8. CASE i = k
  BY <1>2, <1>3, <1>6, <1>7, <1>8 DEF MayContainData
<1>9. CASE k < i
  <2>1. block[b].first + i \in lo .. hi - 1 /\ StatusOf(block[b].first + i) = block[b].frag[i]
        /\ block[b].first \in Nat
    BY <1>1, <1>7, BlockHolds
  <2>2. block[b].first + i \in s + 1 .. hi - 1
    BY <1>2, <1>9, <2>1, Sizes DEF SlotIds
  <2>3. block[b].frag[i] \in Status
    BY <1>7 DEF BlocksOK, BlockType, Mine
  <2>4. block[b].frag[i] \in {"Empty", "Valid"}
    BY <1>1, <1>5, <2>1, <2>2, <2>3 DEF Status
  <2>5. block[b].frag[0] # "Empty"
    <3>1. 0 \in SlotIds /\ (k = 0 \/ 0 < k)
      BY Sizes DEF SlotIds
    <3> QED
      BY <1>1, <1>3, <3>1, BlockFacts
  <2> QED
    BY <1>2, <1>6, <1>7, <2>4, <2>5 DEF MayContainData
<1> QED
  BY <1>2, <1>7, <1>8, <1>9

(* All blocks of the buffer are of one lap. *)
LEMMA MineOneLap ==
  ASSUME NEW lo \in Nat, NEW hi \in Nat, Layout(lo, hi), NEW S \in SUBSET Mine
  PROVE  OneLap(S)
<1>1. \A b \in S : block[b].first \in lo .. hi - 1
  BY DEF Layout
<1> QED
  BY <1>1, Sizes DEF OneLap, Layout

(* Adding to a number of the buffer does not wrap. *)
LEMMA AddInBuffer ==
  ASSUME NEW x \in Nat, NEW n \in Nat, x + n < SeqMod
  PROVE  Add(x, n) = x + n
<1>1. x \in SeqNo /\ n \in SeqNo
  BY Sizes DEF SeqNo
<1>2. QP!Add(x, n) = x + n
  BY <1>1, QP!AddPlain, QueueConstants DEF QP!QueueAssumption, QP!SeqNo, SeqNo
<1> QED
  BY <1>2 DEF QP!Add, Add


(* The range that is found when the buffer is in use: it lies in the buffer, *)
(* contains every stored item and ends before the first empty fragment.      *)
RangeGood(r, lo, hi) ==
  /\ r.start \in lo .. hi /\ r.end \in lo .. hi /\ r.start <= r.end
  /\ \A s \in stored : r.start <= s /\ s < r.end
  /\ \A s \in lo .. r.end - 1 : StatusOf(s) # "Empty"

(* It is found among the blocks that may contain data ... *)
LEMMA RangeOfData ==
  ASSUME BlocksOK, NEW lo \in Nat, NEW hi \in Nat, FlashHolds(lo, hi),
         \E b \in Mine : MayContainData(b)
  PROVE  RangeGood(FindCircularRange, lo, hi)
<1>0. Layout(lo, hi) /\ Written(lo, hi) /\ Stored(lo, hi)
  BY DEF FlashHolds
<1> DEFINE data == {b \in Mine : MayContainData(b)}
           T1 == {"Invalid", "Obsolete"}
           T2 == Status \ {"Empty"}
<1>1. data \in SUBSET Mine /\ data # {}
  OBVIOUS
<1>2. OneLap(data)
  BY <1>0, <1>1, MineOneLap
<1>3. PICK bl \in data : /\ Lowest(data) = block[bl].first
                         /\ \A c \in data : block[bl].first <= block[c].first
  <2> HIDE DEF data
  <2> QED
    BY <1>1, <1>2, LowestOf
<1>4. PICK bh \in data : /\ Highest(data) = block[bh].first
                         /\ \A c \in data : block[bh].first >= block[c].first
  <2> HIDE DEF data
  <2> QED
    BY <1>1, <1>2, HighestOf
<1>5. /\ 0 \in SlotIds /\ FragmentsPerBlock \in Nat
      /\ \A i : i \in SlotIds <=> i \in Nat /\ i < FragmentsPerBlock
  BY Sizes DEF SlotIds
<1>6. ASSUME NEW b \in Mine
      PROVE  /\ block[b].first \in Nat /\ block[b].first >= lo
             /\ block[b].first + FragmentsPerBlock <= hi
             /\ Aligned(block[b].first) /\ BlockOf(block[b].first) = b
             /\ \A i \in SlotIds : block[b].frag[i] \in Status
  BY <1>0, <1>5, BlockHolds DEF Layout, BlocksOK, BlockType, Mine
<1>7. PICK L \in Nat, H \in Nat : L = block[bl].first /\ H = block[bh].first
  BY <1>3, <1>4, <1>6
<1>8. PICK n1 \in Nat, n2 \in Nat : /\ n1 = Leading(bl, T1) /\ n2 = Leading(bh, T2)
                                    /\ n1 <= FragmentsPerBlock /\ n2 <= FragmentsPerBlock
  <2>1. Leading(bl, T1) \in 0 .. FragmentsPerBlock /\ Leading(bh, T2) \in 0 .. FragmentsPerBlock
    BY LeadingOf
  <2> QED
    BY <1>5, <2>1
<1>9. /\ \A i \in SlotIds : i < n1 => block[bl].frag[i] \in T1
      /\ \A i \in SlotIds : i < n2 => block[bh].frag[i] \in T2
      /\ n2 \in SlotIds => block[bh].frag[n2] \notin T2
  <2> HIDE DEF T1, T2
  <2> QED
    BY <1>8, LeadingOf
<1>10. hi < SeqMod /\ SeqMod \in Nat /\ bl \in Mine /\ bh \in Mine
       /\ L + n1 <= hi /\ H + n2 <= hi /\ L >= lo /\ H >= lo
       /\ L + FragmentsPerBlock <= hi /\ H + FragmentsPerBlock <= hi
  BY <1>0, <1>3, <1>4, <1>5, <1>6, <1>7, <1>8, Sizes DEF Layout
<1>11. FindCircularRange = [start |-> L + n1, end |-> H + n2]
  <2>1. FindCircularRange = [start |-> Add(L, Leading(BlockOf(L), T1)), end |-> Add(H, Leading(BlockOf(H), T2))]
    <3>1. FindCircularRange =
            [start |-> Add(Lowest(data), Leading(BlockOf(Lowest(data)), T1)),
             end |-> Add(Highest(data), Leading(BlockOf(Highest(data)), T2))]
      BY <1>1 DEF FindCircularRange
    <3> QED
      BY <1>3, <1>4, <1>7, <3>1
  <2>2. BlockOf(L) = bl /\ BlockOf(H) = bh
    BY <1>6, <1>7, <1>10
  <2>3. Add(L, n1) = L + n1 /\ Add(H, n2) = H + n2
    BY <1>10, AddInBuffer
  <2> QED
    BY <1>8, <2>1, <2>2, <2>3
<1>12. ASSUME NEW b \in Mine, NEW c \in Mine, block[b].first <= block[c].first
       PROVE  b = c \/ block[b].first + FragmentsPerBlock <= block[c].first
  <2>1. PICK x \in Nat, y \in Nat : /\ x = block[b].first /\ y = block[c].first /\ Aligned(x) /\ Aligned(y)
                                    /\ BlockOf(x) = b /\ BlockOf(y) = c
    BY <1>6
  <2> QED
    BY <1>12, <2>1, AlignedApart
<1>13. L + n1 <= H + n2
  <2>1. CASE bl = bh
    <3> SUFFICES ASSUME n2 < n1 PROVE FALSE
      BY <1>7, <2>1
    <3>1. n2 \in SlotIds
      BY <1>5, <1>8
    <3> QED
      BY <1>9, <2>1, <3>1 DEF Status
  <2>2. CASE L + FragmentsPerBlock <= H
    BY <1>5, <1>8, <2>2
  <2> QED
    BY <1>3, <1>4, <1>7, <1>10, <1>12, <2>1, <2>2
<1>14. ASSUME NEW s \in stored PROVE L + n1 <= s /\ s < H + n2
  <2>1. s \in lo .. hi - 1 /\ StatusOf(s) = "Valid" /\ BlockOf(s) \in data
    BY <1>0, StoredIsData DEF Stored
  <2>2. PICK c \in Mine, i \in SlotIds : c = BlockOf(s) /\ i = SlotOf(s) /\ block[c].first + i = s
    BY <1>0, <2>1, NumberHeld
  <2>3. block[c].frag[i] = "Valid"
    BY <2>1, <2>2 DEF StatusOf
  <2>4. PICK f \in Nat : f = block[c].first /\ L <= f /\ f <= H /\ s = f + i /\ i \in Nat /\ i < FragmentsPerBlock
    BY <1>3, <1>4, <1>5, <1>6, <1>7, <2>1, <2>2
  <2>5. c = bl \/ L + FragmentsPerBlock <= f
    BY <1>7, <1>10, <1>12, <2>4
  <2>6. c = bh \/ f + FragmentsPerBlock <= H
    BY <1>7, <1>10, <1>12, <2>4
  <2>7. c = bl => n1 <= i
    BY <1>8, <1>9, <2>3, <2>4
  <2>8. c = bh => i < n2
    <3> SUFFICES ASSUME c = bh, n2 <= i PROVE FALSE
      BY <1>8, <2>4
    <3>1. n2 \in SlotIds
      BY <1>5, <1>8, <2>4
    <3>2. block[bh].frag[n2] = "Empty"
      BY <1>6, <1>9, <1>10, <3>1
    <3>3. \A j, m \in SlotIds : j < m /\ block[bh].frag[m] # "Empty" => block[bh].frag[j] # "Empty"
      BY <1>0, <1>10, BlockFacts
    <3>4. n2 = i \/ n2 < i
      BY <1>8, <2>4
    <3> QED
      BY <2>3, <3>1, <3>2, <3>3, <3>4
  <2> QED
    BY <1>5, <1>7, <1>8, <2>4, <2>5, <2>6, <2>7, <2>8
<1>15. ASSUME NEW s \in lo .. H + n2 - 1 PROVE StatusOf(s) # "Empty"
  <2>1. n2 >= 1
    <3>1. block[bh].frag[0] # "Empty" /\ block[bh].frag[0] \in Status
      BY <1>0, <1>4, <1>5, <1>6, <1>10, BlockFacts
    <3>2. n2 = 0 => block[bh].frag[0] \notin T2
      BY <1>5, <1>9
    <3> QED
      BY <1>8, <3>1, <3>2
  <2>2. PICK i \in SlotIds : i = n2 - 1 /\ i < n2
    BY <1>5, <1>8, <2>1
  <2>3. PICK t \in lo .. hi - 1 : t = H + i /\ StatusOf(t) = block[bh].frag[i]
    BY <1>0, <1>7, <1>10, BlockHolds
  <2>4. StatusOf(t) # "Empty"
    BY <1>9, <2>2, <2>3
  <2>5. s = t \/ s < t
    BY <1>5, <2>2, <2>3
  <2>6. s \in lo .. hi - 1
    BY <1>10
  <2> QED
    BY <1>0, <2>4, <2>5, <2>6 DEF Written
<1> QED
  BY <1>10, <1>11, <1>13, <1>14, <1>15 DEF RangeGood

(* ... or, if none does, at the first empty block or behind all of them.     *)
LEMMA RangeWithoutData ==
  ASSUME BlocksOK, NEW lo \in Nat, NEW hi \in Nat, FlashHolds(lo, hi), Mine # {},
         \A b \in Mine : ~ MayContainData(b)
  PROVE  RangeGood(FindCircularRange, lo, hi)
<1>0. Layout(lo, hi) /\ Written(lo, hi) /\ hi < SeqMod
  BY DEF FlashHolds, Layout
<1>1. stored = {}
  BY StoredIsData
<1> DEFINE data == {b \in Mine : MayContainData(b)}
           empty == {b \in Mine : AllEmpty(b)}
<1>2. data = {}
  OBVIOUS
<1>3. ASSUME NEW b \in Mine
      PROVE  /\ block[b].first \in Nat /\ block[b].first >= lo
             /\ block[b].first + FragmentsPerBlock <= hi
  <2>1. 0 \in SlotIds
    BY Sizes DEF SlotIds
  <2> QED
    BY <1>0, <2>1, BlockHolds
<1>4. ASSUME NEW s \in lo .. hi - 1
      PROVE  \E c \in Mine, i \in SlotIds :
               /\ s = block[c].first + i /\ i \in Nat /\ i < FragmentsPerBlock
               /\ StatusOf(s) = block[c].frag[i]
  <2>1. PICK c \in Mine, i \in SlotIds : c = BlockOf(s) /\ i = SlotOf(s) /\ block[c].first + i = s
    BY <1>0, NumberHeld
  <2>2. i \in Nat /\ i < FragmentsPerBlock
    BY Sizes DEF SlotIds
  <2> QED
    BY <2>1, <2>2 DEF StatusOf
<1>5. CASE empty # {}
  <2>1. OneLap(empty) /\ empty \in SUBSET Mine
    BY <1>0, MineOneLap
  <2>2. PICK e \in empty : /\ Lowest(empty) = block[e].first
                           /\ \A c \in empty : block[e].first <= block[c].first
    <3> HIDE DEF empty
    <3> QED
      BY <1>5, <2>1, LowestOf
  <2>3. FindCircularRange = [start |-> Lowest(empty), end |-> Lowest(empty)]
    BY <1>2, <1>5 DEF FindCircularRange
  <2>4. PICK L \in Nat : L = block[e].first /\ L \in lo .. hi
    BY <1>3, Sizes
  <2>5. ASSUME NEW s \in lo .. L - 1 PROVE StatusOf(s) # "Empty"
    <3>1. s \in lo .. hi - 1
      BY <2>4
    <3>2. PICK c \in Mine, i \in SlotIds :
            s = block[c].first + i /\ i \in Nat /\ StatusOf(s) = block[c].frag[i]
      BY <1>4, <3>1
    <3>3. c \notin empty
      BY <1>3, <2>2, <2>4, <3>2
    <3> QED
      BY <1>0, <3>2, <3>3, BlockFacts
  <2> QED
    BY <1>1, <2>2, <2>3, <2>4, <2>5 DEF RangeGood
<1>6. CASE empty = {}
  <2>1. OneLap(Mine) /\ Mine \in SUBSET Mine
    BY <1>0, MineOneLap
  <2>2. PICK e \in Mine : /\ Highest(Mine) = block[e].first
                          /\ \A c \in Mine : block[e].first >= block[c].first
    BY <2>1, HighestOf
  <2>3. FindCircularRange = [start |-> Add(Highest(Mine), FragmentsPerBlock),
                             end |-> Add(Highest(Mine), FragmentsPerBlock)]
    BY <1>2, <1>6 DEF FindCircularRange
  <2>4. PICK H \in Nat : H = block[e].first /\ H >= lo /\ H + FragmentsPerBlock <= hi
    BY <1>3
  <2>5. H + FragmentsPerBlock = hi
    <3>1. hi - 1 \in lo .. hi - 1
      BY <2>4, Sizes
    <3>2. PICK c \in Mine, i \in SlotIds :
            hi - 1 = block[c].first + i /\ i \in Nat /\ i < FragmentsPerBlock
      BY <1>4, <3>1
    <3>3. PICK f \in Nat : f = block[c].first /\ f <= H
      BY <1>3, <2>2, <2>4
    <3>4. PICK p \in Nat, k \in Nat :
            p = FragmentsPerBlock /\ k = i /\ hi - 1 = f + k /\ k < p /\ H + p <= hi
      BY <2>4, <3>2, <3>3, Sizes
    <3>5. H + p = hi
      BY <3>3, <3>4
    <3> QED
      BY <3>4, <3>5
  <2>6. Add(H, FragmentsPerBlock) = hi
    BY <1>0, <2>5, AddInBuffer, Sizes
  <2>7. \A s \in lo .. hi - 1 : StatusOf(s) # "Empty"
    BY <1>0, <1>4, <1>6, BlockFacts
  <2>8. FindCircularRange = [start |-> hi, end |-> hi] /\ hi \in lo .. hi /\ hi <= hi
    BY <2>2, <2>3, <2>4, <2>6, Sizes
  <2> QED
    BY <1>1, <2>7, <2>8 DEF RangeGood
<1> QED
  BY <1>5, <1>6

(* If no block is in use, the buffer begins again. *)
LEMMA RangeOfNothing ==
  ASSUME BlocksOK, NEW lo \in Nat, NEW hi \in Nat, FlashHolds(lo, hi), Mine = {}
  PROVE  FindCircularRange = [start |-> 0, end |-> 0] /\ stored = {} /\ hi <= lo
<1>1. Layout(lo, hi)
  BY DEF FlashHolds
<1>2. stored = {}
  BY StoredIsData
<1>3. \A s \in lo .. hi - 1 : FALSE
  BY <1>1, NumberHeld
<1> QED
  BY <1>2, <1>3 DEF FindCircularRange

(* In both cases the range is a good one. *)
LEMMA RangeInUse ==
  ASSUME BlocksOK, NEW lo \in Nat, NEW hi \in Nat, FlashHolds(lo, hi), Mine # {}
  PROVE  RangeGood(FindCircularRange, lo, hi)
BY RangeOfData, RangeWithoutData

-----------------------------------------------------------------------------
(* What the invariant promises, and that it holds at first.                 *)

(* The items between two numbers of a buffer that has not wrapped. *)
LEMMA BetweenInterval ==
  ASSUME NEW a \in Nat, NEW b \in Nat, a <= b, b < SeqMod
  PROVE  Q!Between(a, b) = a .. b - 1 /\ QP!Between(a, b) = a .. b - 1
<1>1. a \in QP!SeqNo /\ b \in QP!SeqNo
  BY Sizes DEF QP!SeqNo
<1>2. QP!Between(a, b) = a .. b - 1
  BY <1>1, QP!BetweenPlain, QueueConstants DEF QP!QueueAssumption
<1> QED
  BY <1>2 DEF Q!Between, QP!Between, Q!Sub, QP!Sub, Q!SeqNo, QP!SeqNo

(* The indices of the queue, as numbers. *)
LEMMA Indices ==
  ASSUME Memory
  PROVE  /\ read_index_min \in Nat /\ read_index_next \in Nat /\ write_index \in Nat
         /\ write_index < SeqMod /\ read_index_min <= write_index
         /\ read_index_min <= read_index_next /\ read_index_next <= write_index
         /\ write_index - read_index_min <= FragmentCount
         /\ pending \subseteq read_index_min .. write_index - 1
<1>1. QP!IInv /\ QP!Ordered /\ QP!PendingKept
  BY DEF Memory, QP!OrderInv
<1>2. /\ read_index_min \in Int /\ read_index_next \in Int /\ write_index \in Int
      /\ 0 <= read_index_min /\ 0 <= read_index_next /\ 0 <= write_index /\ write_index < SeqMod
  BY <1>1, QP!Numbers, QueueConstants DEF QP!QueueAssumption
<1> QED
  BY <1>1, <1>2 DEF QP!Ordered, QP!PendingKept

(* Every stored item can be read, is queued, and is found after a restart.  *)
LEMMA Safe == StreamInv => StoredIsSafe
<1> SUFFICES ASSUME StreamInv PROVE StoredIsSafe
  OBVIOUS
<1>1. PICK lo \in Nat, hi \in Nat : FlashHolds(lo, hi)
  BY DEF StreamInv, Flash
<1>2. BlocksOK /\ Memory /\ Layout(lo, hi) /\ Stored(lo, hi) /\ hi < SeqMod
  BY <1>1 DEF StreamInv, FlashHolds, Layout
<1>3. StoredIsReadable
  <2> SUFFICES ASSUME NEW s \in stored PROVE Readable(s)
    BY DEF StoredIsReadable
  <2>1. s \in lo .. hi - 1 /\ StatusOf(s) = "Valid"
    BY <1>2 DEF Stored
  <2>2. s \in SeqNo
    BY <1>2, <2>1, NumberHeld
  <2> QED
    BY <1>2, <2>1, <2>2, Located DEF Readable
<1>4. StoredIsQueued
  <2>1. Q!Between(read_index_min, write_index) = read_index_min .. write_index - 1
    BY <1>2, Indices, BetweenInterval
  <2> QED
    BY <1>2, <2>1, Indices DEF StoredIsQueued, Memory
<1>5. StoredIsFound
  <2>1. CASE Mine = {}
    BY <1>1, <1>2, <2>1, RangeOfNothing DEF StoredIsFound
  <2>2. CASE Mine # {}
    <3>1. PICK a \in Nat, b \in Nat : /\ a = FindCircularRange.start /\ b = FindCircularRange.end
                                      /\ a <= b /\ b < SeqMod
                                      /\ \A s \in stored : a <= s /\ s < b
      BY <1>1, <1>2, <2>2, RangeInUse, Sizes DEF RangeGood
    <3>2. \A s \in stored : s \in Int
      BY <1>2 DEF Stored
    <3> QED
      BY <3>1, <3>2, BetweenInterval DEF StoredIsFound
  <2> QED
    BY <2>1, <2>2
<1> QED
  BY <1>3, <1>4, <1>5 DEF StoredIsSafe

(* A queue that was just restored. *)
LEMMA Restored == QP!Init /\ QP!Unwrapped => QP!IInv /\ QP!OrderInv
BY QP!Initial, QP!InitialOrder, QueueConstants DEF QP!QueueAssumption

(* A device that comes from the factory holds nothing. *)
LEMMA AtFirst == Init => StreamInv
<1> SUFFICES ASSUME Init PROVE StreamInv
  OBVIOUS
<1>1. BlocksOK
  BY DEF Init, BlocksOK, BlockType, Formatted, Status
<1>2. Mine = {}
  <2>1. \A b \in Blocks : block[b].first \in {Free, Foreign}
    BY DEF Init, Formatted
  <2>2. \A b \in Blocks : block[b].first \notin SeqNo
    BY <2>1, NoNumbers
  <2> QED
    BY <2>2 DEF Mine
<1>3. FindCircularRange = [start |-> 0, end |-> 0]
  BY <1>2 DEF FindCircularRange
<1>4. Q!Reinit(0, 0) /\ channel = <<>> /\ handles = {} /\ pc = "idle" /\ iter = 0 /\ result = "none"
  BY <1>3 DEF Init
<1>5. QP!Add(0, 0) = 0 /\ 0 \in QP!SeqNo /\ 0 \in 0 .. FragmentCount
  <2>1. Add(0, 0) = 0
    BY AddInBuffer, Sizes
  <2> QED
    BY <2>1, Sizes DEF Add, QP!Add, QP!SeqNo
<1>6. QP!Reinit(0, 0)
  BY <1>4 DEF Q!Reinit, QP!Reinit, Q!SlotOf, QP!SlotOf, Q!SlotIds, QP!SlotIds, Q!None, QP!None,
              Q!Between, QP!Between, Q!SeqNo, QP!SeqNo, Q!Sub, QP!Sub
<1>7. QP!Init
  BY <1>4, <1>5, <1>6 DEF QP!Init
<1>8. write_index = 0 /\ read_index_min = 0
  BY <1>6 DEF QP!Reinit
<1>9. QP!IInv /\ QP!OrderInv
  BY <1>7, <1>8, Restored DEF QP!Unwrapped
<1>10. Memory
  BY <1>9 DEF Memory, Init
<1>11. FlashHolds(0, 0)
  <2>1. 0 % FragmentsPerBlock = 0
    BY DivisionUnique, Sizes
  <2>2. Layout(0, 0)
    BY <1>2, <1>8, <2>1, Sizes DEF Layout, Aligned
  <2> QED
    BY <1>8, <2>2 DEF FlashHolds, Written, Stored, Init
<1> QED
  BY <1>1, <1>10, <1>11 DEF StreamInv, Flash

-----------------------------------------------------------------------------
(* The queue in memory takes the steps that QueueProofs is about.           *)

(* Enqueue is the enqueue of QueueProofs. *)
LEMMA SameEnqueue == Q!Enqueue => QP!Enqueue
BY DEF Q!Enqueue, QP!Enqueue, Q!NoneTooOld, QP!NoneTooOld, Q!MaxAge, QP!MaxAge, Q!SlotIds,
       QP!SlotIds, Q!None, QP!None, Q!Sub, QP!Sub, Q!UnconfirmedCount, QP!UnconfirmedCount,
       Q!readers, QP!readers, Q!Add, QP!Add, Q!BumpMinIndex, QP!BumpMinIndex, Q!NextMultiple,
       QP!NextMultiple, Q!Between, QP!Between, Q!SeqNo, QP!SeqNo

(* So are the beginnings and ends of the other calls, *)
LEMMA SameCalls ==
  /\ Q!PeekNext => QP!PeekNext
  /\ Q!FindReader => QP!FindReader
  /\ Q!IsDrained => QP!IsDrained
  /\ Q!IsDrainedReturn => QP!IsDrainedReturn
BY Zenon
DEF Q!PeekNext, QP!PeekNext, Q!FindReader, QP!FindReader, Q!IsDrained, QP!IsDrained,
       Q!IsDrainedReturn, QP!IsDrainedReturn, Q!UnconfirmedCount, QP!UnconfirmedCount, Q!Sub,
       QP!Sub, Q!readers, QP!readers, Q!Drained, QP!Drained, Q!SlotIds, QP!SlotIds, Q!IsInBounds,
       QP!IsInBounds

(* the answers that are processed, *)
LEMMA SameUpdates ==
  /\ Q!UpdateReaderSlots => QP!UpdateReaderSlots
  /\ Q!WaitConfirmation => QP!WaitConfirmation
BY DEF Q!UpdateReaderSlots, QP!UpdateReaderSlots, Q!WaitConfirmation, QP!WaitConfirmation,
       Q!Update, QP!Update, Q!Expected, QP!Expected, Q!SlotOf, QP!SlotOf, Q!None, QP!None,
       Q!Busy, QP!Busy, Q!Abort, QP!Abort

(* the steps of find_reader, *)
LEMMA SameFind == Q!Find => QP!Find
<1>1. Q!FindBusy => QP!FindBusy
  BY DEF Q!FindBusy, QP!FindBusy, Q!PeekDone, QP!PeekDone, Q!readers, QP!readers
<1>2. Q!FindNone => QP!FindNone
  BY DEF Q!FindNone, QP!FindNone, Q!None, QP!None, Q!IncSlotIndex, QP!IncSlotIndex, Q!Add,
         QP!Add, Q!Continue, QP!Continue, Q!PeekDone, QP!PeekDone, Q!SlotOf, QP!SlotOf,
         Q!HandOut, QP!HandOut, Q!Busy, QP!Busy
<1>3. Q!FindAbort => QP!FindAbort
  BY DEF Q!FindAbort, QP!FindAbort, Q!IncSlotIndex, QP!IncSlotIndex, Q!HandOut, QP!HandOut,
         Q!Continue, QP!Continue, Q!PeekDone, QP!PeekDone, Q!IsInBounds, QP!IsInBounds, Q!Sub,
         QP!Sub, Q!None, QP!None, Q!Busy, QP!Busy
<1> QED
  BY <1>1, <1>2, <1>3 DEF Q!Find, QP!Find

(* and the answers of the handles. *)
LEMMA SameAnswers ==
  ASSUME NEW s
  PROVE  (Q!Confirm(s) => QP!Confirm(s)) /\ (Q!Drop(s) => QP!Drop(s))
BY DEF Q!Confirm, QP!Confirm, Q!Drop, QP!Drop, Q!Send, QP!Send, Q!readers, QP!readers

(* A step of the queue, or none. *)
QueueStep ==
  \/ Q!Enqueue \/ Q!PeekNext \/ Q!FindReader \/ Q!Find \/ Q!IsDrained \/ Q!IsDrainedReturn
  \/ Q!UpdateReaderSlots \/ Q!WaitConfirmation
  \/ \E s \in handles : Q!Confirm(s) \/ Q!Drop(s)
  \/ UNCHANGED queue

(* Before the wrap it keeps the invariant of the queue. *)
LEMMA QueueKept ==
  ASSUME QP!IInv, QP!OrderInv, QueueStep
  PROVE  QP!IInv' /\ (QP!Unwrapped' => QP!OrderInv')
<1>1. QP!Next \/ UNCHANGED QP!vars
  <2>1. ASSUME UNCHANGED queue PROVE UNCHANGED QP!vars
    BY <2>1 DEF queue, QP!vars, QP!readers
  <2> QED
    BY <2>1, SameEnqueue, SameCalls, SameUpdates, SameFind, SameAnswers
    DEF QueueStep, QP!Next, QP!Owner
<1>2. QP!IInv'
  BY <1>1, QP!OwnerSteps, QP!HandleSteps, QP!Stuttering, QueueConstants DEF QP!QueueAssumption, QP!Next
<1>3. ASSUME QP!Unwrapped' PROVE QP!OrderInv'
  BY <1>1, <1>2, <1>3, QP!OrderSteps, QueueConstants DEF QP!QueueAssumption
<1> QED
  BY <1>2, <1>3

-----------------------------------------------------------------------------
(* Steps that leave the flash alone.                                        *)

(* Items may be confirmed meanwhile. *)
LEMMA FlashUnchanged ==
  ASSUME BlocksOK, UNCHANGED <<block, write_index>>, stored' \subseteq stored
  PROVE  BlocksOK' /\ (Flash => Flash')
<1>1. BlocksOK'
  BY DEF BlocksOK
<1>2. ASSUME NEW lo \in Nat, NEW hi \in Nat, FlashHolds(lo, hi) PROVE FlashHolds(lo, hi)'
  <2>1. Layout(lo, hi)' /\ Written(lo, hi)'
    BY <1>2 DEF FlashHolds, Layout, Mine, Written, StatusOf
  <2>2. Stored(lo, hi)'
    BY <1>2 DEF FlashHolds, Stored, StatusOf
  <2> QED
    BY <2>1, <2>2 DEF FlashHolds
<1>3. ASSUME Flash PROVE Flash'
  <2>1. PICK lo \in Nat, hi \in Nat : FlashHolds(lo, hi)
    BY <1>3 DEF Flash
  <2>2. FlashHolds(lo, hi)'
    BY <1>2, <2>1
  <2> QED
    BY <2>2 DEF Flash
<1> QED
  BY <1>1, <1>3

(* A fragment that is written or deleted changes its own cell only. *)
LEMMA CellChanges ==
  ASSUME BlocksOK, NEW lo \in Nat, NEW hi \in Nat, Layout(lo, hi), NEW s \in lo .. hi - 1,
         NEW st \in Status, block' = SetStatus(s, st)
  PROVE  /\ BlocksOK' /\ Mine' = Mine
         /\ \A b \in Blocks : block'[b].first = block[b].first
         /\ \A t \in lo .. hi - 1 : StatusOf(t)' = IF t = s THEN st ELSE StatusOf(t)
<1>1. s \in Nat /\ BlockOf(s) \in Blocks /\ SlotOf(s) \in SlotIds
  BY CellOf
<1>2. PICK c \in Blocks, k \in SlotIds : c = BlockOf(s) /\ k = SlotOf(s)
  BY <1>1
<1>3. block' = [block EXCEPT ![c].frag[k] = st]
  BY <1>2 DEF SetStatus
<1>4. block \in [Blocks -> BlockType]
  BY DEF BlocksOK
<1>5. /\ \A b \in Blocks : block'[b].first = block[b].first
      /\ \A b \in Blocks, i \in SlotIds :
           block'[b].frag[i] = IF b = c /\ i = k THEN st ELSE block[b].frag[i]
      /\ BlocksOK'
  <2>1. block[c] \in [first : SeqNo \cup {Free, Foreign}, frag : [SlotIds -> Status]]
    BY <1>4 DEF BlockType
  <2>2. block[c].frag \in [SlotIds -> Status] /\ block[c].first \in SeqNo \cup {Free, Foreign}
    BY <2>1
  <2>3. block' = [block EXCEPT ![c] = [block[c] EXCEPT !.frag = [block[c].frag EXCEPT ![k] = st]]]
    BY <1>3
  <2>4. PICK v : v = [block[c] EXCEPT !.frag = [block[c].frag EXCEPT ![k] = st]]
    OBVIOUS
  <2>5. v.first = block[c].first /\ v.frag = [block[c].frag EXCEPT ![k] = st] /\ v \in BlockType
    BY <2>1, <2>2, <2>4 DEF BlockType
  <2>6. \A b \in Blocks : block'[b] = IF b = c THEN v ELSE block[b]
    BY <1>4, <2>3, <2>4
  <2>7. BlocksOK'
    BY <1>4, <2>3, <2>4, <2>5 DEF BlocksOK
  <2> QED
    BY <2>2, <2>5, <2>6, <2>7
<1>6. Mine' = Mine
  BY <1>5 DEF Mine
<1>7. ASSUME NEW t \in lo .. hi - 1 PROVE StatusOf(t)' = IF t = s THEN st ELSE StatusOf(t)
  <2>1. t \in Nat /\ BlockOf(t) \in Blocks /\ SlotOf(t) \in SlotIds
    BY CellOf
  <2>2. StatusOf(t)' = block'[BlockOf(t)].frag[SlotOf(t)]
    BY DEF StatusOf
  <2>3. BlockOf(t) = c /\ SlotOf(t) = k => t = s
    <3>1. hi - lo <= FragmentCount
      BY DEF Layout
    <3>2. ~ (BlockOf(t) = c /\ SlotOf(t) = k /\ t < s)
      BY <1>1, <1>2, <2>1, <3>1, CellsApart, Sizes
    <3>3. ~ (BlockOf(t) = c /\ SlotOf(t) = k /\ s < t)
      BY <1>1, <1>2, <2>1, <3>1, CellsApart, Sizes
    <3> QED
      BY <1>1, <2>1, <3>2, <3>3
  <2> QED
    BY <1>2, <1>5, <2>1, <2>2, <2>3 DEF StatusOf
<1> QED
  BY <1>5, <1>6, <1>7

(* ... and keeps the flash in order, if it is not beyond the next item to   *)
(* be written, and not among the stored items if it is deleted.             *)
LEMMA FragmentStep ==
  ASSUME BlocksOK, NEW lo \in Nat, NEW hi \in Nat, FlashHolds(lo, hi), NEW s \in lo .. hi - 1,
         s <= write_index, NEW st \in Status \ {"Empty"}, block' = SetStatus(s, st),
         write_index' \in {write_index, s + 1},
         \A x \in stored' : \/ x \in stored /\ x # s /\ (x < s => st # "Obsolete")
                            \/ x = s /\ st = "Valid" /\ \A t \in s + 1 .. hi - 1 : StatusOf(t) # "Obsolete"
  PROVE  BlocksOK' /\ FlashHolds(lo, hi)'
<1>0. Layout(lo, hi) /\ Written(lo, hi) /\ Stored(lo, hi)
  BY DEF FlashHolds
<1>1. /\ BlocksOK' /\ Mine' = Mine
      /\ \A b \in Blocks : block'[b].first = block[b].first
      /\ \A t \in lo .. hi - 1 : StatusOf(t)' = IF t = s THEN st ELSE StatusOf(t)
  BY <1>0, CellChanges
<1>2. Layout(lo, hi)'
  <2>1. write_index' \in lo .. hi
    BY <1>0 DEF Layout
  <2>2. \A t \in lo .. hi - 1 : BlockOf(t) \in Blocks
    BY CellOf
  <2>3. \A t \in lo .. hi - 1 : block'[BlockOf(t)].first = t - SlotOf(t)
    BY <1>0, <1>1, <2>2 DEF Layout
  <2>4. \A b \in Mine : b \in Blocks
    BY DEF Mine
  <2>5. \A b \in Mine' : /\ SlotOf(block'[b].first) = 0 /\ BlockOf(block'[b].first) = b
                         /\ block'[b].first \in lo .. hi - 1
    BY <1>0, <1>1, <2>4 DEF Layout
  <2> QED
    BY <1>0, <2>1, <2>3, <2>5 DEF Layout
<1>3. write_index \in Int /\ write_index \in lo .. hi
  BY <1>0 DEF Layout
<1>4. \A t \in lo .. s - 1 : t \in lo .. write_index - 1
  BY <1>3
<1>5. Written(lo, hi)'
  <2>1. ASSUME NEW a \in lo .. hi - 1, NEW b \in lo .. hi - 1, a < b, StatusOf(b)' # "Empty"
        PROVE  StatusOf(a)' # "Empty"
    <3>1. CASE b = s
      BY <1>0, <1>1, <1>4, <2>1, <3>1 DEF Written
    <3>2. CASE b # s
      BY <1>0, <1>1, <2>1, <3>2 DEF Written
    <3> QED
      BY <3>1, <3>2
  <2>2. ASSUME NEW a \in lo .. write_index' - 1 PROVE StatusOf(a)' # "Empty"
    <3>1. a \in lo .. hi - 1 /\ (a = s \/ a \in lo .. write_index - 1)
      BY <1>2, <1>3 DEF Layout
    <3> QED
      BY <1>0, <1>1, <3>1 DEF Written
  <2> QED
    BY <2>1, <2>2 DEF Written
<1>6. Stored(lo, hi)'
  <2> SUFFICES ASSUME NEW x \in stored'
               PROVE  /\ x \in lo .. hi - 1 /\ StatusOf(x)' = "Valid"
                      /\ \A t \in x + 1 .. hi - 1 : StatusOf(t)' # "Obsolete"
    BY DEF Stored
  <2>1. CASE x \in stored /\ x # s /\ (x < s => st # "Obsolete")
    <3>1. x \in lo .. hi - 1 /\ StatusOf(x) = "Valid"
      BY <1>0, <2>1 DEF Stored
    <3>2. ASSUME NEW t \in x + 1 .. hi - 1 PROVE StatusOf(t)' # "Obsolete"
      <4>1. t \in lo .. hi - 1 /\ x < t
        BY <3>1
      <4>2. StatusOf(t) # "Obsolete"
        BY <1>0, <2>1 DEF Stored
      <4> QED
        BY <1>1, <2>1, <4>1, <4>2
    <3> QED
      BY <1>1, <2>1, <3>1, <3>2
  <2>2. CASE x = s /\ st = "Valid" /\ \A t \in s + 1 .. hi - 1 : StatusOf(t) # "Obsolete"
    <3>1. ASSUME NEW t \in s + 1 .. hi - 1 PROVE StatusOf(t)' # "Obsolete"
      <4>1. t \in lo .. hi - 1
        OBVIOUS
      <4> QED
        BY <1>1, <2>2, <4>1
    <3> QED
      BY <1>1, <2>2, <3>1
  <2> QED
    BY <2>1, <2>2
<1> QED
  BY <1>1, <1>2, <1>5, <1>6 DEF FlashHolds

-----------------------------------------------------------------------------
(* Formatting the block of the next item.                                   *)

(* A lap later, a fragment is in the same block. *)
LEMMA NextLap ==
  ASSUME NEW s \in Nat
  PROVE  s + FragmentCount \in Nat /\ BlockOf(s + FragmentCount) = BlockOf(s)
<1>1. PICK n \in Nat \ {0} : n = FragmentCount
  BY Sizes
<1>2. PICK q \in Int, r \in 0 .. n - 1 : r = s % n /\ s = n * q + r
  BY ZenonT(30), DivisionNat
<1>3. PICK d \in Int, k \in Int : d = s + n /\ k = q + 1
  OBVIOUS
<1>4. n * k = n * q + n
  BY <1>3
<1>5. d = n * k + r
  BY <1>2, <1>3, <1>4
<1>6. d % n = r
  BY <1>5, DivisionUnique
<1> QED
  BY <1>1, <1>2, <1>3, <1>6 DEF BlockOf

(* The block after the one a lap before. *)
LEMMA LapStart ==
  ASSUME NEW a \in Nat, Aligned(a), a + FragmentsPerBlock >= FragmentCount
  PROVE  Aligned(a + FragmentsPerBlock - FragmentCount)
<1>1. PICK p \in Nat \ {0}, b \in Nat, n \in Nat : p = FragmentsPerBlock /\ n = FragmentCount /\ n = p * b
  BY Sizes
<1>2. PICK q \in Int, r \in 0 .. p - 1 : r = a % p /\ a = p * q + r
  BY ZenonT(30), DivisionNat
<1>3. r = 0
  BY <1>1, <1>2 DEF Aligned
<1>4. PICK d \in Int, k \in Int : d = a + p - n /\ k = q + 1 - b
  OBVIOUS
<1>5. p * k = p * q + p - p * b
  BY <1>4
<1>6. d = p * k + r
  BY <1>1, <1>2, <1>3, <1>4, <1>5
<1>7. d % p = 0
  BY <1>3, <1>6, DivisionUnique
<1> QED
  BY <1>1, <1>4, <1>7 DEF Aligned

(* What remains when the block behind the buffer is erased: the numbers     *)
(* from Rest on, which are in other blocks.                                 *)
Rest(lo, hi) ==
  IF hi + FragmentsPerBlock - FragmentCount > lo THEN hi + FragmentsPerBlock - FragmentCount ELSE lo

(* The rest is aligned, leaves room for a block, and is all that other blocks hold. *)
LEMMA RestOf ==
  ASSUME BlocksOK, NEW lo \in Nat, NEW hi \in Nat, Layout(lo, hi)
  PROVE  /\ Rest(lo, hi) \in Nat /\ lo <= Rest(lo, hi) /\ Rest(lo, hi) <= hi /\ Aligned(Rest(lo, hi))
         /\ hi + FragmentsPerBlock - Rest(lo, hi) <= FragmentCount
         /\ \A s \in Rest(lo, hi) .. hi - 1 : BlockOf(s) # BlockOf(hi)
         /\ \A s \in lo .. hi - 1 : BlockOf(s) # BlockOf(hi) => s >= Rest(lo, hi)
<1>1. PICK n \in Nat, p \in Nat \ {0} : n = FragmentCount /\ p = FragmentsPerBlock /\ p <= n
  BY Sizes
<1>2. Aligned(lo) /\ Aligned(hi) /\ hi - lo <= n /\ lo <= hi
  BY <1>1 DEF Layout
<1>3. PICK r \in Nat : /\ r = Rest(lo, hi) /\ lo <= r /\ r <= hi /\ hi + p - r <= n
                       /\ r # lo => r = hi + p - n
  BY <1>1, <1>2 DEF Rest
<1>4. Aligned(r)
  <2>1. CASE r = lo
    BY <1>2, <2>1
  <2>2. CASE r # lo
    <3>1. Aligned(hi + p - n)
      BY <1>1, <1>2, <1>3, <2>2, LapStart
    <3> QED
      BY <1>3, <2>2, <3>1
  <2> QED
    BY <2>1, <2>2
<1>5. ASSUME NEW s \in r .. hi - 1, BlockOf(s) = BlockOf(hi) PROVE FALSE
  <2>1. s \in Nat /\ hi - n <= s /\ s < hi
    BY <1>1, <1>2, <1>3
  <2>2. s < hi - n + p
    BY <1>1, <1>2, <1>5, <2>1, LapBefore
  <2> QED
    BY <1>1, <1>3, <2>1, <2>2
<1>6. ASSUME NEW s \in lo .. hi - 1, BlockOf(s) # BlockOf(hi) PROVE s >= r
  <2> SUFFICES ASSUME s < r PROVE FALSE
    BY <1>3
  <2>1. PICK z \in Nat : z = s - SlotOf(s) /\ Aligned(z) /\ BlockOf(z) = BlockOf(s) /\ z <= s
    <3>1. s \in Nat
      OBVIOUS
    <3> QED
      BY <3>1, BaseOf
  <2>2. z >= lo
    <3>1. BlockOf(s) \in Mine /\ block[BlockOf(s)].first = z
      BY <2>1, NumberHeld DEF Layout
    <3> QED
      BY <3>1 DEF Layout
  <2>3. r = hi + p - n /\ z < r
    BY <1>3, <2>1
  <2>4. z + p <= r
    BY <1>1, <1>4, <2>1, <2>3, AlignedApart
  <2>5. z + n = hi
    BY <1>1, <1>2, <2>2, <2>3, <2>4
  <2> QED
    BY <1>1, <1>6, <2>1, <2>5, NextLap
<1> QED
  BY <1>1, <1>3, <1>4, <1>5, <1>6

(* The block behind the buffer is erased, or formatted for the numbers that  *)
(* follow: the flash stays in order.                                         *)
LEMMA FormatStep ==
  ASSUME BlocksOK, NEW lo \in Nat, NEW hi \in Nat, FlashHolds(lo, hi), Young, write_index = hi,
         NEW v \in {Formatted(Free), Formatted(hi)}, block' = SetBlock(hi, v),
         write_index' = write_index, stored' = {s \in stored : BlockOf(s) # BlockOf(hi)}
  PROVE  BlocksOK' /\ Flash'
<1>0. /\ Layout(lo, hi) /\ Written(lo, hi) /\ Stored(lo, hi) /\ Aligned(hi) /\ hi \in SeqNo
      /\ \A b \in Mine : b \in Blocks
  BY Sizes DEF FlashHolds, Layout, SeqNo, Mine
<1>1. PICK r \in Nat : /\ r = Rest(lo, hi) /\ lo <= r /\ r <= hi /\ Aligned(r)
                       /\ hi + FragmentsPerBlock - r <= FragmentCount
                       /\ \A s \in r .. hi - 1 : BlockOf(s) # BlockOf(hi)
                       /\ \A s \in lo .. hi - 1 : BlockOf(s) # BlockOf(hi) => s >= r
  BY <1>0, RestOf
<1>2. PICK c \in Blocks : c = BlockOf(hi)
  BY CellOf
<1>3. /\ v.first \in {Free, hi} /\ v \in BlockType
      /\ \A i \in SlotIds : v.frag[i] = "Empty"
  BY <1>0 DEF Formatted, BlockType, Status
<1>4. /\ \A b \in Blocks : block'[b] = IF b = c THEN v ELSE block[b]
      /\ BlocksOK'
  BY <1>2, <1>3 DEF BlocksOK, SetBlock
<1>5. ASSUME NEW s \in r .. hi - 1
      PROVE  /\ s \in lo .. hi - 1 /\ StatusOf(s)' = StatusOf(s)
             /\ block'[BlockOf(s)].first = s - SlotOf(s)
  <2>1. s \in lo .. hi - 1 /\ BlockOf(s) # c
    BY <1>1, <1>2
  <2>2. BlockOf(s) \in Blocks /\ block[BlockOf(s)].first = s - SlotOf(s)
    BY <1>0, <2>1, CellOf DEF Layout
  <2>3. block'[BlockOf(s)] = block[BlockOf(s)]
    BY <1>4, <2>1, <2>2
  <2> QED
    BY <2>1, <2>2, <2>3 DEF StatusOf
<1>6. PICK p \in Nat \ {0}, n \in Nat : /\ p = FragmentsPerBlock /\ n = FragmentCount
                                        /\ SeqMod \in Nat /\ hi + p < SeqMod
                                        /\ \A i \in Int : i \in SlotIds <=> 0 <= i /\ i < p
  BY Sizes DEF Young, SlotIds
<1>7. PICK h2 \in Nat : h2 = IF v.first = hi THEN hi + p ELSE hi
  BY <1>6
<1>8. Aligned(h2) /\ hi <= h2 /\ h2 <= hi + p
  BY <1>0, <1>6, <1>7, NextAligned
<1>9. ASSUME NEW s \in hi .. h2 - 1
      PROVE  /\ StatusOf(s)' = "Empty" /\ v.first = hi
             /\ block'[BlockOf(s)].first = s - SlotOf(s)
  <2>1. v.first = hi /\ h2 = hi + p
    BY <1>7
  <2>2. PICK i \in SlotIds : i = s - hi /\ s = hi + i /\ i \in Nat
    BY <1>6, <2>1
  <2>3. BlockOf(s) = c /\ SlotOf(s) = i
    BY <1>0, <1>2, <2>2, InBlock
  <2>4. block'[c] = v
    BY <1>4
  <2>5. StatusOf(s)' = "Empty"
    BY <1>3, <2>3, <2>4 DEF StatusOf
  <2>6. block'[BlockOf(s)].first = hi /\ s - SlotOf(s) = hi
    BY <2>1, <2>2, <2>3, <2>4
  <2> QED
    BY <2>1, <2>5, <2>6
<1>10. \A s \in r .. h2 - 1 : s \in r .. hi - 1 \/ s \in hi .. h2 - 1
  BY <1>1, <1>8
<1>11. Layout(r, h2)'
  <2>1. \A s \in r .. h2 - 1 : block'[BlockOf(s)].first = s - SlotOf(s)
    BY <1>5, <1>9, <1>10
  <2>2. ASSUME NEW b \in Mine'
        PROVE  /\ SlotOf(block'[b].first) = 0 /\ BlockOf(block'[b].first) = b
               /\ block'[b].first \in r .. h2 - 1
    <3>1. b \in Blocks /\ block'[b].first \in SeqNo
      BY DEF Mine
    <3>2. CASE b = c
      <4>1. block'[b].first = hi
        BY <1>3, <1>4, <3>1, <3>2, NoNumbers
      <4>2. h2 = hi + p
        BY <1>4, <1>7, <3>2, <4>1
      <4> QED
        BY <1>0, <1>1, <1>2, <1>6, <3>2, <4>1, <4>2 DEF SlotOf, Aligned
    <3>3. CASE b # c
      <4>1. block'[b] = block[b]
        BY <1>4, <3>1, <3>3
      <4>2. b \in Mine
        BY <3>1, <4>1 DEF Mine
      <4>3. /\ SlotOf(block[b].first) = 0 /\ BlockOf(block[b].first) = b
            /\ block[b].first \in lo .. hi - 1
        BY <1>0, <4>2 DEF Layout
      <4>4. block[b].first >= r
        BY <1>1, <1>2, <3>3, <4>3
      <4> QED
        BY <1>8, <4>1, <4>3, <4>4
    <3> QED
      BY <3>2, <3>3
  <2>3. h2 - r <= FragmentCount /\ h2 < SeqMod /\ write_index' \in r .. h2
    BY <1>1, <1>6, <1>8
  <2> QED
    BY <1>1, <1>8, <2>1, <2>2, <2>3 DEF Layout
<1>12. Written(r, h2)'
  <2>1. ASSUME NEW a \in r .. h2 - 1, NEW b \in r .. h2 - 1, a < b, StatusOf(b)' # "Empty"
        PROVE  StatusOf(a)' # "Empty"
    <3>1. b \in r .. hi - 1 /\ a \in r .. hi - 1
      BY <1>9, <1>10, <2>1
    <3>2. StatusOf(b) # "Empty" /\ a \in lo .. hi - 1 /\ b \in lo .. hi - 1
      BY <1>5, <2>1, <3>1
    <3> QED
      BY <1>0, <1>5, <2>1, <3>1, <3>2 DEF Written
  <2>2. ASSUME NEW a \in r .. write_index' - 1 PROVE StatusOf(a)' # "Empty"
    <3>1. a \in r .. hi - 1 /\ a \in lo .. write_index - 1
      BY <1>1
    <3> QED
      BY <1>0, <1>5, <3>1 DEF Written
  <2> QED
    BY <2>1, <2>2 DEF Written
<1>13. Stored(r, h2)'
  <2> SUFFICES ASSUME NEW x \in stored'
               PROVE  /\ x \in r .. h2 - 1 /\ StatusOf(x)' = "Valid"
                      /\ \A t \in x + 1 .. h2 - 1 : StatusOf(t)' # "Obsolete"
    BY DEF Stored
  <2>1. /\ x \in lo .. hi - 1 /\ StatusOf(x) = "Valid" /\ BlockOf(x) # BlockOf(hi)
        /\ \A t \in x + 1 .. hi - 1 : StatusOf(t) # "Obsolete"
    BY <1>0 DEF Stored
  <2>2. x \in r .. hi - 1
    BY <1>1, <2>1
  <2>3. ASSUME NEW t \in x + 1 .. h2 - 1 PROVE StatusOf(t)' # "Obsolete"
    <3>1. t \in r .. h2 - 1 /\ x < t
      BY <2>2
    <3>2. CASE t \in r .. hi - 1
      BY <1>5, <2>1, <2>2, <3>1, <3>2
    <3>3. CASE t \in hi .. h2 - 1
      BY <1>9, <3>3
    <3> QED
      BY <1>10, <3>1, <3>2, <3>3
  <2> QED
    BY <1>5, <1>8, <2>1, <2>2, <2>3
<1>14. FlashHolds(r, h2)'
  BY <1>11, <1>12, <1>13 DEF FlashHolds
<1> QED
  BY <1>4, <1>14 DEF Flash

-----------------------------------------------------------------------------
(* Enqueue.                                                                 *)

(* The rounding of enqueue does not leave the block. *)
LEMMA RoundedUp ==
  ASSUME NEW n \in Nat, NEW h \in Nat, Aligned(h), n <= h, h < SeqMod
  PROVE  QP!NextMultiple(n) \in n .. h
<1>1. PICK g \in Nat \ {0} : g = FragmentsPerBlock
  BY Sizes
<1>2. PICK a \in Int, q \in Int, r \in 0 .. g - 1 :
        a = n + g - 1 /\ q = a \div g /\ a = g * q + r
  <2>1. PICK a \in Int : a = n + g - 1
    BY <1>1
  <2> QED
    BY <2>1, Division
<1>3. PICK e \in Int, f \in 0 .. g - 1 : f = h % g /\ h = g * e + f
  BY ZenonT(30), DivisionNat
<1>4. PICK x \in Int, y \in Int : x = g * q /\ x = q * g /\ y = g * e
  OBVIOUS
<1>5. h = y /\ a = x + r
  BY <1>1, <1>2, <1>3, <1>4 DEF Aligned
<1>6. x >= n /\ x <= n + g - 1
  BY <1>2, <1>5
<1>7. q > e => x - y >= g
  BY <1>4, Apart
<1>8. q <= e => x <= y
  BY <1>4
<1>9. x \in n .. h
  BY <1>5, <1>6, <1>7, <1>8
<1>10. QP!NextMultiple(n) = IF x < SeqMod THEN x ELSE 0
  BY <1>1, <1>2, <1>4 DEF QP!NextMultiple
<1> QED
  BY <1>9, <1>10, Sizes

(* An item that is enqueued gets the next number, and the queue gives up no *)
(* more than what the buffer does not hold.                                 *)
LEMMA EnqueuePlain ==
  ASSUME Memory, Young, NEW lo \in Nat, NEW hi \in Nat, Layout(lo, hi), write_index < hi, Q!Enqueue
  PROVE  /\ write_index' = write_index + 1 /\ result' = "enqueued"
         /\ read_index_min' \in Nat /\ (read_index_min' <= lo \/ read_index_min' = read_index_min)
         /\ QP!IInv' /\ QP!OrderInv'
         /\ pending' = (pending \cup {write_index}) \cap (read_index_min' .. write_index)
<1>1. QP!Enqueue /\ QP!IInv /\ QP!Ordered /\ QP!OrderInv
  BY SameEnqueue DEF Memory, QP!OrderInv
<1>2. QP!IInv' /\ (QP!Unwrapped' => QP!OrderInv')
  BY <1>1, QueueKept DEF QueueStep
<1>3. PICK w \in Nat, m \in Nat, n \in Nat, p \in Nat :
        /\ w = write_index /\ m = read_index_min /\ n = FragmentCount /\ p = FragmentsPerBlock
        /\ m <= w /\ w - m <= n /\ w + 1 < SeqMod /\ SeqMod \in Nat /\ 1 <= p /\ p <= n
        /\ 2 * n < SeqMod /\ w + 1 <= hi /\ hi - lo <= n /\ Aligned(hi) /\ hi < SeqMod /\ lo <= w
  BY Indices, Sizes DEF Young, Layout
<1>4. QP!Sub(w, m) = w - m /\ QP!Sub(w + 1, m) = w + 1 - m
  <2>1. w \in QP!SeqNo /\ m \in QP!SeqNo /\ w + 1 \in QP!SeqNo
    BY <1>3 DEF QP!SeqNo
  <2> QED
    BY <1>3, <2>1, QP!SubPlain, QueueConstants DEF QP!QueueAssumption
<1>5. Add(w, 1) = w + 1
  BY <1>3, AddInBuffer
<1>6. QP!UnconfirmedCount # SeqMod - 1
  BY <1>3, <1>4 DEF QP!UnconfirmedCount
<1>7. /\ write_index' = w + 1 /\ result' = "enqueued"
      /\ IF QP!Sub(w + 1, m) > n
           THEN read_index_min' = QP!Sub(QP!NextMultiple(w + 1), n)
           ELSE read_index_min' = m
  BY <1>1, <1>3, <1>5, <1>6 DEF QP!Enqueue, QP!Add, Add, QP!BumpMinIndex
<1>8. read_index_min' \in Nat /\ (read_index_min' <= lo \/ read_index_min' = m)
  <2>1. CASE QP!Sub(w + 1, m) > n
    <3>1. PICK x \in Nat : x = QP!NextMultiple(w + 1) /\ w + 1 <= x /\ x <= hi
      BY <1>3, RoundedUp
    <3>2. x \in QP!SeqNo /\ n \in QP!SeqNo /\ n <= x
      BY <1>3, <1>4, <2>1, <3>1 DEF QP!SeqNo
    <3>3. QP!Sub(x, n) = x - n
      BY <1>3, <3>2, QP!SubPlain, QueueConstants DEF QP!QueueAssumption
    <3> QED
      BY <1>3, <1>7, <2>1, <3>1, <3>2, <3>3
  <2>2. CASE ~ (QP!Sub(w + 1, m) > n)
    BY <1>3, <1>7, <2>2
  <2> QED
    BY <2>1, <2>2
<1>9. QP!Unwrapped'
  BY <1>3, <1>7, <1>8 DEF QP!Unwrapped
<1>10. pending' = (pending \cup {write_index}) \cap (read_index_min' .. write_index)
  BY <1>1, <1>2, <1>7, <1>9, QP!EnqueueIndices, QueueConstants DEF QP!QueueAssumption
<1> QED
  BY <1>2, <1>3, <1>7, <1>8, <1>9, <1>10

(* So every stored item, and the new one, is waited for. *)
LEMMA EnqueueMemory ==
  ASSUME Memory, Young, NEW lo \in Nat, NEW hi \in Nat, FlashHolds(lo, hi), write_index < hi, Q!Enqueue,
         stored' \subseteq stored \cup {write_index}, call' = "none"
  PROVE  Memory' /\ write_index' = write_index + 1 /\ result' = "enqueued"
<1>1. Layout(lo, hi) /\ Stored(lo, hi) /\ lo <= write_index
  BY DEF FlashHolds, Layout
<1>2. /\ write_index' = write_index + 1 /\ result' = "enqueued"
      /\ read_index_min' \in Nat /\ (read_index_min' <= lo \/ read_index_min' = read_index_min)
      /\ QP!IInv' /\ QP!OrderInv'
      /\ pending' = (pending \cup {write_index}) \cap (read_index_min' .. write_index)
  BY <1>1, EnqueuePlain
<1>3. ASSUME NEW s \in stored' PROVE s \in pending'
  <2>1. CASE s \in stored
    <3>1. s \in pending /\ s \in lo .. hi - 1 /\ s \in read_index_min .. write_index - 1
      BY <1>1, <2>1, Indices DEF Memory, Stored
    <3> QED
      BY <1>2, <3>1, Indices
  <2>2. CASE s = write_index
    BY <1>1, <1>2, <2>2, Indices
  <2> QED
    BY <2>1, <2>2
<1> QED
  BY <1>2, <1>3 DEF Memory

-----------------------------------------------------------------------------
(* The steps.                                                               *)

(* The next item is in the buffer, or goes to the block behind it. *)
LEMMA NextItem ==
  ASSUME BlocksOK, Memory, NEW lo \in Nat, NEW hi \in Nat, Layout(lo, hi)
  PROVE  /\ write_index \in SeqNo /\ write_index \in Nat /\ lo <= write_index /\ write_index <= hi
         /\ FindBlock(write_index) = "Found" <=> write_index < hi
         /\ write_index = hi => SlotOf(write_index) = 0
<1>1. write_index \in SeqNo /\ write_index \in Nat
  BY Indices, Sizes DEF SeqNo
<1>2. lo <= write_index /\ write_index <= hi
  BY DEF Layout
<1>3. FindBlock(write_index) = "Found" <=> write_index \in lo .. hi - 1
  BY <1>1, Located
<1> QED
  BY <1>1, <1>2, <1>3 DEF Layout, Aligned, SlotOf

(* The memory, when the queue takes a step that adds no item. *)
LEMMA MemoryKept ==
  ASSUME Memory, QueueStep, read_index_min' \in Nat, read_index_min' <= write_index',
         stored' \subseteq pending',
         call' \in {"peek", "cleanup"} => oldest' \in Nat /\ oldest' <= read_index_min'
  PROVE  Memory'
<1>1. QP!IInv' /\ QP!OrderInv'
  BY QueueKept DEF Memory, QP!Unwrapped
<1> QED
  BY <1>1 DEF Memory

(* Only the next number to be written changes. *)
LEMMA IndexMoves ==
  ASSUME BlocksOK, NEW lo \in Nat, NEW hi \in Nat, FlashHolds(lo, hi), block' = block,
         stored' \subseteq stored, write_index' \in lo .. hi,
         \A s \in lo .. write_index' - 1 : StatusOf(s) # "Empty"
  PROVE  BlocksOK' /\ FlashHolds(lo, hi)'
<1>1. BlocksOK'
  BY DEF BlocksOK
<1>2. Layout(lo, hi)'
  BY DEF FlashHolds, Layout, Mine
<1>3. Written(lo, hi)'
  BY DEF FlashHolds, Written, StatusOf
<1>4. Stored(lo, hi)'
  BY DEF FlashHolds, Stored, StatusOf
<1> QED
  BY <1>1, <1>2, <1>3, <1>4 DEF FlashHolds

(* enqueue formats the block of the next item, or fails to. *)
LEMMA FormatKeeps ==
  ASSUME StreamInv, Young, Format
  PROVE  StreamInv'
<1>1. PICK lo \in Nat, hi \in Nat : FlashHolds(lo, hi)
  BY DEF StreamInv, Flash
<1>2. BlocksOK /\ Memory /\ Layout(lo, hi) /\ Flash
  BY <1>1 DEF StreamInv, FlashHolds
<1>3. write_index = hi
  <2>1. FindBlock(write_index) # "Found"
    BY DEF Format, CanFormat, NeedsFormat
  <2> QED
    BY <1>2, <2>1, NextItem
<1>4. /\ UNCHANGED queue /\ call' \in {"none", "write"}
      /\ stored' = {s \in stored : BlockOf(s) # BlockOf(write_index) \/ block' = block}
      /\ block' \in {block, SetBlock(write_index, Formatted(Free)),
                     SetBlock(write_index, Formatted(write_index))}
  BY DEF Format, FormatOk, FormatFails
<1>5. UNCHANGED <<write_index, read_index_min, pending>>
  BY <1>4 DEF queue
<1>6. Memory'
  BY <1>2, <1>4, <1>5, Indices, MemoryKept DEF Memory, QueueStep
<1>7. BlocksOK' /\ Flash'
  <2>1. CASE block' = block
    BY <1>2, <1>4, <1>5, <2>1, FlashUnchanged
  <2>2. CASE block' # block
    <3>1. stored' = {s \in stored : BlockOf(s) # BlockOf(hi)}
      BY <1>3, <1>4, <2>2
    <3>2. PICK v \in {Formatted(Free), Formatted(hi)} : block' = SetBlock(hi, v)
      BY <1>3, <1>4, <2>2
    <3> QED
      BY <1>1, <1>2, <1>3, <1>5, <3>1, <3>2, FormatStep
  <2> QED
    BY <2>1, <2>2
<1> QED
  BY <1>6, <1>7 DEF StreamInv

(* enqueue writes the item, or fails to: what a failed write leaves is no stored item. *)
LEMMA WriteKeeps ==
  ASSUME StreamInv, Young, Write
  PROVE  StreamInv'
<1>1. PICK lo \in Nat, hi \in Nat : FlashHolds(lo, hi)
  BY DEF StreamInv, Flash
<1>2. BlocksOK /\ Memory /\ Layout(lo, hi) /\ Written(lo, hi) /\ Stored(lo, hi) /\ Flash
  BY <1>1 DEF StreamInv, FlashHolds
<1>3. PICK w \in lo .. hi - 1 : w = write_index /\ w \in Nat /\ StatusOf(w) = "Empty" /\ w < hi
  BY <1>2, NextItem DEF Write, CanWrite
<1>4. ASSUME NEW x \in stored PROVE x # w
  BY <1>2, <1>3 DEF Stored
<1>5. \A t \in w + 1 .. hi - 1 : StatusOf(t) # "Obsolete"
  <2> SUFFICES ASSUME NEW t \in w + 1 .. hi - 1, StatusOf(t) # "Empty" PROVE FALSE
    OBVIOUS
  <2>1. t \in lo .. hi - 1 /\ w < t
    BY <1>3
  <2> QED
    BY <1>2, <1>3, <2>1 DEF Written
<1>6. CASE WriteOk(write_index) /\ Q!Enqueue
           /\ stored' = IF result' = "enqueued" THEN stored \cup {write_index} ELSE stored
  <2>1. Memory' /\ write_index' = w + 1 /\ stored' = stored \cup {w}
    <3>1. call' = "none"
      BY DEF Write
    <3> QED
      BY <1>1, <1>2, <1>3, <1>6, <3>1, EnqueueMemory
  <2>2. block' = SetStatus(w, "Valid") /\ "Valid" \in Status \ {"Empty"}
    BY <1>3, <1>6 DEF WriteOk, Status
  <2>3. BlocksOK' /\ FlashHolds(lo, hi)'
    BY <1>1, <1>2, <1>3, <1>4, <1>5, <2>1, <2>2, FragmentStep
  <2> QED
    BY <2>1, <2>3 DEF StreamInv, Flash
<1>7. CASE WriteFails(write_index) /\ UNCHANGED <<queue, stored>>
  <2>1. UNCHANGED <<write_index, read_index_min, pending, stored>> /\ call' = "none" /\ QueueStep
    BY <1>7 DEF queue, Write, QueueStep
  <2>2. Memory'
    BY <1>2, <2>1, Indices, MemoryKept DEF Memory
  <2>3. CASE block' = block
    BY <1>2, <2>1, <2>2, <2>3, FlashUnchanged DEF StreamInv
  <2>4. CASE block' # block
    <3>1. PICK st \in Status \ {"Empty"} : st # "Obsolete" /\ block' = SetStatus(w, st)
      BY <1>3, <1>7, <2>4 DEF WriteFails, Status
    <3>2. BlocksOK' /\ FlashHolds(lo, hi)'
      BY <1>1, <1>2, <1>3, <1>4, <2>1, <3>1, FragmentStep
    <3> QED
      BY <2>2, <3>2 DEF StreamInv, Flash
  <2> QED
    BY <2>3, <2>4
<1> QED
  BY <1>6, <1>7 DEF Write

(* enqueue skips a fragment that cannot be written. *)
LEMMA SkipKeeps ==
  ASSUME StreamInv, Young, SkipUnwriteable
  PROVE  StreamInv'
<1>1. PICK lo \in Nat, hi \in Nat : FlashHolds(lo, hi)
  BY DEF StreamInv, Flash
<1>2. BlocksOK /\ Memory /\ Layout(lo, hi) /\ Written(lo, hi)
  BY <1>1 DEF StreamInv, FlashHolds
<1>3. write_index < hi /\ write_index \in Nat /\ lo <= write_index /\ StatusOf(write_index) # "Empty"
  <2>1. \/ NeedsFormat(write_index) /\ SlotOf(write_index) # 0
        \/ FindBlock(write_index) = "Found" /\ StatusOf(write_index) # "Empty"
    BY DEF SkipUnwriteable, NotWriteable
  <2>2. NeedsFormat(write_index) => FindBlock(write_index) # "Found"
    BY DEF NeedsFormat
  <2> QED
    BY <1>2, <2>1, <2>2, NextItem
<1>4. Memory' /\ write_index' = write_index + 1
  <2>1. call' = "none" /\ stored' \subseteq stored \cup {write_index} /\ Q!Enqueue
    BY DEF SkipUnwriteable
  <2> QED
    BY <1>1, <1>2, <1>3, <2>1, EnqueueMemory
<1>5. \A s \in lo .. write_index' - 1 : StatusOf(s) # "Empty"
  <2>1. \A s \in lo .. write_index' - 1 : s = write_index \/ s \in lo .. write_index - 1
    BY <1>3, <1>4
  <2> QED
    BY <1>2, <1>3, <2>1 DEF Written
<1>6. BlocksOK' /\ FlashHolds(lo, hi)'
  <2>1. block' = block /\ stored' \subseteq stored /\ write_index' \in lo .. hi
    BY <1>3, <1>4 DEF SkipUnwriteable
  <2> QED
    BY <1>1, <1>2, <1>5, <2>1, IndexMoves
<1> QED
  BY <1>4, <1>6 DEF StreamInv, Flash

(* find_reader gives up the oldest item at most, and never the next one. *)
LEMMA FindMin ==
  ASSUME Memory, Q!Find
  PROVE  /\ read_index_min' \in Nat /\ read_index_min <= read_index_min'
         /\ read_index_min' <= write_index /\ UNCHANGED <<write_index, pending>>
<1>1. \/ read_index_min' = read_index_min
      \/ read_index_min # read_index_next /\ read_index_min' = Add(read_index_min, 1)
  <2>1. CASE Q!FindBusy \/ Q!FindAbort
    BY <2>1 DEF Q!FindBusy, Q!FindAbort, Q!readers
  <2>2. CASE Q!FindNone
    <3> DEFINE x == (read_index_min - (read_index_min % MAX_PEEKS) + slot_index) % SeqMod
               a == Add(read_index_min, 1)
    <3>1. read_index_min' = IF x = read_index_min /\ x # read_index_next THEN a ELSE read_index_min
      BY <2>2 DEF Q!FindNone, Q!Add, Add
    <3> HIDE DEF x, a
    <3>2. read_index_min' = read_index_min \/ (read_index_min # read_index_next /\ read_index_min' = a)
      BY <3>1
    <3> QED
      BY <3>2 DEF a
  <2> QED
    BY <2>1, <2>2 DEF Q!Find
<1>2. PICK m \in Nat, n \in Nat, w \in Nat :
        /\ m = read_index_min /\ n = read_index_next /\ w = write_index
        /\ m <= n /\ n <= w /\ w < SeqMod /\ SeqMod \in Nat
  BY Indices, Sizes
<1>3. m # n => Add(m, 1) = m + 1
  BY <1>2, AddInBuffer
<1>4. UNCHANGED <<write_index, pending>>
  BY DEF Q!Find
<1> QED
  BY <1>1, <1>2, <1>3, <1>4

(* Steps of the queue that leave the flash and the oldest item alone. *)
LEMMA QuietKeeps ==
  ASSUME StreamInv, QueueStep, UNCHANGED <<block, stored, read_index_min, write_index, pending>>,
         \/ call' \in {"peek", "cleanup"} => call' = call /\ oldest' = oldest
         \/ oldest' = read_index_min
  PROVE  StreamInv'
<1>1. BlocksOK /\ Memory /\ Flash
  BY DEF StreamInv
<1>2. BlocksOK' /\ Flash'
  BY <1>1, FlashUnchanged
<1>3. Memory'
  BY <1>1, Indices, MemoryKept DEF Memory
<1> QED
  BY <1>2, <1>3 DEF StreamInv

(* Calls begin and end. *)
LEMMA CallsKeep ==
  ASSUME StreamInv, Peek \/ IsDrained \/ IsDrainedReturn \/ WaitConfirmation
  PROVE  StreamInv'
<1>1. CASE Peek
  <2>1. QueueStep /\ UNCHANGED <<block, stored, read_index_min, write_index, pending>>
    BY <1>1 DEF Peek, QueueStep, Q!PeekNext, Q!readers
  <2>2. (call' \in {"peek", "cleanup"} => call' = call /\ oldest' = oldest) \/ oldest' = read_index_min
    BY <1>1 DEF Peek
  <2> QED
    BY <2>1, <2>2, QuietKeeps
<1>2. CASE IsDrained
  <2>1. QueueStep /\ UNCHANGED <<block, stored, read_index_min, write_index, pending>> /\ call' = "drained"
    BY <1>2 DEF IsDrained, QueueStep, Q!IsDrained, Q!readers
  <2> QED
    BY <2>1, QuietKeeps
<1>3. CASE IsDrainedReturn
  <2>1. QueueStep /\ UNCHANGED <<block, stored, read_index_min, write_index, pending>>
        /\ call' \in {"drained", "none"}
    BY <1>3 DEF IsDrainedReturn, QueueStep, Q!IsDrainedReturn, Q!UpdateReaderSlots, Q!readers
  <2> QED
    BY <2>1, QuietKeeps
<1>4. CASE WaitConfirmation
  <2>1. QueueStep /\ UNCHANGED <<block, stored, read_index_min, write_index, pending>> /\ call' = "none"
    BY <1>4 DEF WaitConfirmation, QueueStep, Q!WaitConfirmation
  <2> QED
    BY <2>1, QuietKeeps
<1> QED
  BY <1>1, <1>2, <1>3, <1>4

(* peek_next chooses an item. *)
LEMMA ChooseKeeps ==
  ASSUME StreamInv, Choose
  PROVE  StreamInv'
<1>1. BlocksOK /\ Memory /\ Flash /\ UNCHANGED <<block, oldest, stored>> /\ call = "peek"
  BY DEF StreamInv, Choose
<1>2. CASE (Q!UpdateReaderSlots \/ Q!FindReader) /\ UNCHANGED call
  <2>1. QueueStep /\ UNCHANGED <<read_index_min, write_index, pending>>
    BY <1>2 DEF QueueStep, Q!UpdateReaderSlots, Q!FindReader, Q!readers
  <2> QED
    BY <1>1, <1>2, <2>1, QuietKeeps
<1>3. CASE Q!Find
  <2>1. /\ read_index_min' \in Nat /\ read_index_min <= read_index_min'
        /\ read_index_min' <= write_index /\ UNCHANGED <<write_index, pending>>
    BY <1>1, <1>3, FindMin
  <2>2. oldest \in Nat /\ oldest <= read_index_min /\ stored \subseteq pending /\ QueueStep
    BY <1>1, <1>3 DEF Memory, QueueStep
  <2>3. Memory'
    BY <1>1, <2>1, <2>2, Indices, MemoryKept
  <2>4. BlocksOK' /\ Flash'
    BY <1>1, <2>1, FlashUnchanged
  <2> QED
    BY <2>3, <2>4 DEF StreamInv
<1> QED
  BY <1>2, <1>3 DEF Choose

(* What is cleaned up lies before every stored item. *)
LEMMA DeleteKeeps ==
  ASSUME StreamInv, call = "cleanup", oldest # read_index_min, CanDelete(oldest),
         block' \in {block, SetStatus(oldest, "Invalid"), SetStatus(oldest, "Obsolete")},
         UNCHANGED <<write_index, stored>>
  PROVE  BlocksOK' /\ Flash'
<1>1. PICK lo \in Nat, hi \in Nat : FlashHolds(lo, hi)
  BY DEF StreamInv, Flash
<1>2. BlocksOK /\ Memory /\ Layout(lo, hi) /\ Stored(lo, hi) /\ Flash
  BY <1>1 DEF StreamInv, FlashHolds
<1>3. CASE block' = block
  BY <1>2, <1>3, FlashUnchanged
<1>4. CASE block' # block
  <2>1. oldest \in Nat /\ oldest < read_index_min /\ oldest <= write_index /\ oldest \in SeqNo
    BY <1>2, Indices, Sizes DEF Memory, SeqNo
  <2>2. oldest \in lo .. hi - 1
    BY <1>2, <2>1, Located DEF CanDelete
  <2>3. \A x \in stored : oldest < x
    BY <1>2, <2>1, Indices DEF Memory
  <2>4. PICK st \in Status \ {"Empty"} : block' = SetStatus(oldest, st)
    BY <1>4 DEF Status
  <2>5. \A x \in stored : x \in Int
    BY <1>2 DEF Stored
  <2>6. \A x \in stored' : x \in stored /\ x # oldest /\ ~ (x < oldest)
    BY <2>1, <2>3, <2>5
  <2>7. BlocksOK' /\ FlashHolds(lo, hi)'
    BY <1>1, <1>2, <2>1, <2>2, <2>4, <2>6, FragmentStep
  <2> QED
    BY <2>7 DEF Flash
<1> QED
  BY <1>3, <1>4

(* peek_next cleans up, or fails to. *)
LEMMA CleanupKeeps ==
  ASSUME StreamInv, Cleanup
  PROVE  StreamInv'
<1>1. BlocksOK /\ Memory /\ Flash /\ stored' = stored /\ call = "cleanup" /\ oldest # read_index_min
  BY DEF StreamInv, Cleanup
<1>2. QueueStep /\ UNCHANGED <<read_index_min, write_index, pending>>
  <2>1. CASE UNCHANGED queue
    BY <2>1 DEF QueueStep, queue
  <2>2. CASE Q!Drop(held)
    BY <2>2 DEF QueueStep, Q!Drop, Q!readers
  <2> QED
    BY <2>1, <2>2 DEF Cleanup, Fail
<1>3. BlocksOK' /\ Flash'
  <2>1. CASE block' = block
    BY <1>1, <1>2, <2>1, FlashUnchanged
  <2>2. CASE block' # block
    <3>1. CanDelete(oldest)
          /\ block' \in {block, SetStatus(oldest, "Invalid"), SetStatus(oldest, "Obsolete")}
      BY <2>2 DEF Cleanup, DeleteOk, DeleteFails
    <3> QED
      BY <1>1, <1>2, <3>1, DeleteKeeps
  <2> QED
    BY <2>1, <2>2
<1>4. call' \in {"peek", "cleanup"} => oldest' \in Nat /\ oldest' <= read_index_min'
  <2>1. CASE call' = "none"
    BY <2>1
  <2>2. CASE oldest' = Add(oldest, 1)
    <3>1. PICK o \in Nat, m \in Nat : o = oldest /\ m = read_index_min /\ o < m /\ m < SeqMod
      BY <1>1, Indices, Sizes DEF Memory
    <3>2. Add(o, 1) = o + 1
      BY <3>1, AddInBuffer, Sizes
    <3> QED
      BY <1>2, <2>2, <3>1, <3>2
  <2> QED
    BY <2>1, <2>2 DEF Cleanup, Fail, PeekReturns
<1>5. Memory'
  BY <1>1, <1>2, <1>4, Indices, MemoryKept DEF Memory
<1> QED
  BY <1>3, <1>5 DEF StreamInv

(* An item that is skipped because it cannot be read is no stored one. *)
LEMMA ReadKeeps ==
  ASSUME StreamInv, Read
  PROVE  StreamInv'
<1>1. BlocksOK /\ Memory /\ Flash /\ UNCHANGED <<block, stored>> /\ call' = "none"
  BY DEF StreamInv, Read, PeekReturns, Fail
<1>2. CASE UNCHANGED queue \/ Q!Drop(held)
  <2>1. QueueStep /\ UNCHANGED <<read_index_min, write_index, pending>>
    BY <1>2 DEF QueueStep, Q!Drop, Q!readers, queue
  <2> QED
    BY <1>1, <2>1, QuietKeeps
<1>3. CASE ~ Readable(held) /\ Q!Confirm(held)
  <2>1. QueueStep /\ UNCHANGED <<read_index_min, write_index>> /\ pending' = pending \ {held}
    BY <1>3 DEF QueueStep, Q!Confirm, Q!readers
  <2>2. held \notin stored
    BY <1>3, Safe DEF StoredIsSafe, StoredIsReadable
  <2>3. Memory'
    BY <1>1, <2>1, <2>2, Indices, MemoryKept DEF Memory
  <2>4. BlocksOK' /\ Flash'
    BY <1>1, <2>1, FlashUnchanged
  <2> QED
    BY <2>3, <2>4 DEF StreamInv
<1> QED
  BY <1>2, <1>3 DEF Read, Fail

(* A handle is confirmed or dropped: only a confirmed item is no longer stored. *)
LEMMA AnswersKeep ==
  ASSUME StreamInv, NEW s \in handles, Confirm(s) \/ Drop(s)
  PROVE  StreamInv'
<1>1. BlocksOK /\ Memory /\ Flash /\ UNCHANGED <<block, call, oldest>>
  BY DEF StreamInv, Confirm, Drop
<1>2. CASE Drop(s)
  <2>1. QueueStep /\ UNCHANGED <<read_index_min, write_index, pending, stored>>
    BY <1>2 DEF Drop, QueueStep, Q!Drop, Q!readers
  <2> QED
    BY <1>1, <2>1, QuietKeeps
<1>3. CASE Confirm(s)
  <2>1. QueueStep /\ UNCHANGED <<read_index_min, write_index>> /\ pending' = pending \ {s}
        /\ stored' = stored \ {s}
    BY <1>3 DEF Confirm, QueueStep, Q!Confirm, Q!readers
  <2>2. Memory'
    BY <1>1, <2>1, Indices, MemoryKept DEF Memory
  <2>3. BlocksOK' /\ Flash'
    BY <1>1, <2>1, FlashUnchanged
  <2> QED
    BY <2>2, <2>3 DEF StreamInv
<1> QED
  BY <1>2, <1>3

(* initialize restores the queue from a range in order. *)
LEMMA RestartMemory ==
  ASSUME Restart, NEW a \in Nat, NEW b \in Nat, a <= b, b - a <= FragmentCount, b < SeqMod,
         FindCircularRange.start = a, FindCircularRange.end = b,
         \A s \in stored : s \in Int /\ a <= s /\ s < b
  PROVE  Memory' /\ write_index' = b
<1>1. QP!IInv' /\ QP!OrderInv'
  <2>1. QP!Reinit(a, b)'
    BY DEF Restart, QP!Reinit, Q!SlotOf, QP!SlotOf, Q!SlotIds, QP!SlotIds, Q!None, QP!None,
           Q!Between, QP!Between, Q!SeqNo, QP!SeqNo, Q!Sub, QP!Sub
  <2>2. a \in QP!SeqNo /\ b - a \in 0 .. FragmentCount /\ QP!Add(a, b - a) = b
    <3>1. Add(a, b - a) = a + (b - a)
      BY AddInBuffer
    <3> QED
      BY <3>1, Sizes DEF Add, QP!Add, QP!SeqNo
  <2>3. QP!Reinit(a, QP!Add(a, b - a))'
    BY <2>1, <2>2
  <2>4. QP!Init'
    <3>1. (\E x \in QP!SeqNo, n \in 0 .. FragmentCount : QP!Reinit(x, QP!Add(x, n)))'
      BY <2>2, <2>3
    <3> QED
      BY <3>1 DEF QP!Init, Restart
  <2>5. QP!Unwrapped'
    BY DEF Restart, QP!Unwrapped
  <2>6. QP!Init' /\ QP!Unwrapped' => QP!IInv' /\ QP!OrderInv'
    BY Restored, PTL
  <2> QED
    BY <2>4, <2>5, <2>6
<1>2. Q!Between(a, b) = a .. b - 1
  BY BetweenInterval
<1>3. stored' \subseteq pending'
  BY <1>2 DEF Restart
<1> QED
  BY <1>1, <1>3 DEF Memory, Restart, PeekReturns

(* A restart loses the memory and finds the items again. *)
LEMMA RestartKeeps ==
  ASSUME StreamInv, Restart
  PROVE  StreamInv'
<1>1. PICK lo \in Nat, hi \in Nat : FlashHolds(lo, hi)
  BY DEF StreamInv, Flash
<1>2. BlocksOK /\ Layout(lo, hi) /\ Stored(lo, hi) /\ UNCHANGED <<block, stored>>
  BY <1>1 DEF StreamInv, FlashHolds, Restart
<1>3. CASE Mine # {}
  <2>1. RangeGood(FindCircularRange, lo, hi)
    BY <1>1, <1>2, <1>3, RangeInUse
  <2>2. PICK a \in Nat, b \in Nat :
          /\ a = FindCircularRange.start /\ b = FindCircularRange.end
          /\ a \in lo .. hi /\ b \in lo .. hi /\ a <= b
          /\ \A s \in stored : a <= s /\ s < b
          /\ \A s \in lo .. b - 1 : StatusOf(s) # "Empty"
    BY <2>1 DEF RangeGood
  <2>3. b - a <= FragmentCount /\ b < SeqMod /\ \A s \in stored : s \in Int
    BY <1>2, <2>2, Sizes DEF Layout, Stored
  <2>4. Memory' /\ write_index' = b
    BY <2>2, <2>3, RestartMemory
  <2>5. BlocksOK' /\ FlashHolds(lo, hi)'
    BY <1>1, <1>2, <2>2, <2>4, IndexMoves
  <2> QED
    BY <2>4, <2>5 DEF StreamInv, Flash
<1>4. CASE Mine = {}
  <2>1. FindCircularRange = [start |-> 0, end |-> 0] /\ stored = {}
    BY <1>1, <1>2, <1>4, RangeOfNothing
  <2>2. Memory' /\ write_index' = 0
    BY <2>1, RestartMemory, Sizes
  <2>3. Mine' = {} /\ BlocksOK'
    BY <1>2, <1>4 DEF Mine, BlocksOK
  <2>4. 0 % FragmentsPerBlock = 0
    BY DivisionUnique, Sizes
  <2>5. Layout(0, 0)'
    BY <2>2, <2>3, <2>4, Sizes DEF Layout, Aligned
  <2>6. FlashHolds(0, 0)'
    BY <1>2, <2>1, <2>2, <2>5 DEF FlashHolds, Written, Stored
  <2> QED
    BY <2>2, <2>3, <2>6 DEF StreamInv, Flash
<1> QED
  BY <1>3, <1>4

(* Every step before the wrap keeps the invariant. *)
LEMMA StreamSteps ==
  ASSUME StreamInv, Young, [Next]_vars
  PROVE  StreamInv'
<1>1. CASE UNCHANGED vars
  <2>1. QueueStep /\ UNCHANGED <<block, stored, read_index_min, write_index, pending, call, oldest>>
    BY <1>1 DEF vars, queue, QueueStep
  <2> QED
    BY <2>1, QuietKeeps
<1>2. CASE Next
  BY <1>2, FormatKeeps, WriteKeeps, SkipKeeps, CallsKeep, ChooseKeeps, CleanupKeeps, ReadKeeps,
     AnswersKeep, RestartKeeps DEF Next
<1> QED
  BY <1>1, <1>2

(* As long as the sequence numbers have not wrapped, the flash and the queue  *)
(* stay in order through every failure and restart.                           *)
THEOREM StreamInductive == Spec /\ []Young => []StreamInv
<1>1. StreamInv /\ Young /\ [Next]_vars => StreamInv'
  BY StreamSteps
<1> QED
  BY <1>1, AtFirst, PTL DEF Spec

(* The types of the running call and of the bound on failures. *)
CallTypes ==
  /\ call \in {"none", "write", "peek", "cleanup", "drained"}
  /\ oldest \in SeqNo \cup {NoSeq}
  /\ held \in SeqNo \cup {NoSeq}
  /\ faults \in 0 .. MaxFaults

(* They are kept. *)
LEMMA CallTypesKept ==
  ASSUME StreamInv, CallTypes, [Next]_vars, StreamInv'
  PROVE  CallTypes'
<1>1. faults' \in 0 .. MaxFaults
  <2>1. faults' = faults \/ Fault
    BY DEF Next, vars, Format, Write, SkipUnwriteable, Peek, Choose, Cleanup, Read, Confirm, Drop,
           IsDrained, IsDrainedReturn, WaitConfirmation, Restart, NoFault
  <2> QED
    BY <2>1, StreamAssumption DEF CallTypes, Fault
<1>2. call' \in {"none", "write", "peek", "cleanup", "drained"}
  BY DEF CallTypes, Next, vars, Format, Write, SkipUnwriteable, Peek, Choose, Cleanup, Read, Fail,
         PeekReturns, Confirm, Drop, IsDrained, IsDrainedReturn, WaitConfirmation, Restart
<1>3. oldest' \in SeqNo \cup {NoSeq}
  <2>1. oldest' \in {oldest, NoSeq, read_index_min, Add(oldest, 1)}
    BY DEF Next, vars, Format, Write, SkipUnwriteable, Peek, Choose, Cleanup, Read, Fail,
           PeekReturns, Confirm, Drop, IsDrained, IsDrainedReturn, WaitConfirmation, Restart
  <2>2. oldest' = Add(oldest, 1) => Cleanup \/ oldest' \in {oldest, NoSeq, read_index_min}
    BY DEF Next, vars, Format, Write, SkipUnwriteable, Peek, Choose, Read, Fail,
           PeekReturns, Confirm, Drop, IsDrained, IsDrainedReturn, WaitConfirmation, Restart
  <2>3. Memory /\ read_index_min \in SeqNo
    BY Indices, Sizes DEF StreamInv, SeqNo
  <2>4. Cleanup => Add(oldest, 1) \in SeqNo
    <3> SUFFICES ASSUME Cleanup PROVE Add(oldest, 1) \in SeqNo
      OBVIOUS
    <3>1. oldest \in Nat /\ oldest < read_index_min /\ read_index_min \in Nat /\ read_index_min < SeqMod
      BY <2>3, Indices, Sizes DEF Memory, Cleanup
    <3>2. Add(oldest, 1) = oldest + 1
      BY <3>1, AddInBuffer, Sizes
    <3> QED
      BY <3>1, <3>2, Sizes DEF SeqNo
  <2> QED
    BY <2>1, <2>2, <2>3, <2>4 DEF CallTypes
<1>4. held' \in SeqNo \cup {NoSeq}
  <2>1. CASE held' \in {held, NoSeq}
    BY <2>1 DEF CallTypes
  <2>2. CASE Choose /\ held' \notin {held, NoSeq}
    <3>1. Q!Find /\ handles' # handles /\ held' = CHOOSE s \in handles' : s \notin handles
      BY <2>2 DEF Choose
    <3>2. \E s \in handles' : s \notin handles
      <4>1. handles \subseteq handles'
        BY <3>1 DEF Q!Find, Q!FindBusy, Q!FindNone, Q!FindAbort, Q!HandOut, Q!Continue
      <4> QED
        BY <3>1, <4>1
    <3>3. held' \in handles'
      BY <3>1, <3>2
    <3>4. handles' \subseteq SeqNo
      BY DEF StreamInv, Memory, QP!IInv, QP!TypeOK, QP!SeqNo, SeqNo
    <3> QED
      BY <3>3, <3>4
  <2> QED
    BY <2>1, <2>2 DEF Next, vars, Format, Write, SkipUnwriteable, Peek, Cleanup, Read, Fail,
           PeekReturns, Confirm, Drop, IsDrained, IsDrainedReturn, WaitConfirmation, Restart
<1> QED
  BY <1>1, <1>2, <1>3, <1>4 DEF CallTypes

(* Before the wrap, the flash, the queue in memory and the running call have  *)
(* their types: what a scan restores is a range of sequence numbers again.    *)
THEOREM StreamTypes == Spec /\ []Young => []TypeOK
<1>1. Init => CallTypes
  BY StreamAssumption DEF Init, CallTypes
<1>2. StreamInv /\ CallTypes /\ [Next]_vars /\ StreamInv' => CallTypes'
  BY CallTypesKept
<1>3. StreamInv /\ CallTypes => TypeOK
  <2> SUFFICES ASSUME StreamInv, CallTypes PROVE TypeOK
    OBVIOUS
  <2>1. QP!TypeOK /\ stored \subseteq pending /\ BlocksOK
    BY DEF StreamInv, Memory, QP!IInv
  <2>2. Q!TypeOK
    BY <2>1 DEF QP!TypeOK, Q!TypeOK, QP!SeqNo, Q!SeqNo, QP!SlotIds, Q!SlotIds, QP!SlotStates,
                Q!SlotStates, QP!None, Q!None, QP!Answers, Q!Answers
  <2>3. pending \subseteq SeqNo
    BY <2>1 DEF QP!TypeOK, QP!SeqNo, SeqNo
  <2> QED
    BY <2>1, <2>2, <2>3 DEF TypeOK, CallTypes, BlocksOK
<1> QED
  BY <1>1, <1>2, <1>3, StreamInductive, PTL DEF Spec

(* Before the wrap, an item that enqueue stored can be read, is queued, and   *)
(* is found by the scan of initialize after a cut of the power at any moment, *)
(* until it is confirmed or its block is overwritten.                         *)
THEOREM StoredStaysSafe == Spec /\ []Young => []StoredIsSafe
BY StreamInductive, Safe, PTL

(* Before the wrap, unconfirmed items are only erased when the buffer is full *)
(* and may be overwritten, and then the ones of its oldest block.             *)
THEOREM OldestGoesFirst == Spec /\ []Young => OldestOverwrittenFirst
<1> DEFINE Oldest == \A s \in stored \ stored' :
                       BlockOf(s) # BlockOf(write_index) \/ block' = block
                         \/ /\ OverwriteOnFull
                            /\ Sub(write_index, s) > FragmentCount - FragmentsPerBlock
                            /\ Sub(write_index, s) <= FragmentCount
<1>1. ASSUME StreamInv, Next PROVE Oldest
  <2> SUFFICES ASSUME NEW s \in stored, s \notin stored', block' # block,
                      BlockOf(s) = BlockOf(write_index)
               PROVE  /\ OverwriteOnFull
                      /\ Sub(write_index, s) > FragmentCount - FragmentsPerBlock
                      /\ Sub(write_index, s) <= FragmentCount
    OBVIOUS
  <2>1. Format
    BY <1>1 DEF Next, Write, SkipUnwriteable, Peek, Choose, Cleanup, Read, Confirm, Drop, IsDrained,
                IsDrainedReturn, WaitConfirmation, Restart
  <2>2. PICK lo \in Nat, hi \in Nat : FlashHolds(lo, hi)
    BY <1>1 DEF StreamInv, Flash
  <2>3. BlocksOK /\ Memory /\ Layout(lo, hi)
    BY <1>1, <2>2 DEF StreamInv, FlashHolds
  <2>4. NeedsFormat(write_index) /\ FindBlock(write_index) # "Found"
    BY <2>1 DEF Format, CanFormat, NeedsFormat
  <2>5. write_index = hi
    BY <2>3, <2>4, NextItem
  <2>6. s \in lo .. hi - 1 /\ StatusOf(s) = "Valid"
    BY <2>2 DEF FlashHolds, Stored
  <2>7. PICK b \in Mine, i \in SlotIds : b = BlockOf(s) /\ i = SlotOf(s)
    BY <2>3, <2>6, NumberHeld
  <2>8. HasValid(b)
    BY <2>6, <2>7 DEF HasValid, StatusOf
  <2>9. FindBlock(write_index) = "NotFound"
    <3>1. block[b].first # Free /\ block[b].first # Foreign
      BY NoNumbers DEF Mine
    <3> QED
      BY <2>4, <2>7, <3>1 DEF FindBlock
  <2>10. OverwriteOnFull
    BY <2>4, <2>7, <2>8, <2>9 DEF NeedsFormat
  <2>11. PICK x \in Nat, n \in Nat, p \in Nat :
           x = s /\ n = FragmentCount /\ p = FragmentsPerBlock /\ hi - n <= x /\ x < hi /\ hi < SeqMod
    BY <2>3, <2>6, Sizes DEF Layout
  <2>12. x < hi - n + p
    BY <2>3, <2>5, <2>11, LapBefore DEF Layout
  <2>13. Sub(hi, x) = hi - x
    <3>1. hi \in QP!SeqNo /\ x \in QP!SeqNo
      BY <2>11, Sizes DEF QP!SeqNo
    <3>2. QP!Sub(hi, x) = hi - x
      BY <2>11, <3>1, QP!SubPlain, QueueConstants DEF QP!QueueAssumption
    <3> QED
      BY <3>2 DEF QP!Sub, Sub
  <2> QED
    BY <2>5, <2>10, <2>11, <2>12, <2>13
<1>2. StreamInv /\ [Next]_vars => [Oldest]_vars
  BY <1>1
<1> QED
  BY <1>2, StreamInductive, PTL DEF Spec, OldestOverwrittenFirst

=============================================================================
