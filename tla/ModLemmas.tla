----------------------------- MODULE ModLemmas ------------------------------
(***************************************************************************)
(* Division with remainder by the size B of a buffer, and the split of an  *)
(* index into two halves: the arithmetic every proof about the tape needs. *)
(* Induction over intervals, and the functions that are defined by it.     *)
(***************************************************************************)
EXTENDS Integers, WellFoundedInduction, TLAPS

(* Quotient and remainder are the only ones there are. *)
LEMMA ModUnique ==
  ASSUME NEW B \in Nat \ {0}, NEW q \in Int, NEW r \in 0 .. (B - 1),
         NEW n \in Int, n = B * q + r
  PROVE  n % B = r /\ n \div B = q
  OBVIOUS

(* A natural number from its quotient and its remainder. *)
LEMMA ModDiv ==
  ASSUME NEW B \in Nat \ {0}, NEW n \in Nat
  PROVE  /\ n % B \in 0 .. (B - 1)
         /\ n \div B \in Nat
         /\ n = B * (n \div B) + (n % B)
         /\ (n % B) <= n
  OBVIOUS

(* Counting one further moves to the next slot, or to slot 0 from the last. *)
LEMMA ModSucc ==
  ASSUME NEW B \in Nat \ {0}, NEW n \in Nat
  PROVE  (n + 1) % B = IF n % B = B - 1 THEN 0 ELSE (n % B) + 1
<1> DEFINE q == n \div B
           r == n % B
<1>1. q \in Nat /\ r \in 0 .. (B - 1) /\ n = B * q + r
  BY ModDiv
<1> HIDE DEF q, r
<1>2. CASE r = B - 1
  <2>1. B * (q + 1) = B * q + B
    BY <1>1
  <2>2. B * q \in Int
    BY <1>1
  <2>3. n + 1 = B * (q + 1) + 0 /\ q + 1 \in Int
    BY <2>1, <2>2, <1>1, <1>2
  <2>4. (n + 1) % B = 0
    BY <2>3, ModUnique, 0 \in 0 .. (B - 1), n + 1 \in Int, ZenonT(60)
  <2>5. QED
    BY <2>4, <1>2 DEF r
<1>3. CASE r # B - 1
  <2>1. B * q \in Int
    BY <1>1
  <2>2. PICK s \in 0 .. (B - 1), m \in Int : m = n + 1 /\ s = r + 1 /\ m = B * q + s
    BY <2>1, <1>1, <1>3
  <2>3. q \in Int
    BY <1>1
  <2>4. m = B * q + s
    BY <2>2
  <2>5. m % B = s
    BY ONLY <2>4, <2>3, ModUnique, s \in 0 .. (B - 1), m \in Int, B \in Nat \ {0}
  <2>6. (n + 1) % B = r + 1
    BY <2>5, <2>2
  <2>7. QED
    BY <2>6, <1>3 DEF r
<1>4. QED
  BY <1>2, <1>3

(* The k-th number after the last multiple of B up to n falls into slot k. *)
LEMMA ModOffset ==
  ASSUME NEW B \in Nat \ {0}, NEW n \in Nat, NEW k \in 0 .. (B - 1)
  PROVE  (n - (n % B) + k) % B = k
<1> DEFINE q == n \div B
           r == n % B
<1>1. q \in Nat /\ r \in 0 .. (B - 1) /\ n = B * q + r
  BY ModDiv
<1>2. B * q \in Int
  BY <1>1
<1> HIDE DEF q, r
<1>3. n - r + k = B * q + k /\ n - r + k \in Int
  BY <1>1, <1>2
<1>4. (n - r + k) % B = k
  BY <1>3, <1>1, ModUnique
<1>5. QED
  BY <1>4 DEF r

(* A number between a and a + m lies at an offset of at most m from a. *)
LEMMA OffsetFrom ==
  ASSUME NEW a \in Int, NEW m \in Int, NEW i \in Int, a <= i, i <= a + m
  PROVE  \E k \in 0 .. m : i = a + k
<1>1. i - a \in 0 .. m /\ i = a + (i - a)
  OBVIOUS
<1>2. WITNESS i - a \in 0 .. m
<1>3. QED
  BY <1>1

(* One is below every larger buffer size. *)
LEMMA OneMod ==
  ASSUME NEW B \in Nat, B > 1
  PROVE  1 % B = 1
<1>1. 1 = B * 0 + 1 /\ 1 \in 0 .. (B - 1) /\ B \in Nat \ {0}
  OBVIOUS
<1>2. QED
  BY <1>1, ModUnique

(* A number below m * B has a quotient by B below m. *)
LEMMA DivBelowProduct ==
  ASSUME NEW B \in Nat \ {0}, NEW m \in Nat, NEW n \in Nat, n < m * B
  PROVE  n \div B \in 0 .. (m - 1)
<1> DEFINE q == n \div B
           r == n % B
<1>1. q \in Nat /\ r \in 0 .. (B - 1) /\ n = B * q + r
  BY ModDiv
<1> HIDE DEF q, r
<1>2. B * q \in Nat /\ B * q <= n /\ B * q < m * B
  BY <1>1
<1>3. q < m
  <2> SUFFICES ASSUME q >= m PROVE FALSE
    BY <1>1
  <2>1. B * q >= m * B
    BY <1>1
  <2>2. QED
    BY <2>1, <1>2
<1>4. QED
  BY <1>1, <1>3 DEF q

(* A number below H * H has a quotient by H below H: it fits two halves. *)
LEMMA DivBelow ==
  ASSUME NEW H \in Nat \ {0}, NEW n \in Nat, n < H * H
  PROVE  n \div H \in 0 .. (H - 1)
  BY DivBelowProduct

(* The numbers from n to the end of its leaf of B have the same quotient. *)
LEMMA SameQuotient ==
  ASSUME NEW B \in Nat \ {0}, NEW n \in Nat, NEW k \in Nat, k < B - (n % B)
  PROVE  (n + k) \div B = n \div B /\ (n + k) % B = (n % B) + k
<1> DEFINE q == n \div B
           r == n % B
<1>1. q \in Nat /\ r \in 0 .. (B - 1) /\ n = B * q + r /\ k < B - r
  BY ModDiv
<1> HIDE DEF q, r
<1>2. B * q \in Int
  BY <1>1
<1>3. n + k = B * q + (r + k) /\ r + k \in 0 .. (B - 1) /\ n + k \in Int /\ q \in Int
  BY <1>1, <1>2
<1>4. (n + k) % B = r + k /\ (n + k) \div B = q
  BY <1>3, ModUnique
<1>5. QED
  BY <1>4 DEF q, r

(* Within one leaf, offsets differ as the numbers do. *)
LEMMA OffsetDifference ==
  ASSUME NEW B \in Nat \ {0}, NEW m \in Nat, NEW n \in Nat, m \div B = n \div B
  PROVE  (m % B) - (n % B) = m - n
<1> DEFINE q == n \div B
           r == n % B
           s == m % B
<1>1. q \in Nat /\ r \in 0 .. (B - 1) /\ n = B * q + r
  BY ModDiv
<1>2. s \in 0 .. (B - 1) /\ m = B * q + s
  BY ModDiv
<1> HIDE DEF q, r, s
<1>3. B * q \in Int
  BY <1>1
<1>4. s - r = m - n
  BY <1>1, <1>2, <1>3
<1>5. QED
  BY <1>4 DEF r, s

(* Two halves below H assemble to a number below H * H. *)
LEMMA AssembleBelow ==
  ASSUME NEW H \in Nat \ {0}, NEW lo \in 0 .. (H - 1), NEW hi \in 0 .. (H - 1)
  PROVE  hi * H + lo \in 0 .. (H * H - 1)
<1>1. hi * H <= (H - 1) * H
  OBVIOUS
<1>2. (H - 1) * H = H * H - H
  OBVIOUS
<1>3. hi * H \in Nat /\ H * H \in Nat
  OBVIOUS
<1>4. QED
  BY <1>1, <1>2, <1>3

(* A multiple of B does not change the remainder. *)
LEMMA ModShift ==
  ASSUME NEW B \in Nat \ {0}, NEW n \in Nat, NEW g \in Nat, g % B = 0
  PROVE  (n + g) % B = n % B
<1> DEFINE q == n \div B
           r == n % B
           p == g \div B
<1>1. q \in Nat /\ r \in 0 .. (B - 1) /\ n = B * q + r
  BY ModDiv
<1>2. p \in Nat /\ g = B * p
  BY ModDiv
<1> HIDE DEF q, r, p
<1>3. B * (q + p) = B * q + B * p
  BY <1>1, <1>2
<1>4. B * q \in Int /\ B * p \in Int
  BY <1>1, <1>2
<1>5. n + g = B * (q + p) + r /\ n + g \in Int /\ q + p \in Int
  BY <1>1, <1>2, <1>3, <1>4
<1>6. (n + g) % B = r
  BY <1>5, <1>1, ModUnique, SMTT(40)
<1>7. QED
  BY <1>6 DEF r

-----------------------------------------------------------------------------
(* Induction over an interval, and the functions defined by it.            *)

\* S contains a number up to n once it contains all smaller ones.
Inductive(S, n) == \A k \in 0 .. n : (\A j \in 0 .. k - 1 : j \in S) => k \in S

(* Such a set contains all numbers up to n. *)
LEMMA UpTo ==
  ASSUME NEW n \in Int, NEW S, Inductive(S, n)
  PROVE  \A k \in 0 .. n : k \in S
<1> DEFINE T == {k \in 0 .. n : k \notin S}
           R == OpToRel(<, Nat)
<1>1. IsWellFoundedOn(R, Nat)
  BY NatLessThanWellFounded
<1>2. T \subseteq Nat
  OBVIOUS
<1> SUFFICES T = {}
  OBVIOUS
<1> SUFFICES ASSUME T # {} PROVE FALSE
  OBVIOUS
<1> HIDE DEF R
<1>3. PICK m \in T : \A j \in T : ~(<<j, m>> \in R)
  <2> HIDE DEF T
  <2>1. QED
    BY ONLY <1>1, <1>2, WFMin, T # {}
<1>4. m \in 0 .. n /\ m \notin S
  OBVIOUS
<1>5. ASSUME NEW j \in 0 .. m - 1 PROVE j \in S
  <2>1. j \in 0 .. n /\ j \in Nat /\ m \in Nat /\ j < m
    BY <1>4
  <2>2. <<j, m>> \in R
    BY <2>1 DEF R, OpToRel
  <2>3. QED
    BY <1>3, <2>1, <2>2
<1>6. QED
  BY <1>4, <1>5 DEF Inductive

\* S contains 0 and, with a number below n, the next one.
Stepwise(S, n) == 0 \in S /\ \A k \in 1 .. n : k - 1 \in S => k \in S

(* Such a set contains all numbers up to n, too. *)
LEMMA StepByStep ==
  ASSUME NEW n \in Int, NEW S, Stepwise(S, n)
  PROVE  \A k \in 0 .. n : k \in S
<1>1. ASSUME NEW k \in 0 .. n, \A j \in 0 .. k - 1 : j \in S
      PROVE  k \in S
  <2>1. CASE k = 0
    BY <2>1 DEF Stepwise
  <2>2. CASE k # 0
    <3>1. k - 1 \in 0 .. k - 1 /\ k \in 1 .. n
      BY <2>2
    <3>2. QED
      BY <1>1, <3>1 DEF Stepwise
  <2>3. QED
    BY <2>1, <2>2
<1>2. Inductive(S, n)
  BY <1>1 DEF Inductive
<1>3. QED
  BY <1>2, UpTo, Zenon

\* The value that the rule R gives at k depends on the function below k only.
Causal(R, n, V) ==
  /\ R \in [0 .. n -> [[0 .. n -> V] -> V]]
  /\ \A k \in 0 .. n : \A f, g \in [0 .. n -> V] :
       (\A j \in 0 .. k - 1 : f[j] = g[j]) => R[k][f] = R[k][g]

\* The functions the rule defines.
Solutions(R, n, V) == {f \in [0 .. n -> V] : \A k \in 0 .. n : f[k] = R[k][f]}

(***************************************************************************)
(* Such a rule defines a function: the CHOOSE behind a recursive function  *)
(* definition chooses from a non-empty set.                                *)
(***************************************************************************)
LEMMA RecursionExists ==
  ASSUME NEW n \in Int, NEW V, NEW d \in V, NEW R, Causal(R, n, V)
  PROVE  Solutions(R, n, V) # {}
<1> USE DEF Solutions
<1>0. R \in [0 .. n -> [[0 .. n -> V] -> V]]
  BY DEF Causal
<1> DEFINE Good(f, m) == \A k \in 0 .. m : f[k] = R[k][f]
           S == {m \in 0 .. n : \E f \in [0 .. n -> V] : Good(f, m)}
           f0 == [k \in 0 .. n |-> d]
<1>1. f0 \in [0 .. n -> V]
  OBVIOUS
<1>2. ASSUME NEW m \in 0 .. n, \A j \in 0 .. m - 1 : j \in S
      PROVE  m \in S
  <2>1. PICK f \in [0 .. n -> V] : Good(f, m - 1)
    <3>1. CASE m = 0
      <4>1. Good(f0, m - 1)
        BY <3>1
      <4>2. QED
        BY <1>1, <4>1
    <3>2. CASE m # 0
      <4>1. m - 1 \in 0 .. m - 1
        BY <3>2
      <4>2. m - 1 \in S
        BY <4>1, <1>2
      <4>3. QED
        BY <4>2
    <3>3. QED
      BY <3>1, <3>2
  <2> DEFINE g == [f EXCEPT ![m] = R[m][f]]
  <2>2. R[m][f] \in V
    BY <1>0
  <2>3. g \in [0 .. n -> V] /\ g[m] = R[m][f] /\ \A j \in 0 .. m - 1 : g[j] = f[j]
    BY <2>2
  <2> HIDE DEF g
  <2>4. ASSUME NEW k \in 0 .. m
        PROVE  g[k] = R[k][g]
    <3>1. k \in 0 .. n /\ \A j \in 0 .. k - 1 : j \in 0 .. m - 1
      OBVIOUS
    <3>2. R[k][f] = R[k][g]
      BY <3>1, <2>3 DEF Causal
    <3>3. CASE k = m
      BY <3>2, <3>3, <2>3
    <3>4. CASE k # m
      <4>1. k \in 0 .. m - 1
        BY <3>4
      <4>2. QED
        BY <4>1, <3>2, <2>1, <2>3
    <3>5. QED
      BY <3>3, <3>4
  <2>5. QED
    BY <2>3, <2>4
<1>3. \A k \in 0 .. n : k \in S
  <2> HIDE DEF S
  <2>1. Inductive(S, n)
    BY <1>2 DEF Inductive
  <2>2. QED
    BY <2>1, UpTo
<1>4. CASE n \in Nat
  <2>1. n \in S
    <3>1. n \in 0 .. n
      BY <1>4
    <3> HIDE DEF S
    <3>2. QED
      BY <1>3, <3>1
  <2>2. PICK f \in [0 .. n -> V] : Good(f, n)
    BY <2>1
  <2>3. QED
    BY <2>2
<1>5. CASE n < 0
  <2>1. Good(f0, n)
    BY <1>5
  <2>2. QED
    BY <1>1, <2>1
<1>6. QED
  BY <1>4, <1>5
=============================================================================
