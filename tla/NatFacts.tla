------------------------------ MODULE NatFacts ------------------------------
(* Facts of arithmetic the proofs share.  The library's induction theorems *)
(* take a predicate as a parameter; the least element of a set of numbers  *)
(* does the same work for a predicate written as a set.                    *)
EXTENDS Integers, WellFoundedInduction, TLAPS

(* A nonempty set of naturals has a least element. *)
LEMMA LeastNat ==
    ASSUME NEW T \in SUBSET Nat, T # {}
    PROVE  \E n \in T : \A m \in T : n <= m
<1> DEFINE R == {ss \in Nat \X Nat : ss[1] < ss[2]}
<1>1. R = OpToRel(<, Nat)  BY Zenon DEF OpToRel
<1>2. IsWellFoundedOn(R, Nat)  BY NatLessThanWellFounded, <1>1, Zenon
<1>. HIDE DEF R
<1>3. \E n \in T : \A m \in T : <<m, n>> \notin R  BY <1>2, WFMin
<1>4. PICK n \in T : \A m \in T : <<m, n>> \notin R  BY <1>3
<1>5. ASSUME NEW m \in T PROVE n <= m
  <2>1. <<m, n>> \notin R  BY <1>4
  <2>. QED  BY <2>1 DEF R
<1>. QED  BY <1>5

(* A nonempty set of naturals below a bound has a greatest element. *)
LEMMA GreatestNat ==
    ASSUME NEW b \in Nat, NEW T \in SUBSET (0 .. b), T # {}
    PROVE  \E n \in T : \A m \in T : m <= n
<1> DEFINE U == {k \in Nat : k <= b /\ b - k \in T}
<1>1. PICK t \in T : TRUE  OBVIOUS
<1>2. b - t \in U  BY <1>1
<1>3. U \in SUBSET Nat /\ U # {}  BY <1>2
<1>. HIDE DEF U
<1>4. PICK k \in U : \A m \in U : k <= m  BY <1>3, LeastNat
<1>5. k \in Nat /\ k <= b /\ b - k \in T  BY <1>4 DEF U
<1>6. ASSUME NEW m \in T PROVE m <= b - k
  <2>1. m \in 0 .. b  OBVIOUS
  <2>2. b - m \in U  BY <2>1 DEF U
  <2>3. k <= b - m  BY <2>2, <1>4
  <2>. QED  BY <2>1, <2>3, <1>5
<1>. QED  BY <1>5, <1>6

(* Counting on modulo m, once around at most. *)
LEMMA ModSmall ==
    ASSUME NEW m \in Nat \ {0}, NEW a \in 0 .. m - 1
    PROVE  a % m = a /\ (a + m) % m = a
OBVIOUS

LEMMA ModRange ==
    ASSUME NEW m \in Nat \ {0}, NEW a \in Int
    PROVE  a % m \in 0 .. m - 1
OBVIOUS

(* Quotient and remainder, and that nothing else is them. *)
LEMMA DivMod ==
    ASSUME NEW m \in Nat \ {0}, NEW a \in Int
    PROVE  a = ((a \div m) * m) + (a % m) /\ a % m \in 0 .. m - 1 /\ a \div m \in Int
OBVIOUS

LEMMA DivModUnique ==
    ASSUME NEW m \in Nat \ {0}, NEW q \in Int, NEW p \in Int, NEW r \in 0 .. m - 1, NEW s \in 0 .. m - 1,
           q * m + r = p * m + s
    PROVE  q = p /\ r = s
<1>1. (q - p) * m = s - r  OBVIOUS
<1>2. CASE q > p
  <2>1. (q - p) * m >= m  BY <1>2
  <2>. QED  BY <1>1, <2>1
<1>3. CASE q < p
  <2>1. (p - q) * m >= m  BY <1>3
  <2>2. (p - q) * m = r - s  OBVIOUS
  <2>. QED  BY <2>2, <2>1
<1>4. CASE q = p  BY <1>4
<1>. QED  BY <1>2, <1>3, <1>4

LEMMA DivModIs ==
    ASSUME NEW m \in Nat \ {0}, NEW q \in Int, NEW r \in 0 .. m - 1
    PROVE  (q * m + r) % m = r /\ (q * m + r) \div m = q
<1>. PICK a \in Int : a = q * m + r  OBVIOUS
<1>1. a = ((a \div m) * m) + (a % m) /\ a % m \in 0 .. m - 1 /\ a \div m \in Int  BY DivMod
<1>. QED  BY <1>1, DivModUnique

LEMMA ModAdd ==
    ASSUME NEW m \in Nat \ {0}, NEW a \in Int, NEW b \in Int
    PROVE  ((a % m) + b) % m = (a + b) % m
<1>1. PICK q \in Int, r \in 0 .. m - 1 : a = q * m + r /\ a % m = r  BY DivMod
<1>2. PICK p \in Int, s \in 0 .. m - 1 : r + b = p * m + s /\ (r + b) % m = s
  <2>1. r + b \in Int  OBVIOUS
  <2>. QED  BY <2>1, DivMod
<1>3. a + b = (p + q) * m + s  BY <1>1, <1>2
<1>4. (a + b) % m = s
  <2>1. PICK t \in Int : t = p + q  OBVIOUS
  <2>2. (t * m + s) % m = s  BY DivModIs
  <2>3. a + b = t * m + s  BY <1>3, <2>1
  <2>. QED  BY <2>2, <2>3
<1>. QED  BY <1>1, <1>2, <1>4

LEMMA NextTimes ==
    ASSUME NEW n \in Nat, NEW k \in Nat
    PROVE  (n + 1) * k = n * k + k /\ n * k \in Nat
OBVIOUS

LEMMA TimesMonotone ==
    ASSUME NEW n \in Nat, NEW m \in Nat, NEW k \in Nat, n <= m
    PROVE  n * k <= m * k
OBVIOUS
=============================================================================
