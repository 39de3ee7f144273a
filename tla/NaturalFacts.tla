---------------------------- MODULE NaturalFacts ----------------------------
(***************************************************************************)
(* Facts about natural numbers that several proofs use: least elements,    *)
(* the minimal counterexamples that stand in for induction, and division   *)
(* with remainder.                                                         *)
(***************************************************************************)
EXTENDS Integers, FiniteSetsExt, WellFoundedInduction, TLAPS

(* A nonempty set of naturals has a least element.                         *)
LEMMA LeastElement ==
  ASSUME NEW S \in SUBSET Nat, S # {}
  PROVE  \E x \in S : \A y \in S : x <= y
<1> DEFINE R == {ss \in Nat \X Nat : ss[1] < ss[2]}
<1>0. IsWellFoundedOn(R, Nat)
  BY NatLessThanWellFounded DEF OpToRel
<1>1. PICK x \in S : \A y \in S : ~(<<y, x>> \in R)
  <2> HIDE DEF R
  <2> QED  BY <1>0, WFMin, Zenon
<1>2. ASSUME NEW y \in S  PROVE x <= y
  <2>1. y \in Nat /\ x \in Nat
    OBVIOUS
  <2>2. y < x => <<y, x>> \in R
    BY <2>1
  <2>3. ~(y < x)
    BY <1>1, <2>2
  <2> QED  BY <2>1, <2>3
<1> QED  BY <1>2

(* Induction over a set of naturals: what holds of 0, and of n + 1 when it *)
(* holds of n, holds of all.                                               *)
LEMMA SetInduction ==
  ASSUME NEW S, 0 \in S, \A n \in Nat : n \in S => n + 1 \in S
  PROVE  \A n \in Nat : n \in S
<1> SUFFICES ASSUME Nat \ S # {}
             PROVE  FALSE
  OBVIOUS
<1>1. PICK x \in Nat \ S : \A y \in Nat \ S : x <= y
  BY LeastElement, Zenon
<1>2. x # 0 /\ x - 1 \in Nat
  BY <1>1
<1>3. x - 1 \in S
  BY <1>1, <1>2
<1>4. (x - 1) + 1 \in S
  BY <1>2, <1>3
<1> QED  BY <1>1, <1>4

(* Min picks the least one: the first free slot, the first match.          *)
LEMMA MinProperties ==
  ASSUME NEW S \in SUBSET Nat, S # {}
  PROVE  /\ Min(S) \in S
         /\ \A y \in S : Min(S) <= y
BY LeastElement, Zenon DEF Min

(* A multiple of p is at least p, or not positive.                         *)
LEMMA MultipleBounds ==
  ASSUME NEW p \in Nat \ {0}, NEW x \in Int
  PROVE  /\ p * x \in Int
         /\ x >= 1 => p * x >= p
         /\ x <= -1 => p * x <= -p
OBVIOUS

(* Division with remainder.                                                *)
LEMMA Division ==
  ASSUME NEW x \in Nat, NEW p \in Nat \ {0}
  PROVE  /\ x \div p \in Nat /\ x % p \in Nat /\ x % p < p
         /\ p * (x \div p) \in Nat /\ x = p * (x \div p) + (x % p)
OBVIOUS

(* Adding a multiple of p does not change divisibility by p.               *)
LEMMA AddMultiple ==
  ASSUME NEW x \in Nat, NEW p \in Nat \ {0}, NEW k \in Nat, x % p = 0
  PROVE  (x + p * k) % p = 0
<1> DEFINE y == x + p * k
           a == x \div p
           b == y \div p
<1>1. p * k \in Nat /\ y \in Nat
  OBVIOUS
<1>2. /\ a \in Nat /\ x = p * a
  BY Division
<1>3. /\ b \in Nat /\ y % p \in Nat /\ y % p < p /\ p * b \in Nat /\ y = p * b + (y % p)
  BY <1>1, Division
<1>4. y % p = p * (a + k - b)
  <2>1. p * a + p * k - p * b = p * (a + k - b)
    BY <1>2, <1>3
  <2> QED  BY <1>1, <1>2, <1>3, <2>1
<1>5. a + k - b \in Int
  BY <1>2, <1>3
<1>6. p * (a + k - b) < p /\ p * (a + k - b) >= 0
  BY <1>3, <1>4
<1>7. a + k - b = 0
  BY <1>5, <1>6, MultipleBounds
<1> QED  BY <1>4, <1>7

(* The remainder of a number below two moduli.                             *)
LEMMA ModuloOnce ==
  ASSUME NEW x \in Nat, NEW p \in Nat \ {0}, x < 2 * p
  PROVE  x % p = IF x < p THEN x ELSE x - p
<1> DEFINE q == x \div p
<1>1. q \in Nat /\ x % p \in Nat /\ x % p < p /\ p * q \in Nat /\ x = p * q + (x % p)
  BY Division
<1>2. q = 0 \/ q = 1 \/ q >= 2
  BY <1>1
<1>3. q >= 2 => p * q >= 2 * p
  <2>1. q >= 2 => p * (q - 1) >= p
    BY <1>1, MultipleBounds
  <2>2. p * q = p * (q - 1) + p
    BY <1>1
  <2>3. p * (q - 1) \in Int
    BY <1>1
  <2> HIDE DEF q
  <2> QED  BY <1>1, <2>1, <2>2, <2>3
<1>4. (q = 0 => p * q = 0) /\ (q = 1 => p * q = p)
  OBVIOUS
<1> DEFINE r == x % p
<1> HIDE DEF q, r
<1>5. r = IF x < p THEN x ELSE x - p
  BY <1>1, <1>2, <1>3, <1>4 DEF r
<1> QED  BY <1>5 DEF r
=============================================================================
