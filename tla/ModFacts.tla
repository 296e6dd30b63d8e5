------------------------------ MODULE ModFacts ------------------------------
(***************************************************************************)
(* Arithmetic the proofs share: the remainders by which the loops decide   *)
(* when a completion is asked for, and the counters that wrap.             *)
(***************************************************************************)
EXTENDS Integers, TLAPS

(* Division with remainder. *)
LEMMA DivMod ==
    ASSUME NEW M \in Nat \ {0}, NEW x \in Int
    PROVE  /\ x \div M \in Int /\ x % M \in 0..(M - 1)
           /\ x = (x \div M) * M + (x % M)
  OBVIOUS

(* A number without remainder is a multiple. *)
LEMMA IsMultiple ==
    ASSUME NEW M \in Nat \ {0}, NEW x \in Nat, x % M = 0
    PROVE  \E d \in Int : x = d * M
<1>1. x \div M \in Int /\ x = (x \div M) * M + 0
  BY DivMod
<1>2. x = (x \div M) * M
  BY <1>1
<1> QED  BY <1>1, <1>2

(* Only the multiple 0 of M lies strictly between -M and M. *)
LEMMA SmallMultiple ==
    ASSUME NEW M \in Nat \ {0}, NEW k \in Int, k * M < M, -M < k * M
    PROVE  k = 0
<1>1. CASE k >= 1
  <2>1. (k - 1) * M >= 0
    BY <1>1
  <2> QED  BY <2>1
<1>2. CASE k <= -1
  <2>1. (-k - 1) * M >= 0
    BY <1>2
  <2> QED  BY <2>1
<1> QED  BY <1>1, <1>2

(* Adding multiples of M changes no remainder. *)
LEMMA ModShift ==
    ASSUME NEW M \in Nat \ {0}, NEW x \in Nat, x < M, NEW k \in Int
    PROVE  (x + k * M) % M = x
<1> DEFINE z == x + k * M
           d == z \div M
           e == k - d
<1>1. z \in Int
  OBVIOUS
<1>2. d \in Int /\ z % M \in 0..(M - 1) /\ z = d * M + (z % M)
  BY DivMod, <1>1
<1> HIDE DEF d
<1>3. e * M = (z % M) - x
  BY <1>2
<1>4. e \in Int /\ e * M < M /\ -M < e * M
  BY <1>2, <1>3
<1> HIDE DEF e
<1>5. e = 0
  BY <1>4, SmallMultiple
<1>6. k = d
  BY <1>5, <1>2 DEF e
<1> QED  BY <1>2, <1>6

(* A difference below M can be computed from a reduced subtrahend. *)
LEMMA ModDiff ==
    ASSUME NEW M \in Nat \ {0}, NEW a \in Nat, NEW b \in Nat, 0 <= a - b, a - b < M
    PROVE  (a - (b % M)) % M = a - b
<1>1. PICK d \in Int, r \in 0..(M - 1) : b % M = r /\ b = d * M + r
  BY DivMod
<1>2. a - r = (a - b) + d * M
  BY <1>1
<1>3. a - b \in Nat
  OBVIOUS
<1>4. ((a - b) + d * M) % M = a - b
  BY <1>1, <1>3, ModShift
<1> QED  BY <1>1, <1>2, <1>4

(* Remainders count up and start over. *)
LEMMA ModSucc ==
    ASSUME NEW M \in Nat \ {0}, NEW k \in Nat
    PROVE  (k + 1) % M = IF k % M = M - 1 THEN 0 ELSE (k % M) + 1
<1>1. PICK d \in Int, r \in 0..(M - 1) : k % M = r /\ k = d * M + r
  BY DivMod
<1>2. CASE r = M - 1
  <2>1. k + 1 = 0 + (d + 1) * M
    BY <1>1, <1>2
  <2>2. (0 + (d + 1) * M) % M = 0
    BY <1>1, ModShift
  <2> QED  BY <1>1, <1>2, <2>1, <2>2
<1>3. CASE r # M - 1
  <2>1. k + 1 = (r + 1) + d * M
    BY <1>1
  <2>2. ((r + 1) + d * M) % M = r + 1
    BY <1>1, <1>3, ModShift
  <2> QED  BY <1>1, <1>3, <2>1, <2>2
<1> QED  BY <1>2, <1>3

(* A number cut to at least two values differs from the next one. *)
LEMMA ModNext ==
    ASSUME NEW M \in Nat \ {0, 1}, NEW k \in Nat PROVE (k + 1) % M # k % M
<1>1. k % M \in 0..(M - 1)
  OBVIOUS
<1>2. (k + 1) % M = IF k % M = M - 1 THEN 0 ELSE (k % M) + 1
  BY ModSucc
<1> QED  BY <1>1, <1>2

(* From one multiple of M to the next, the remainder is the distance. *)
LEMMA ModBetween ==
    ASSUME NEW M \in Nat \ {0}, NEW c \in Nat, c % M = 0, NEW k \in Nat, c <= k, k < c + M
    PROVE  k % M = k - c
<1>1. PICK d \in Int : c = d * M
  BY IsMultiple
<1>2. k = (k - c) + d * M
  BY <1>1
<1>3. k - c \in Nat /\ k - c < M
  OBVIOUS
<1>4. ((k - c) + d * M) % M = k - c
  BY <1>1, <1>3, ModShift
<1> QED  BY <1>2, <1>4

(* The next multiple of M is M away. *)
LEMMA NextMultiple ==
    ASSUME NEW M \in Nat \ {0}, NEW c \in Nat, c % M = 0
    PROVE  (c + M) % M = 0
<1>1. PICK d \in Int : c = d * M
  BY IsMultiple
<1>2. c + M = 0 + (d + 1) * M
  BY <1>1
<1>3. (0 + (d + 1) * M) % M = 0
  BY <1>1, ModShift
<1> QED  BY <1>2, <1>3
=============================================================================
