----------------------------- MODULE U256Proofs -----------------------------
(***************************************************************************)
(* Proofs about the carry chain of numeric.rs: Add and Sub for U256 are    *)
(* addition and subtraction modulo 2^(4W) for every limb width W, the      *)
(* code's W = 64 included, and so the caller of U256Calc always sees the   *)
(* results CarryChainCorrect states; and Mul for U256 is not the product  *)
(* modulo 2^(4W) at any width, as the u256_mul run finds at W = 2.         *)
(***************************************************************************)
EXTENDS U256Calc, TLAPS

(* A limb of W bits holds 2^W >= 2 values.                                *)
LEMMA BaseFacts == Base \in Nat /\ Base >= 2 /\ Base \in Nat \ {0}
  <1>1. Base \in Nat /\ Base >= 2
    BY LimbBaseAssumption DEF Base
  <1>2. QED
    BY <1>1

(* The number a U256 stands for is one of 0 .. 2^(4W) - 1.                 *)
LEMMA ValBound ==
  ASSUME NEW a \in U256
  PROVE  Val(a) \in 0..(Modulus - 1)
  <1> USE BaseFacts
  <1>1. /\ a[1] \in Limb /\ a[2] \in Limb /\ a[3] \in Limb /\ a[4] \in Limb
    BY DEF U256
  <1>2. a[1] * Base + a[2] \in 0..(Base * Base - 1)
    BY <1>1 DEF Limb
  <1>3. (a[1] * Base + a[2]) * Base + a[3] \in 0..(Base * Base * Base - 1)
    BY <1>1, <1>2 DEF Limb
  <1>4. ((a[1] * Base + a[2]) * Base + a[3]) * Base + a[4] \in 0..(Base * Base * Base * Base - 1)
    BY <1>1, <1>3 DEF Limb
  <1>5. QED
    BY <1>4 DEF Val, Modulus

(* A value of 0 .. M - 1 plus or minus one M is itself modulo M.           *)
LEMMA ModOneWrap ==
  ASSUME NEW M \in Nat, M > 0, NEW v \in 0..(M - 1), NEW c \in {0, 1}
  PROVE  /\ (v + M * c) % M = v
         /\ (v - M * c) % M = v
  OBVIOUS

(***************************************************************************)
(* One step of the add chain of numeric.rs: the limbs are added, then the  *)
(* incoming carry; the result is a limb, the carry out is one of the two   *)
(* overflow flags, and limb + Base * carry out is the column sum.          *)
(***************************************************************************)
AddColumn(p, q, c) ==
  LET s == OverflowingAdd(p, q)
      t == OverflowingAdd(s[1], CarryIn(c))
  IN  /\ t[1] \in Limb
      /\ t[1] + Base * CarryIn(s[2] \/ t[2]) = p + q + CarryIn(c)

(* Every column of the add chain of numeric.rs satisfies AddColumn.       *)
LEMMA AddStep ==
  ASSUME NEW p \in Limb, NEW q \in Limb, NEW c \in BOOLEAN
  PROVE  AddColumn(p, q, c)
  <1> DEFINE s == OverflowingAdd(p, q)
             t == OverflowingAdd(s[1], CarryIn(c))
  <1> SUFFICES /\ t[1] \in Limb
                /\ t[1] + Base * CarryIn(s[2] \/ t[2]) = p + q + CarryIn(c)
    BY DEF AddColumn
  <1> USE BaseFacts DEF Limb
  <1>1. s[1] = (p + q) % Base
    BY DEF OverflowingAdd
  <1>2. s[2] = (p + q >= Base)
    BY DEF OverflowingAdd
  <1>3. t[1] = (s[1] + CarryIn(c)) % Base
    BY DEF OverflowingAdd
  <1>4. t[2] = (s[1] + CarryIn(c) >= Base)
    BY DEF OverflowingAdd
  <1>5. CarryIn(c) \in {0, 1}
    BY DEF CarryIn
  <1> HIDE DEF s, t
  <1>6. CASE p + q >= Base
    <2>1. s[1] = p + q - Base
      <3>1. (p + q) % Base = p + q - Base
        BY <1>6
      <3>2. QED
        BY <1>1, <3>1, Zenon
    <2>2. t[1] = p + q - Base + CarryIn(c)
      <3>1. (p + q - Base + CarryIn(c)) % Base = p + q - Base + CarryIn(c)
        BY <1>5, <1>6
      <3>2. QED
        BY <1>3, <2>1, <3>1, Zenon
    <2>3. CarryIn(s[2] \/ t[2]) = 1
      BY <1>2, <1>6 DEF CarryIn
    <2>4. t[1] \in Limb
      BY <1>5, <1>6, <2>2
    <2>5. QED
      BY <1>5, <2>2, <2>3, <2>4
  <1>7. CASE p + q < Base
    <2>1. s[1] = p + q
      <3>1. (p + q) % Base = p + q
        BY <1>7
      <3>2. QED
        BY <1>1, <3>1, Zenon
    <2>2. ~s[2]
      <3>1. ~(p + q >= Base)
        BY <1>7
      <3>2. QED
        BY <1>2, <3>1, Zenon
    <2>3. CASE p + q + CarryIn(c) = Base
      <3>1. t[1] = 0
        <4>1. (p + q + CarryIn(c)) % Base = 0
          BY <2>3
        <4>2. QED
          BY <1>3, <2>1, <4>1, Zenon
      <3>2. t[2]
        <4>1. p + q + CarryIn(c) >= Base
          BY <2>3
        <4>2. QED
          BY <1>4, <2>1, <4>1, Zenon
      <3>3. CarryIn(s[2] \/ t[2]) = 1
        BY <3>2 DEF CarryIn
      <3>4. QED
        BY <2>3, <3>1, <3>3
    <2>4. CASE p + q + CarryIn(c) # Base
      <3>1. t[1] = p + q + CarryIn(c)
        <4>1. (p + q + CarryIn(c)) % Base = p + q + CarryIn(c)
          BY <1>5, <1>7, <2>4
        <4>2. QED
          BY <1>3, <2>1, <4>1, Zenon
      <3>2. ~t[2]
        <4>1. ~(p + q + CarryIn(c) >= Base)
          BY <1>5, <1>7, <2>4
        <4>2. QED
          BY <1>4, <2>1, <4>1, Zenon
      <3>3. CarryIn(s[2] \/ t[2]) = 0
        BY <2>2, <3>2 DEF CarryIn
      <3>4. QED
        BY <1>5, <1>7, <2>4, <3>1, <3>3
    <2>5. QED
      BY <2>3, <2>4
  <1>8. QED
    BY <1>6, <1>7

(* The lowest limb: no carry comes in.                                     *)
LEMMA AddLow ==
  ASSUME NEW p \in Limb, NEW q \in Limb
  PROVE  LET s == OverflowingAdd(p, q)
         IN  /\ s[1] \in Limb
             /\ s[1] + Base * CarryIn(s[2]) = p + q
  <1> DEFINE s == OverflowingAdd(p, q)
  <1> SUFFICES s[1] \in Limb /\ s[1] + Base * CarryIn(s[2]) = p + q
    OBVIOUS
  <1> USE BaseFacts DEF Limb
  <1>1. s[1] = (p + q) % Base
    BY DEF OverflowingAdd
  <1>2. s[2] = (p + q >= Base)
    BY DEF OverflowingAdd
  <1> HIDE DEF s
  <1>3. CASE p + q >= Base
    <2>1. (p + q) % Base = p + q - Base
      BY <1>3
    <2>2. CarryIn(s[2]) = 1
      BY <1>2, <1>3 DEF CarryIn
    <2>3. QED
      BY <1>1, <2>1, <2>2
  <1>4. CASE p + q < Base
    <2>1. (p + q) % Base = p + q
      BY <1>4
    <2>2. ~(p + q >= Base)
      BY <1>4
    <2>3. CarryIn(s[2]) = 0
      BY <1>2, <2>2, Zenon DEF CarryIn
    <2>4. QED
      BY <1>1, <2>1, <2>3
  <1>5. QED
    BY <1>3, <1>4

(***************************************************************************)
(* One step of the sub chain: the limbs are subtracted, then the incoming  *)
(* borrow; the result is a limb, the borrow out is one of the two overflow *)
(* flags, and limb - Base * borrow out is the column difference.           *)
(***************************************************************************)
SubColumn(p, q, c) ==
  LET s == OverflowingSub(p, q)
      t == OverflowingSub(s[1], CarryIn(c))
  IN  /\ t[1] \in Limb
      /\ t[1] - Base * CarryIn(s[2] \/ t[2]) = p - q - CarryIn(c)

(* Every column of the sub chain of numeric.rs satisfies SubColumn.       *)
LEMMA SubStep ==
  ASSUME NEW p \in Limb, NEW q \in Limb, NEW c \in BOOLEAN
  PROVE  SubColumn(p, q, c)
  <1> DEFINE s == OverflowingSub(p, q)
             t == OverflowingSub(s[1], CarryIn(c))
  <1> SUFFICES /\ t[1] \in Limb
                /\ t[1] - Base * CarryIn(s[2] \/ t[2]) = p - q - CarryIn(c)
    BY DEF SubColumn
  <1> USE BaseFacts DEF Limb
  <1>1. s[1] = (p - q) % Base
    BY DEF OverflowingSub
  <1>2. s[2] = (p < q)
    BY DEF OverflowingSub
  <1>3. t[1] = (s[1] - CarryIn(c)) % Base
    BY DEF OverflowingSub
  <1>4. t[2] = (s[1] < CarryIn(c))
    BY DEF OverflowingSub
  <1>5. CarryIn(c) \in {0, 1}
    BY DEF CarryIn
  <1> HIDE DEF s, t
  <1>6. CASE p < q
    <2>1. s[1] = p - q + Base
      <3>1. (p - q) % Base = p - q + Base
        BY <1>6
      <3>2. QED
        BY <1>1, <3>1, Zenon
    <2>2. t[1] = p - q + Base - CarryIn(c)
      <3>1. (p - q + Base - CarryIn(c)) % Base = p - q + Base - CarryIn(c)
        BY <1>5, <1>6
      <3>2. s[1] - CarryIn(c) = p - q + Base - CarryIn(c)
        BY <1>5, <2>1
      <3>3. QED
        BY <1>3, <3>1, <3>2, Zenon
    <2>3. CarryIn(s[2] \/ t[2]) = 1
      BY <1>2, <1>6 DEF CarryIn
    <2>4. QED
      BY <1>5, <1>6, <2>2, <2>3
  <1>7. CASE p >= q
    <2>1. s[1] = p - q
      <3>1. (p - q) % Base = p - q
        BY <1>7
      <3>2. QED
        BY <1>1, <3>1, Zenon
    <2>2. ~s[2]
      <3>1. ~(p < q)
        BY <1>7
      <3>2. QED
        BY <1>2, <3>1, Zenon
    <2>3. CASE p - q < CarryIn(c)
      <3>1. t[1] = Base - 1
        <4>1. (p - q - CarryIn(c)) % Base = Base - 1
          BY <1>5, <1>7, <2>3
        <4>2. QED
          BY <1>3, <2>1, <4>1, Zenon
      <3>2. t[2]
        BY <1>4, <2>1, <2>3, Zenon
      <3>3. CarryIn(s[2] \/ t[2]) = 1
        BY <3>2 DEF CarryIn
      <3>4. QED
        BY <1>5, <1>7, <2>3, <3>1, <3>3
    <2>4. CASE p - q >= CarryIn(c)
      <3>1. t[1] = p - q - CarryIn(c)
        <4>1. (p - q - CarryIn(c)) % Base = p - q - CarryIn(c)
          BY <1>5, <1>7, <2>4
        <4>2. QED
          BY <1>3, <2>1, <4>1, Zenon
      <3>2. ~t[2]
        <4>1. ~(p - q < CarryIn(c))
          BY <1>5, <1>7, <2>4
        <4>2. QED
          BY <1>4, <2>1, <4>1, Zenon
      <3>3. CarryIn(s[2] \/ t[2]) = 0
        BY <2>2, <3>2 DEF CarryIn
      <3>4. QED
        BY <1>5, <1>7, <2>4, <3>1, <3>3
    <2>5. QED
      BY <1>5, <1>7, <2>3, <2>4
  <1>8. QED
    BY <1>6, <1>7

(* The lowest limb of the sub chain: no borrow comes in.                   *)
LEMMA SubLow ==
  ASSUME NEW p \in Limb, NEW q \in Limb
  PROVE  LET s == OverflowingSub(p, q)
         IN  /\ s[1] \in Limb
             /\ s[1] - Base * CarryIn(s[2]) = p - q
  <1> DEFINE s == OverflowingSub(p, q)
  <1> SUFFICES s[1] \in Limb /\ s[1] - Base * CarryIn(s[2]) = p - q
    OBVIOUS
  <1> USE BaseFacts DEF Limb
  <1>1. s[1] = (p - q) % Base
    BY DEF OverflowingSub
  <1>2. s[2] = (p < q)
    BY DEF OverflowingSub
  <1> HIDE DEF s
  <1>3. CASE p < q
    <2>1. (p - q) % Base = p - q + Base
      BY <1>3
    <2>2. CarryIn(s[2]) = 1
      BY <1>2, <1>3 DEF CarryIn
    <2>3. QED
      BY <1>1, <2>1, <2>2
  <1>4. CASE p >= q
    <2>1. (p - q) % Base = p - q
      BY <1>4
    <2>2. ~(p < q)
      BY <1>4
    <2>3. CarryIn(s[2]) = 0
      BY <1>2, <2>2, Zenon DEF CarryIn
    <2>4. QED
      BY <1>1, <2>1, <2>3
  <1>5. QED
    BY <1>3, <1>4

LEMMA ModulusFacts == Modulus \in Nat /\ Modulus > 0
  BY BaseFacts DEF Modulus

(***************************************************************************)
(* The 256-bit add of numeric.rs (four limbs, the carry of each column     *)
(* taken into the next, the last carry dropped) is addition modulo         *)
(* 2^(4W), and its result is again a U256.                                 *)
(***************************************************************************)
LEMMA AddCorrect ==
  ASSUME NEW a \in U256, NEW b \in U256
  PROVE  /\ Add(a, b) \in U256
         /\ Val(Add(a, b)) = (Val(a) + Val(b)) % Modulus
  <1> DEFINE s0  == OverflowingAdd(a[4], b[4])
             s1a == OverflowingAdd(a[3], b[3])
             s1b == OverflowingAdd(s1a[1], CarryIn(s0[2]))
             s2a == OverflowingAdd(a[2], b[2])
             s2b == OverflowingAdd(s2a[1], CarryIn(s1a[2] \/ s1b[2]))
             s3a == OverflowingAdd(a[1], b[1])
             s3b == OverflowingAdd(s3a[1], CarryIn(s2a[2] \/ s2b[2]))
             r   == << s3b[1], s2b[1], s1b[1], s0[1] >>
  <1>1. Add(a, b) = r
    BY DEF Add, CarryChain
  <1>2. /\ a[1] \in Limb /\ a[2] \in Limb /\ a[3] \in Limb /\ a[4] \in Limb
        /\ b[1] \in Limb /\ b[2] \in Limb /\ b[3] \in Limb /\ b[4] \in Limb
    BY DEF U256
  <1>3. /\ s0[2] \in BOOLEAN
        /\ s1a[2] \/ s1b[2] \in BOOLEAN
        /\ s2a[2] \/ s2b[2] \in BOOLEAN
    BY DEF OverflowingAdd
  <1>4. s0[1] \in Limb /\ s0[1] + Base * CarryIn(s0[2]) = a[4] + b[4]
    BY <1>2, AddLow
  <1>5. /\ s1b[1] \in Limb
        /\ s1b[1] + Base * CarryIn(s1a[2] \/ s1b[2]) = a[3] + b[3] + CarryIn(s0[2])
    <2>1. AddColumn(a[3], b[3], s0[2])
      BY <1>2, <1>3, AddStep
    <2>2. QED
      BY <2>1 DEF AddColumn
  <1>6. /\ s2b[1] \in Limb
        /\ s2b[1] + Base * CarryIn(s2a[2] \/ s2b[2])
             = a[2] + b[2] + CarryIn(s1a[2] \/ s1b[2])
    <2>1. AddColumn(a[2], b[2], s1a[2] \/ s1b[2])
      BY <1>2, <1>3, AddStep
    <2>2. QED
      BY <2>1 DEF AddColumn
  <1>7. /\ s3b[1] \in Limb
        /\ s3b[1] + Base * CarryIn(s3a[2] \/ s3b[2])
             = a[1] + b[1] + CarryIn(s2a[2] \/ s2b[2])
    <2>1. AddColumn(a[1], b[1], s2a[2] \/ s2b[2])
      BY <1>2, <1>3, AddStep
    <2>2. QED
      BY <2>1 DEF AddColumn
  <1> HIDE DEF s0, s1a, s1b, s2a, s2b, s3a, s3b
  <1>8. r \in U256
    BY <1>4, <1>5, <1>6, <1>7 DEF U256
  <1>9. Val(r) + Modulus * CarryIn(s3a[2] \/ s3b[2]) = Val(a) + Val(b)
    <2> DEFINE r1 == s3b[1]  r2 == s2b[1]  r3 == s1b[1]  r4 == s0[1]
               d1 == a[1] + b[1]  d2 == a[2] + b[2]
               d3 == a[3] + b[3]  d4 == a[4] + b[4]
               k0 == CarryIn(s0[2])  k1 == CarryIn(s1a[2] \/ s1b[2])
               k2 == CarryIn(s2a[2] \/ s2b[2])  k3 == CarryIn(s3a[2] \/ s3b[2])
    <2>1. /\ r1 \in Int /\ r2 \in Int /\ r3 \in Int /\ r4 \in Int
          /\ d1 \in Int /\ d2 \in Int /\ d3 \in Int /\ d4 \in Int
          /\ k0 \in Int /\ k1 \in Int /\ k2 \in Int /\ k3 \in Int
      BY <1>2, <1>4, <1>5, <1>6, <1>7, BaseFacts DEF Limb, CarryIn
    <2>2. /\ r4 + Base * k0 = d4
          /\ r3 + Base * k1 = d3 + k0
          /\ r2 + Base * k2 = d2 + k1
          /\ r1 + Base * k3 = d1 + k2
      BY <1>4, <1>5, <1>6, <1>7
    <2>3. ((r1 * Base + r2) * Base + r3) * Base + r4 + Base * Base * Base * Base * k3
            = ((d1 * Base + d2) * Base + d3) * Base + d4
      <3> HIDE DEF r1, r2, r3, r4, d1, d2, d3, d4, k0, k1, k2, k3
      <3>1. (r1 + Base * k3) * Base + r2 = d1 * Base + d2 + k1
        BY <2>1, <2>2, BaseFacts
      <3>2. ((r1 + Base * k3) * Base + r2) * Base + r3 = (d1 * Base + d2) * Base + d3 + k0
        BY <2>1, <2>2, <3>1, BaseFacts
      <3>3. QED
        BY <2>1, <2>2, <3>2, BaseFacts
    <2>4. ((d1 * Base + d2) * Base + d3) * Base + d4 = Val(a) + Val(b)
      BY <1>2, BaseFacts DEF Val, Limb
    <2>5. QED
      BY <2>3, <2>4 DEF Val, Modulus, r
  <1>10. QED
    <2>1. Val(r) \in 0..(Modulus - 1)
      BY <1>8, ValBound
    <2>2. CarryIn(s3a[2] \/ s3b[2]) \in {0, 1}
      BY DEF CarryIn
    <2>3. (Val(r) + Modulus * CarryIn(s3a[2] \/ s3b[2])) % Modulus = Val(r)
      BY <2>1, <2>2, ModulusFacts, ModOneWrap
    <2>4. QED
      BY <1>1, <1>8, <1>9, <2>3
(***************************************************************************)
(* The 256-bit sub of numeric.rs (four limbs, the borrow of each column   *)
(* taken from the next, the last borrow dropped) is subtraction modulo     *)
(* 2^(4W), and its result is again a U256.                                 *)
(***************************************************************************)
LEMMA SubCorrect ==
  ASSUME NEW a \in U256, NEW b \in U256
  PROVE  /\ Sub(a, b) \in U256
         /\ Val(Sub(a, b)) = (Val(a) - Val(b)) % Modulus
  <1> DEFINE s0  == OverflowingSub(a[4], b[4])
             s1a == OverflowingSub(a[3], b[3])
             s1b == OverflowingSub(s1a[1], CarryIn(s0[2]))
             s2a == OverflowingSub(a[2], b[2])
             s2b == OverflowingSub(s2a[1], CarryIn(s1a[2] \/ s1b[2]))
             s3a == OverflowingSub(a[1], b[1])
             s3b == OverflowingSub(s3a[1], CarryIn(s2a[2] \/ s2b[2]))
             r   == << s3b[1], s2b[1], s1b[1], s0[1] >>
  <1>1. Sub(a, b) = r
    BY DEF Sub, CarryChain
  <1>2. /\ a[1] \in Limb /\ a[2] \in Limb /\ a[3] \in Limb /\ a[4] \in Limb
        /\ b[1] \in Limb /\ b[2] \in Limb /\ b[3] \in Limb /\ b[4] \in Limb
    BY DEF U256
  <1>3. /\ s0[2] \in BOOLEAN
        /\ s1a[2] \/ s1b[2] \in BOOLEAN
        /\ s2a[2] \/ s2b[2] \in BOOLEAN
    BY DEF OverflowingSub
  <1>4. s0[1] \in Limb /\ s0[1] - Base * CarryIn(s0[2]) = a[4] - b[4]
    BY <1>2, SubLow
  <1>5. /\ s1b[1] \in Limb
        /\ s1b[1] - Base * CarryIn(s1a[2] \/ s1b[2]) = a[3] - b[3] - CarryIn(s0[2])
    <2>1. SubColumn(a[3], b[3], s0[2])
      BY <1>2, <1>3, SubStep
    <2>2. QED
      BY <2>1 DEF SubColumn
  <1>6. /\ s2b[1] \in Limb
        /\ s2b[1] - Base * CarryIn(s2a[2] \/ s2b[2])
             = a[2] - b[2] - CarryIn(s1a[2] \/ s1b[2])
    <2>1. SubColumn(a[2], b[2], s1a[2] \/ s1b[2])
      BY <1>2, <1>3, SubStep
    <2>2. QED
      BY <2>1 DEF SubColumn
  <1>7. /\ s3b[1] \in Limb
        /\ s3b[1] - Base * CarryIn(s3a[2] \/ s3b[2])
             = a[1] - b[1] - CarryIn(s2a[2] \/ s2b[2])
    <2>1. SubColumn(a[1], b[1], s2a[2] \/ s2b[2])
      BY <1>2, <1>3, SubStep
    <2>2. QED
      BY <2>1 DEF SubColumn
  <1> HIDE DEF s0, s1a, s1b, s2a, s2b, s3a, s3b
  <1>8. r \in U256
    BY <1>4, <1>5, <1>6, <1>7 DEF U256
  <1>9. Val(r) - Modulus * CarryIn(s3a[2] \/ s3b[2]) = Val(a) - Val(b)
    <2> DEFINE r1 == s3b[1]  r2 == s2b[1]  r3 == s1b[1]  r4 == s0[1]
               d1 == a[1] - b[1]  d2 == a[2] - b[2]
               d3 == a[3] - b[3]  d4 == a[4] - b[4]
               k0 == -CarryIn(s0[2])  k1 == -CarryIn(s1a[2] \/ s1b[2])
               k2 == -CarryIn(s2a[2] \/ s2b[2])  k3 == -CarryIn(s3a[2] \/ s3b[2])
    <2>1. /\ r1 \in Int /\ r2 \in Int /\ r3 \in Int /\ r4 \in Int
          /\ d1 \in Int /\ d2 \in Int /\ d3 \in Int /\ d4 \in Int
          /\ k0 \in Int /\ k1 \in Int /\ k2 \in Int /\ k3 \in Int
      BY <1>2, <1>4, <1>5, <1>6, <1>7, BaseFacts DEF Limb, CarryIn
    <2>0. /\ CarryIn(s0[2]) \in {0, 1} /\ CarryIn(s1a[2] \/ s1b[2]) \in {0, 1}
          /\ CarryIn(s2a[2] \/ s2b[2]) \in {0, 1} /\ CarryIn(s3a[2] \/ s3b[2]) \in {0, 1}
      BY DEF CarryIn
    <2>2. /\ r4 + Base * k0 = d4
          /\ r3 + Base * k1 = d3 + k0
          /\ r2 + Base * k2 = d2 + k1
          /\ r1 + Base * k3 = d1 + k2
      BY <1>2, <1>4, <1>5, <1>6, <1>7, <2>0, BaseFacts DEF Limb
    <2>3. ((r1 * Base + r2) * Base + r3) * Base + r4 + Base * Base * Base * Base * k3
            = ((d1 * Base + d2) * Base + d3) * Base + d4
      <3> HIDE DEF r1, r2, r3, r4, d1, d2, d3, d4, k0, k1, k2, k3
      <3>1. (r1 + Base * k3) * Base + r2 = d1 * Base + d2 + k1
        BY <2>1, <2>2, BaseFacts
      <3>2. ((r1 + Base * k3) * Base + r2) * Base + r3 = (d1 * Base + d2) * Base + d3 + k0
        BY <2>1, <2>2, <3>1, BaseFacts
      <3>3. QED
        BY <2>1, <2>2, <3>2, BaseFacts
    <2>4. ((d1 * Base + d2) * Base + d3) * Base + d4 = Val(a) - Val(b)
      BY <1>2, BaseFacts DEF Val, Limb
    <2>5. QED
      BY <1>4, <1>5, <1>6, <1>7, <2>0, <2>3, <2>4, BaseFacts DEF Val, Modulus, r, Limb
  <1>10. QED
    <2>1. Val(r) \in 0..(Modulus - 1)
      BY <1>8, ValBound
    <2>2. CarryIn(s3a[2] \/ s3b[2]) \in {0, 1}
      BY DEF CarryIn
    <2>3. (Val(r) - Modulus * CarryIn(s3a[2] \/ s3b[2])) % Modulus = Val(r)
      BY <2>1, <2>2, ModulusFacts, ModOneWrap
    <2>4. QED
      BY <1>1, <1>8, <1>9, <2>3
(***************************************************************************)
(* CarryChainCorrect is not inductive by itself: its step needs x and y to *)
(* be U256 values, which Init picks from Operands and Next never changes.  *)
(***************************************************************************)
IInv == << x, y >> \in Operands /\ CarryChainCorrect

(***************************************************************************)
(* Every add and sub a caller of numeric.rs makes returns the sum and the  *)
(* difference of its operands modulo 2^(4W), for every limb width W and    *)
(* every set of operands, whatever the other calls before it.              *)
(***************************************************************************)
THEOREM CarryChainCorrectHolds == Spec => []CarryChainCorrect
  <1>1. Init => IInv
    BY OperandsAssumption DEF Init, IInv, CarryChainCorrect, NoOp
  <1>2. IInv /\ [Next]_vars => IInv'
    <2> SUFFICES ASSUME IInv, [Next]_vars PROVE IInv'
      OBVIOUS
    <2>1. x \in U256 /\ y \in U256
      BY OperandsAssumption DEF IInv
    <2>2. CASE AddOp /\ UNCHANGED << x, y >>
      <3>1. Add(x, y) \in U256 /\ Val(Add(x, y)) = (Val(x) + Val(y)) % Modulus
        BY <2>1, AddCorrect
      <3>2. QED
        BY <2>2, <3>1 DEF IInv, AddOp, CarryChainCorrect
    <2>3. CASE SubOp /\ UNCHANGED << x, y >>
      <3>1. Sub(x, y) \in U256 /\ Val(Sub(x, y)) = (Val(x) - Val(y)) % Modulus
        BY <2>1, SubCorrect
      <3>2. QED
        BY <2>3, <3>1 DEF IInv, SubOp, CarryChainCorrect
    <2>4. CASE (MulOp \/ DivOp) /\ UNCHANGED << x, y >>
      BY <2>4 DEF IInv, MulOp, DivOp, CarryChainCorrect
    <2>5. CASE (\E s \in 0..(4 * W + 1) : ShlOp(s) \/ ShrOp(s)) /\ UNCHANGED << x, y >>
      BY <2>5 DEF IInv, ShlOp, ShrOp, CarryChainCorrect
    <2>6. CASE (\E b \in DecInputs : DecodeOp(b)) /\ UNCHANGED << x, y >>
      BY <2>6 DEF IInv, DecodeOp, CarryChainCorrect
    <2>7. CASE UNCHANGED vars
      BY <2>7 DEF IInv, vars, CarryChainCorrect
    <2>8. QED
      BY <2>2, <2>3, <2>4, <2>5, <2>6, <2>7 DEF Next
  <1>3. IInv => CarryChainCorrect
    BY DEF IInv
  <1>4. QED
    BY <1>1, <1>2, <1>3, PTL DEF Spec

-----------------------------------------------------------------------------
(***************************************************************************)
(* Mul for U256 takes each column's whole u128 sum >> 64 as the limb, so   *)
(* the low half of a column is lost: 1 * 2^W returns 0, without panicking  *)
(* in either build, for every limb width W (test_u256's 123456 * 7891011   *)
(* passes only because its factors fit one limb).  MulMatchesIntegers      *)
(* fails at every width, not only at the W = 2 of the u256_mul run.        *)
(***************************************************************************)
THEOREM MulLosesColumnLowHalf ==
  LET a == << 0, 0, 0, 1 >>
      b == << 0, 0, 1, 0 >>
  IN  /\ a \in U256 /\ b \in U256
      /\ ~Mul(a, b).panic
      /\ Mul(a, b).val = Zero
      /\ (Val(a) * Val(b)) % Modulus = Base
  <1> DEFINE a == << 0, 0, 0, 1 >>
             b == << 0, 0, 1, 0 >>
  <1>1. Base \in Nat /\ Base >= 2 /\ Word = Base * Base
    BY BaseFacts, WordAssumption DEF Word, Base
  <1>2. a \in U256 /\ b \in U256
    BY <1>1 DEF U256, Limb
  <1>3. /\ 1 % Word = 1 /\ 1 \div Base = 0 /\ 0 % Word = 0 /\ 0 \div Base = 0
        /\ 0 % Base = 0 /\ 1 < Word
    BY <1>1
  <1>4. Mul(a, b) = [panic |-> OverflowChecks /\ \E r \in {1, 0, 0} : r >= Word,
                     val   |-> << 0, 0, 0, 0 >>]
    BY <1>3 DEF Mul
  <1>5. ~Mul(a, b).panic /\ Mul(a, b).val = Zero
    <2>1. ~\E r \in {1, 0, 0} : r >= Word
      BY <1>1, <1>3
    <2>2. ~(OverflowChecks /\ \E r \in {1, 0, 0} : r >= Word)
      BY <2>1
    <2>3. Mul(a, b).panic = (OverflowChecks /\ \E r \in {1, 0, 0} : r >= Word)
      BY <1>4
    <2>4. Mul(a, b).val = Zero
      BY <1>4 DEF Zero
    <2>5. QED
      BY <2>2, <2>3, <2>4, Zenon
  <1>6. Val(a) = 1 /\ Val(b) = Base
    BY <1>1 DEF Val
  <1>7. Base < Modulus
    BY <1>1 DEF Modulus
  <1>8. (Val(a) * Val(b)) % Modulus = Base
    <2>1. Val(a) * Val(b) = Base
      BY <1>1, <1>6
    <2>2. Modulus \in Nat /\ Base \in 0..(Modulus - 1)
      BY <1>1, <1>7, ModulusFacts
    <2> HIDE DEF Val, Modulus
    <2>3. QED
      BY <2>1, <2>2
  <1>9. QED
    BY <1>2, <1>5, <1>8

=============================================================================
