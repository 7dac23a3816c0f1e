------------------------------- MODULE U256 -------------------------------
(***************************************************************************)
(* The 256-bit unsigned integer of src/ethereum/ethereum_types/numeric.rs: *)
(* four limbs, most significant first (U256([u64; 4]), from_be_bytes puts  *)
(* bytes 0..8 in limb 0).  The limb width W is a parameter: the code has   *)
(* W = 64, and the carry, borrow, shift and division logic is the same at  *)
(* every width, so a small W lets TLC enumerate every value.  Uint (u128)  *)
(* is two limbs wide.  OverflowChecks says whether the build panics on     *)
(* integer overflow (debug) or wraps (release).                            *)
(***************************************************************************)
EXTENDS Integers

CONSTANTS W, OverflowChecks

ASSUME LimbWidthAssumption == W \in {2^k : k \in 0..6}
ASSUME U256OverflowAssumption == OverflowChecks \in BOOLEAN

(* A limb holds at least two values.  This follows from the assumption on  *)
(* W; it is stated because the provers cannot evaluate 2^W for W = 64.     *)
ASSUME LimbBaseAssumption == 2^W \in Nat /\ 2^W >= 2
(* A u128 is two limbs: 2^(2W) is (2^W)^2.                              *)
ASSUME WordAssumption == 2^(2 * W) = 2^W * 2^W

Base == 2^W                       \* u64::MAX + 1
Word == 2^(2 * W)                 \* u128::MAX + 1
Limb == 0..(Base - 1)
U256 == [1..4 -> Limb]

(* The number a U256 stands for.                                           *)
Val(a) == ((a[1] * Base + a[2]) * Base + a[3]) * Base + a[4]

Zero == << 0, 0, 0, 0 >>

(* u64::overflowing_add and u64::overflowing_sub: the wrapped result and   *)
(* whether it wrapped.                                                     *)
OverflowingAdd(x, y) == << (x + y) % Base, x + y >= Base >>
OverflowingSub(x, y) == << (x - y) % Base, x < y >>

CarryIn(c) == IF c THEN 1 ELSE 0

(***************************************************************************)
(* The carry chain shared by Add for U256 and Sub for U256: limb 3 first,  *)
(* each higher limb adding (subtracting) the other operand's limb and then *)
(* the carry (borrow) of either step below; the top carry is dropped.      *)
(***************************************************************************)
(* A chain that passes on only the carry of adding the carry below.        *)
CarryChainOnlySecondCarry(a, b, Op(_, _)) ==
    LET s0  == Op(a[4], b[4])
        s1a == Op(a[3], b[3])
        s1b == Op(s1a[1], CarryIn(s0[2]))
        s2a == Op(a[2], b[2])
        s2b == Op(s2a[1], CarryIn(s1b[2]))
        s3a == Op(a[1], b[1])
        s3b == Op(s3a[1], CarryIn(s2b[2]))
    IN  << s3b[1], s2b[1], s1b[1], s0[1] >>

CarryChain(a, b, Op(_, _)) ==
    LET s0  == Op(a[4], b[4])
        s1a == Op(a[3], b[3])
        s1b == Op(s1a[1], CarryIn(s0[2]))
        s2a == Op(a[2], b[2])
        s2b == Op(s2a[1], CarryIn(s1a[2] \/ s1b[2]))
        s3a == Op(a[1], b[1])
        s3b == Op(s3a[1], CarryIn(s2a[2] \/ s2b[2]))
    IN  << s3b[1], s2b[1], s1b[1], s0[1] >>

AddOnlySecondCarry(a, b) == CarryChainOnlySecondCarry(a, b, OverflowingAdd)

Add(a, b) == CarryChain(a, b, OverflowingAdd)

Sub(a, b) == CarryChain(a, b, OverflowingSub)

(***************************************************************************)
(* Mul for U256.  Each column sum is taken in u128, and, as Rust binds +   *)
(* tighter than >>, the whole column including the column below is        *)
(* shifted right by the limb width: sum1 = (p + q + sum0) >> 64.  A column *)
(* whose u128 sum overflows panics in a debug build and wraps otherwise.   *)
(* The result is [panic, val].                                             *)
(***************************************************************************)
(* A mul that keeps each column's u128 value instead of its low limb.      *)
MulUntruncated(a, b) ==
    LET sum0  == a[4] * b[4]
        raw1  == a[3] * b[4] + a[4] * b[3] + sum0
        sum1  == (raw1 % Word) \div Base
        raw2  == a[2] * b[4] + a[3] * b[3] + a[4] * b[2] + sum1
        sum2  == (raw2 % Word) \div Base
        raw3  == a[1] * b[4] + a[2] * b[3] + a[3] * b[2] + a[4] * b[1] + sum2
        sum3  == (raw3 % Word) \div Base
    IN  [panic |-> OverflowChecks /\ \E r \in {raw1, raw2, raw3} : r >= Word,
         val   |-> << sum3, sum2, sum1, sum0 >>]

Mul(a, b) ==
    LET sum0  == a[4] * b[4]
        raw1  == a[3] * b[4] + a[4] * b[3] + sum0
        sum1  == (raw1 % Word) \div Base
        raw2  == a[2] * b[4] + a[3] * b[3] + a[4] * b[2] + sum1
        sum2  == (raw2 % Word) \div Base
        raw3  == a[1] * b[4] + a[2] * b[3] + a[3] * b[2] + a[4] * b[1] + sum2
        sum3  == (raw3 % Word) \div Base
    IN  [panic |-> OverflowChecks /\ \E r \in {raw1, raw2, raw3} : r >= Word,
         val   |-> << sum3 % Base, sum2 % Base, sum1 % Base, sum0 % Base >>]

(* u64 << n and u64 >> n for n < 64.                                       *)
LimbShl(x, n) == (x * 2^n) % Base
LimbShr(x, n) == x \div 2^n

(***************************************************************************)
(* U256::shl: the in-limb shift sh = shift & 63 combines each limb with    *)
(* the top bits of the next, nsh = shift.wrapping_neg() & 63, and whole    *)
(* limbs are then dropped for shifts of 64 or more.  The two parts of a    *)
(* limb have disjoint bits, so | is +.                                     *)
(***************************************************************************)
Shl(a, shift) ==
    LET sh  == shift % W
        nsh == (W - sh) % W
        s   == IF sh = 0 THEN a
               ELSE << LimbShl(a[1], sh) + LimbShr(a[2], nsh),
                       LimbShl(a[2], sh) + LimbShr(a[3], nsh),
                       LimbShl(a[3], sh) + LimbShr(a[4], nsh),
                       LimbShl(a[4], sh) >>
    IN  IF shift >= 4 * W THEN Zero
        ELSE IF shift >= 3 * W THEN << s[4], 0, 0, 0 >>
        ELSE IF shift >= 2 * W THEN << s[3], s[4], 0, 0 >>
        ELSE IF shift >= W THEN << s[2], s[3], s[4], 0 >>
        ELSE s

(* A shr that forgets the bits carried into the lowest limb.               *)
ShrDroppingLowCarry(a, shift) ==
    LET sh  == shift % W
        nsh == (W - sh) % W
        s   == IF sh = 0 THEN a
               ELSE << LimbShr(a[1], sh),
                       LimbShl(a[1], nsh) + LimbShr(a[2], sh),
                       LimbShl(a[2], nsh) + LimbShr(a[3], sh),
                       LimbShr(a[4], sh) >>
    IN  IF shift >= 4 * W THEN Zero
        ELSE IF shift >= 3 * W THEN << 0, 0, 0, s[1] >>
        ELSE IF shift >= 2 * W THEN << 0, 0, s[1], s[2] >>
        ELSE IF shift >= W THEN << 0, s[1], s[2], s[3] >>
        ELSE s

(* U256::shr, the mirror image of shl.                                     *)
Shr(a, shift) ==
    LET sh  == shift % W
        nsh == (W - sh) % W
        s   == IF sh = 0 THEN a
               ELSE << LimbShr(a[1], sh),
                       LimbShl(a[1], nsh) + LimbShr(a[2], sh),
                       LimbShl(a[2], nsh) + LimbShr(a[3], sh),
                       LimbShl(a[3], nsh) + LimbShr(a[4], sh) >>
    IN  IF shift >= 4 * W THEN Zero
        ELSE IF shift >= 3 * W THEN << 0, 0, 0, s[1] >>
        ELSE IF shift >= 2 * W THEN << 0, 0, s[1], s[2] >>
        ELSE IF shift >= W THEN << 0, s[1], s[2], s[3] >>
        ELSE s

(* u64::leading_zeros.                                                     *)
LimbLeadingZeros(x) == W - (CHOOSE n \in 0..W : x < 2^n /\ (n = 0 \/ x >= 2^(n - 1)))

(* U256::leading_zeros: of the first non-zero limb, plus 64 per zero limb. *)
LeadingZeros(a) ==
    IF a[1] # 0 THEN LimbLeadingZeros(a[1])
    ELSE IF a[2] # 0 THEN LimbLeadingZeros(a[2]) + W
    ELSE IF a[3] # 0 THEN LimbLeadingZeros(a[3]) + 2 * W
    ELSE LimbLeadingZeros(a[4]) + 3 * W

(* U256::is_zero.                                                          *)
IsZero(a) == \A i \in 1..4 : a[i] = 0

(* U256::bit and U256::set_bit: bit i lives in limb 3 - i / 64; indices of *)
(* 256 and above read as 0 and are not set.                                *)
Bit(a, i) == i \div W < 4 /\ (a[4 - i \div W] \div 2^(i % W)) % 2 = 1

SetBit(a, i) ==
    IF i \div W < 4 /\ ~Bit(a, i)
    THEN [a EXCEPT ![4 - i \div W] = @ + 2^(i % W)]
    ELSE a

(* The derived Ord of [u64; 4]: lexicographic, limb 0 first.               *)
Geq(a, b) ==
    \/ a = b
    \/ \E i \in 1..4 : a[i] > b[i] /\ \A j \in 1..(i - 1) : a[j] = b[j]

(***************************************************************************)
(* U256::overflowing_div: (0, true) for a zero divisor; otherwise binary   *)
(* long division over the bits of self from bit 255 - leading_zeros down   *)
(* to 0, the remainder shifted left one bit and topped up with the next    *)
(* dividend bit, and the divisor subtracted (setting the quotient bit)     *)
(* whenever the remainder reaches it.  step[k] is << q, r >> after k       *)
(* iterations.                                                             *)
(***************************************************************************)
(* A long division that subtracts only when the remainder exceeds rhs.     *)
OverflowingDivStrict(a, b) ==
    IF IsZero(b) THEN << Zero, TRUE >>
    ELSE
    LET n == 4 * W - LeadingZeros(a)
        step[k \in 0..n] ==
            IF k = 0 THEN << Zero, Zero >>
            ELSE LET i  == n - k
                     r0 == Shl(step[k - 1][2], 1)
                     r  == IF Bit(a, i) THEN SetBit(r0, 0) ELSE r0
                 IN  IF Geq(r, b) /\ r # b THEN << SetBit(step[k - 1][1], i), Sub(r, b) >>
                     ELSE << step[k - 1][1], r >>
    IN  << step[n][1], FALSE >>

OverflowingDiv(a, b) ==
    IF IsZero(b) THEN << Zero, TRUE >>
    ELSE
    LET n == 4 * W - LeadingZeros(a)
        step[k \in 0..n] ==
            IF k = 0 THEN << Zero, Zero >>
            ELSE LET i  == n - k
                     r0 == Shl(step[k - 1][2], 1)
                     r  == IF Bit(a, i) THEN SetBit(r0, 0) ELSE r0
                 IN  IF Geq(r, b) THEN << SetBit(step[k - 1][1], i), Sub(r, b) >>
                     ELSE << step[k - 1][1], r >>
    IN  << step[n][1], FALSE >>
=============================================================================
