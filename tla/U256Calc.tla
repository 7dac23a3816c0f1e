------------------------------ MODULE U256Calc ------------------------------
(***************************************************************************)
(* A caller of the U256 operations of numeric.rs: two operands x and y,    *)
(* and one call at a time of add, sub, mul, shl, shr or overflowing_div on *)
(* them, whose result is kept in res.  The properties compare each result  *)
(* with integer arithmetic modulo 2^(4W), which is what the EVM opcodes    *)
(* built on these operations need.  The caller also decodes a JSON        *)
(* number into a 4W-bit integer with decode_int!, the same width.          *)
(***************************************************************************)
EXTENDS U256, Sequences

CONSTANT Operands      \* the operand pairs the caller may hold

ASSUME OperandsAssumption == Operands \subseteq U256 \X U256

VARIABLES x, y, op, res

vars == << x, y, op, res >>

Modulus == Base * Base * Base * Base   \* 2^(4 * W)

(* A call's name and its shift amount (0 for the binary operations).       *)
Ops == [name : {"add", "sub", "mul", "div"}, amt : {0}]
       \cup [name : {"decode"}, in : [quoted : BOOLEAN, s : Seq(0..17)]]
       \cup [name : {"shl", "shr"}, amt : 0..(4 * W + 1)]

NoOp == [name |-> "none", amt |-> 0]

Init ==
    /\ \E pair \in Operands : x = pair[1] /\ y = pair[2]
    /\ op = NoOp
    /\ res = [val |-> Zero, flag |-> FALSE]

(***************************************************************************)
(* The decimal branch of decode_int!'s decode_json (the first byte is not  *)
(* a quote; whitespace is skipped).  A byte is a digit 0..9 or 10 for any  *)
(* other byte, which ends the number.  Each further digit is taken with    *)
(* overflowing_mul(10) then overflowing_add, and either flag is an error.  *)
(***************************************************************************)
DecodeIntNoAddCheck(b) ==
    LET st[i \in 1..Len(b)] ==
            IF i = 1 THEN [v |-> b[1], ovf |-> FALSE, stop |-> FALSE, used |-> 1]
            ELSE LET p == st[i - 1]
                     m == p.v * 10
                 IN  IF p.stop \/ p.ovf \/ b[i] > 9 THEN [p EXCEPT !.stop = TRUE]
                     ELSE IF m >= Modulus
                     THEN [p EXCEPT !.ovf = TRUE]
                     ELSE [p EXCEPT !.v = (m + b[i]) % Modulus, !.used = i]
    IN  IF Len(b) = 0 \/ b[1] > 9 THEN [ok |-> FALSE, err |-> "ExpectedDigit"]
        ELSE IF st[Len(b)].ovf THEN [ok |-> FALSE, err |-> "NumericOverflow"]
        ELSE [ok |-> TRUE, v |-> st[Len(b)].v, used |-> st[Len(b)].used]
DecodeInt(b) ==
    LET st[i \in 1..Len(b)] ==
            IF i = 1 THEN [v |-> b[1], ovf |-> FALSE, stop |-> FALSE, used |-> 1]
            ELSE LET p == st[i - 1]
                     m == p.v * 10
                 IN  IF p.stop \/ p.ovf \/ b[i] > 9 THEN [p EXCEPT !.stop = TRUE]
                     ELSE IF m >= Modulus \/ m + b[i] >= Modulus
                     THEN [p EXCEPT !.ovf = TRUE]
                     ELSE [p EXCEPT !.v = m + b[i], !.used = i]
    IN  IF Len(b) = 0 \/ b[1] > 9 THEN [ok |-> FALSE, err |-> "ExpectedDigit"]
        ELSE IF st[Len(b)].ovf THEN [ok |-> FALSE, err |-> "NumericOverflow"]
        ELSE [ok |-> TRUE, v |-> st[Len(b)].v, used |-> st[Len(b)].used]

(***************************************************************************)
(* hexadecimal::hex_to_slice(d, s) with d of dlen zero bytes.  A character *)
(* of s is a hex digit 0..15 (either case), 16 for 'x' or 17 for any other. *)
(* "0x0" is zero.  Two characters are dropped when they are not "0x"; the  *)
(* rest is read as if it still began with "0x": the digits after its first *)
(* two characters fill d right-justified, an odd count's first digit       *)
(* alone.  s.len() - 3 and s.len() - 2 underflow on a shorter string.      *)
(***************************************************************************)
HexValue(h) == LET f[i \in 0..Len(h)] == IF i = 0 THEN 0 ELSE f[i - 1] * 16 + h[i]
               IN  f[Len(h)]
HexToSliceNoHighNibble(dlen, str) ==
    LET t == IF Len(str) >= 2 /\ SubSeq(str, 1, 2) # <<0, 16>> THEN SubSeq(str, 3, Len(str)) ELSE str
        n == Len(t)
        digits == SubSeq(t, 3, n)
        numBytes == IF n % 2 # 0 THEN (n - 3) \div 2 + 1 ELSE (n - 2) \div 2
    IN  CASE str = <<0, 16, 0>>                  -> [ok |-> TRUE, v |-> 0]
          [] n < 2 + (n % 2) /\ OverflowChecks    -> [panic |-> "attempt to subtract with overflow"]
          [] n < 2 + (n % 2) \/ numBytes > dlen   -> [ok |-> FALSE, err |-> "hex number too long"]
          [] \E i \in DOMAIN digits : digits[i] > 15 -> [ok |-> FALSE, err |-> "bad hex digit"]
          [] n % 2 # 0 -> [ok |-> TRUE, v |-> HexValue(SubSeq(digits, 2, Len(digits)))]
          [] OTHER     -> [ok |-> TRUE, v |-> HexValue(digits)]
HexToSlice(dlen, str) ==
    LET t == IF Len(str) >= 2 /\ SubSeq(str, 1, 2) # <<0, 16>> THEN SubSeq(str, 3, Len(str)) ELSE str
        n == Len(t)
        digits == SubSeq(t, 3, n)
        numBytes == IF n % 2 # 0 THEN (n - 3) \div 2 + 1 ELSE (n - 2) \div 2
    IN  CASE str = <<0, 16, 0>>                  -> [ok |-> TRUE, v |-> 0]
          [] n < 2 + (n % 2) /\ OverflowChecks    -> [panic |-> "attempt to subtract with overflow"]
          [] n < 2 + (n % 2) \/ numBytes > dlen   -> [ok |-> FALSE, err |-> "hex number too long"]
          [] \E i \in DOMAIN digits : digits[i] > 15 -> [ok |-> FALSE, err |-> "bad hex digit"]
          [] OTHER -> [ok |-> TRUE, v |-> HexValue(digits)]

(* The width of the decoded integer type in bytes: size_of::<$t>().        *)
ByteLen == (4 * W) \div 8

(* decode_int!'s decode_json: a quoted string through hex_to_slice into    *)
(* size_of::<$t>() bytes and from_be_bytes, any error mapped to            *)
(* ExpectedHexString; otherwise the decimal branch.                        *)
DecodeJson(in) ==
    IF in.quoted
    THEN LET h == HexToSlice(ByteLen, in.s)
         IN  CASE "panic" \in DOMAIN h -> h
               [] h.ok -> [ok |-> TRUE, v |-> h.v, used |-> Len(in.s) + 2]
               [] OTHER -> [ok |-> FALSE, err |-> "ExpectedHexString"]
    ELSE DecodeInt(in.s)

(* The decimal digits of n. *)
Dec(n) == LET len == CHOOSE k \in 1..6 : n < 10^k /\ (k = 1 \/ n >= 10^(k - 1))
          IN  [i \in 1..len |-> (n \div 10^(len - i)) % 10]

(* The JSON texts the caller decodes: x in decimal, with a leading zero,   *)
(* followed by a comma and more, and x + 2^(4W), which does not fit, and   *)
(* texts that do not start with a digit.                                   *)
(* The quoted texts: x in hex with and without a leading zero digit, with  *)
(* one digit too many, "0x", a bad digit, and strings without the prefix.  *)
(* The hex digits of n, at least one. *)
Hex(n) == LET len == CHOOSE k \in 1..4 : n < 16^k /\ (k = 1 \/ n >= 16^(k - 1))
          IN  [i \in 1..len |-> (n \div 16^(len - i)) % 16]
DecInputs == {[quoted |-> FALSE, s |-> d] :
                 d \in {Dec(Val(x)), <<0>> \o Dec(Val(x)), Dec(Val(x)) \o <<10, 7>>,
                        Dec(Val(x) + Modulus), <<10>>, << >>}}
             \cup {[quoted |-> TRUE, s |-> h] :
                 h \in {<<0, 16>> \o Hex(Val(x)), <<0, 16, 0>> \o Hex(Val(x)),
                        <<0, 16>> \o Hex(Val(x) + Modulus), <<0, 16>>, <<0, 16, 17>>,
                        Hex(Val(x)), << >>}}

DecodeOp(b) == op' = [name |-> "decode", in |-> b] /\ res' = DecodeJson(b)

(* One call per operation; the flag is mul's panic or overflowing_div's    *)
(* overflow flag.                                                          *)
AddOp == op' = [name |-> "add", amt |-> 0] /\ res' = [val |-> Add(x, y), flag |-> FALSE]

SubOp == op' = [name |-> "sub", amt |-> 0] /\ res' = [val |-> Sub(x, y), flag |-> FALSE]

MulOp == op' = [name |-> "mul", amt |-> 0]
         /\ res' = [val |-> Mul(x, y).val, flag |-> Mul(x, y).panic]

DivOp == LET d == OverflowingDiv(x, y)
         IN  op' = [name |-> "div", amt |-> 0] /\ res' = [val |-> d[1], flag |-> d[2]]

ShlOp(s) == op' = [name |-> "shl", amt |-> s] /\ res' = [val |-> Shl(x, s), flag |-> FALSE]

ShrOp(s) == op' = [name |-> "shr", amt |-> s] /\ res' = [val |-> Shr(x, s), flag |-> FALSE]

Next ==
    /\ \/ AddOp \/ SubOp \/ MulOp \/ DivOp
       \/ \E s \in 0..(4 * W + 1) : ShlOp(s) \/ ShrOp(s)
       \/ \E b \in DecInputs : DecodeOp(b)
    /\ UNCHANGED << x, y >>

Spec == Init /\ [][Next]_vars

TypeOK ==
    /\ << x, y >> \in Operands
    /\ op \in Ops \cup {NoOp}
    /\ \/ op.name # "decode" /\ res \in [val : U256, flag : BOOLEAN]
       \/ op.name = "decode" /\ res \in [ok : {TRUE}, v : 0..(Modulus - 1), used : Nat]
                                     \cup [ok : {FALSE}, err : {"ExpectedDigit", "NumericOverflow",
                                                                "ExpectedHexString"}]

(***************************************************************************)
(* The carry and borrow chains of Add and Sub for U256 give the sum and    *)
(* the difference modulo 2^256: a carry out of each limb, whether it came  *)
(* from adding the limbs or from adding the carry below, reaches the next. *)
(***************************************************************************)
CarryChainCorrect ==
    /\ op.name = "add" => Val(res.val) = (Val(x) + Val(y)) % Modulus
    /\ op.name = "sub" => Val(res.val) = (Val(x) - Val(y)) % Modulus

(***************************************************************************)
(* U256::shl and U256::shr by any u32 amount are multiplication and floor  *)
(* division by 2^amount modulo 2^256, across limb boundaries, for a zero   *)
(* in-limb shift and for amounts of 256 and above.                         *)
(***************************************************************************)
ShiftsCorrect ==
    /\ op.name = "shl" => Val(res.val) = (Val(x) * 2^op.amt) % Modulus
    /\ op.name = "shr" => Val(res.val) = Val(x) \div 2^op.amt

(***************************************************************************)
(* U256::overflowing_div returns the floor quotient and no overflow for a  *)
(* non-zero divisor, and (0, true) for a zero one: the long division's     *)
(* remainder never loses its top bit in r.shl(1), the comparison r >= rhs  *)
(* is the numeric order, and the loop starts at the dividend's top bit.    *)
(***************************************************************************)
DivisionCorrect ==
    op.name = "div" =>
        IF Val(y) = 0 THEN res.val = Zero /\ res.flag
        ELSE Val(res.val) = Val(x) \div Val(y) /\ ~res.flag

(* The number a digit string denotes, by positional notation. *)
DecimalValue(d) == LET f[i \in 0..Len(d)] == IF i = 0 THEN 0 ELSE f[i - 1] + d[i] * 10^(Len(d) - i)
                   IN  f[Len(d)]

(***************************************************************************)
(* decode_int! reads the longest digit prefix of the text and returns its  *)
(* value when it fits the integer type, consuming exactly that prefix, and *)
(* NumericOverflow when it does not: overflowing_mul and overflowing_add   *)
(* together catch every overflow, including a product that fits and a sum *)
(* that does not.                                                          *)
(***************************************************************************)
DecodeIntCorrect ==
    op.name = "decode" /\ ~op.in.quoted =>
        LET b == op.in.s
            k == CHOOSE j \in 0..Len(b) :
                    /\ \A i \in 1..j : b[i] <= 9
                    /\ (j = Len(b) \/ b[j + 1] > 9)
            pre == SubSeq(b, 1, k)
        IN  CASE k = 0                          -> res = [ok |-> FALSE, err |-> "ExpectedDigit"]
              [] DecimalValue(pre) < Modulus    -> res = [ok |-> TRUE, v |-> DecimalValue(pre), used |-> k]
              [] OTHER                          -> res = [ok |-> FALSE, err |-> "NumericOverflow"]

(***************************************************************************)
(* A quoted "0x" number decodes through hex_to_slice to the value of its   *)
(* hex digits when they take no more bytes than the integer type has       *)
(* (two digits a byte, an odd count's first digit a byte of its own), and  *)
(* to ExpectedHexString when they take more or one is not a hex digit; the *)
(* odd count's first digit is not lost.                                    *)
(***************************************************************************)
HexDecodeCorrect ==
    op.name = "decode" /\ op.in.quoted /\ Len(op.in.s) >= 2 /\ SubSeq(op.in.s, 1, 2) = <<0, 16>> =>
        LET h == SubSeq(op.in.s, 3, Len(op.in.s))
        IN  IF (\A i \in DOMAIN h : h[i] <= 15) /\ (Len(h) + 1) \div 2 <= ByteLen
            THEN res = [ok |-> TRUE, v |-> HexValue(h), used |-> Len(op.in.s) + 2]
            ELSE res = [ok |-> FALSE, err |-> "ExpectedHexString"]

(***************************************************************************)
(* Mul for U256 is the product modulo 2^256, as test_u256 asserts for      *)
(* 123456 * 7891011 (and the EVM's MUL requires).  Checked in a release    *)
(* build, where the u128 column sums wrap instead of panicking.            *)
(***************************************************************************)
MulMatchesIntegers ==
    op.name = "mul" => Val(res.val) = (Val(x) * Val(y)) % Modulus
=============================================================================
