----------------------------- MODULE MCU256Calc -----------------------------
(***************************************************************************)
(* TLC instance of U256Calc with two-bit limbs: every 8-bit first operand  *)
(* against second operands at the boundaries of the carry, borrow and      *)
(* division paths: zero, one, powers of two and their neighbours, limb     *)
(* patterns 0b11 and 0b01 in every position, and divisors above 2^7, for   *)
(* which the remainder of the long division is at its widest.              *)
(***************************************************************************)
EXTENDS U256Calc

MCDivisors == {0, 1, 2, 3, 4, 5, 7, 8, 15, 16, 63, 64, 85, 127, 128, 129, 170, 254, 255}

(* The limbs of an 8-bit number, most significant first.                   *)
MCLimbs(n) == << (n \div 64) % 4, (n \div 16) % 4, (n \div 4) % 4, n % 4 >>

MCOperands == U256 \X {MCLimbs(n) : n \in MCDivisors}
=============================================================================
