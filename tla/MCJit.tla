------------------------------- MODULE MCJit -------------------------------
(***************************************************************************)
(* Jit at 4-bit bytes and one-byte limbs: a slot is 4 bytes, a word 16     *)
(* bits, PUSH1..PUSH3 are the pushes short of a full slot.  The programs   *)
(* are every sequence of up to six instructions over pushes of a small, a  *)
(* large and a two-byte constant, ADD, MSTORE and RETURN.                  *)
(***************************************************************************)
EXTENDS Jit

MCInstructions ==
    { << PUSH1, 2 >>, << PUSH1, 15 >>, << PUSH1 + 1, 1, 0 >>,
      << ADD >>, << MSTORE >>, << RETURN >> }

MCMaxInstructions == 6

MCFlatten(s) ==
    LET f[i \in 0..Len(s)] == IF i = 0 THEN << >> ELSE f[i - 1] \o s[i]
    IN  f[Len(s)]

(* Every sequence of up to MCMaxInstructions instructions, and two codes   *)
(* that reach the todo!() arms: an unknown opcode and a cut-off push.      *)
MCPrograms ==
    UNION { { MCFlatten(s) : s \in [1..n -> MCInstructions] } : n \in 0..MCMaxInstructions }
    \cup { << PUSH1, 2, 0 >>, << ADD, PUSH1 >> }

(* Caller stacks, top first: a valid offset, a word with four different    *)
(* limbs, one whose only non-zero limbs are the middle ones, an offset at  *)
(* the end of the range, and a small word.                                 *)
MCEntryStacks ==
    { << 3, 4660, 256, 15, 33 >>, << 1, 2, 0, 8, 5 >> }

(* The bytecode of ejit_evm.rs's test `default`, PUSH1 2 PUSH1 0 MSTORE    *)
(* PUSH1 0x20 PUSH1 0 RETURN, with the slot size for 0x20, run on an empty *)
(* caller stack.                                                           *)
MCTestProgram == { << PUSH1, 2, PUSH1, 0, MSTORE, PUSH1, SlotSize, PUSH1, 0, RETURN >> }
MCTestEntry == { << >> }
=============================================================================
