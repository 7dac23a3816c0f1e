-------------------------------- MODULE Jit --------------------------------
(***************************************************************************)
(* The bytecode compiler of src/ejit_evm.rs: Compiler::compile walks the   *)
(* code one opcode at a time (PUSH1..PUSH31, ADD, MSTORE, RETURN) and      *)
(* keeps a virtual stack VStack of elements that are constants, slots of   *)
(* the caller's stack at bp + offset, or the value in registers t0..t3.    *)
(*                                                                         *)
(* The code it emits is straight-line, so the model runs it as it is       *)
(* emitted on a concrete caller stack `entry`: regs is t0..t3 (limbs, low  *)
(* first), run says whether the emitted code is still executing, and      *)
(* effects is what it stored and returned.  Beside it, a reference EVM     *)
(* executes the same opcodes on the same stack (evm, evmRun, evmEffects).  *)
(*                                                                         *)
(* A word is 4 limbs of LimbBytes bytes of ByteBits bits (8 and 8 in the   *)
(* code); a stack slot is SlotSize = 4 * LimbBytes bytes (32).             *)
(***************************************************************************)
EXTENDS Integers, Sequences

CONSTANTS
    ByteBits,      \* bits per byte (8)
    LimbBytes,     \* bytes per limb (8)
    Programs,      \* the bytecodes compile may be given
    EntryStacks    \* the caller stacks the emitted code may run on (top first)

ByteBase  == 2^ByteBits
LimbBase  == 2^(ByteBits * LimbBytes)
SlotSize  == 4 * LimbBytes
WordBase  == LimbBase^4
Word      == 0..(WordBase - 1)

ASSUME JitAssumption ==
    /\ ByteBits \in Nat \ {0}
    /\ LimbBytes \in Nat \ {0}
    /\ Programs \subseteq Seq(0..255)
    /\ EntryStacks \subseteq Seq(Word)

(* The opcodes of revm::interpreter::opcode the compiler dispatches on.    *)
ADD     == 1
MSTORE  == 82
RETURN  == 243
PUSH1   == 96
(* PUSH31, the last push of the match arm: one byte short of a full slot.  *)
PUSHMax == PUSH1 + SlotSize - 2

VARIABLES
    code, pc,              \* the bytecode and Compiler::compile's pc
    vstack, oldValues,     \* VStack.stack (a VecDeque) and VStack.old_values
    status,                \* "compiling", or the todo!() that ended compile
    entry, regs, run,      \* the emitted code's execution
    effects,
    evm, evmRun, evmEffects \* the reference EVM

vars == << code, pc, vstack, oldValues, status, entry, regs, run, effects,
           evm, evmRun, evmEffects >>

(* VElem: a big-endian constant of SlotSize bytes, Bp(offset), Reg(n).     *)
Constant(c) == [kind |-> "const", bytes |-> c]
Bp(off)     == [kind |-> "bp", off |-> off]
Reg(n)      == [kind |-> "reg", n |-> n]

(* The number of a big-endian byte sequence.                               *)
BigEndian(s) ==
    LET f[i \in 0..Len(s)] == IF i = 0 THEN 0 ELSE f[i - 1] * ByteBase + s[i]
    IN  f[Len(s)]

(* from_u8: limb i (low first) is big-endian bytes 24 - 8i .. 32 - 8i.     *)
FromU8(c) ==
    [i \in 0..3 |-> BigEndian(SubSeq(c, (3 - i) * LimbBytes + 1, (4 - i) * LimbBytes))]

(* to_u8: limb i written big-endian at bytes 24 - 8i .. 32 - 8i.           *)
ToU8(ca) ==
    [j \in 1..SlotSize |->
        LET i == 3 - (j - 1) \div LimbBytes
            k == (j - 1) % LimbBytes          \* byte k of the limb, MSB first
        IN  (ca[i] \div ByteBase^(LimbBytes - 1 - k)) % ByteBase]

LimbsValue(l) == ((l[3] * LimbBase + l[2]) * LimbBase + l[1]) * LimbBase + l[0]
ValueLimbs(v) == [i \in 0..3 |-> (v \div LimbBase^i) % LimbBase]

(* add256: a carry chain over limbs 0..3 (low first), the top carry lost.  *)
OverflowingAdd(x, y) == << (x + y) % LimbBase, x + y >= LimbBase >>
CarryIn(c) == IF c THEN 1 ELSE 0

Add256(ca, cb) ==
    LET s0  == OverflowingAdd(ca[0], cb[0])
        s1a == OverflowingAdd(ca[1], cb[1])
        s1b == OverflowingAdd(s1a[1], CarryIn(s0[2]))
        s2a == OverflowingAdd(ca[2], cb[2])
        s2b == OverflowingAdd(s2a[1], CarryIn(s1a[2] \/ s1b[2]))
        s3a == OverflowingAdd(ca[3], cb[3])
        s3b == OverflowingAdd(s3a[1], CarryIn(s2a[2] \/ s2b[2]))
    IN  [i \in 0..3 |-> CASE i = 0 -> s0[1] [] i = 1 -> s1b[1]
                          [] i = 2 -> s2b[1] [] i = 3 -> s3b[1]]

(* A prep that hands out slots without advancing old_values.              *)
PrepNoAdvance(vs, ov, n) ==
    LET k == IF Len(vs) < n THEN n - Len(vs) ELSE 0
    IN  [vs |-> vs \o [i \in 1..k |-> Bp(ov + (i - 1) * SlotSize)], ov |-> ov]

(* VStack::prep: Bp slots appended at the back until n elements are held.  *)
Prep(vs, ov, n) ==
    LET k == IF Len(vs) < n THEN n - Len(vs) ELSE 0
    IN  [vs |-> vs \o [i \in 1..k |-> Bp(ov + (i - 1) * SlotSize)],
         ov |-> ov + k * SlotSize]

(***************************************************************************)
(* What the emitted loads read: the caller's stack item at bp + off is     *)
(* stored big-endian by limbs, so offset off holds limb                    *)
(* 3 - (off % SlotSize) / LimbBytes of item off / SlotSize.  Beyond the    *)
(* caller's items the load reads 0 (the EVM has failed before).            *)
(***************************************************************************)
Slot(off) == IF off \div SlotSize < Len(entry) THEN entry[off \div SlotSize + 1] ELSE 0
LimbAt(off) == ValueLimbs(Slot(off))[3 - (off % SlotSize) \div LimbBytes]

(* The four limbs t0..t3 after Add, Adc, Adc, Adc with the limbs of x.     *)
AddCarryChain(t, x) == ValueLimbs((LimbsValue(t) + LimbsValue(x)) % WordBase)

(***************************************************************************)
(* gen_t0: a constant is moved into t0..t3, a Bp slot is loaded into each  *)
(* of t0..t3 from the same offset x, Reg(0) is already there; any other    *)
(* register is todo!().                                                    *)
(***************************************************************************)
GenT0(e) ==
    CASE e.kind = "const" -> FromU8(e.bytes)
      [] e.kind = "bp"    -> [i \in 0..3 |-> LimbAt(e.off)]
      [] OTHER            -> regs

GenT0Todo(e) == e.kind = "reg" /\ e.n # 0

(***************************************************************************)
(* gen_u64: the low limb of a word, and whether the emitted code leaves    *)
(* for revert_overflow first.  A constant with a non-zero upper limb emits *)
(* an unconditional Jmp; a Bp slot is compared with 0 at offset imm only   *)
(* and then read at imm + 0x18; a register is todo!().                     *)
(***************************************************************************)
GenU64(e) ==
    CASE e.kind = "const" -> [exit |-> \E i \in 1..3 : FromU8(e.bytes)[i] # 0,
                              v    |-> FromU8(e.bytes)[0]]
      [] OTHER            -> [exit |-> LimbAt(e.off) # 0,
                              v    |-> LimbAt(e.off + 3 * LimbBytes)]

(* Add(t5, t4, x) then Br(Ugt, mem_expand_overflow): the branch is taken   *)
(* when the u64 sum carries out.                                           *)
Carries(a, b) == a + b >= LimbBase

Running == status = "compiling" /\ pc < Len(code)
Op      == code[pc + 1]

MStoreEffect(offset, value) == [kind |-> "mstore", offset |-> offset, value |-> value]
ReturnEffect(offset, size) ==
    [kind |-> "return", data |-> IF size = 0 THEN << >> ELSE << offset, size >>]

-----------------------------------------------------------------------------
(***************************************************************************)
(* The reference EVM: PUSHn, ADD, MSTORE and RETURN on a stack whose top   *)
(* is evm[1].  An access ending at or beyond 2^64 bytes is out of gas.     *)
(***************************************************************************)
EvmIdle == UNCHANGED << evm, evmRun, evmEffects >>

EvmPush(v) ==
    IF evmRun # "running" THEN EvmIdle
    ELSE evm' = << v >> \o evm /\ UNCHANGED << evmRun, evmEffects >>

EvmAdd ==
    IF evmRun # "running" THEN EvmIdle
    ELSE IF Len(evm) < 2 THEN evmRun' = "exception" /\ UNCHANGED << evm, evmEffects >>
    ELSE /\ evm' = << (evm[1] + evm[2]) % WordBase >> \o Tail(Tail(evm))
         /\ UNCHANGED << evmRun, evmEffects >>

EvmMStore ==
    IF evmRun # "running" THEN EvmIdle
    ELSE IF Len(evm) < 2 \/ evm[1] + SlotSize >= LimbBase
         THEN evmRun' = "exception" /\ UNCHANGED << evm, evmEffects >>
    ELSE /\ evm' = Tail(Tail(evm))
         /\ evmEffects' = Append(evmEffects, MStoreEffect(evm[1], evm[2]))
         /\ UNCHANGED evmRun

EvmReturn ==
    IF evmRun # "running" THEN EvmIdle
    ELSE IF Len(evm) < 2 \/ (evm[2] > 0 /\ evm[1] + evm[2] >= LimbBase)
         THEN evmRun' = "exception" /\ UNCHANGED << evm, evmEffects >>
    ELSE /\ evmRun' = "returned"
         /\ evmEffects' = Append(evmEffects, ReturnEffect(evm[1], evm[2]))
         /\ UNCHANGED evm

-----------------------------------------------------------------------------
Init ==
    /\ code \in Programs
    /\ pc = 0
    /\ vstack = << >>
    /\ oldValues = 0
    /\ status = "compiling"
    /\ entry \in EntryStacks
    /\ regs = [i \in 0..3 |-> 0]
    /\ run = "running"
    /\ effects = << >>
    /\ evm = entry
    /\ evmRun = "running"
    /\ evmEffects = << >>

(* A todo!() in a generator or in compile's match: compilation panics.    *)
Unimplemented ==
    /\ status' = "unimplemented"
    /\ pc' = pc + 1
    /\ UNCHANGED << code, vstack, oldValues, entry, regs, run, effects, evm, evmRun, evmEffects >>

(* A gen_push whose copy starts one byte early, at the opcode itself.      *)
PushOpFromOpcode ==
    LET len == Op - PUSH1 + 1
        c   == [j \in 1..SlotSize |->
                  IF j <= SlotSize - len THEN 0 ELSE code[pc + j - (SlotSize - len)]]
    IN  /\ Running
        /\ Op \in PUSH1..PUSHMax
        /\ pc + 1 + len <= Len(code)
        /\ vstack' = Append(vstack, Constant(c))
        /\ pc' = pc + 1 + len
        /\ EvmPush(BigEndian(SubSeq(code, pc + 2, pc + 1 + len)))
        /\ UNCHANGED << code, oldValues, status, entry, regs, run, effects >>

(***************************************************************************)
(* gen_push: PUSHn takes the n bytes after the opcode into the low end of  *)
(* a zeroed slot and pushes the constant; a push cut off by the end of the *)
(* code is todo!().                                                        *)
(***************************************************************************)
PushOp ==
    LET len == Op - PUSH1 + 1
        c   == [j \in 1..SlotSize |->
                  IF j <= SlotSize - len THEN 0 ELSE code[pc + 1 + j - (SlotSize - len)]]
    IN  /\ Running
        /\ Op \in PUSH1..PUSHMax
        /\ pc + 1 + len <= Len(code)
        /\ vstack' = Append(vstack, Constant(c))
        /\ pc' = pc + 1 + len
        /\ EvmPush(BigEndian(SubSeq(code, pc + 2, pc + 1 + len)))
        /\ UNCHANGED << code, oldValues, status, entry, regs, run, effects >>

PushPastEnd ==
    /\ Running
    /\ Op \in PUSH1..PUSHMax
    /\ pc + 1 + (Op - PUSH1 + 1) > Len(code)
    /\ Unimplemented

(* A gen_add that never folds: two constants are added in registers too.  *)
GenAddNoFold(a, b) ==
    IF a.kind = "const"
    THEN [todo |-> GenT0Todo(b), regs |-> AddCarryChain(GenT0(b), FromU8(a.bytes)),
          pushed |-> << Reg(0) >>]
    ELSE IF b.kind = "const"
    THEN [todo |-> GenT0Todo(a), regs |-> AddCarryChain(GenT0(a), FromU8(b.bytes)),
          pushed |-> << Reg(0) >>]
    ELSE IF b.kind = "bp"
    THEN [todo |-> GenT0Todo(a),
          regs |-> AddCarryChain(GenT0(a), [i \in 0..3 |-> LimbAt(b.off + (3 - i) * LimbBytes)]),
          pushed |-> << Reg(0) >>]
    ELSE [todo |-> FALSE, regs |-> regs, pushed |-> << >>]

(***************************************************************************)
(* gen_add on the two front elements a, b of the deque: two constants are  *)
(* folded by add256; otherwise the non-constant operand goes to t0..t3 by  *)
(* gen_t0 and the other is added with Add/Adc, giving Reg(0).  When a is   *)
(* not a constant and b is a register, nothing is emitted or pushed.       *)
(* The result is [todo, regs, pushed].                                     *)
(***************************************************************************)
GenAdd(a, b) ==
    IF a.kind = "const" /\ b.kind = "const"
    THEN [todo |-> FALSE, regs |-> regs,
          pushed |-> << Constant(ToU8(Add256(FromU8(a.bytes), FromU8(b.bytes)))) >>]
    ELSE IF a.kind = "const"
    THEN [todo |-> GenT0Todo(b), regs |-> AddCarryChain(GenT0(b), FromU8(a.bytes)),
          pushed |-> << Reg(0) >>]
    ELSE IF b.kind = "const"
    THEN [todo |-> GenT0Todo(a), regs |-> AddCarryChain(GenT0(a), FromU8(b.bytes)),
          pushed |-> << Reg(0) >>]
    ELSE IF b.kind = "bp"
    THEN [todo |-> GenT0Todo(a),
          regs |-> AddCarryChain(GenT0(a), [i \in 0..3 |-> LimbAt(b.off + (3 - i) * LimbBytes)]),
          pushed |-> << Reg(0) >>]
    ELSE [todo |-> FALSE, regs |-> regs, pushed |-> << >>]

AddOp ==
    LET p == Prep(vstack, oldValues, 2)
        g == GenAdd(p.vs[1], p.vs[2])
    IN  /\ Running
        /\ Op = ADD
        /\ IF g.todo THEN Unimplemented
           ELSE /\ vstack' = SubSeq(p.vs, 3, Len(p.vs)) \o g.pushed
                /\ oldValues' = p.ov
                /\ regs' = g.regs
                /\ pc' = pc + 1
                /\ EvmAdd
                /\ UNCHANGED << code, status, entry, run, effects >>

(***************************************************************************)
(* gen_mstore: (start_position, value) are the two front elements;         *)
(* start_position goes to t0..t3 by gen_t0 and value to t4 by gen_u64,     *)
(* t4 + 32 is checked for a carry, and t3..t0 are stored at t4.            *)
(***************************************************************************)
MStoreOp ==
    LET p     == Prep(vstack, oldValues, 2)
        start == p.vs[1]
        value == p.vs[2]
        t     == GenT0(start)
        u     == GenU64(value)
        leave == u.exit \/ Carries(u.v, SlotSize)
    IN  /\ Running
        /\ Op = MSTORE
        /\ IF GenT0Todo(start) \/ value.kind = "reg" THEN Unimplemented
           ELSE /\ vstack' = SubSeq(p.vs, 3, Len(p.vs))
                /\ oldValues' = p.ov
                /\ regs' = t
                /\ run' = IF run = "running" /\ leave THEN "reverted" ELSE run
                /\ effects' = IF run = "running" /\ ~leave
                              THEN Append(effects, MStoreEffect(u.v, LimbsValue(t)))
                              ELSE effects
                /\ pc' = pc + 1
                /\ EvmMStore
                /\ UNCHANGED << code, status, entry >>

(***************************************************************************)
(* gen_return: the two front elements go to t4 and t5 by gen_u64, their   *)
(* sum is checked for a carry, and the code returns.                      *)
(***************************************************************************)
ReturnOp ==
    LET p     == Prep(vstack, oldValues, 2)
        a     == p.vs[1]
        b     == p.vs[2]
        ua    == GenU64(a)
        ub    == GenU64(b)
        leave == ua.exit \/ ub.exit \/ Carries(ua.v, ub.v)
    IN  /\ Running
        /\ Op = RETURN
        /\ IF a.kind = "reg" \/ b.kind = "reg" THEN Unimplemented
           ELSE /\ vstack' = SubSeq(p.vs, 3, Len(p.vs))
                /\ oldValues' = p.ov
                /\ run' = IF run = "running" THEN IF leave THEN "reverted" ELSE "returned"
                          ELSE run
                /\ effects' = IF run = "running" /\ ~leave
                              THEN Append(effects, ReturnEffect(ua.v, ub.v))
                              ELSE effects
                /\ pc' = pc + 1
                /\ EvmReturn
                /\ UNCHANGED << code, status, entry, regs >>

(* Any other opcode is the `_ => todo!()` arm of compile's match.          *)
OtherOp ==
    /\ Running
    /\ Op \notin (PUSH1..PUSHMax) \cup {ADD, MSTORE, RETURN}
    /\ Unimplemented

(* The end of the code: gen_mem_expand_function, Executable::from_ir, and *)
(* the todo!() that ends compile.                                         *)
Finish ==
    /\ status = "compiling"
    /\ pc >= Len(code)
    /\ status' = "finished"
    /\ UNCHANGED << code, pc, vstack, oldValues, entry, regs, run, effects, evm, evmRun, evmEffects >>

Next == PushOp \/ PushPastEnd \/ AddOp \/ MStoreOp \/ ReturnOp \/ OtherOp \/ Finish

Spec == Init /\ [][Next]_vars

-----------------------------------------------------------------------------
VElems == [kind : {"const"}, bytes : [1..SlotSize -> 0..(ByteBase - 1)]]
          \cup [kind : {"bp"}, off : Nat] \cup [kind : {"reg"}, n : {0}]

TypeOK ==
    /\ code \in Seq(0..255)
    /\ pc \in Nat
    /\ vstack \in Seq(VElems)
    /\ oldValues \in Nat
    /\ status \in {"compiling", "unimplemented", "finished"}
    /\ regs \in [0..3 -> 0..(LimbBase - 1)]
    /\ run \in {"running", "reverted", "returned"}
    /\ evmRun \in {"running", "exception", "returned"}

(***************************************************************************)
(* The code compile emits does what the EVM does with the same bytecode on *)
(* the same caller stack: the same stores and return, in the same order,   *)
(* and it leaves early exactly when the EVM fails.  This needs the virtual *)
(* stack to hand each generator the operands the EVM pops, gen_t0 and      *)
(* gen_u64 to load the right limbs, and Reg(0) to still hold its value.    *)
(***************************************************************************)
CompiledMatchesEvm ==
    /\ effects = evmEffects
    /\ evmRun # "exception" => run = evmRun

(***************************************************************************)
(* The virtual stack tracks the EVM stack's height: the elements it holds, *)
(* less the caller's items VStack::prep has handed out, are the items the  *)
(* code has pushed and not yet popped.  Every generator pops the operands  *)
(* it was given and pushes its result.                                     *)
(***************************************************************************)
StackHeightTracked ==
    status = "compiling" /\ evmRun = "running" =>
        Len(vstack) - oldValues \div SlotSize = Len(evm) - Len(entry)

(***************************************************************************)
(* Registers t0..t3 belong to at most one virtual stack element, and no    *)
(* caller slot stays on the virtual stack between opcodes.  This is what   *)
(* makes gen_add's last branch (a non-constant a with a register b, where  *)
(* nothing is emitted and the result is lost) unreachable.                 *)
(***************************************************************************)
SingleRegisterElement ==
    /\ \A i, j \in 1..Len(vstack) : vstack[i] = Reg(0) /\ vstack[j] = Reg(0) => i = j
    /\ \A i \in 1..Len(vstack) : vstack[i].kind # "bp"
=============================================================================
