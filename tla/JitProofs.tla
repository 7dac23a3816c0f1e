------------------------------ MODULE JitProofs ------------------------------
(***************************************************************************)
(* Proofs about the virtual stack of Compiler::compile in ejit_evm.rs: for *)
(* every program, caller stack and byte and limb width, t0..t3 stand for   *)
(* at most one element and no caller slot stays on the virtual stack, and  *)
(* the virtual stack tracks the height of the EVM stack.  The contents of  *)
(* the constants are not needed: only the kinds of the elements are.       *)
(***************************************************************************)
EXTENDS Jit, TLAPS

-----------------------------------------------------------------------------
(* The elements compile leaves on the virtual stack between opcodes.       *)
Settled(e) == e = Reg(0) \/ e.kind = "const"

(***************************************************************************)
(* The invariant the two properties need.  The height equation alone is   *)
(* not inductive: an ADD whose operands are not a constant and a register *)
(* pushes nothing, and only SingleRegisterElement (with every element a    *)
(* constant or Reg(0)) rules that branch out.  The EVM stack and the       *)
(* virtual stack are sequences, and the caller's slots are handed out in   *)
(* whole slots.                                                            *)
(***************************************************************************)
JitSeqs ==
    /\ vstack \in Seq({vstack[i] : i \in DOMAIN vstack})
    /\ evm \in Seq({evm[i] : i \in DOMAIN evm})

JitInv ==
    /\ JitSeqs
    /\ entry \in Seq(Word)
    /\ oldValues \in Nat
    /\ status \in {"compiling", "unimplemented", "finished"}
    /\ evmRun \in {"running", "exception", "returned"}
    /\ \A i \in 1..Len(vstack) : Settled(vstack[i])
    /\ StackHeightTracked
    /\ SingleRegisterElement

-----------------------------------------------------------------------------
(* A slot has at least one byte.                                           *)
LEMMA SlotSizePositive == SlotSize \in Nat \ {0}
  BY JitAssumption DEF SlotSize

(* The number of caller slots VStack::prep hands out for two operands.     *)
PrepCount(vs) == IF Len(vs) < 2 THEN 2 - Len(vs) ELSE 0

(* The caller slots prep hands out.                                       *)
BpSlots == [kind : {"bp"}, off : Nat]

(* What VStack::prep(2) returns: the stack with PrepCount(vs) Bp slots     *)
(* appended at the back, and old_values advanced by as many slots.         *)
PrepShape(S, vs, ov) ==
    LET p == Prep(vs, ov, 2)
        k == PrepCount(vs)
    IN  /\ k \in 0..2
        /\ p.vs \in Seq(S \cup BpSlots)
        /\ Len(p.vs) = Len(vs) + k
        /\ p.ov = ov + k * SlotSize
        /\ \A i \in 1..Len(vs) : p.vs[i] = vs[i]
        /\ \A i \in (Len(vs) + 1)..Len(p.vs) : p.vs[i] \in BpSlots

(* VStack::prep(2) appends Bp slots until two elements are held.          *)
LEMMA PrepFacts ==
  ASSUME NEW S, NEW vs \in Seq(S), NEW ov \in Nat
  PROVE  PrepShape(S, vs, ov)
  <1> DEFINE k == PrepCount(vs)
             B == [i \in 1..k |-> Bp(ov + (i - 1) * SlotSize)]
  <1>1. k \in 0..2
    BY DEF PrepCount
  <1>2. B \in Seq(BpSlots) /\ Len(B) = k
    <2>1. \A i \in 1..k : ov + (i - 1) * SlotSize \in Nat
      BY <1>1, SlotSizePositive
    <2>2. \A i \in 1..k : B[i] \in BpSlots
      BY <2>1 DEF Bp, BpSlots
    <2>3. QED
      BY <1>1, <2>2
  <1>3. Prep(vs, ov, 2) = [vs |-> vs \o B, ov |-> ov + k * SlotSize]
    BY DEF Prep, PrepCount
  <1> HIDE DEF k, B
  <1>4. /\ vs \o B \in Seq(S \cup BpSlots)
        /\ Len(vs \o B) = Len(vs) + k
        /\ \A i \in 1..Len(vs) : (vs \o B)[i] = vs[i]
        /\ \A i \in 1..k : (vs \o B)[Len(vs) + i] = B[i]
    BY <1>2
  <1>5. \A i \in (Len(vs) + 1)..(Len(vs) + k) : (vs \o B)[i] \in BpSlots
    <2> TAKE i \in (Len(vs) + 1)..(Len(vs) + k)
    <2>1. i - Len(vs) \in 1..k /\ Len(vs) + (i - Len(vs)) = i
      BY <1>1
    <2>2. (vs \o B)[i] = B[i - Len(vs)]
      BY <1>4, <2>1
    <2>3. QED
      BY <1>2, <2>1, <2>2
  <1>6. /\ Prep(vs, ov, 2).vs = vs \o B
        /\ Prep(vs, ov, 2).ov = ov + k * SlotSize
    BY <1>3
  <1> HIDE DEF Prep
  <1>7. QED
    BY <1>1, <1>4, <1>5, <1>6 DEF PrepShape, k

(* The elements prep(2) leaves behind the two operands.                    *)
Rest(vs, ov) == LET p == Prep(vs, ov, 2) IN SubSeq(p.vs, 3, Len(p.vs))

(* What stays of the virtual stack behind the two operands: the elements  *)
(* from the third on, none when prep had to hand out caller slots.         *)
RestShape(S, vs, ov) ==
    LET r == Rest(vs, ov)
    IN  /\ r \in Seq(S)
        /\ Len(r) = Len(vs) + PrepCount(vs) - 2
        /\ \A i \in 1..Len(r) : r[i] = vs[i + 2]

(* A sequence whose elements all lie in S is a sequence of S.            *)
LEMMA SeqNarrow ==
  ASSUME NEW S, NEW T, NEW s \in Seq(T), \A i \in 1..Len(s) : s[i] \in S
  PROVE  s \in Seq(S)
  OBVIOUS

(* The operands of a two-operand opcode are the first two elements of the  *)
(* prepared stack; what follows them is the stack's own tail.              *)
LEMMA RestFacts ==
  ASSUME NEW S, NEW vs \in Seq(S), NEW ov \in Nat
  PROVE  RestShape(S, vs, ov)
  <1> DEFINE p == Prep(vs, ov, 2)
             k == PrepCount(vs)
             r == Rest(vs, ov)
  <1>1. PrepShape(S, vs, ov)
    BY PrepFacts
  <1>2. /\ k \in 0..2
        /\ p.vs \in Seq(S \cup BpSlots)
        /\ Len(p.vs) = Len(vs) + k
        /\ \A i \in 1..Len(vs) : p.vs[i] = vs[i]
    BY <1>1 DEF PrepShape
  <1>3. r = SubSeq(p.vs, 3, Len(p.vs))
    BY DEF Rest
  <1> HIDE DEF p, r
  <1>4. Len(p.vs) >= 2
    BY <1>2 DEF PrepCount
  <1>5. /\ SubSeq(p.vs, 3, Len(p.vs)) \in Seq(S \cup BpSlots)
        /\ Len(SubSeq(p.vs, 3, Len(p.vs))) = Len(p.vs) - 2
        /\ \A i \in 1..(Len(p.vs) - 2) : SubSeq(p.vs, 3, Len(p.vs))[i] = p.vs[i + 2]
    BY <1>2, <1>4
  <1>6. Len(r) = Len(vs) + k - 2
    BY <1>2, <1>3, <1>5
  <1>7. \A i \in 1..Len(r) : r[i] = vs[i + 2]
    BY <1>2, <1>3, <1>5, <1>6 DEF PrepCount
  <1>8. r \in Seq(S)
    <2>1. \A i \in 1..Len(r) : r[i] \in S
      BY <1>7, <1>6, <1>2 DEF PrepCount
    <2>2. QED
      BY <1>3, <1>5, <2>1, SeqNarrow
  <1>9. QED
    BY <1>6, <1>7, <1>8 DEF RestShape, k, r

(* Handing out k whole slots advances old_values / SlotSize by k.         *)
LEMMA DivShift ==
  ASSUME NEW ov \in Nat, NEW k \in Nat, NEW d \in Nat \ {0}
  PROVE  (ov + k * d) \div d = ov \div d + k
  <1> DEFINE q == ov \div d
             r == ov % d
  <1>1. q \in Nat /\ r \in 0..(d - 1) /\ ov = q * d + r
    OBVIOUS
  <1> HIDE DEF q, r
  <1>2. ov + k * d = (q + k) * d + r
    BY <1>1
  <1>3. (ov + k * d) \div d = q + k
    BY <1>1, <1>2
  <1>4. QED
    BY <1>3 DEF q

(* The two operands of prep(2): an element of the stack where it has one,  *)
(* a caller slot beyond it.                                                *)
Operands(vs, ov) ==
    \A i \in 1..2 : /\ i <= Len(vs) => Prep(vs, ov, 2).vs[i] = vs[i]
                    /\ i > Len(vs) => Prep(vs, ov, 2).vs[i] \in BpSlots

LEMMA OperandFacts ==
  ASSUME NEW S, NEW vs \in Seq(S), NEW ov \in Nat
  PROVE  Operands(vs, ov)
  <1>1. PrepShape(S, vs, ov)
    BY PrepFacts
  <1>2. PrepCount(vs) \in 0..2 /\ Len(vs) + PrepCount(vs) >= 2
    BY DEF PrepCount
  <1> HIDE DEF Prep
  <1>3. QED
    BY <1>1, <1>2 DEF PrepShape, Operands

(* What gen_add pushes when its operands are not a non-constant a and a    *)
(* register b: one element, a constant or Reg(0), and Reg(0) only when an  *)
(* operand was not a constant.                                             *)
GenAddPushes(a, b) ==
    /\ GenAdd(a, b).pushed = << GenAdd(a, b).pushed[1] >>
    /\ Settled(GenAdd(a, b).pushed[1])
    /\ GenAdd(a, b).pushed[1] = Reg(0) => a.kind # "const" \/ b.kind # "const"

LEMMA GenAddPushed ==
  ASSUME NEW a, NEW b, b.kind \in {"const", "bp", "reg"},
         ~(a.kind # "const" /\ b.kind = "reg")
  PROVE  GenAddPushes(a, b)
  <1>1. CASE a.kind = "const" /\ b.kind = "const"
    <2> DEFINE c == Constant(ToU8(Add256(FromU8(a.bytes), FromU8(b.bytes))))
    <2>1. GenAdd(a, b).pushed = << c >>
      BY <1>1 DEF GenAdd
    <2>2. c.kind = "const"
      BY DEF Constant
    <2> HIDE DEF c
    <2>3. QED
      BY <1>1, <2>1, <2>2 DEF GenAddPushes, Settled, Reg
  <1>2. CASE ~(a.kind = "const" /\ b.kind = "const")
    <2>1. GenAdd(a, b).pushed = << Reg(0) >>
      <3>1. CASE a.kind = "const"
        BY <1>2, <3>1, Zenon DEF GenAdd
      <3>2. CASE a.kind # "const" /\ b.kind = "const"
        BY <3>2, Zenon DEF GenAdd
      <3>3. CASE a.kind # "const" /\ b.kind = "bp"
        BY <3>3, Zenon DEF GenAdd
      <3>4. QED
        BY <3>1, <3>2, <3>3
    <2>2. QED
      BY <1>2, <2>1 DEF GenAddPushes, Settled
  <1>3. QED
    BY <1>1, <1>2

(* A settled element is a register exactly when it is Reg(0), and never a *)
(* caller slot.                                                            *)
LEMMA SettledKinds ==
  ASSUME NEW e, Settled(e)
  PROVE  /\ e.kind \in {"const", "reg"}
         /\ e.kind = "reg" <=> e = Reg(0)
  BY DEF Settled, Reg

-----------------------------------------------------------------------------
(* The initial state: an empty virtual stack over the caller's stack.      *)
LEMMA JitInvInit == Init => JitInv
  <1> SUFFICES ASSUME Init PROVE JitInv
    OBVIOUS
  <1>1. entry \in Seq(Word) /\ evm = entry /\ vstack = << >>
    BY JitAssumption DEF Init
  <1>2. vstack \in Seq(Word) /\ evm \in Seq(Word)
    BY <1>1
  <1>3. JitSeqs
    BY <1>2 DEF JitSeqs
  <1>4. QED
    BY <1>1, <1>3, SlotSizePositive DEF Init, JitInv, StackHeightTracked, SingleRegisterElement

(* The two sequences of the invariant have some type.                      *)
LEMMA SeqsTyped ==
  ASSUME JitSeqs
  PROVE  /\ \E VS : vstack \in Seq(VS)
         /\ \E ES : evm \in Seq(ES)
  BY Zenon DEF JitSeqs

(* A todo!() stops compile: the virtual stack and the EVM are left alone.  *)
LEMMA UnimplementedStep ==
  ASSUME JitInv, Unimplemented
  PROVE  JitInv'
  <1>1. JitSeqs'
    BY DEF JitInv, JitSeqs, Unimplemented
  <1>2. QED
    BY <1>1 DEF JitInv, Unimplemented, StackHeightTracked, SingleRegisterElement, Settled

(* gen_push: one constant at the back, one word on the EVM stack.          *)
LEMMA PushStep ==
  ASSUME JitInv, PushOp
  PROVE  JitInv'
  <1>0. PICK VS : vstack \in Seq(VS)
    BY SeqsTyped DEF JitInv
  <1>00. PICK ES : evm \in Seq(ES)
    BY SeqsTyped DEF JitInv
  <1>1. PICK x : /\ vstack' = Append(vstack, x)
                 /\ x.kind = "const"
                 /\ status = "compiling"
                 /\ UNCHANGED << oldValues, status, entry >>
    BY DEF PushOp, Constant, Running
  <1>2. PICK v : EvmPush(v)
    BY DEF PushOp
  <1>3. /\ evmRun' = evmRun
        /\ evmRun = "running" => evm' = << v >> \o evm
        /\ evmRun # "running" => evm' = evm
    BY <1>2 DEF EvmPush, EvmIdle
  <1>5. /\ vstack' \in Seq(VS \cup {x})
        /\ Len(vstack') = Len(vstack) + 1
        /\ vstack'[Len(vstack) + 1] = x
        /\ \A i \in 1..Len(vstack) : vstack'[i] = vstack[i]
    BY <1>0, <1>1
  <1>6. evmRun = "running" => evm' \in Seq(ES \cup {v}) /\ Len(evm') = Len(evm) + 1
    <2> SUFFICES ASSUME evmRun = "running"
                 PROVE  evm' \in Seq(ES \cup {v}) /\ Len(evm') = Len(evm) + 1
      OBVIOUS
    <2>1. evm' = << v >> \o evm
      BY <1>3
    <2>2. << v >> \in Seq(ES \cup {v}) /\ evm \in Seq(ES \cup {v})
      BY <1>00
    <2>3. QED
      BY <2>1, <2>2
  <1>7. JitSeqs'
    <2>1. vstack' \in Seq({vstack'[i] : i \in DOMAIN vstack'})
      BY <1>5
    <2>2. evm' \in Seq({evm'[i] : i \in DOMAIN evm'})
      <3>1. CASE evmRun = "running"
        BY <1>6, <3>1
      <3>2. CASE evmRun # "running"
        BY <1>3, <3>2 DEF JitInv, JitSeqs
      <3>3. QED
        BY <3>1, <3>2
    <2>3. QED
      BY <2>1, <2>2 DEF JitSeqs
  <1>8. x # Reg(0) /\ Settled(x)
    BY <1>1 DEF Reg, Settled
  <1>9. /\ \A i \in 1..Len(vstack') : Settled(vstack'[i])
        /\ SingleRegisterElement'
    BY <1>5, <1>8, SettledKinds DEF JitInv, SingleRegisterElement
  <1>10. StackHeightTracked'
    BY <1>0, <1>00, <1>1, <1>3, <1>5, <1>6, SlotSizePositive DEF JitInv, StackHeightTracked
  <1>11. QED
    BY <1>1, <1>3, <1>7, <1>9, <1>10 DEF JitInv

(* prep(2) on the current virtual stack, and what it leaves behind the    *)
(* two operands.                                                           *)
PrepV == Prep(vstack, oldValues, 2)
RestV == Rest(vstack, oldValues)

(* What a two-operand opcode (ADD, MSTORE, RETURN) keeps of the invariant  *)
(* once it has popped its operands: the rest is settled, holds Reg(0) at   *)
(* most once, and old_values / SlotSize grows by the slots handed out.     *)
LEMMA PrepInv ==
  ASSUME JitInv, NEW VS, vstack \in Seq(VS)
  PROVE  /\ RestV \in Seq(VS)
         /\ Len(RestV) = Len(vstack) + PrepCount(vstack) - 2
         /\ \A i \in 1..Len(RestV) : RestV[i] = vstack[i + 2]
         /\ \A i \in 1..Len(RestV) : Settled(RestV[i])
         /\ \A i, j \in 1..Len(RestV) : RestV[i] = Reg(0) /\ RestV[j] = Reg(0) => i = j
         /\ PrepV.ov \in Nat
         /\ PrepV.ov \div SlotSize = oldValues \div SlotSize + PrepCount(vstack)
         /\ Operands(vstack, oldValues)
         /\ PrepCount(vstack) \in 0..2
  <1>1. oldValues \in Nat
    BY DEF JitInv
  <1>2. RestShape(VS, vstack, oldValues) /\ PrepShape(VS, vstack, oldValues)
          /\ Operands(vstack, oldValues)
    BY <1>1, RestFacts, PrepFacts, OperandFacts
  <1>3. /\ RestV \in Seq(VS)
        /\ Len(RestV) = Len(vstack) + PrepCount(vstack) - 2
        /\ \A i \in 1..Len(RestV) : RestV[i] = vstack[i + 2]
    BY <1>2 DEF RestShape, RestV
  <1>4. PrepCount(vstack) \in 0..2 /\ PrepV.ov = oldValues + PrepCount(vstack) * SlotSize
    BY <1>2 DEF PrepShape, PrepV
  <1>5. \A i \in 1..Len(RestV) : i + 2 \in 1..Len(vstack)
    BY <1>3, <1>4 DEF PrepCount
  <1>6. \A i \in 1..Len(RestV) : Settled(RestV[i])
    BY <1>3, <1>5 DEF JitInv
  <1>7. \A i, j \in 1..Len(RestV) : RestV[i] = Reg(0) /\ RestV[j] = Reg(0) => i = j
    BY <1>3, <1>5 DEF JitInv, SingleRegisterElement
  <1>8. PrepV.ov \in Nat
          /\ PrepV.ov \div SlotSize = oldValues \div SlotSize + PrepCount(vstack)
    <2> DEFINE k == PrepCount(vstack)
    <2> HIDE DEF k
    <2>1. k \in Nat /\ SlotSize \in Nat \ {0}
      BY <1>4, SlotSizePositive DEF k
    <2>2. (oldValues + k * SlotSize) \div SlotSize = oldValues \div SlotSize + k
      BY <1>1, <2>1, DivShift
    <2>3. PrepV.ov = oldValues + k * SlotSize
      BY <1>4 DEF k
    <2>4. oldValues + k * SlotSize \in Nat
      BY <1>1, <2>1
    <2>5. QED
      BY <2>2, <2>3, <2>4 DEF k
  <1>9. QED
    BY <1>2, <1>3, <1>4, <1>6, <1>7, <1>8

(* After popping the operands the virtual stack is what prep(2) left.     *)
LEMMA PoppedInv ==
  ASSUME JitInv, NEW VS, vstack \in Seq(VS),
         vstack' = RestV, oldValues' = PrepV.ov
  PROVE  /\ vstack' \in Seq({vstack'[i] : i \in DOMAIN vstack'})
         /\ oldValues' \in Nat
         /\ \A i \in 1..Len(vstack') : Settled(vstack'[i])
         /\ SingleRegisterElement'
         /\ Len(vstack') - oldValues' \div SlotSize = Len(vstack) - oldValues \div SlotSize - 2
  <1>1. /\ RestV \in Seq(VS)
        /\ Len(RestV) = Len(vstack) + PrepCount(vstack) - 2
        /\ \A i \in 1..Len(RestV) : Settled(RestV[i])
        /\ \A i, j \in 1..Len(RestV) : RestV[i] = Reg(0) /\ RestV[j] = Reg(0) => i = j
        /\ PrepV.ov \in Nat
        /\ PrepV.ov \div SlotSize = oldValues \div SlotSize + PrepCount(vstack)
        /\ PrepCount(vstack) \in 0..2
    BY PrepInv
  <1>2. vstack' \in Seq({vstack'[i] : i \in DOMAIN vstack'})
    BY <1>1
  <1>3. \A i \in 1..Len(vstack') : vstack'[i].kind # "bp"
    BY <1>1, SettledKinds
  <1>4. SingleRegisterElement'
    BY <1>1, <1>3 DEF SingleRegisterElement
  <1>5. Len(vstack') - oldValues' \div SlotSize = Len(vstack) - oldValues \div SlotSize - 2
    <2>1. oldValues \in Nat /\ SlotSize \in Nat \ {0}
      BY SlotSizePositive DEF JitInv
    <2>2. QED
      BY <1>1, <2>1
  <1>6. QED
    BY <1>1, <1>2, <1>4, <1>5

(* gen_mstore pops two elements; the EVM pops two words or fails.          *)
LEMMA MStoreStep ==
  ASSUME JitInv, MStoreOp
  PROVE  JitInv'
  <1>0. PICK VS : vstack \in Seq(VS)
    BY SeqsTyped DEF JitInv
  <1>00. PICK ES : evm \in Seq(ES)
    BY SeqsTyped DEF JitInv
  <1>1. CASE GenT0Todo(PrepV.vs[1]) \/ PrepV.vs[2].kind = "reg"
    <2>1. Unimplemented
      BY <1>1 DEF MStoreOp, PrepV
    <2>2. QED
      BY <2>1, UnimplementedStep
  <1>2. CASE ~(GenT0Todo(PrepV.vs[1]) \/ PrepV.vs[2].kind = "reg")
    <2>1. /\ vstack' = RestV
          /\ oldValues' = PrepV.ov
          /\ EvmMStore
          /\ status = "compiling"
          /\ UNCHANGED << status, entry >>
      BY <1>2 DEF MStoreOp, PrepV, RestV, Rest, Running
    <2>2. /\ evmRun' = "running" => /\ evmRun = "running"
                                   /\ Len(evm) >= 2
                                   /\ evm' = Tail(Tail(evm))
          /\ evmRun' \in {"running", "exception", "returned"}
          /\ evmRun' # "running" => evm' = evm
      BY <2>1 DEF EvmMStore, EvmIdle, JitInv
    <2>3. evm' \in Seq({evm'[i] : i \in DOMAIN evm'})
      <3>1. CASE evmRun' = "running"
        <4>1. evm' \in Seq(ES)
          BY <1>00, <2>2, <3>1
        <4>2. QED
          BY <4>1
      <3>2. CASE evmRun' # "running"
        BY <2>2, <3>2 DEF JitInv, JitSeqs
      <3>3. QED
        BY <3>1, <3>2
    <2>4. /\ vstack' \in Seq({vstack'[i] : i \in DOMAIN vstack'})
          /\ oldValues' \in Nat
          /\ \A i \in 1..Len(vstack') : Settled(vstack'[i])
          /\ SingleRegisterElement'
          /\ Len(vstack') - oldValues' \div SlotSize = Len(vstack) - oldValues \div SlotSize - 2
      BY <1>0, <2>1, PoppedInv
    <2>5. StackHeightTracked'
      <3>1. evmRun' = "running" => Len(evm') = Len(evm) - 2
        BY <1>00, <2>2
      <3>2. QED
        BY <1>0, <1>00, <2>1, <2>2, <2>4, <3>1, SlotSizePositive
        DEF JitInv, StackHeightTracked
    <2>6. QED
      BY <2>1, <2>2, <2>3, <2>4, <2>5 DEF JitInv, JitSeqs
  <1>3. QED
    BY <1>1, <1>2

(* gen_return pops two elements; the EVM returns or fails, and is no      *)
(* longer running either way.                                              *)
LEMMA ReturnStep ==
  ASSUME JitInv, ReturnOp
  PROVE  JitInv'
  <1>0. PICK VS : vstack \in Seq(VS)
    BY SeqsTyped DEF JitInv
  <1>1. CASE PrepV.vs[1].kind = "reg" \/ PrepV.vs[2].kind = "reg"
    <2>1. Unimplemented
      BY <1>1 DEF ReturnOp, PrepV
    <2>2. QED
      BY <2>1, UnimplementedStep
  <1>2. CASE ~(PrepV.vs[1].kind = "reg" \/ PrepV.vs[2].kind = "reg")
    <2>1. /\ vstack' = RestV
          /\ oldValues' = PrepV.ov
          /\ EvmReturn
          /\ UNCHANGED << status, entry >>
      BY <1>2 DEF ReturnOp, PrepV, RestV, Rest
    <2>2. /\ \/ evmRun' \in {"exception", "returned"}
             \/ evmRun' = evmRun /\ evmRun # "running"
          /\ evm' = evm
      BY <2>1 DEF EvmReturn, EvmIdle
    <2>3. /\ vstack' \in Seq({vstack'[i] : i \in DOMAIN vstack'})
          /\ oldValues' \in Nat
          /\ \A i \in 1..Len(vstack') : Settled(vstack'[i])
          /\ SingleRegisterElement'
      BY <1>0, <2>1, PoppedInv
    <2>4. JitSeqs'
      BY <2>2, <2>3 DEF JitInv, JitSeqs
    <2>5. StackHeightTracked'
      BY <2>2 DEF StackHeightTracked
    <2>6. QED
      BY <2>1, <2>2, <2>3, <2>4, <2>5 DEF JitInv
  <1>3. QED
    BY <1>1, <1>2

(* The end of the code, and a stutter, change nothing the invariant reads  *)
(* but the status.                                                         *)
LEMMA FinishStep ==
  ASSUME JitInv, Finish \/ UNCHANGED vars
  PROVE  JitInv'
  <1>1. JitSeqs'
    BY DEF JitInv, JitSeqs, Finish, vars
  <1>2. QED
    BY <1>1 DEF JitInv, Finish, vars, StackHeightTracked, SingleRegisterElement, Settled

(***************************************************************************)
(* gen_add pops two elements and pushes one.  Its operands are never a     *)
(* non-constant a with a register b: a register operand is Reg(0) from the *)
(* stack itself, and then a, the other stack element, is a constant.  And  *)
(* a pushed Reg(0) never meets another: the register operand it replaces  *)
(* was the only one, or no element stays behind the operands.              *)
(***************************************************************************)
LEMMA AddStep ==
  ASSUME JitInv, AddOp
  PROVE  JitInv'
  <1> DEFINE a == PrepV.vs[1]
             b == PrepV.vs[2]
             g == GenAdd(a, b)
  <1>0. PICK VS : vstack \in Seq(VS)
    BY SeqsTyped DEF JitInv
  <1>00. PICK ES : evm \in Seq(ES)
    BY SeqsTyped DEF JitInv
  <1>1. /\ RestV \in Seq(VS)
        /\ Len(RestV) = Len(vstack) + PrepCount(vstack) - 2
        /\ \A i \in 1..Len(RestV) : RestV[i] = vstack[i + 2]
        /\ \A i \in 1..Len(RestV) : Settled(RestV[i])
        /\ \A i, j \in 1..Len(RestV) : RestV[i] = Reg(0) /\ RestV[j] = Reg(0) => i = j
        /\ PrepV.ov \in Nat
        /\ PrepV.ov \div SlotSize = oldValues \div SlotSize + PrepCount(vstack)
        /\ Operands(vstack, oldValues)
        /\ PrepCount(vstack) \in 0..2
    BY <1>0, PrepInv
  <1>2. /\ 1 <= Len(vstack) => a = vstack[1] /\ Settled(vstack[1])
        /\ 1 > Len(vstack) => a.kind = "bp"
        /\ 2 <= Len(vstack) => b = vstack[2] /\ Settled(vstack[2])
        /\ 2 > Len(vstack) => b.kind = "bp"
    <2>1. \A i \in 1..2 : /\ i <= Len(vstack) => PrepV.vs[i] = vstack[i]
                          /\ i > Len(vstack) => PrepV.vs[i] \in BpSlots
      BY <1>1 DEF Operands, PrepV
    <2>2. \A i \in 1..Len(vstack) : Settled(vstack[i])
      BY DEF JitInv
    <2>3. 1 <= Len(vstack) => a = vstack[1] /\ Settled(vstack[1])
      <3> SUFFICES ASSUME 1 <= Len(vstack) PROVE a = vstack[1] /\ Settled(vstack[1])
        OBVIOUS
      <3>1. 1 \in 1..2 /\ 1 \in 1..Len(vstack)
        BY <1>0
      <3>2. QED
        BY <2>1, <2>2, <3>1, Zenon
    <2>4. 1 > Len(vstack) => a.kind = "bp"
      BY <1>0, <2>1 DEF BpSlots
    <2>5. 2 <= Len(vstack) => b = vstack[2] /\ Settled(vstack[2])
      <3> SUFFICES ASSUME 2 <= Len(vstack) PROVE b = vstack[2] /\ Settled(vstack[2])
        OBVIOUS
      <3>1. 2 \in 1..2 /\ 2 \in 1..Len(vstack)
        BY <1>0
      <3>2. QED
        BY <2>1, <2>2, <3>1, Zenon
    <2>6. 2 > Len(vstack) => b.kind = "bp"
      BY <1>0, <2>1 DEF BpSlots
    <2>7. QED
      BY <2>3, <2>4, <2>5, <2>6
  <1> HIDE DEF a, b, g
  <1>3. b.kind \in {"const", "bp", "reg"} /\ ~(a.kind # "const" /\ b.kind = "reg")
    <2>1. b.kind \in {"const", "bp", "reg"}
      BY <1>0, <1>2 DEF Settled, Reg
    <2>2. ~(a.kind # "const" /\ b.kind = "reg")
      <3> SUFFICES ASSUME a.kind # "const", b.kind = "reg" PROVE FALSE
        OBVIOUS
      <3>1. 2 <= Len(vstack) /\ vstack[2] = Reg(0)
        BY <1>0, <1>2 DEF Settled, Reg
      <3>2. vstack[1] = Reg(0)
        BY <1>0, <1>2, <3>1 DEF Settled, Reg
      <3>3. QED
        BY <1>0, <3>1, <3>2 DEF JitInv, SingleRegisterElement
    <2>3. QED
      BY <2>1, <2>2
  <1>4. CASE g.todo
    <2>1. Unimplemented
      BY <1>4 DEF AddOp, PrepV, a, b, g
    <2>2. QED
      BY <2>1, UnimplementedStep
  <1>5. CASE ~g.todo
    <2> DEFINE x == g.pushed[1]
    <2>1. /\ vstack' = RestV \o g.pushed
          /\ oldValues' = PrepV.ov
          /\ EvmAdd
          /\ status = "compiling"
          /\ UNCHANGED << status, entry >>
      BY <1>5 DEF AddOp, PrepV, RestV, Rest, Running, a, b, g
    <2>2. /\ g.pushed = << x >>
          /\ Settled(x)
          /\ x = Reg(0) => a.kind # "const" \/ b.kind # "const"
      BY <1>3, GenAddPushed DEF GenAddPushes, g
    <2> HIDE DEF x
    <2>3. vstack' = Append(RestV, x)
      BY <1>1, <2>1, <2>2
    <2>4. x = Reg(0) => \A i \in 1..Len(RestV) : RestV[i] # Reg(0)
      <3> SUFFICES ASSUME x = Reg(0), NEW i \in 1..Len(RestV), RestV[i] = Reg(0)
                   PROVE  FALSE
        OBVIOUS
      <3>1. Len(vstack) >= 3 /\ i + 2 \in 1..Len(vstack)
        BY <1>0, <1>1 DEF PrepCount
      <3>2. a = vstack[1] /\ b = vstack[2] /\ Settled(vstack[1]) /\ Settled(vstack[2])
        BY <1>0, <1>2, <3>1
      <3>3. vstack[i + 2] = Reg(0)
        BY <1>1
      <3>4. vstack[1] = Reg(0) \/ vstack[2] = Reg(0)
        BY <2>2, <3>2, SettledKinds
      <3>5. QED
        BY <1>0, <3>1, <3>3, <3>4 DEF JitInv, SingleRegisterElement
    <2>5. /\ vstack' \in Seq(VS \cup {x})
          /\ Len(vstack') = Len(RestV) + 1
          /\ vstack'[Len(RestV) + 1] = x
          /\ \A i \in 1..Len(RestV) : vstack'[i] = RestV[i]
      BY <1>1, <2>3
    <2>6. vstack' \in Seq({vstack'[i] : i \in DOMAIN vstack'})
      BY <2>5
    <2>7. \A i \in 1..Len(vstack') : Settled(vstack'[i])
      BY <1>1, <2>2, <2>5
    <2>8. SingleRegisterElement'
      <3>1. \A i \in 1..Len(vstack') : vstack'[i].kind # "bp"
        BY <2>7, SettledKinds
      <3>2. \A i, j \in 1..Len(vstack') :
                vstack'[i] = Reg(0) /\ vstack'[j] = Reg(0) => i = j
        BY <1>1, <2>4, <2>5
      <3>3. QED
        BY <3>1, <3>2 DEF SingleRegisterElement
    <2>9. /\ evmRun' \in {"running", "exception", "returned"}
          /\ evmRun' = "running" =>
                /\ evm' \in Seq(ES \cup {(evm[1] + evm[2]) % WordBase})
                /\ Len(evm') = Len(evm) - 1
                /\ evmRun = "running"
          /\ evmRun' # "running" => evm' = evm
      <3>1. CASE evmRun = "running" /\ Len(evm) >= 2
        <4>1. evm' = << (evm[1] + evm[2]) % WordBase >> \o Tail(Tail(evm)) /\ evmRun' = evmRun
          <5>1. ~(Len(evm) < 2) /\ ~(evmRun # "running")
            BY <1>00, <3>1
          <5>2. QED
            BY <2>1, <5>1, Zenon DEF EvmAdd
        <4>2. Tail(Tail(evm)) \in Seq(ES) /\ Len(Tail(Tail(evm))) = Len(evm) - 2
          <5>1. Tail(evm) \in Seq(ES) /\ Len(Tail(evm)) = Len(evm) - 1
            BY <1>00, <3>1
          <5>2. QED
            BY <3>1, <5>1
        <4>3. QED
          BY <3>1, <4>1, <4>2
      <3>2. CASE ~(evmRun = "running" /\ Len(evm) >= 2)
        BY <2>1, <3>2 DEF EvmAdd, EvmIdle, JitInv
      <3>3. QED
        BY <3>1, <3>2
    <2>10. evm' \in Seq({evm'[i] : i \in DOMAIN evm'})
      <3>1. CASE evmRun' = "running"
        <4>1. evm' \in Seq(ES \cup {(evm[1] + evm[2]) % WordBase})
          BY <2>9, <3>1
        <4>2. QED
          BY <4>1
      <3>2. CASE evmRun' # "running"
        BY <2>9, <3>2 DEF JitInv, JitSeqs
      <3>3. QED
        BY <3>1, <3>2
    <2>11. StackHeightTracked'
      <3>1. oldValues \in Nat /\ SlotSize \in Nat \ {0}
        BY SlotSizePositive DEF JitInv
      <3>2. Len(vstack') - oldValues' \div SlotSize = Len(vstack) - oldValues \div SlotSize - 1
        <4>1. oldValues' \div SlotSize = oldValues \div SlotSize + PrepCount(vstack)
          BY <1>1, <2>1
        <4>2. Len(vstack') = Len(vstack) + PrepCount(vstack) - 1
          BY <1>1, <2>5
        <4>3. oldValues \div SlotSize \in Int
          BY <3>1
        <4>4. QED
          BY <1>0, <1>1, <4>1, <4>2, <4>3
      <3>3. SUFFICES ASSUME evmRun' = "running"
                     PROVE  Len(vstack') - oldValues' \div SlotSize = Len(evm') - Len(entry')
        BY DEF StackHeightTracked
      <3>4. /\ Len(evm') = Len(evm) - 1
            /\ Len(vstack) - oldValues \div SlotSize = Len(evm) - Len(entry)
        BY <2>1, <2>9, <3>3 DEF JitInv, StackHeightTracked
      <3>5. entry' = entry /\ entry \in Seq(Word)
        BY <2>1 DEF JitInv
      <3>6. QED
        BY <1>00, <3>1, <3>2, <3>4, <3>5
    <2>12. QED
      BY <1>1, <2>1, <2>6, <2>7, <2>8, <2>9, <2>10, <2>11 DEF JitInv, JitSeqs
  <1>6. QED
    BY <1>4, <1>5

(* Every step of compile keeps the invariant.                              *)
LEMMA JitInvNext == JitInv /\ [Next]_vars => JitInv'
  <1> SUFFICES ASSUME JitInv, [Next]_vars PROVE JitInv'
    OBVIOUS
  <1>1. CASE PushOp
    BY <1>1, PushStep
  <1>2. CASE PushPastEnd \/ OtherOp
    BY <1>2, UnimplementedStep DEF PushPastEnd, OtherOp
  <1>3. CASE AddOp
    BY <1>3, AddStep
  <1>4. CASE MStoreOp
    BY <1>4, MStoreStep
  <1>5. CASE ReturnOp
    BY <1>5, ReturnStep
  <1>6. CASE Finish \/ UNCHANGED vars
    BY <1>6, FinishStep
  <1>7. QED
    BY <1>1, <1>2, <1>3, <1>4, <1>5, <1>6 DEF Next

(***************************************************************************)
(* For every bytecode, caller stack and width, the virtual stack tracks    *)
(* the EVM stack's height while compile runs and the EVM has not failed:   *)
(* each generator pops what the EVM pops and pushes what it pushes.        *)
(***************************************************************************)
THEOREM StackHeightTrackedHolds == Spec => []StackHeightTracked
  <1>1. JitInv => StackHeightTracked
    BY DEF JitInv
  <1>2. QED
    BY <1>1, JitInvInit, JitInvNext, PTL DEF Spec

(***************************************************************************)
(* For every bytecode, caller stack and width, t0..t3 stand for at most   *)
(* one virtual stack element and no caller slot stays on the virtual      *)
(* stack between opcodes, so gen_add never reaches its branch that emits   *)
(* and pushes nothing.                                                     *)
(***************************************************************************)
THEOREM SingleRegisterElementHolds == Spec => []SingleRegisterElement
  <1>1. JitInv => SingleRegisterElement
    BY DEF JitInv
  <1>2. QED
    BY <1>1, JitInvInit, JitInvNext, PTL DEF Spec

=============================================================================
