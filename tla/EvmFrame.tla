------------------------------ MODULE EvmFrame ------------------------------
(***************************************************************************)
(* The parts of an executing EVM frame (Evm in cancun/vm.rs) that the      *)
(* helpers of cancun/vm/gas.rs and cancun/vm/stack.rs change: gas_left,    *)
(* the memory length and the stack depth.  A memory access is the step     *)
(* every memory-touching opcode takes: calculate_gas_extend_memory over    *)
(* its (start, size) pairs, charge_gas of the cost, then the memory grown  *)
(* by expand_by.  A message call adds calculate_message_call_gas to that  *)
(* step and charges the call's cost with the memory's.                     *)
(* Uint (u128) has UintBits bits; OverflowChecks says       *)
(* whether the build panics on overflow (debug) or wraps (release).        *)
(***************************************************************************)
EXTENDS Integers, Sequences

CONSTANTS
    UintBits,         \* 128 in the code
    OverflowChecks,   \* debug build
    GasMemory,        \* GAS_MEMORY (3)
    QuadDivisor,      \* the 512 of calculate_memory_gas_cost
    StackLimit,       \* the 1024 of stack::push
    InitialGas,       \* the gas the frame starts with
    CallStipend,      \* GAS_CALL_STIPEND (2300)
    CallInputs,       \* the [value, gas, extra] a call opcode may pass
    MaxCalls,         \* bound on the calls of one frame
    Extensions        \* the extension lists an opcode may pass: sequences
                      \* of [start, size] with values below 2^(2 * UintBits)

ASSUME EvmFrameAssumption ==
    /\ UintBits \in Nat \ {0}
    /\ OverflowChecks \in BOOLEAN
    /\ {GasMemory, QuadDivisor, StackLimit, InitialGas, CallStipend, MaxCalls} \subseteq Nat
    /\ CallInputs \subseteq [value : Nat, gas : Nat, extra : Nat]
    /\ QuadDivisor > 0

VARIABLES
    gasLeft,   \* evm.gas_left
    memSize,   \* evm.memory.len()
    depth,     \* evm.stack.len()
    status,    \* "running", or how the frame stopped
    charged,   \* the gas charged so far for memory (no counterpart in Evm)
    accessed,  \* the extensions of the last memory access that went through
    callSpent, \* the gas charged so far for calls, beyond their memory
    lastCall   \* the number of calls, and for the last one the gas left
               \* after its memory and extra gas, and the gas it forwarded

vars == << gasLeft, memSize, depth, status, charged, accessed, callSpent, lastCall >>

UintMax == 2^UintBits - 1

(***************************************************************************)
(* Uint arithmetic.  A result outside 0..UintMax is an overflow: the value *)
(* wraps, and the flag records it for the panic of a debug build.          *)
(***************************************************************************)
Wrap(v) == v % 2^UintBits
Ovf(v) == v < 0 \/ v > UintMax

(* A ceil32 that rounds down to the multiple of 32.                        *)
Ceil32Down(value) == [v |-> value - (value % 32), ovf |-> FALSE]

(* ceil32: value + 32 - value % 32, which overflows near UintMax.          *)
Ceil32(value) ==
    LET r == value % 32
    IN  IF r = 0 THEN [v |-> value, ovf |-> FALSE]
        ELSE [v |-> Wrap(value + 32 - r), ovf |-> Ovf(value + 32 - r)]

(***************************************************************************)
(* calculate_memory_gas_cost: words * GAS_MEMORY + words * words / 512 in  *)
(* Uint, the square unchecked (the TODO asks for a checked multiply).      *)
(***************************************************************************)
CalculateMemoryGasCost(sizeInBytes) ==
    LET c         == Ceil32(sizeInBytes)
        words     == c.v \div 32
        linear    == words * GasMemory
        square    == words * words
        quadratic == Wrap(square) \div QuadDivisor
    IN  [v   |-> Wrap(Wrap(linear) + quadratic),
         ovf |-> c.ovf \/ Ovf(linear) \/ Ovf(square) \/ Ovf(Wrap(linear) + quadratic)]

(* An extension cost that charges the whole new memory cost, without     *)
(* crediting what the current size already paid.                          *)
CalculateGasExtendMemoryNoCredit(memoryLen, extensions) ==
    LET n == Len(extensions)
        loop[k \in 0..n] ==
            IF k = 0
            THEN [err |-> FALSE, ovf |-> FALSE, cost |-> 0, expandBy |-> 0, current |-> memoryLen]
            ELSE
            LET acc   == loop[k - 1]
                e     == extensions[k]
                toUintErr == e.start > UintMax \/ e.size > UintMax
                before == Ceil32(acc.current)
                after  == Ceil32(Wrap(e.start + e.size))
                paid   == CalculateMemoryGasCost(before.v)
                total  == CalculateMemoryGasCost(after.v)
                grow   == acc.expandBy + (after.v - before.v)
                pay    == total.v
            IN  IF acc.err \/ e.size = 0 THEN acc
                ELSE IF toUintErr THEN [acc EXCEPT !.err = TRUE]
                ELSE IF after.v <= before.v
                THEN [acc EXCEPT !.ovf = @ \/ before.ovf \/ after.ovf \/ Ovf(e.start + e.size)]
                ELSE [err      |-> FALSE,
                      ovf      |-> acc.ovf \/ before.ovf \/ after.ovf \/ Ovf(e.start + e.size)
                                   \/ paid.ovf \/ total.ovf \/ Ovf(grow)
                                   \/ Ovf(total.v - paid.v) \/ Ovf(acc.cost + pay),
                      cost     |-> Wrap(acc.cost + pay),
                      expandBy |-> Wrap(grow),
                      current  |-> after.v]
    IN  loop[n]

(***************************************************************************)
(* calculate_gas_extend_memory: for each (start, size) with a non-zero     *)
(* size whose ceil32(start + size) passes the current size, add the new    *)
(* bytes to size_to_extend and the difference of the two memory costs to  *)
(* to_be_paid.  U256::to_uint fails (Err) for a value of 2^128 or more.    *)
(* Result [err, ovf, cost, expandBy].                                      *)
(***************************************************************************)
CalculateGasExtendMemory(memoryLen, extensions) ==
    LET n == Len(extensions)
        loop[k \in 0..n] ==
            IF k = 0
            THEN [err |-> FALSE, ovf |-> FALSE, cost |-> 0, expandBy |-> 0, current |-> memoryLen]
            ELSE
            LET acc   == loop[k - 1]
                e     == extensions[k]
                toUintErr == e.start > UintMax \/ e.size > UintMax
                before == Ceil32(acc.current)
                after  == Ceil32(Wrap(e.start + e.size))
                paid   == CalculateMemoryGasCost(before.v)
                total  == CalculateMemoryGasCost(after.v)
                grow   == acc.expandBy + (after.v - before.v)
                pay    == Wrap(total.v - paid.v)
            IN  IF acc.err \/ e.size = 0 THEN acc
                ELSE IF toUintErr THEN [acc EXCEPT !.err = TRUE]
                ELSE IF after.v <= before.v
                THEN [acc EXCEPT !.ovf = @ \/ before.ovf \/ after.ovf \/ Ovf(e.start + e.size)]
                ELSE [err      |-> FALSE,
                      ovf      |-> acc.ovf \/ before.ovf \/ after.ovf \/ Ovf(e.start + e.size)
                                   \/ paid.ovf \/ total.ovf \/ Ovf(grow)
                                   \/ Ovf(total.v - paid.v) \/ Ovf(acc.cost + pay),
                      cost     |-> Wrap(acc.cost + pay),
                      expandBy |-> Wrap(grow),
                      current  |-> after.v]
    IN  loop[n]

(* charge_gas: OutOfGasError when gas_left < amount, else subtract.        *)
ChargeGas(amount) ==
    IF gasLeft < amount THEN [ok |-> FALSE, gas |-> gasLeft]
    ELSE [ok |-> TRUE, gas |-> gasLeft - amount]

Init ==
    /\ gasLeft = InitialGas
    /\ memSize = 0
    /\ depth = 0
    /\ status = "running"
    /\ charged = 0
    /\ accessed = << >>
    /\ callSpent = 0
    /\ lastCall = [n |-> 0, avail |-> 0, forwarded |-> 0]

(***************************************************************************)
(* A memory-touching opcode: the extension cost, then charge_gas, then the *)
(* memory grown by expand_by zero bytes.  An overflow in a debug build     *)
(* panics; a to_uint failure or missing gas stops the frame with an error. *)
(***************************************************************************)
MemoryAccess(extensions) ==
    LET ext    == CalculateGasExtendMemory(memSize, extensions)
        charge == ChargeGas(ext.cost)
    IN  /\ status = "running"
        /\ IF OverflowChecks /\ ext.ovf
           THEN status' = "panic" /\ UNCHANGED << gasLeft, memSize, charged, accessed >>
           ELSE IF ext.err
           THEN status' = "numericOverflow" /\ UNCHANGED << gasLeft, memSize, charged, accessed >>
           ELSE IF ~charge.ok
           THEN status' = "outOfGas" /\ UNCHANGED << gasLeft, memSize, charged, accessed >>
           ELSE /\ gasLeft' = charge.gas
                /\ memSize' = memSize + ext.expandBy
                /\ charged' = charged + ext.cost
                /\ accessed' = extensions
                /\ UNCHANGED status
        /\ UNCHANGED << depth, callSpent, lastCall >>

(* A push that refuses only beyond StackLimit items.                       *)
PushPastLimit ==
    /\ status = "running"
    /\ IF depth > StackLimit THEN status' = "stackOverflow" /\ UNCHANGED depth
       ELSE depth' = depth + 1 /\ UNCHANGED status
    /\ UNCHANGED << gasLeft, memSize, charged, accessed, callSpent, lastCall >>

(* stack::push: StackOverflowError at StackLimit items.                    *)
Push ==
    /\ status = "running"
    /\ IF depth = StackLimit THEN status' = "stackOverflow" /\ UNCHANGED depth
       ELSE depth' = depth + 1 /\ UNCHANGED status
    /\ UNCHANGED << gasLeft, memSize, charged, accessed, callSpent, lastCall >>

(* stack::pop: StackUnderflowError on an empty stack.                      *)
Pop ==
    /\ status = "running"
    /\ IF depth = 0 THEN status' = "stackUnderflow" /\ UNCHANGED depth
       ELSE depth' = depth - 1 /\ UNCHANGED status
    /\ UNCHANGED << gasLeft, memSize, charged, accessed, callSpent, lastCall >>

(* max_message_call_gas without the 1/64 the caller keeps.                  *)
MaxMessageCallGasNoReserve(gas) == gas

(* max_message_call_gas: all but one 64th of the gas available.            *)
MaxMessageCallGas(gas) == gas - gas \div 64

(***************************************************************************)
(* calculate_message_call_gas: no stipend without value; if gas_left does  *)
(* not cover extra_gas + memory_cost, cost and stipend take the requested  *)
(* gas as it is; otherwise the gas is capped at max_message_call_gas of    *)
(* what remains.  Result [cost, stipend, ovf].                             *)
(***************************************************************************)
CalculateMessageCallGas(value, gas, gasLeft_, memoryCost, extraGas, callStipend) ==
    LET stipend == IF value = 0 THEN 0 ELSE callStipend
        need    == extraGas + memoryCost
        g       == IF gasLeft_ < Wrap(need) THEN gas
                   ELSE LET m == MaxMessageCallGas(gasLeft_ - Wrap(need))
                        IN  IF gas < m THEN gas ELSE m
    IN  [cost    |-> Wrap(g + extraGas),
         stipend |-> Wrap(g + stipend),
         ovf     |-> Ovf(need) \/ Ovf(g + extraGas) \/ Ovf(g + stipend)
                     \/ (gasLeft_ >= Wrap(need) /\ Ovf(gasLeft_ - memoryCost - extraGas))]

(***************************************************************************)
(* A call opcode's gas step: the memory extension of its argument and      *)
(* return ranges, calculate_message_call_gas with the frame's gas_left and *)
(* that extension's cost, then charge_gas of the call's cost plus the      *)
(* memory's, and the memory grown.  The callee frame itself is not         *)
(* modelled (process_message_call is todo!()); it is handed `stipend`.     *)
(***************************************************************************)
MessageCall(c, extensions) ==
    LET ext    == CalculateGasExtendMemory(memSize, extensions)
        mcg    == CalculateMessageCallGas(c.value, c.gas, gasLeft, ext.cost, c.extra, CallStipend)
        charge == ChargeGas(Wrap(mcg.cost + ext.cost))
    IN  /\ status = "running"
        /\ lastCall.n < MaxCalls
        /\ IF OverflowChecks /\ (ext.ovf \/ mcg.ovf \/ Ovf(mcg.cost + ext.cost))
           THEN status' = "panic" /\ UNCHANGED << gasLeft, memSize, charged, accessed, callSpent, lastCall >>
           ELSE IF ext.err
           THEN status' = "numericOverflow" /\ UNCHANGED << gasLeft, memSize, charged, accessed, callSpent, lastCall >>
           ELSE IF ~charge.ok
           THEN status' = "outOfGas" /\ UNCHANGED << gasLeft, memSize, charged, accessed, callSpent, lastCall >>
           ELSE /\ gasLeft' = charge.gas
                /\ memSize' = memSize + ext.expandBy
                /\ charged' = charged + ext.cost
                /\ callSpent' = callSpent + mcg.cost
                /\ accessed' = extensions
                /\ lastCall' = [n |-> lastCall.n + 1, avail |-> gasLeft - ext.cost - c.extra,
                                forwarded |-> mcg.stipend]
                /\ UNCHANGED status
        /\ UNCHANGED depth

Next ==
    \/ \E ext \in Extensions : MemoryAccess(ext)
    \/ \E c \in CallInputs, ext \in Extensions : MessageCall(c, ext)
    \/ Push
    \/ Pop

Spec == Init /\ [][Next]_vars

Statuses == {"running", "panic", "numericOverflow", "outOfGas", "stackOverflow",
             "stackUnderflow"}

TypeOK ==
    /\ gasLeft \in 0..InitialGas
    /\ memSize \in Nat
    /\ depth \in 0..StackLimit
    /\ status \in Statuses
    /\ charged \in Nat
    /\ accessed \in Seq([start : Nat, size : Nat])
    /\ callSpent \in Nat
    /\ lastCall \in [n : 0..MaxCalls, avail : Nat, forwarded : Nat]

(* The memory cost of the execution specs, in unbounded integers.          *)
MemoryCost(size) ==
    LET words == (size + 31) \div 32
    IN  words * GasMemory + (words * words) \div QuadDivisor

(***************************************************************************)
(* Memory is paid for exactly: whatever sequence of accesses and extension *)
(* lists the frame went through, the gas charged by the extension steps    *)
(* adds up to the memory cost of the current size, and gas_left is what   *)
(* remains of the initial gas after memory and calls.  Each step pays a difference of two costs;  *)
(* the sum telescopes only if no step rounds, wraps or skips.              *)
(***************************************************************************)
MemoryPaidFor ==
    status # "panic" =>
        /\ charged = MemoryCost(memSize)
        /\ gasLeft + charged + callSpent = InitialGas

(***************************************************************************)
(* Every byte a memory access went through for lies in memory: after a     *)
(* successful calculate_gas_extend_memory and charge_gas, start + size of  *)
(* each non-empty extension is within the grown memory.                    *)
(***************************************************************************)
AccessesWithinMemory ==
    status \notin {"panic"} =>
        \A i \in 1..Len(accessed) :
            accessed[i].size = 0 \/ accessed[i].start + accessed[i].size <= memSize

(***************************************************************************)
(* A call never takes the caller's last 64th (EIP-150): after a call step  *)
(* goes through, gas_left is at least one 64th of what was left once the   *)
(* call's memory and extra gas were paid.  When gas_left does not cover    *)
(* those, calculate_message_call_gas skips the cap, and only charge_gas    *)
(* refusing the sum keeps this true.                                       *)
(***************************************************************************)
CallerKeepsOneSixtyFourth ==
    [][ lastCall'.n # lastCall.n => gasLeft' >= lastCall'.avail \div 64 ]_vars
=============================================================================
