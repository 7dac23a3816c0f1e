------------------------------ MODULE ForkProofs ------------------------------
(***************************************************************************)
(* Proof that state_transition of cancun/fork.rs changes the chain only by *)
(* pushing a checked block, for every genesis, every block a caller may    *)
(* submit and every value of the protocol constants.                       *)
(***************************************************************************)
EXTENDS Fork, TLAPS

(* One state_transition call changes the chain only by pushing the block   *)
(* it was given, after the excess blob gas and ommers checks, in a call    *)
(* that returns Ok.                                                        *)
LEMMA StepAppendsOnlyAfterChecks ==
  ASSUME [Next]_vars
  PROVE  chain' # chain =>
           /\ outcome' = "ok"
           /\ chain' = Append(chain, submitted')
           /\ submitted'.ommers = 0
           /\ submitted'.header.excessBlobGas = CalculateExcessBlobGas(Last(chain).header)
  <1> SUFFICES ASSUME chain' # chain
               PROVE  /\ outcome' = "ok"
                      /\ chain' = Append(chain, submitted')
                      /\ submitted'.ommers = 0
                      /\ submitted'.header.excessBlobGas
                           = CalculateExcessBlobGas(Last(chain).header)
    OBVIOUS
  <1>1. CASE UNCHANGED vars
    BY <1>1 DEF vars
  <1>2. CASE Next
    <2>1. PICK block \in Submittable(Last(chain).header), bodyAgrees \in BOOLEAN :
                 StateTransition(block, bodyAgrees)
      BY <1>2 DEF Next
    <2> DEFINE parent    == Last(chain).header
               blobGasOk == block.header.excessBlobGas = CalculateExcessBlobGas(parent)
               reachBody == blobGasOk /\ block.ommers = 0
    <2>2. submitted' = block
      BY <2>1 DEF StateTransition
    <2>3. CASE reachBody /\ bodyAgrees
      BY <2>1, <2>2, <2>3 DEF StateTransition
    <2>4. CASE ~(reachBody /\ bodyAgrees)
      BY <2>1, <2>4 DEF StateTransition
    <2>5. QED
      BY <2>3, <2>4
  <1>3. QED
    BY <1>1, <1>2

(***************************************************************************)
(* AppendOnlyAfterChecks: in every behaviour of the block chain, a step    *)
(* that changes the chain is a state_transition returning Ok that pushes   *)
(* the submitted block, whose ommers are empty and whose excess blob gas   *)
(* is the one calculate_excess_blob_gas computes from the parent.          *)
(***************************************************************************)
THEOREM AppendOnlyAfterChecksHolds == Spec => AppendOnlyAfterChecks
  <1>1. [Next]_vars =>
          [chain' # chain =>
             /\ outcome' = "ok"
             /\ chain' = Append(chain, submitted')
             /\ submitted'.ommers = 0
             /\ submitted'.header.excessBlobGas
                  = CalculateExcessBlobGas(Last(chain).header)]_vars
    BY StepAppendsOnlyAfterChecks
  <1>2. QED
    BY <1>1, PTL DEF Spec, AppendOnlyAfterChecks

-----------------------------------------------------------------------------
(* A sequence is a sequence of its own elements.                           *)
LEMMA SeqOfOwnElements ==
  ASSUME NEW S, NEW s \in Seq(S)
  PROVE  s \in Seq({s[i] : i \in DOMAIN s})
  OBVIOUS

(* Appending to a sequence of S gives a sequence of S and the new element. *)
LEMMA AppendSeq ==
  ASSUME NEW S, NEW s \in Seq(S), NEW e
  PROVE  /\ Append(s, e) \in Seq(S \cup {e})
         /\ Len(Append(s, e)) = Len(s) + 1
         /\ Append(s, e)[Len(s) + 1] = e
         /\ \A i \in 1..Len(s) : Append(s, e)[i] = s[i]
  OBVIOUS

(***************************************************************************)
(* ChainBlobGasLinked is inductive once the chain is known to be a         *)
(* non-empty sequence: Last(chain) is then the block the pushed block is   *)
(* checked against, and it becomes the pushed block's predecessor.         *)
(***************************************************************************)
LinkedInv ==
    /\ chain \in Seq({chain[i] : i \in DOMAIN chain})
    /\ Len(chain) >= 1
    /\ ChainBlobGasLinked

(***************************************************************************)
(* ChainBlobGasLinked: in every behaviour of the block chain, each block   *)
(* after the genesis has no ommers and the excess blob gas computed from   *)
(* its parent, whatever blocks callers submitted and apply_body returned.  *)
(***************************************************************************)
THEOREM ChainBlobGasLinkedHolds == Spec => []ChainBlobGasLinked
  <1>1. Init => LinkedInv
    <2> SUFFICES ASSUME Init PROVE LinkedInv
      OBVIOUS
    <2>1. PICK g \in Geneses : chain = << [header |-> g, ommers |-> 0] >>
      BY DEF Init
    <2>2. chain \in Seq({chain[i] : i \in DOMAIN chain}) /\ Len(chain) = 1
      BY <2>1
    <2>3. QED
      BY <2>2 DEF LinkedInv, ChainBlobGasLinked
  <1>2. LinkedInv /\ [Next]_vars => LinkedInv'
    <2> SUFFICES ASSUME LinkedInv, [Next]_vars PROVE LinkedInv'
      OBVIOUS
    <2> DEFINE S == {chain[i] : i \in DOMAIN chain}
    <2>0. chain \in Seq(S) /\ Len(chain) >= 1
      BY DEF LinkedInv
    <2>1. CASE UNCHANGED vars
      BY <2>1 DEF vars, LinkedInv, ChainBlobGasLinked
    <2>2. CASE Next
      <3>1. PICK block \in Submittable(Last(chain).header), bodyAgrees \in BOOLEAN :
                   StateTransition(block, bodyAgrees)
        BY <2>2 DEF Next
      <3> DEFINE parent    == Last(chain).header
                 blobGasOk == block.header.excessBlobGas = CalculateExcessBlobGas(parent)
                 reachBody == blobGasOk /\ block.ommers = 0
      <3>2. CASE ~(reachBody /\ bodyAgrees)
        <4>1. chain' = chain
          BY <3>1, <3>2 DEF StateTransition
        <4>2. QED
          BY <4>1 DEF LinkedInv, ChainBlobGasLinked
      <3>3. CASE reachBody /\ bodyAgrees
        <4>1. chain' = Append(chain, block)
          BY <3>1, <3>3 DEF StateTransition
        <4>2. /\ Append(chain, block) \in Seq(S \cup {block})
              /\ Len(Append(chain, block)) = Len(chain) + 1
              /\ Append(chain, block)[Len(chain) + 1] = block
              /\ \A i \in 1..Len(chain) : Append(chain, block)[i] = chain[i]
          BY <2>0, AppendSeq
        <4>3. chain' \in Seq({chain'[i] : i \in DOMAIN chain'}) /\ Len(chain') >= 1
          BY <2>0, <4>1, <4>2, SeqOfOwnElements
        <4>4. ASSUME NEW i \in 2..Len(chain')
              PROVE  /\ chain'[i].ommers = 0
                     /\ chain'[i].header.excessBlobGas
                          = CalculateExcessBlobGas(chain'[i - 1].header)
          <5>1. CASE i <= Len(chain)
            <6>1. chain'[i] = chain[i] /\ chain'[i - 1] = chain[i - 1]
              BY <2>0, <4>1, <4>2, <5>1
            <6>2. i \in 2..Len(chain)
              BY <2>0, <5>1
            <6>3. QED
              BY <6>1, <6>2 DEF LinkedInv, ChainBlobGasLinked
          <5>2. CASE i = Len(chain) + 1
            <6>1. chain'[i] = block /\ chain'[i - 1] = Last(chain)
              BY <2>0, <4>1, <4>2, <5>2 DEF Last
            <6>2. QED
              BY <3>3, <6>1
          <5>3. QED
            BY <2>0, <4>1, <4>2, <5>1, <5>2
        <4>5. QED
          BY <4>3, <4>4 DEF LinkedInv, ChainBlobGasLinked
      <3>4. QED
        BY <3>2, <3>3
    <2>3. QED
      BY <2>1, <2>2
  <1>3. LinkedInv => ChainBlobGasLinked
    BY DEF LinkedInv
  <1>4. QED
    BY <1>1, <1>2, <1>3, PTL DEF Spec

-----------------------------------------------------------------------------
(***************************************************************************)
(* What calculate_base_fee_per_gas's Uint arithmetic needs once            *)
(* check_gas_limit has passed, and the fee it then returns: the gas target *)
(* it divides by is not zero, the fee stays a Uint (the subtraction of the *)
(* decrease does not underflow), it falls by at most one                   *)
(* BASE_FEE_MAX_CHANGE_DENOMINATOR-th of the parent fee, it rises by at    *)
(* least 1 above the target and does not rise at or below it.             *)
(***************************************************************************)
BaseFeeSafe(blockGasLimit, parentGasLimit, parentGasUsed, parentBaseFee) ==
    LET target == parentGasLimit \div ElasticityMultiplier
        r      == CalculateBaseFeePerGas(blockGasLimit, parentGasLimit,
                                         parentGasUsed, parentBaseFee)
    IN  /\ target > 0
        /\ r.ok
        /\ r.fee \in Nat
        /\ r.fee >= parentBaseFee - parentBaseFee \div BaseFeeMaxChangeDenominator
        /\ parentGasUsed > target => r.fee > parentBaseFee
        /\ parentGasUsed <= target => r.fee <= parentBaseFee

(* check_gas_limit passes only for a parent gas limit of at least          *)
(* GAS_LIMIT_ADJUSTMENT_FACTOR: below it the allowed band is empty.        *)
LEMMA CheckGasLimitBound ==
  ASSUME NEW gl \in Nat, NEW pgl \in Nat, CheckGasLimit(gl, pgl)
  PROVE  pgl >= GasLimitAdjustmentFactor
  <1>1. GasLimitAdjustmentFactor \in Nat \ {0}
    BY ForkConstantsAssumption
  <1>2. SUFFICES ASSUME pgl < GasLimitAdjustmentFactor PROVE FALSE
    BY <1>1
  <1>3. pgl \div GasLimitAdjustmentFactor = 0
    BY <1>1, <1>2
  <1>4. gl < pgl /\ gl > pgl
    BY <1>3 DEF CheckGasLimit
  <1>5. QED
    BY <1>4

(* The decrease branch: fee * delta / target / denominator is at most      *)
(* fee / denominator when delta is at most the target.                     *)
LEMMA DecreaseBound ==
  ASSUME NEW fee \in Nat, NEW t \in Nat \ {0}, NEW delta \in 0..t, NEW den \in Nat \ {0}
  PROVE  /\ ((fee * delta) \div t) \div den \in 0..(fee \div den)
  <1>1. fee * delta \in 0..(fee * t)
    OBVIOUS
  <1>2. (fee * delta) \div t \in 0..fee
    <2>1. (fee * t) \div t = fee
      OBVIOUS
    <2>2. QED
      BY <1>1, <2>1
  <1>3. QED
    BY <1>2

(* calculate_base_fee_per_gas is safe and bounded whenever its gas limit   *)
(* check passes, for every value of the protocol constants.                *)
THEOREM BaseFeeArithmeticSafe ==
  ASSUME NEW blockGasLimit \in Nat, NEW parentGasLimit \in Nat,
         NEW parentGasUsed \in Nat, NEW parentBaseFee \in Nat,
         CheckGasLimit(blockGasLimit, parentGasLimit)
  PROVE  BaseFeeSafe(blockGasLimit, parentGasLimit, parentGasUsed, parentBaseFee)
  <1> DEFINE target == parentGasLimit \div ElasticityMultiplier
             den    == BaseFeeMaxChangeDenominator
             Delta(used) == ((parentBaseFee * used) \div target) \div den
             r      == CalculateBaseFeePerGas(blockGasLimit, parentGasLimit,
                                              parentGasUsed, parentBaseFee)
  <1>0. /\ ElasticityMultiplier \in Nat \ {0}
        /\ den \in Nat \ {0}
        /\ GasLimitAdjustmentFactor >= ElasticityMultiplier
    BY ForkConstantsAssumption
  <1>1. target \in Nat \ {0}
    <2>0. parentGasLimit >= GasLimitAdjustmentFactor
      BY CheckGasLimitBound
    <2>1. parentGasLimit >= ElasticityMultiplier
      BY <1>0, <2>0, ForkConstantsAssumption
    <2>2. /\ target \in Nat
          /\ parentGasLimit = ElasticityMultiplier * target + (parentGasLimit % ElasticityMultiplier)
          /\ parentGasLimit % ElasticityMultiplier \in 0..(ElasticityMultiplier - 1)
      BY <1>0
    <2>3. QED
      BY <1>0, <2>1, <2>2
  <1>2. CASE parentGasUsed = target
    <2>1. r = [ok |-> TRUE, fee |-> parentBaseFee]
      BY <1>2 DEF CalculateBaseFeePerGas
    <2>2. parentBaseFee \div den \in Nat
      BY <1>0
    <2>3. QED
      BY <1>1, <1>2, <2>1, <2>2 DEF BaseFeeSafe
  <1>3. CASE parentGasUsed > target
    <2> DEFINE d == Delta(parentGasUsed - target)
    <2>0. parentGasUsed # target
      BY <1>1, <1>3
    <2>1. r = [ok |-> TRUE, fee |-> parentBaseFee + (IF d < 1 THEN 1 ELSE d)]
      BY <2>0, <1>3, Zenon DEF CalculateBaseFeePerGas
    <2>2. d \in Nat
      BY <1>0, <1>1, <1>3
    <2>3. parentBaseFee \div den \in Nat
      BY <1>0
    <2> HIDE DEF d
    <2>4. QED
      BY <1>1, <1>3, <2>1, <2>2, <2>3 DEF BaseFeeSafe
  <1>4. CASE parentGasUsed < target
    <2> DEFINE d == Delta(target - parentGasUsed)
    <2>0. parentGasUsed # target /\ ~(parentGasUsed > target)
      BY <1>1, <1>4
    <2>1. r = [ok |-> TRUE, fee |-> parentBaseFee - d]
      BY <2>0, Zenon DEF CalculateBaseFeePerGas
    <2>2. d \in 0..(parentBaseFee \div den)
      <3>1. target - parentGasUsed \in 0..target
        BY <1>1, <1>4
      <3> HIDE DEF target, den
      <3>2. QED
        BY <1>0, <1>1, <3>1, DecreaseBound, Zenon
    <2>3. parentBaseFee \div den \in 0..parentBaseFee
      BY <1>0
    <2> HIDE DEF d
    <2>4. QED
      BY <1>1, <1>4, <2>1, <2>2, <2>3 DEF BaseFeeSafe
  <1>5. QED
    BY <1>1, <1>2, <1>3, <1>4

=============================================================================
