----------------------------- MODULE MCEvmFrame -----------------------------
(***************************************************************************)
(* TLC instance of EvmFrame with a 12-bit Uint: large enough that words *  *)
(* words overflows for sizes in range (as it does at 128 bits for sizes of *)
(* 2^69 and more), and that offsets near the top make start + size and     *)
(* ceil32 overflow.  The frame has 200 gas, so that one 64th of it is     *)
(* more than nothing, a three-item stack, opcodes with one or two (start,  *)
(* size) pairs, and up to two calls that ask for no gas, for part of it,   *)
(* or for more than there is, with and without value.                      *)
(***************************************************************************)
EXTENDS EvmFrame

MCStarts == {0, 10, 33, 2048, 4064, 4095}
MCSizes  == {0, 1, 32, 100, 4096}

MCPairs == [start : MCStarts, size : MCSizes]

MCExtensions ==
    {<< e >> : e \in MCPairs}
    \cup {<< [start |-> 0, size |-> 64], [start |-> 10, size |-> 32] >>,
          << [start |-> 33, size |-> 1], [start |-> 0, size |-> 0] >>,
          << [start |-> 4095, size |-> 1], [start |-> 0, size |-> 32] >>}

MCCallInputs == [value : {0, 1}, gas : {0, 150, 4000}, extra : {0, 9}]
=============================================================================
