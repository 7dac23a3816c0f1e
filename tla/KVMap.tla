------------------------------- MODULE KVMap -------------------------------
(***************************************************************************)
(* What a Trie promises its callers (spec sections 3 and 4.3): a total map *)
(* from keys to values, every key initially mapped to the default; set     *)
(* overwrites one key, get answers the value of a key.                     *)
(***************************************************************************)
CONSTANTS Keys, Values, Default, NoAnswer

VARIABLES
    mem,     \* the value of every key
    answer   \* the last answer of get: [key, val], or NoAnswer

Init ==
    /\ mem = [k \in Keys |-> Default]
    /\ answer = NoAnswer

Put(k, v) ==
    /\ mem' = [mem EXCEPT ![k] = v]
    /\ UNCHANGED answer

Read(k) ==
    /\ answer' = [key |-> k, val |-> mem[k]]
    /\ UNCHANGED mem

Next == \E k \in Keys : \/ \E v \in Values : Put(k, v)
                       \/ Read(k)

Spec == Init /\ [][Next]_<< mem, answer >>
=============================================================================
