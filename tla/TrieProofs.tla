----------------------------- MODULE TrieProofs -----------------------------
(***************************************************************************)
(* Proofs about the Trie object of trie.rs, for every set of keys and      *)
(* values and every default: its type invariant, that a default value is   *)
(* never stored, and that set and get implement a total key/value map.     *)
(***************************************************************************)
EXTENDS Trie, TLAPS

USE TrieAssumption

(***************************************************************************)
(* Type correctness of Trie::new, set, get, secured and root: every        *)
(* reachable state has the types of TypeOK.                                *)
(***************************************************************************)
LEMMA TypeInit == Init => TypeOK
BY DEF Init, TypeOK, NoAnswer, NoRoot

LEMMA TypeStep == TypeOK /\ [Next]_vars => TypeOK'
<1> SUFFICES ASSUME TypeOK, [Next]_vars PROVE TypeOK'
    OBVIOUS
<1>1. ASSUME NEW k \in Keys, NEW v \in Values, Set(k, v) PROVE TypeOK'
    BY <1>1 DEF Set, TypeOK
<1>2. ASSUME NEW k \in Keys, Get(k) PROVE TypeOK'
    BY <1>2 DEF Get, TypeOK
<1>3. ASSUME NEW b \in BOOLEAN, Secured(b) PROVE TypeOK'
    BY <1>3 DEF Secured, TypeOK
<1>4. CASE RootCall
    BY <1>4 DEF RootCall, Root, TypeOK
<1>5. CASE UNCHANGED vars
    BY <1>5 DEF vars, TypeOK
<1> QED
    BY <1>1, <1>2, <1>3, <1>4, <1>5 DEF Next

(* Spec => []TypeOK: the type invariant of the MCTrie run, for all         *)
(* constants satisfying TrieAssumption.                                    *)
THEOREM TypeCorrect == Spec => []TypeOK
BY TypeInit, TypeStep, PTL DEF Spec

(***************************************************************************)
(* Trie::set never leaves a default value in the BTreeMap: the remove      *)
(* branch takes the key out when the value is the default, and the insert  *)
(* branch only stores a value that differs from it.                        *)
(***************************************************************************)
LEMMA DefaultStep == DefaultNeverStored /\ [Next]_vars => DefaultNeverStored'
<1> SUFFICES ASSUME DefaultNeverStored, [Next]_vars PROVE DefaultNeverStored'
    OBVIOUS
<1>1. ASSUME NEW k \in Keys, NEW v \in Values, Set(k, v) PROVE DefaultNeverStored'
    <2>1. CASE v = Default
        BY <1>1, <2>1 DEF Set, DefaultNeverStored
    <2>2. CASE v # Default
        BY <1>1, <2>2 DEF Set, DefaultNeverStored
    <2> QED
        BY <2>1, <2>2
<1>2. CASE UNCHANGED data
    BY <1>2 DEF DefaultNeverStored
<1> QED
    BY <1>1, <1>2 DEF Next, Get, Secured, RootCall, vars

(* Spec => []DefaultNeverStored, the invariant of the MCTrie run.          *)
THEOREM DefaultNeverStoredHolds == Spec => []DefaultNeverStored
<1>1. Init => DefaultNeverStored
    BY DEF Init, DefaultNeverStored
<1> QED
    BY <1>1, DefaultStep, PTL DEF Spec

(***************************************************************************)
(* Refinement: set and get implement the total map KVMap under the mapping *)
(* mem <- Contents.  Trie::new maps to the all-default map; set(k, v) is   *)
(* Put(k, v), since removing a key and storing the default both read back  *)
(* as the default; get(k) is Read(k); secured and root leave the map and   *)
(* the last answer alone and are stuttering steps.                         *)
(***************************************************************************)
LEMMA RefineInit == Init => KV!Init
BY DEF Init, KV!Init, Contents

LEMMA RefineStep == TypeOK /\ [Next]_vars => [KV!Next]_<< Contents, getRet >>
<1> SUFFICES ASSUME TypeOK, [Next]_vars PROVE [KV!Next]_<< Contents, getRet >>
    OBVIOUS
<1>1. ASSUME NEW k \in Keys, NEW v \in Values, Set(k, v) PROVE KV!Put(k, v)
    <2>1. Contents' = [Contents EXCEPT ![k] = v]
        BY <1>1 DEF Set, Contents
    <2>2. UNCHANGED getRet
        BY <1>1 DEF Set
    <2> QED
        BY <2>1, <2>2 DEF KV!Put
<1>2. ASSUME NEW k \in Keys, Get(k) PROVE KV!Read(k)
    <2>2. getRet' = [key |-> k, val |-> Contents[k]]
        BY <1>2 DEF Get, Contents
    <2>3. UNCHANGED Contents
        BY <1>2 DEF Get, Contents
    <2> QED
        BY <2>2, <2>3 DEF KV!Read
<1>3. CASE UNCHANGED << data, getRet >>
    BY <1>3 DEF Contents
<1> QED
    BY <1>1, <1>2, <1>3 DEF Next, KV!Next, Secured, RootCall, vars

(* Spec => ImplementsKVMap, the refinement property of the MCTrie run.     *)
THEOREM Refinement == Spec => ImplementsKVMap
<1>1. Spec => []TypeOK
    BY TypeCorrect
<1> QED
    BY <1>1, RefineInit, RefineStep, PTL DEF Spec, ImplementsKVMap, KV!Spec
=============================================================================
