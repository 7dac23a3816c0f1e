------------------------------- MODULE Trie -------------------------------
(***************************************************************************)
(* The Trie<K, V> object of src/ethereum/cancun/trie.rs with Bytes keys    *)
(* and values: its state (the secured flag and the BTreeMap data), and     *)
(* its operations set, get, secured and root as actions.  getRet and       *)
(* rootRet are what the last get and the last root call returned.          *)
(***************************************************************************)
EXTENDS MPT

CONSTANTS
    Keys,      \* the keys callers use
    Values,    \* the values callers store
    Default    \* the default value given to Trie::new

ASSUME TrieAssumption ==
    /\ Keys \subseteq Seq(Byte)
    /\ Values \subseteq Seq(Byte)
    /\ Default \in Values

NoAnswer == [key |-> << >>, val |-> << >>, none |-> TRUE]
NoRoot == [panic |-> FALSE, root |-> << >>]

VARIABLES
    secured,   \* Trie.secured
    data,      \* Trie.data: a function on the keys present in the BTreeMap
    getRet,    \* the last result of get, as [key, val]
    rootRet    \* the last result of root, as [panic, root]

vars == << secured, data, getRet, rootRet >>

(* Trie::new(secured, default): an empty map.                              *)
Init ==
    /\ secured \in BOOLEAN
    /\ data = << >>
    /\ getRet = NoAnswer
    /\ rootRet = NoRoot

(* Faulty variants of Trie::set, each a plausible slip in its code, that   *)
(* the properties of the MCTrie runs are meant to tell from the original:  *)
(* storing Value::encode_node(v) instead of v, inserting the default       *)
(* instead of removing the key.                                            *)
SetEncoded(k, v) ==
    /\ data' = IF v = Default
               THEN [x \in DOMAIN data \ {k} |-> data[x]]
               ELSE [x \in DOMAIN data \cup {k} |-> IF x = k THEN EncodeNode(v) ELSE data[x]]
    /\ UNCHANGED << secured, getRet, rootRet >>

SetInsertingDefault(k, v) ==
    /\ data' = [x \in DOMAIN data \cup {k} |-> IF x = k THEN v ELSE data[x]]
    /\ UNCHANGED << secured, getRet, rootRet >>

(* Trie::set: a value equal to the default removes the key.                *)
Set(k, v) ==
    /\ data' = IF v = Default
               THEN [x \in DOMAIN data \ {k} |-> data[x]]
               ELSE [x \in DOMAIN data \cup {k} |-> IF x = k THEN v ELSE data[x]]
    /\ UNCHANGED << secured, getRet, rootRet >>

(* Faulty variant of Trie::get: on a secured trie it looks the key up by   *)
(* its keccak256, as prepare_trie does, instead of by the key itself.      *)
GetHashingKey(k) ==
    /\ LET kk == IF secured THEN Keccak(k) ELSE k
       IN  getRet' = [key |-> k, val |-> IF kk \in DOMAIN data THEN data[kk] ELSE Default]
    /\ UNCHANGED << secured, data, rootRet >>

(* Trie::get: the stored value, or the default when the key is absent.     *)
Get(k) ==
    /\ getRet' = [key |-> k, val |-> IF k \in DOMAIN data THEN data[k] ELSE Default]
    /\ UNCHANGED << secured, data, rootRet >>

(* Trie::secured: the builder that sets the flag.                          *)
Secured(b) ==
    /\ secured' = b
    /\ UNCHANGED << data, getRet, rootRet >>

(* Trie::root.                                                             *)
RootCall ==
    /\ rootRet' = Root(data, secured)
    /\ UNCHANGED << secured, data, getRet >>

Next ==
    \/ \E k \in Keys, v \in Values : Set(k, v)
    \/ \E k \in Keys : Get(k)
    \/ \E b \in BOOLEAN : Secured(b)
    \/ RootCall

Spec == Init /\ [][Next]_vars

-----------------------------------------------------------------------------
(***************************************************************************)
(* Types: the map holds caller keys and values, get answers a caller key   *)
(* with a value, and root answers a record whose panic flag is a Boolean.  *)
(* The root bytes are keccak256 output, which the operator parameter       *)
(* Keccak leaves untyped.                                                  *)
(***************************************************************************)
TypeOK ==
    /\ secured \in BOOLEAN
    /\ DOMAIN data \subseteq Keys
    /\ \A k \in DOMAIN data : data[k] \in Values
    /\ getRet \in [key : Keys, val : Values] \cup {NoAnswer}
    /\ DOMAIN rootRet = {"panic", "root"}
    /\ rootRet.panic \in BOOLEAN

(***************************************************************************)
(* A key whose value equals the default is never present in the BTreeMap   *)
(* (Trie::set): absence and "equals default" are one state, which is what  *)
(* makes prepare_trie, and so the root, a function of the map's contents.  *)
(***************************************************************************)
DefaultNeverStored == \A k \in DOMAIN data : data[k] # Default

(* The map the Trie stands for: every key, the default where absent.       *)
Contents == [k \in Keys |-> IF k \in DOMAIN data THEN data[k] ELSE Default]

KV == INSTANCE KVMap WITH mem <- Contents, answer <- getRet

(***************************************************************************)
(* set and get implement the total map of KVMap: get returns the value of  *)
(* the last set of that key, or the default, whatever the order of calls   *)
(* on other keys and of the secured and root calls in between.             *)
(***************************************************************************)
ImplementsKVMap == KV!Spec
=============================================================================
