------------------------------ MODULE HashMap -------------------------------
(***************************************************************************)
(* What the hash table of src/tags/1.0/naturalc/hash.c promises in its    *)
(* documentation comments: a map from keys to string values.  hash_set    *)
(* associates a value with a key, hash_get retrieves it or fails,         *)
(* hash_delete removes it, hash_truncate removes every element.  `out` is *)
(* the key the last hash_get asked for and what it returned: the value,  *)
(* or Absent when it failed (Absent before any hash_get).                 *)
(* An operation that fails leaves the map as it was (a stuttering step).  *)
(***************************************************************************)
EXTENDS Naturals, Sequences, SequencesExt

CONSTANTS Keys, Vals, Absent, FromListArgs, FromCharArgs

VARIABLES map, out

vars == <<map, out>>

HashSet(k, v)  == map' = [map EXCEPT ![k] = v] /\ UNCHANGED out
HashGet(k)     == out' = <<k, map[k]>> /\ UNCHANGED map
HashDelete(k)  == /\ map[k] # Absent
                  /\ map' = [map EXCEPT ![k] = Absent]
                  /\ UNCHANGED out
HashTruncate   == map' = [k \in Keys |-> Absent] /\ UNCHANGED out

(* m with the pairs ps set in order.                                      *)
SetAll(m, ps) == FoldLeft(LAMBDA acc, p : [acc EXCEPT ![p[1]] = p[2]], m, ps)
FirstPairs(l, n) == [j \in 1..n |-> <<l[2 * j - 1], l[2 * j]>>]

(* hash_from_list: a list (key, value)* is added pair by pair; one that   *)
(* fails part way leaves the pairs before it added.  An odd list fails.   *)
HashFromList(l) == /\ Len(l) % 2 = 0
                   /\ \E n \in 0..Len(l) \div 2 : map' = SetAll(map, FirstPairs(l, n))
                   /\ UNCHANGED out
(* hash_from_char: the hash made of its arguments taken as key, value,    *)
(* key, value...; a failure part way leaves the pairs before it.          *)
HashFromChar(a) == /\ \E n \in 0..Len(a) \div 2 :
                        map' = SetAll([k \in Keys |-> Absent], FirstPairs(a, n))
                   /\ UNCHANGED out

(* The key/value pairs, and the two membership tests, that the reading   *)
(* functions report.                                                       *)
Pairs == {<<k, map[k]>> : k \in {k \in Keys : map[k] # Absent}}
KeyExists(k) == map[k] # Absent
ValueExists(v) == \E k \in Keys : map[k] = v

Init == map = [k \in Keys |-> Absent] /\ out = Absent

Next == \/ \E k \in Keys : \/ HashGet(k) \/ HashDelete(k)
                           \/ \E v \in Vals : HashSet(k, v)
        \/ HashTruncate
        \/ \E l \in FromListArgs : HashFromList(l)
        \/ \E a \in FromCharArgs : HashFromChar(a)

Spec == Init /\ [][Next]_vars
=============================================================================
