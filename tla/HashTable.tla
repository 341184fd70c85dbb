----------------------------- MODULE HashTable ------------------------------
(***************************************************************************)
(* The hash table of src/tags/1.0/naturalc/hash.c.  A hash_t has 256      *)
(* buckets, each a list_t (or NULL) holding key and value strings         *)
(* alternately: hash_set pushes the key, then the value.  A key goes to   *)
(* the bucket hash_function gives, the XOR of its characters.             *)
(*                                                                         *)
(* A bucket is the sequence of strings its list holds (List shows the     *)
(* list functions used here, list_push and list_entry_delete, implement   *)
(* ListSpec's sequence operations).  A NULL bucket and an empty one       *)
(* behave alike in every function modelled, so buckets start empty.      *)
(* Strings are sequences of character codes.  A NULL dereference ends    *)
(* the process: `crashed` is set and nothing more happens.                *)
(***************************************************************************)
EXTENDS Naturals, Sequences, SequencesExt, FiniteSets, FiniteSetsExt, Functions, Bitwise

CONSTANTS
    Keys,          \* key strings the program uses
    Vals,          \* value strings the program stores
    Absent,        \* hash_get failed (returned -1)
    AllocMayFail,  \* list_push may fail to allocate
    FromListArgs,  \* lists given to hash_from_list
    FromCharArgs   \* argument lists given to hash_from_char

VARIABLES bucket, count, out, crashed

vars == <<bucket, count, out, crashed>>

(* hash_function: x = x ^ key[i] over the characters of the key.          *)
HashFunction(key) == FoldLeft(LAMBDA x, c : x ^^ c, 0, key)

Slots == {HashFunction(k) : k \in Keys}

(* Mutant of the search: entries compared by their hash, not by str_cmp. *)
SearchByHash(b, key) ==
    SelectInSeq(b, LAMBDA x : HashFunction(x) = HashFunction(key))

(* The first entry of a bucket, key or value, that str_cmp finds equal to *)
(* the key (0 if none): the loop of hash_entry_search and of hash_set.    *)
Search(b, key) == SelectInSeq(b, LAMBDA x : x = key)

Live == ~crashed

-----------------------------------------------------------------------------
(* The table as a record, so that the functions that loop over hash_set  *)
(* can apply it step by step.                                              *)
Table == [bucket |-> bucket, count |-> count, crashed |-> crashed]
Store(t) == bucket' = t.bucket /\ count' = t.count /\ crashed' = t.crashed

(* hash_set on table t: the entry found by the search has its successor's *)
(* value replaced (cur->next is NULL when the match is the bucket's last  *)
(* entry); otherwise the key and the value are pushed and count grows.    *)
Put(t, k, v) ==
    LET s == HashFunction(k)
        b == t.bucket[s]
        i == Search(b, k)
    IN  IF i # 0
        THEN [t EXCEPT !.crashed = (i = Len(b)),
                       !.bucket[s] = IF i = Len(b) THEN b ELSE [b EXCEPT ![i + 1] = v]]
        ELSE [t EXCEPT !.bucket[s] = b \o <<k, v>>, !.count = @ + 1]

(* A push in hash_set may fail when the key is new.                        *)
CanFail(t, k) == AllocMayFail /\ Search(t.bucket[HashFunction(k)], k) = 0

(* Mutant of the rollback: list_entry_delete of the bucket's head.        *)
RollbackHead(t, k) == [t EXCEPT !.bucket[HashFunction(k)] = Tail(Append(@, k))]

(* hash_set of a new key whose value cannot be pushed: the key pushed     *)
(* just before is removed again with list_entry_delete of the tail, and   *)
(* the call fails.  (A failing push of the key itself changes nothing.)   *)
Rollback(t, k) == [t EXCEPT !.bucket[HashFunction(k)] = Front(Append(@, k))]

(* A loop of hash_set over the pairs ps, as hash_from_list and            *)
(* hash_from_char run it: the tables it can leave.  A failing hash_set    *)
(* ends the loop (its caller returns -1); a crash ends the process.       *)
RECURSIVE SetPairs(_, _)
SetPairs(t, ps) ==
    IF ps = <<>> \/ t.crashed THEN {t}
    ELSE SetPairs(Put(t, ps[1][1], ps[1][2]), Tail(ps))
         \cup (IF CanFail(t, ps[1][1]) THEN {Rollback(t, ps[1][1])} ELSE {})

HashSet(k, v) == Live /\ Store(Put(Table, k, v)) /\ UNCHANGED out

HashSetFails(k, v) ==
    /\ Live
    /\ CanFail(Table, k)
    /\ Store(Rollback(Table, k))
    /\ UNCHANGED out

(* Mutant of hash_get: the value of the entry found, not of its successor. *)
HashGetReturnsKey(k) ==
    /\ Live
    /\ LET b == bucket[HashFunction(k)]
           i == Search(b, k)
       IN  /\ crashed' = (i # 0 /\ i = Len(b))
           /\ out' = <<k, IF i = 0 \/ i = Len(b) THEN Absent ELSE b[i]>>
    /\ UNCHANGED <<bucket, count>>

(* hash_get: hash_entry_search, then a copy of ent->next->value; a failed *)
(* search makes the call fail.                                             *)
HashGet(k) ==
    /\ Live
    /\ LET b == bucket[HashFunction(k)]
           i == Search(b, k)
       IN  /\ crashed' = (i # 0 /\ i = Len(b))
           /\ out' = <<k, IF i = 0 \/ i = Len(b) THEN Absent ELSE b[i + 1]>>
    /\ UNCHANGED <<bucket, count>>

(* hash_delete: hash_entry_search, then list_entry_delete of ent->next    *)
(* and of ent, and count decremented; a failed search fails the call.    *)
HashDelete(k) ==
    /\ Live
    /\ LET s == HashFunction(k)
           b == bucket[s]
           i == Search(b, k)
       IN  /\ i # 0
           /\ crashed' = (i = Len(b))
           /\ bucket' = IF i = Len(b) THEN bucket
                        ELSE [bucket EXCEPT ![s] = RemoveAt(RemoveAt(b, i + 1), i)]
           /\ count' = IF i = Len(b) THEN count ELSE count - 1
    /\ UNCHANGED out

(* hash_truncate: list_truncate of every bucket, count set to 0.          *)
HashTruncate ==
    /\ Live
    /\ bucket' = [s \in Slots |-> <<>>]
    /\ count' = 0
    /\ UNCHANGED <<out, crashed>>

(* hash_from_list: an odd number of elements throws before anything is  *)
(* changed; otherwise hash_set of each (key, value) pair in list order,   *)
(* into the table as it is (it is not truncated first).                   *)
ListPairs(l) == [j \in 1..Len(l) \div 2 |-> <<l[2 * j - 1], l[2 * j]>>]

HashFromList(l) ==
    /\ Live
    /\ Len(l) % 2 = 0
    /\ \E t \in SetPairs(Table, ListPairs(l)) : Store(t)
    /\ UNCHANGED out

(* The pairs hash_from_char sets from its arguments a (NULL-terminated):  *)
(* key = a1 and val = a2 are read before the loop, and the loop reads val *)
(* again before its first hash_set, so the first pair is (a1, a3); then   *)
(* (a4, a5), (a6, a7)...  A key with no value after it throws              *)
(* "insufficient arguments" after the pairs before it are set.            *)
CharPairs(a) ==
    IF Len(a) < 3 THEN <<>>
    ELSE <<<<a[1], a[3]>>>> \o [j \in 1..(Len(a) - 3) \div 2 |-> <<a[2 * j + 2], a[2 * j + 3]>>]

(* hash_from_char: hash_truncate, then the loop of hash_set.              *)
HashFromChar(a) ==
    /\ Live
    /\ \E t \in SetPairs([Table EXCEPT !.bucket = [s \in Slots |-> <<>>], !.count = 0],
                          CharPairs(a)) :
          Store(t)
    /\ UNCHANGED out

-----------------------------------------------------------------------------
(* The reading functions.  They walk the buckets from 0 to 255, and each  *)
(* bucket from its head with ent = ent->next->next (whole pairs, as      *)
(* BucketsPaired shows they are).                                          *)
SlotOrder == SetToSortSeq(Slots, LAMBDA x, y : x < y)

KeysOf(b) == [i \in 1..Len(b) \div 2 |-> b[2 * i - 1]]

(* Mutant of hash_get_values: ent->value pushed, not ent->next->value.   *)
ValuesAtKeys(b) == [i \in 1..Len(b) \div 2 |-> b[2 * i - 1]]

ValuesOf(b) == [i \in 1..Len(b) \div 2 |-> b[2 * i]]

(* hash_get_keys and hash_get_values: list_truncate(dest), then a        *)
(* list_push of every key (value) met on the walk.                         *)
HashGetKeys == FlattenSeq([j \in DOMAIN SlotOrder |-> KeysOf(bucket[SlotOrder[j]])])
HashGetValues == FlattenSeq([j \in DOMAIN SlotOrder |-> ValuesOf(bucket[SlotOrder[j]])])

(* hash_key_exists: whether hash_get of the key succeeds.                 *)
HashKeyExists(k) ==
    LET b == bucket[HashFunction(k)]
        i == Search(b, k)
    IN  i # 0 /\ i # Len(b)

(* hash_value_exists: list_find of the value in hash_get_values.          *)
HashValueExists(v) == \E i \in DOMAIN HashGetValues : HashGetValues[i] = v

Init ==
    /\ bucket = [s \in Slots |-> <<>>]
    /\ count = 0
    /\ out = Absent
    /\ crashed = FALSE

Next ==
    \/ \E k \in Keys :
          \/ HashGet(k) \/ HashDelete(k)
          \/ \E v \in Vals : HashSet(k, v) \/ HashSetFails(k, v)
    \/ HashTruncate
    \/ \E l \in FromListArgs : HashFromList(l)

Spec == Init /\ [][Next]_vars

(* The API with hash_from_char.                                            *)
NextWithFromChar == Next \/ \E a \in FromCharArgs : HashFromChar(a)
FromCharSpec == Init /\ [][NextWithFromChar]_vars
-----------------------------------------------------------------------------
Str == Keys \cup Vals

TypeOK ==
    /\ bucket \in [Slots -> Seq(Str)]
    /\ count \in Nat
    /\ out \in {Absent} \cup (Keys \X (Vals \cup {Absent}))
    /\ crashed \in BOOLEAN

(* The key positions of a bucket: the odd ones, as hash_set pushes them.  *)
KeyAt(b) == {i \in 1..Len(b) : i % 2 = 1}

(* The layout hash_get, hash_delete, hash_get_keys and hash_get_values    *)
(* rely on (they step over entries two at a time and read ent->next):     *)
(* every bucket holds whole key/value pairs, each key in the bucket its   *)
(* hash selects and at most once, and count, kept by hash_set,            *)
(* hash_delete and hash_truncate, is the number of pairs.                 *)
BucketsPaired ==
    /\ \A s \in Slots :
          LET b == bucket[s] IN
          /\ Len(b) % 2 = 0
          /\ \A i \in KeyAt(b) : b[i] \in Keys /\ HashFunction(b[i]) = s
          /\ \A i, j \in KeyAt(b) : b[i] = b[j] => i = j
    /\ count = MapThenSumSet(LAMBDA s : Len(bucket[s]) \div 2, Slots)

(* The value a key maps to: the entry after its key position.             *)
Lookup(k) ==
    LET b  == bucket[HashFunction(k)]
        ks == {i \in KeyAt(b) : b[i] = k /\ i < Len(b)}
    IN  IF ks = {} THEN Absent ELSE b[Min(ks) + 1]

(* hash_set, hash_get, hash_delete and hash_truncate behave as the map    *)
(* operations they document (HashMap), the table read through Lookup.     *)
Abstract == INSTANCE HashMap WITH map <- [k \in Keys |-> Lookup(k)]
HashRefinement == Abstract!Spec

(* hash_get_keys and hash_get_values return parallel lists: the i-th key *)
(* and the i-th value are a pair of the map, each pair of the map occurs *)
(* once; hash_key_exists and hash_value_exists agree with the map.       *)
HashQueries ==
    LET ks == HashGetKeys
        vs == HashGetValues
    IN  /\ Len(ks) = Len(vs)
        /\ IsInjective(ks)
        /\ {<<ks[i], vs[i]>> : i \in DOMAIN ks} = Abstract!Pairs
        /\ \A k \in Keys : HashKeyExists(k) = Abstract!KeyExists(k)
        /\ \A v \in Vals : HashValueExists(v) = Abstract!ValueExists(v)
=============================================================================
