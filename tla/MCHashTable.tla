---------------------------- MODULE MCHashTable ----------------------------
(***************************************************************************)
(* Model-checking instances of HashTable.  Strings are sequences of       *)
(* character codes: <<3>> and <<1, 2>> XOR to the same bucket, and so do  *)
(* the anagrams <<1, 2>> and <<2, 1>>.                                     *)
(***************************************************************************)
EXTENDS HashTable, HashCodec

CONSTANT CodecVals   \* the texts the values stand for when serialised

(* Keys in buckets 1, 2 and 3, two of them colliding; values no key       *)
(* equals.                                                                 *)
PairKeys == {<<1>>, <<2>>, <<3>>, <<1, 2>>}
PairVals == {<<5>>, <<6>>}

(* Lists for hash_from_list: two colliding keys; one key twice (the later *)
(* value wins); an odd list.                                               *)
MCFromListArgs == {<<<<1>>, <<5>>, <<1, 2>>, <<6>>>>,
                   <<<<3>>, <<5>>, <<3>>, <<6>>>>,
                   <<<<2>>, <<5>>, <<1>>>>}

(* hash_from_char(hash, k1, v1, k2, v2, NULL) and with one pair.          *)
MCFromCharArgs == {<<<<1>>, <<5>>, <<2>>, <<6>>>>, <<<<3>>, <<6>>>>}

(* Three keys colliding in bucket 3, and a value equal to one of them.    *)
CollidingKeys == {<<3>>, <<1, 2>>, <<2, 1>>}
KeyLikeVals == {<<1, 2>>, <<5>>}

(* The text of a key: its codes 1, 2, 3 read as 'a', 'b', 'c', so <<1, 2>> *)
(* is "ab"; different keys have different texts.                          *)
KeyText(k) == [i \in DOMAIN k |-> 96 + k[i]]

(* Values as "", "a: b", "a\b" and "a\": empty, holding the separator,  *)
(* holding a backslash inside, ending in one; and a value holding an LF,  *)
(* "a\nb".                                                                *)
MCCodecVals == {<<>>, <<97, 58, 32, 98>>, <<97, 92, 98>>, <<97, 92>>}
MCCodecValsWithLF == MCCodecVals \cup {<<97, 10, 98>>}

(* A value hash_serialize writes as it is and hash_deserialize reads back *)
(* as one line: no LF, and no '\' as its last character, which           *)
(* hash_deserialize would take for a continuation (hash.c:481).           *)
OneLineValue(v) == (\A i \in DOMAIN v : v[i] # LineFeed) /\ (v = <<>> \/ v[Len(v)] # Backslash)

(* The buckets, in slot order, with the values read as g gives them.      *)
BucketTexts(g) ==
    [j \in DOMAIN SlotOrder |->
        LET b == bucket[SlotOrder[j]]
        IN  [i \in DOMAIN b |-> IF i % 2 = 1 THEN KeyText(b[i]) ELSE g[b[i]]]]

RoundTrips(texts) ==
    Live =>
        \A g \in [Vals -> texts] :
            LET d == HashDeserialize(HashSerialize(<<>>, BucketTexts(g)))
            IN  /\ d.ok
                /\ Len(d.set) = Cardinality(Abstract!Pairs)
                /\ Range(d.set) = {<<KeyText(p[1]), g[p[2]]>> : p \in Abstract!Pairs}

(* hash_deserialize, into an empty table, reads back exactly the pairs    *)
(* hash_serialize wrote of every reachable table, for the one-line values *)
(* among CodecVals: the ": " separator inside a value, a backslash inside *)
(* it, or nothing.  A value ending in '\' is excluded: it is written     *)
(* unescaped (hash.c:417-426) and read back as the start of a multiline   *)
(* value, which HashSerialRoundTripWithLF shows.                         *)
HashSerialRoundTrip == RoundTrips({v \in CodecVals : OneLineValue(v)})

(* The same with every value, those that hold an LF, which hash_serialize *)
(* escapes with a backslash ("multiline data is backslash terminated"),  *)
(* and those ending in a backslash included.                             *)
HashSerialRoundTripWithLF == RoundTrips(MCCodecValsWithLF)
=============================================================================
