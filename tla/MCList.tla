------------------------------ MODULE MCList -------------------------------
(***************************************************************************)
(* Model-checking instance of List: the specification and properties are  *)
(* List's own; the constants are given in the .cfg files.  The list codec  *)
(* of ListCodec is checked on the lists List reaches.                      *)
(***************************************************************************)
EXTENDS List, ListCodec

(* The texts the list values stand for in the codec properties.           *)
CONSTANT CodecTexts

(* Argument lists for list_from_char: none, one value, two in descending *)
(* order, and more values than a list can take from the pool of three.   *)
MCArgLists == {<<>>, <<1>>, <<2, 1>>, <<1, 2, 2, 1>>}

(* The texts 'a', '%', "%a" and " \n": a value with the space           *)
(* list_deserialize splits on, the '%' str_unescape decodes (alone and    *)
(* before a hex digit) and the LF str_split chomps.                       *)
MCCodecTexts == {<<97>>, <<37>>, <<37, 97>>, <<32, 10>>}

(* The list l with each value read as the text f gives it.                *)
AsTexts(l, f) == [i \in DOMAIN Values(l) |-> f[Values(l)[i]]]

RoundTrips(texts) ==
    \A l \in Lists, f \in [Vals -> texts] :
        Deserialize(Serialize(AsTexts(l, f))) = AsTexts(l, f)

(* Every list List reaches, its values being any non-empty texts of      *)
(* CodecTexts, is read back by list_deserialize from what list_serialize *)
(* wrote: str_escape hides the spaces str_split cuts at and the '%'      *)
(* str_unescape decodes, and str_unescape undoes each escape.            *)
SerialRoundTrip == RoundTrips(CodecTexts)

(* The same when a value may be the empty string, which list_push and     *)
(* list_cat accept.                                                        *)
SerialRoundTripWithEmpty == RoundTrips(CodecTexts \cup {<<>>})
=============================================================================
