------------------------------ MODULE ListSpec ------------------------------
(***************************************************************************)
(* What the list container of src/trunk/list.c promises, in the words of  *)
(* its documentation comments: a list is an ordered sequence of string    *)
(* values, and each operation changes that sequence.  This is the         *)
(* abstract specification that List (the doubly linked implementation)    *)
(* is checked against.  `out` is the value the last list_pop or           *)
(* list_shift moved to the caller.                                         *)
(*                                                                         *)
(* An operation that fails (an allocation error, an empty list) leaves    *)
(* the sequence unchanged, which is a stuttering step here; list_copy may *)
(* fail part way, leaving a prefix of the source.                          *)
(***************************************************************************)
EXTENDS Naturals, Sequences, SequencesExt

CONSTANTS Lists, Vals, NoVal, LF, ArgLists

VARIABLES seqs, out

vars == <<seqs, out>>

Empty == <<>>

Set(l, q) == seqs' = [seqs EXCEPT ![l] = q]

ListPush(l, v)    == Set(l, Append(seqs[l], v)) /\ UNCHANGED out
ListUnshift(l, v) == Set(l, <<v>> \o seqs[l]) /\ UNCHANGED out
ListPop(l)        == /\ seqs[l] # Empty
                     /\ out' = Last(seqs[l])
                     /\ Set(l, Front(seqs[l]))
ListShift(l)      == /\ seqs[l] # Empty
                     /\ out' = Head(seqs[l])
                     /\ Set(l, Tail(seqs[l]))
ListDelete(l, i)  == Set(l, RemoveAt(seqs[l], i)) /\ UNCHANGED out
ListTruncate(l)   == Set(l, Empty) /\ UNCHANGED out
ListReverse(l)    == Set(l, Reverse(seqs[l])) /\ UNCHANGED out
ListMerge(d, s)   == /\ seqs' = [seqs EXCEPT ![d] = @ \o seqs[s], ![s] = Empty]
                     /\ UNCHANGED out
ListMove(d, s)    == /\ seqs' = [seqs EXCEPT ![d] = seqs[s], ![s] = Empty]
                     /\ UNCHANGED out
ListCopy(d, s)    == /\ \E k \in 0..Len(seqs[s]) : Set(d, SubSeq(seqs[s], 1, k))
                     /\ UNCHANGED out
(* list_from_char: the arguments, or a prefix of them when an allocation *)
(* fails.                                                                   *)
ListFromChar(l, vs) == /\ \E k \in 0..Len(vs) : Set(l, SubSeq(vs, 1, k))
                       /\ UNCHANGED out
(* list_sort: the same values, in ascending or descending order.          *)
ListSort(l)       == /\ \/ Set(l, SortSeq(seqs[l], LAMBDA a, b : a < b))
                        \/ Set(l, SortSeq(seqs[l], LAMBDA a, b : a > b))
                     /\ UNCHANGED out

-----------------------------------------------------------------------------
(* What the reading functions report about a sequence q; -1 is an error. *)

(* list_get: the element at a zero-based offset; past the end, an error. *)
Get(q, i) == IF i < Len(q) THEN q[i + 1] ELSE -1
(* list_find: whether the value occurs.                                     *)
Find(q, v) == \E i \in DOMAIN q : q[i] = v
(* list_compare: 0 when the list holds exactly the arguments, else -1.   *)
Compare(q, args) == IF q = args THEN 0 ELSE -1
(* str_join: the values with the delimiter between them ("Perl           *)
(* semantics"), and a trailing newline when the delimiter is a newline.  *)
Join(q, d) == LET body == IF q = Empty THEN Empty
                          ELSE FoldLeft(LAMBDA acc, v : acc \o <<d, v>>, <<Head(q)>>, Tail(q))
              IN  IF d = LF THEN Append(body, d) ELSE body

-----------------------------------------------------------------------------
Init == /\ seqs = [l \in Lists |-> Empty]
        /\ out = NoVal

Next ==
    \/ \E l \in Lists, v \in Vals : ListPush(l, v) \/ ListUnshift(l, v)
    \/ \E l \in Lists :
          \/ ListPop(l) \/ ListShift(l) \/ ListTruncate(l) \/ ListReverse(l)
          \/ ListSort(l) \/ \E i \in 1..Len(seqs[l]) : ListDelete(l, i)
          \/ \E vs \in ArgLists : ListFromChar(l, vs)
    \/ \E d, s \in Lists :
          d # s /\ (ListMerge(d, s) \/ ListMove(d, s) \/ ListCopy(d, s))

Spec == Init /\ [][Next]_vars
=============================================================================
