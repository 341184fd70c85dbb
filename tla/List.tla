-------------------------------- MODULE List --------------------------------
(***************************************************************************)
(* The doubly linked list of src/trunk/list.c at the level of its         *)
(* pointers: each list_t has head, tail and count, each list_entry_t has  *)
(* next, prev and a value.  Entries come from a fixed pool of addresses,  *)
(* `free` being those not allocated; freed entries keep their stale       *)
(* fields, as freed memory does.  Each action is one whole call of the    *)
(* list API, with the internal helpers it calls (list_entry_new,          *)
(* list_entry_append, list_entry_delete, list_entry_get, list_truncate).  *)
(*                                                                         *)
(* A call that fails without changing anything (mem_calloc failing in     *)
(* list_entry_new, list_pop on an empty list, list_sort of fewer than two *)
(* entries, list_delete at offset == count) is a stuttering step and has  *)
(* no action.  mem_calloc returns some free address (CHOOSE).             *)
(*                                                                         *)
(* LinkedNext is the list API without the three functions that do not     *)
(* keep the links or the order they promise (list_unshift, list_merge,    *)
(* list_sort); Next is the whole API.                                      *)
(***************************************************************************)
EXTENDS Naturals, Sequences, SequencesExt, FiniteSets, Functions

CONSTANTS
    Lists,   \* list_t objects
    Nodes,   \* addresses list_entry_new can allocate
    Vals,    \* string values, single digits (strcmp order = numeric order)
    NULL,
    NoVal,   \* a value pointer that is NULL (calloc) or never set
    Delims,  \* delimiter characters for str_join
    LF,      \* '\n', one of them
    ArgLists \* the NULL-terminated argument lists of list_from_char and list_compare

ASSUME NULL \notin Nodes /\ NoVal \notin Vals /\ Vals \subseteq Nat
       /\ LF \in Delims /\ Delims \cap Vals = {} /\ ArgLists \subseteq Seq(Vals)

VARIABLES head, tail, count, next, prev, val, free, out

vars == <<head, tail, count, next, prev, val, free, out>>

Ptr == Nodes \cup {NULL}

(* The entries reached from n by following f (next or prev) until NULL;   *)
(* a cycle, which only corruption can make, is cut after |Nodes| + 1.     *)
RECURSIVE Chain(_, _, _)
Chain(f, n, k) == IF n = NULL \/ k = 0 THEN <<>> ELSE <<n>> \o Chain(f, f[n], k - 1)

(* What `for (cur = list->head; cur; cur = cur->next)` visits.            *)
Walk(l) == Chain(next, head[l], Cardinality(Nodes) + 1)
Values(l) == [i \in 1..Len(Walk(l)) |-> val[Walk(l)[i]]]

Cmp(a, b) == IF a < b THEN -1 ELSE IF a > b THEN 1 ELSE 0

-----------------------------------------------------------------------------
(* list_entry_delete: unlink `e` from its neighbours and from the list's  *)
(* head and tail, decrement count, free the entry.                         *)
EntryDelete(l, e) ==
    /\ next' = [m \in Nodes |-> IF m = prev[e] THEN next[e] ELSE next[m]]
    /\ prev' = [m \in Nodes |-> IF m = next[e] THEN prev[e] ELSE prev[m]]
    /\ head' = IF head[l] = e THEN [head EXCEPT ![l] = next[e]] ELSE head
    /\ tail' = IF tail[l] = e THEN [tail EXCEPT ![l] = prev[e]] ELSE tail
    /\ count' = [count EXCEPT ![l] = @ - 1]
    /\ free' = free \cup {e}
    /\ UNCHANGED val

(* list_entry_new: mem_calloc of an entry (some free address; a failing  *)
(* calloc is a stuttering step), which then gets a copy of the value.     *)
EntryNew == CHOOSE n \in free : TRUE

(* list_entry_append: the entry is linked behind the tail pointer and     *)
(* becomes the head if there is none; count grows.                         *)
EntryAppend(l, n) ==
    /\ next' = [m \in Nodes |-> IF m = n THEN NULL
                               ELSE IF m = tail[l] THEN n ELSE next[m]]
    /\ prev' = [prev EXCEPT ![n] = tail[l]]
    /\ head' = IF head[l] = NULL THEN [head EXCEPT ![l] = n] ELSE head
    /\ tail' = [tail EXCEPT ![l] = n]
    /\ count' = [count EXCEPT ![l] = @ + 1]

(* list_push: list_entry_new, then list_entry_append.                     *)
ListPush(l, v) ==
    /\ free # {}
    /\ EntryAppend(l, EntryNew)
    /\ val' = [val EXCEPT ![EntryNew] = v]
    /\ free' = free \ {EntryNew}
    /\ UNCHANGED out

(* list_unshift: the new entry points at the old head, becomes the head,  *)
(* and becomes the tail of an empty list.                                  *)
ListUnshift(l, v) ==
    /\ free # {}
    /\ LET n == EntryNew
       IN  /\ next' = [next EXCEPT ![n] = IF count[l] # 0 THEN head[l] ELSE NULL]
           /\ prev' = [prev EXCEPT ![n] = NULL]
           /\ val' = [val EXCEPT ![n] = v]
           /\ head' = [head EXCEPT ![l] = n]
           /\ tail' = IF count[l] # 0 THEN tail ELSE [tail EXCEPT ![l] = n]
           /\ count' = [count EXCEPT ![l] = @ + 1]
           /\ free' = free \ {n}
    /\ UNCHANGED out

(* Mutants of list_pop: moving the entry rather than its value, and      *)
(* moving the head's value.                                                *)
ListPopMovesEntry(l) ==
    /\ tail[l] # NULL
    /\ out' = tail[l]
    /\ EntryDelete(l, tail[l])

ListPopReadsHead(l) ==
    /\ tail[l] # NULL
    /\ out' = val[head[l]]
    /\ EntryDelete(l, tail[l])

(* list_pop: fails on a NULL tail; moves the tail's value to the caller   *)
(* and deletes the tail entry.                                             *)
ListPop(l) ==
    /\ tail[l] # NULL
    /\ out' = val[tail[l]]
    /\ EntryDelete(l, tail[l])

(* list_shift: fails on count 0; list_entry_get(.., 0) returns the head   *)
(* (or fails, "possible pointer corruption", if there is none); its value *)
(* moves to the caller and the entry is deleted.                           *)
ListShift(l) ==
    /\ count[l] # 0
    /\ head[l] # NULL
    /\ out' = val[head[l]]
    /\ EntryDelete(l, head[l])

(* list_delete: rejects offset > count, then deletes the entry reached    *)
(* after `offset` steps, if the walk reaches one.                          *)
ListDelete(l, off) ==
    /\ ~(off > count[l])
    /\ off < Len(Walk(l))
    /\ EntryDelete(l, Walk(l)[off + 1])
    /\ UNCHANGED out

(* Mutant of list_truncate: the control structure is cleared without    *)
(* the loop that destroys the entries.                                     *)
ListTruncateKeepsEntries(l) ==
    /\ head' = [head EXCEPT ![l] = NULL]
    /\ tail' = [tail EXCEPT ![l] = NULL]
    /\ count' = [count EXCEPT ![l] = 0]
    /\ UNCHANGED <<next, prev, val, free, out>>

(* list_truncate: destroys every entry reached from head, then clears     *)
(* head, tail and count.                                                   *)
ListTruncate(l) ==
    /\ free' = free \cup Range(Walk(l))
    /\ head' = [head EXCEPT ![l] = NULL]
    /\ tail' = [tail EXCEPT ![l] = NULL]
    /\ count' = [count EXCEPT ![l] = 0]
    /\ UNCHANGED <<next, prev, val, out>>

(* list_reverse: swaps head and tail, then walks from the new head along  *)
(* the swapped pointers, i.e. along the old prev chain of the old tail,   *)
(* swapping next and prev of each entry.                                   *)
ListReverse(l) ==
    /\ LET r == Range(Chain(prev, tail[l], Cardinality(Nodes) + 1))
       IN  /\ next' = [m \in Nodes |-> IF m \in r THEN prev[m] ELSE next[m]]
           /\ prev' = [m \in Nodes |-> IF m \in r THEN next[m] ELSE prev[m]]
    /\ head' = [head EXCEPT ![l] = tail[l]]
    /\ tail' = [tail EXCEPT ![l] = head[l]]
    /\ UNCHANGED <<count, val, free, out>>

(* list_merge: an empty destination takes the source's head, otherwise    *)
(* the destination's tail entry is pointed at it; the destination takes   *)
(* the source's tail and count; the source is emptied without free().     *)
(* A non-empty destination with a NULL tail would be dereferenced.        *)
ListMerge(d, s) ==
    /\ count[d] # 0 => tail[d] # NULL
    /\ next' = IF count[d] = 0 THEN next ELSE [next EXCEPT ![tail[d]] = head[s]]
    /\ head' = [head EXCEPT ![d] = IF count[d] = 0 THEN head[s] ELSE @,
                            ![s] = NULL]
    /\ tail' = [tail EXCEPT ![d] = tail[s], ![s] = NULL]
    /\ count' = [count EXCEPT ![d] = @ + count[s], ![s] = 0]
    /\ UNCHANGED <<prev, val, free, out>>

(* list_move: truncates the destination, copies the source's control     *)
(* structure into it and empties the source.                               *)
ListMove(d, s) ==
    /\ free' = free \cup Range(Walk(d))
    /\ head' = [head EXCEPT ![d] = head[s], ![s] = NULL]
    /\ tail' = [tail EXCEPT ![d] = tail[s], ![s] = NULL]
    /\ count' = [count EXCEPT ![d] = count[s], ![s] = 0]
    /\ UNCHANGED <<next, prev, val, out>>

(* Truncate d, then list_push each of vs in order; a push that cannot    *)
(* allocate ends the loop (-1), so d holds a prefix of vs.                 *)
PushAll(d, vs) ==
    /\ LET pool == free \cup Range(Walk(d))
           k    == Min({Len(vs), Cardinality(pool)})
           ns   == CHOOSE f \in [1..k -> pool] : IsInjective(f)
           At(m) == CHOOSE i \in 1..k : ns[i] = m
       IN  /\ next' = [m \in Nodes |-> IF m \notin Range(ns) THEN next[m]
                                       ELSE IF At(m) < k THEN ns[At(m) + 1]
                                       ELSE NULL]
           /\ prev' = [m \in Nodes |-> IF m \notin Range(ns) THEN prev[m]
                                       ELSE IF At(m) > 1 THEN ns[At(m) - 1]
                                       ELSE NULL]
           /\ val' = [m \in Nodes |-> IF m \in Range(ns) THEN vs[At(m)]
                                      ELSE val[m]]
           /\ head' = [head EXCEPT ![d] = IF k = 0 THEN NULL ELSE ns[1]]
           /\ tail' = [tail EXCEPT ![d] = IF k = 0 THEN NULL ELSE ns[k]]
           /\ count' = [count EXCEPT ![d] = k]
           /\ free' = pool \ Range(ns)
    /\ UNCHANGED out

(* list_copy: list_truncate(dest), then list_push of each source value.   *)
ListCopy(d, s) == PushAll(d, Values(s))

(* list_from_char: list_truncate, then list_cat of each argument up to   *)
(* the NULL one.                                                           *)
ListFromChar(l, vs) == PushAll(l, vs)

(* list_cat and list_putc: the value made into a string, then list_push. *)
ListCat(l, v) == ListPush(l, v)
ListPutc(l, v) == ListPush(l, v)

Swap(vs, i) == [vs EXCEPT ![i] = vs[i + 1], ![i + 1] = vs[i]]

(* The inner loop of list_sort: str1 and str2 are taken from the first    *)
(* two entries before the loop and never updated, so every adjacent pair  *)
(* is swapped, or none is, according to that one comparison.              *)
RECURSIVE SortPass(_, _, _)
SortPass(vs, swap, i) ==
    IF i >= Len(vs) THEN vs
    ELSE SortPass(IF swap THEN Swap(vs, i) ELSE vs, swap, i + 1)

(* The outer loop: repeat while a pass swapped.                            *)
RECURSIVE BubbleSort(_, _)
BubbleSort(vs, asc) ==
    LET rc   == Cmp(vs[1], vs[2])
        swap == IF asc THEN rc > 0 ELSE rc < 0
    IN  IF swap THEN BubbleSort(SortPass(vs, TRUE, 1), asc) ELSE vs

(* list_sort with SORT_ASCENDING or SORT_DESCENDING: values are swapped   *)
(* between entries, the links stay.                                        *)
ListSort(l) ==
    /\ count[l] >= 2
    /\ \E asc \in BOOLEAN :
         LET w == Walk(l)
             sorted == BubbleSort(Values(l), asc)
         IN  val' = [m \in Nodes |-> IF m \in Range(w)
                                     THEN sorted[CHOOSE i \in 1..Len(w) : w[i] = m]
                                     ELSE val[m]]
    /\ UNCHANGED <<head, tail, count, next, prev, free, out>>

-----------------------------------------------------------------------------
(* The reading functions.  Err is a call that throws (returns -1).        *)

Err == -1

(* Mutant: the walk counts from one.                                       *)
EntryGetFromOne(l, off) ==
    IF off >= count[l] THEN Err
    ELSE IF off + 2 <= Len(Walk(l)) THEN Walk(l)[off + 2] ELSE Err

(* list_entry_get: an offset at or past count throws; otherwise the entry *)
(* `offset` steps from head, or a throw if the walk ends first.            *)
EntryGet(l, off) ==
    IF off >= count[l] THEN Err
    ELSE IF off + 1 <= Len(Walk(l)) THEN Walk(l)[off + 1] ELSE Err

(* list_get: list_entry_get, then str_copy of the entry's value.          *)
ListGet(l, off) == IF EntryGet(l, off) = Err THEN Err ELSE val[EntryGet(l, off)]

(* list_find: whether some entry reached from head has the value.         *)
ListFind(l, v) == \E i \in 1..Len(Walk(l)) : val[Walk(l)[i]] = v

(* list_compare(list, args..., NULL): no arguments is -1, either by the   *)
(* special case (count # 0) or because list_get(.., 0) of an empty list   *)
(* throws.  Otherwise the k-th argument is compared with list_get(k - 1), *)
(* which throws past the end; a mismatch is -1, and so is a count that   *)
(* differs from the number of arguments.                                   *)
ListCompare(l, args) ==
    IF args = <<>> THEN Err
    ELSE IF \E k \in 1..Len(args) : ListGet(l, k - 1) = Err \/ ListGet(l, k - 1) # args[k]
         THEN Err
    ELSE IF Len(args) # count[l] THEN Err
    ELSE 0

(* str_join: str_truncate, then for each entry from head its value, and  *)
(* the delimiter while fewer than count values have been appended; a     *)
(* newline delimiter is also appended at the end.                          *)
StrJoin(l, d) ==
    LET w == Walk(l)
        body == FlattenSeq([i \in 1..Len(w) |-> IF i < count[l] THEN <<val[w[i]], d>>
                                                 ELSE <<val[w[i]]>>])
    IN  IF d = LF THEN Append(body, d) ELSE body

-----------------------------------------------------------------------------
Init ==
    /\ head = [l \in Lists |-> NULL]
    /\ tail = [l \in Lists |-> NULL]
    /\ count = [l \in Lists |-> 0]
    /\ next = [n \in Nodes |-> NULL]
    /\ prev = [n \in Nodes |-> NULL]
    /\ val = [n \in Nodes |-> NoVal]
    /\ free = Nodes
    /\ out = NoVal

LinkedNext ==
    \/ \E l \in Lists, v \in Vals : ListPush(l, v)
    \/ \E l \in Lists :
          \/ ListPop(l) \/ ListShift(l) \/ ListTruncate(l) \/ ListReverse(l)
          \/ \E off \in 0..Cardinality(Nodes) : ListDelete(l, off)
    \/ \E d, s \in Lists : d # s /\ (ListMove(d, s) \/ ListCopy(d, s))
    \/ \E l \in Lists, v \in Vals : ListCat(l, v) \/ ListPutc(l, v)
    \/ \E l \in Lists, vs \in ArgLists : ListFromChar(l, vs)

(* A client that fills lists and sorts them.                               *)
SortNext ==
    \/ \E l \in Lists, v \in Vals : ListPush(l, v)
    \/ \E l \in Lists : ListSort(l)

Next ==
    \/ LinkedNext
    \/ SortNext
    \/ \E l \in Lists, v \in Vals : ListUnshift(l, v)
    \/ \E d, s \in Lists : d # s /\ ListMerge(d, s)

LinkedSpec == Init /\ [][LinkedNext]_vars
SortSpec == Init /\ [][SortNext]_vars
Spec == Init /\ [][Next]_vars

-----------------------------------------------------------------------------
TypeOK ==
    /\ head \in [Lists -> Ptr] /\ tail \in [Lists -> Ptr]
    /\ count \in [Lists -> 0..Cardinality(Nodes)]
    /\ next \in [Nodes -> Ptr] /\ prev \in [Nodes -> Ptr]
    /\ val \in [Nodes -> Vals \cup {NoVal}]
    /\ free \subseteq Nodes
    /\ out \in Vals \cup {NoVal}

(* The doubly linked structure every list function relies on: walking    *)
(* next from head visits count live entries and ends at tail, each       *)
(* entry's prev is the entry before it, no entry is on two lists, and    *)
(* every allocated entry is on some list (none is leaked).                *)
WellFormed ==
    /\ \A l \in Lists :
          LET w == Walk(l) IN
          /\ Len(w) = count[l]
          /\ tail[l] = IF w = <<>> THEN NULL ELSE Last(w)
          /\ \A i \in 1..Len(w) : prev[w[i]] = IF i = 1 THEN NULL ELSE w[i - 1]
          /\ Range(w) \cap free = {}
    /\ \A l, m \in Lists : l # m => Range(Walk(l)) \cap Range(Walk(m)) = {}
    /\ free \cup UNION {Range(Walk(l)) : l \in Lists} = Nodes

(* The list functions implement the sequence operations their comments   *)
(* describe (ListSpec), seen through what a traversal from head returns. *)
Abstract == INSTANCE ListSpec WITH seqs <- [l \in Lists |-> Values(l)]
ListRefinement == Abstract!Spec

(* Every reading function reports what ListSpec says of the sequence a   *)
(* traversal returns, in every reachable state: list_get at every offset *)
(* up to one past the pool, list_find of every value, list_compare with  *)
(* every non-empty argument list up to one longer than the pool, and     *)
(* str_join with every delimiter.  list_get and list_compare go by count *)
(* and list_entry_get's walk, list_find by the walk alone, str_join by    *)
(* both.                                                                   *)
ListQueries ==
    \A l \in Lists :
        LET q == Values(l) IN
        /\ \A i \in 0..Cardinality(Nodes) : ListGet(l, i) = Abstract!Get(q, i)
        /\ \A v \in Vals : ListFind(l, v) = Abstract!Find(q, v)
        /\ \A args \in BoundedSeq(Vals, Cardinality(Nodes) + 1) \ {<<>>} :
              ListCompare(l, args) = Abstract!Compare(q, args)
        /\ \A d \in Delims : StrJoin(l, d) = Abstract!Join(q, d)

(* list_compare of an empty list with no arguments reports a match, as    *)
(* its comment says it compares the list with the arguments.               *)
EmptyListCompare ==
    \A l \in Lists : count[l] = 0 => ListCompare(l, <<>>) = Abstract!Compare(Values(l), <<>>)

=============================================================================
