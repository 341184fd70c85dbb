---------------------------- MODULE StringBuffer ----------------------------
(***************************************************************************)
(* The string objects of src/tags/1.0/trunk/string.c at the level of      *)
(* their buffers.  A string_t is a pointer `value` to a malloc'd buffer   *)
(* of `size` bytes and a length `len`; its C-string reading (strlen,      *)
(* strcmp, the character loops) stops at the first NUL byte, its         *)
(* length-based reading uses `len`.                                        *)
(*                                                                         *)
(*   buf[s]   the `size` bytes of the buffer (<<>> when value is NULL)     *)
(*   len[s]   dest->len                                                    *)
(*   live[s]  the string_t object exists (str_new .. str_destroy)          *)
(*                                                                         *)
(* A byte is a character code, NUL (0), or Junk: a byte malloc(3) or      *)
(* realloc(3) returned without anyone writing it.  FailingAllocs is the   *)
(* set of allocation sites whose malloc/realloc/vasprintf may return      *)
(* NULL.  A call that fails without changing anything (a failed realloc  *)
(* in str_cat, a double str_new, a rejected position) is a stuttering     *)
(* step and is not written.  The functions that only read a string are   *)
(* operators, compared with what StringSpec says they report.             *)
(*                                                                         *)
(* A string whose value is NULL (after a failed str_new or str_sprintf)   *)
(* is never read as a C string: strlen(3) of it would crash, and a caller *)
(* reaches that state only through a call that returned -1, after which   *)
(* Natural C leaves the calling function.                                  *)
(***************************************************************************)
EXTENDS Integers, Sequences, SequencesExt, FiniteSets

CONSTANTS Strs,           \* string_t objects
          Chars,          \* the character codes
          CR, LF,         \* '\r' and '\n', two of them
          Lits,           \* C strings passed in (str_cat, str_cpy) or formatted
          Junk,
          InitialSize,    \* 16 in str_new
          PointerSize,    \* sizeof(str->value): the bytes str_new zeroes
          MaxLen,         \* bound on the length of a string
          ReadBytes,      \* the bytes read(2) may deliver to str_read
          FailingAllocs   \* subset of {"str_new", "str_ncpy", "str_copy", "str_vprintf", "str_read"}

ASSUME /\ Chars \subseteq 1..255 /\ {CR, LF} \subseteq Chars
       /\ Lits \subseteq Seq(Chars) /\ Junk \notin Int
       /\ PointerSize <= InitialSize
       /\ ReadBytes \subseteq Chars \cup {0}

VARIABLES live, buf, len

vars == <<live, buf, len>>

NUL == 0
Bytes == Chars \cup {NUL, Junk}

MayFail(site) == site \in FailingAllocs

Size(s) == Len(buf[s])

(* cbuf_len / strlen(3): the characters before the first NUL.             *)
CString(s) == LET n == SelectInSeq(buf[s], LAMBDA b : b = NUL)
              IN  SubSeq(buf[s], 1, n - 1)

(* str_truncate: len = 0 and a NUL in the first byte, if there is one.    *)
Truncated(b) == IF b = <<>> THEN b ELSE [b EXCEPT ![1] = NUL]

(* str_resize: realloc(3) to n bytes when the buffer is smaller, then a   *)
(* NUL in the last byte; the bytes in between are unwritten.              *)
Resized(b, n) == IF n <= Len(b) THEN b
                 ELSE b \o [i \in 1..n - Len(b) |-> IF i = n - Len(b) THEN NUL ELSE Junk]

(* Mutant: the characters are copied without the NUL after them.         *)
WriteAtNoNul(b, l, x) == [i \in DOMAIN b |-> IF i \in l + 1..l + Len(x) THEN x[i - l] ELSE b[i]]

(* The bytes of b with x written from offset l and a NUL after it.        *)
WriteAt(b, l, x) == [i \in DOMAIN b |-> IF i \in l + 1..l + Len(x) THEN x[i - l]
                                        ELSE IF i = l + Len(x) + 1 THEN NUL
                                        ELSE b[i]]

SetBuf(s, b) == buf' = [buf EXCEPT ![s] = b]
SetLen(s, n) == len' = [len EXCEPT ![s] = n]

(* str_new: calloc the object, malloc InitialSize bytes, zero only        *)
(* sizeof(str->value) of them.  A failed malloc leaves value NULL.        *)
StrNew(s) ==
    /\ ~live[s]
    /\ live' = [live EXCEPT ![s] = TRUE]
    /\ SetLen(s, 0)
    /\ \/ SetBuf(s, [i \in 1..InitialSize |-> IF i <= PointerSize THEN NUL ELSE Junk])
       \/ MayFail("str_new") /\ SetBuf(s, <<>>)

(* Mutant: the object is released but its fields are left as they were.  *)
StrDestroyNoReset(s) ==
    /\ live[s]
    /\ live' = [live EXCEPT ![s] = FALSE]
    /\ UNCHANGED <<buf, len>>

(* str_destroy: free the value and the object; *str = NULL.               *)
StrDestroy(s) ==
    /\ live[s]
    /\ live' = [live EXCEPT ![s] = FALSE]
    /\ SetBuf(s, <<>>) /\ SetLen(s, 0)

StrTruncate(s) ==
    /\ live[s]
    /\ SetBuf(s, Truncated(buf[s])) /\ SetLen(s, 0)
    /\ UNCHANGED live

(* str_cat(dest, src) on buffer b of length l: nothing for an empty src;  *)
(* otherwise grow to l + src_len + 1 (str_resize), copy src and its NUL  *)
(* after l, and str_set_len(new_size - 1).                                 *)
Cat(b, l, x) == IF x = <<>> THEN [b |-> b, l |-> l]
                ELSE [b |-> WriteAt(Resized(b, l + Len(x) + 1), l, x), l |-> l + Len(x)]

StrCat(s, x) ==
    /\ live[s]
    /\ x # <<>>
    /\ len[s] + Len(x) <= MaxLen
    /\ LET r == Cat(buf[s], len[s], x) IN SetBuf(s, r.b) /\ SetLen(s, r.l)
    /\ UNCHANGED live

(* str_putc: str_cat of the one-character string c.                       *)
StrPutc(s, c) == StrCat(s, <<c>>)

(* str_append: str_cat of src->value.                                      *)
StrAppend(d, s) == buf[s] # <<>> /\ StrCat(d, CString(s))

(* str_ncpy(dest, src, len) with len = strlen(src): truncate, then resize *)
(* to len + 1 (a failure leaves dest truncated), copy and terminate.      *)
StrNcpy(s, x) ==
    /\ live[s]
    /\ \/ /\ \/ x = <<>>
             \/ MayFail("str_ncpy") /\ Len(x) + 1 > Size(s)
          /\ SetBuf(s, Truncated(buf[s])) /\ SetLen(s, 0)
       \/ /\ x # <<>>
          /\ SetBuf(s, WriteAt(Resized(Truncated(buf[s]), Len(x) + 1), 0, x))
          /\ SetLen(s, Len(x))
    /\ UNCHANGED live

(* str_cpy: cbuf_len(src), then str_ncpy.                                  *)
StrCpy(s, x) == StrNcpy(s, x)

(* str_copy(dest, src): an empty src truncates dest.  Otherwise dest's    *)
(* value is freed and its size zeroed, src->size bytes are malloc'd and   *)
(* len + 1 of them copied, then size and len are set.  A failed malloc    *)
(* throws after value = NULL and size = 0, before len is set.  `ok` is    *)
(* whether the call returned 0.                                            *)
CopyOf(s) == [i \in 1..Size(s) |-> IF i <= len[s] + 1 THEN buf[s][i] ELSE Junk]

CopyOutcomes(d, s) ==
    IF len[s] = 0 \/ Size(s) = 0
    THEN {[b |-> Truncated(buf[d]), l |-> 0, ok |-> TRUE]}
    ELSE {[b |-> CopyOf(s), l |-> len[s], ok |-> TRUE]}
         \cup {[b |-> <<>>, l |-> len[d], ok |-> FALSE] : f \in {"str_copy"} \cap FailingAllocs}

StrCopy(d, s) ==
    /\ live[d] /\ live[s]
    /\ \E r \in CopyOutcomes(d, s) : SetBuf(d, r.b) /\ SetLen(d, r.l)
    /\ UNCHANGED live

(* str_move: str_copy, then str_truncate(src) only if the copy returned 0 *)
(* (a failed statement call leaves the function).                         *)
StrMove(d, s) ==
    /\ live[d] /\ live[s]
    /\ \E r \in CopyOutcomes(d, s) :
          /\ buf' = [buf EXCEPT ![d] = r.b, ![s] = IF r.ok THEN Truncated(@) ELSE @]
          /\ len' = [len EXCEPT ![d] = r.l, ![s] = IF r.ok THEN 0 ELSE @]
    /\ UNCHANGED live

(* str_prepend: str_copy(buf, dest) into a local string, str_copy(dest,  *)
(* src), then str_append(dest, buf).  A failed first copy touches only   *)
(* the local and is a stuttering step; a failed second copy returns.     *)
StrPrepend(d, s) ==
    /\ live[d] /\ live[s]
    /\ len[s] + len[d] <= MaxLen
    /\ LET kept == IF len[d] = 0 \/ Size(d) = 0 THEN <<>> ELSE SubSeq(CopyOf(d), 1, len[d])
       IN  \E r \in CopyOutcomes(d, s) :
              LET c == IF r.ok THEN Cat(r.b, r.l, kept) ELSE [b |-> r.b, l |-> r.l]
              IN  SetBuf(d, c.b) /\ SetLen(d, c.l)
    /\ UNCHANGED live

(* str_vprintf: free the old value (size, len = 0), then vasprintf(3) a   *)
(* buffer of exactly strlen + 1 bytes; x is the formatted text.  A failed *)
(* vasprintf leaves value NULL.                                            *)
StrVprintf(s, x) ==
    /\ live[s]
    /\ \/ SetBuf(s, x \o <<NUL>>) /\ SetLen(s, Len(x))
       \/ MayFail("str_vprintf") /\ SetBuf(s, <<>>) /\ SetLen(s, 0)
    /\ UNCHANGED live

(* str_sprintf: str_vprintf with the arguments as a va_list.              *)
StrSprintf(s, x) == StrVprintf(s, x)

(* Mutant: cp is not moved back after the LF is cleared, so the CR test   *)
(* reads the cleared byte.                                                  *)
StrChompCursorKept(s) ==
    /\ live[s]
    /\ len[s] > 0
    /\ LET l  == len[s]
           lf == buf[s][l] = LF
           b1 == IF lf THEN [buf[s] EXCEPT ![l] = NUL] ELSE buf[s]
           l1 == IF lf THEN l - 1 ELSE l
           cr == l1 > 0 /\ b1[l] = CR
       IN  /\ SetBuf(s, IF cr THEN [b1 EXCEPT ![l] = NUL] ELSE b1)
           /\ SetLen(s, IF cr THEN l1 - 1 ELSE l1)
    /\ UNCHANGED live

(* str_chomp: cp = the last byte (str_get_terminator).  An LF there is    *)
(* cleared and cp moves back; then, if len > 0, a CR at cp is cleared.    *)
StrChomp(s) ==
    /\ live[s]
    /\ len[s] > 0
    /\ LET l  == len[s]
           lf == buf[s][l] = LF
           b1 == IF lf THEN [buf[s] EXCEPT ![l] = NUL] ELSE buf[s]
           l1 == IF lf THEN l - 1 ELSE l
           cr == l1 > 0 /\ b1[l1] = CR
       IN  /\ SetBuf(s, IF cr THEN [b1 EXCEPT ![l1] = NUL] ELSE b1)
           /\ SetLen(s, IF cr THEN l1 - 1 ELSE l1)
    /\ UNCHANGED live

(* str_truncate_at: a position past len throws; otherwise a NUL at the   *)
(* position and len = position.                                            *)
StrTruncateAt(s, p) ==
    /\ live[s] /\ buf[s] # <<>>
    /\ p <= len[s]
    /\ SetBuf(s, [buf[s] EXCEPT ![p + 1] = NUL]) /\ SetLen(s, p)
    /\ UNCHANGED live

(* str_set_len: a length at or past size throws; otherwise len = n and a *)
(* NUL at n.                                                               *)
StrSetLen(s, n) ==
    /\ live[s]
    /\ n < Size(s)
    /\ SetBuf(s, [buf[s] EXCEPT ![n + 1] = NUL]) /\ SetLen(s, n)
    /\ UNCHANGED live

(* toupper(3) and tolower(3) in the C locale.                             *)
Toupper(b) == IF b \in 97..122 THEN b - 32 ELSE b
Tolower(b) == IF b \in 65..90 THEN b + 32 ELSE b

(* str_to_upper: toupper on each of the str_len(s) bytes.                 *)
StrToUpper(s) ==
    /\ live[s]
    /\ SetBuf(s, [i \in DOMAIN buf[s] |-> IF i <= len[s] THEN Toupper(buf[s][i]) ELSE buf[s][i]])
    /\ UNCHANGED <<live, len>>

(* str_translate: the loop tests a byte for NUL, steps past it, then      *)
(* compares the next byte with old; so it looks at the                    *)
(* bytes at offsets 1 .. len: never at the first character.               *)
StrTranslate(s, old, new) ==
    /\ live[s] /\ buf[s] # <<>>
    /\ SetBuf(s, [i \in DOMAIN buf[s] |->
                    IF i \in 2..len[s] + 1 /\ buf[s][i] = old THEN new ELSE buf[s][i]])
    /\ UNCHANGED <<live, len>>

(* Mutant: the last byte is written and len decremented without the test *)
(* for an empty string.                                                    *)
StrSetTerminatorNoLenTest(s, c) ==
    /\ live[s]
    /\ SetBuf(s, [buf[s] EXCEPT ![len[s]] = c])
    /\ SetLen(s, IF c = NUL THEN len[s] - 1 ELSE len[s])
    /\ UNCHANGED live

(* str_set_terminator: with len > 0 the last byte becomes the terminator *)
(* and a NUL one shortens the string; an empty string gets str_putc,      *)
(* which appends nothing for NUL.                                          *)
StrSetTerminator(s, c) ==
    /\ live[s]
    /\ \/ /\ len[s] > 0
          /\ SetBuf(s, [buf[s] EXCEPT ![len[s]] = c])
          /\ SetLen(s, IF c = NUL THEN len[s] - 1 ELSE len[s])
       \/ /\ len[s] = 0 /\ c # NUL
          /\ LET r == Cat(buf[s], 0, <<c>>) IN SetBuf(s, r.b) /\ SetLen(s, r.l)
    /\ UNCHANGED live

(* str_read(dest, fd, size): str_truncate, then str_resize(size + 1),    *)
(* whose failed realloc throws with dest truncated.  read(2) of at most   *)
(* size bytes into the buffer: -1 (EAGAIN, which returns 1, or another    *)
(* error) leaves len 0; otherwise the bytes x it returned are followed by *)
(* str_set_len(Len(x)), which writes the NUL after them.  read(2) writes  *)
(* whatever bytes the descriptor holds, NUL included.                      *)
StrRead(s, n) ==
    /\ live[s] /\ buf[s] # <<>>
    /\ LET t == Truncated(buf[s])
       IN  \/ MayFail("str_read") /\ n + 1 > Size(s) /\ SetBuf(s, t) /\ SetLen(s, 0)
           \/ SetBuf(s, Resized(t, n + 1)) /\ SetLen(s, 0)
           \/ \E x \in BoundedSeq(ReadBytes, n) :
                 SetBuf(s, WriteAt(Resized(t, n + 1), 0, x)) /\ SetLen(s, Len(x))
    /\ UNCHANGED live

(* str_swap: exchange the two string_t structures.                        *)
StrSwap(a, b) ==
    /\ live[a] /\ live[b]
    /\ buf' = [buf EXCEPT ![a] = buf[b], ![b] = buf[a]]
    /\ len' = [len EXCEPT ![a] = len[b], ![b] = len[a]]
    /\ UNCHANGED live

-----------------------------------------------------------------------------
(* The reading functions, on a string whose value is not NULL.            *)

Sign(n) == IF n > 0 THEN 1 ELSE IF n < 0 THEN -1 ELSE 0

(* strncmp(3) of the bytes of p and q from position i, for n bytes.       *)
RECURSIVE Strncmp(_, _, _, _)
Strncmp(p, q, i, n) ==
    IF n = 0 THEN 0
    ELSE IF p[i] # q[i] THEN Sign(p[i] - q[i])
    ELSE IF p[i] = NUL THEN 0
    ELSE Strncmp(p, q, i + 1, n - 1)

Lowered(x) == [i \in DOMAIN x |-> Tolower(x[i])] \o <<NUL>>

(* str_cmp: strcmp(value, s2).                                             *)
StrCmp(s, x) == Strncmp(buf[s], x \o <<NUL>>, 1, Size(s))

(* str_ncmp: `require (len > 0 ...)` returns -1, then strncmp.            *)
StrNcmp(s, x, n) == IF n = 0 THEN -1 ELSE Strncmp(buf[s], x \o <<NUL>>, 1, n)

(* str_casecmp: 0 when strcasecmp(3) is 0, else -1.                        *)
StrCasecmp(s, x) == IF Strncmp(Lowered(CString(s)), Lowered(x), 1, Size(s)) = 0 THEN 0 ELSE -1

(* str_case_compare: -1 when strcasecmp(3) of the values is not 0.        *)
StrCaseCompare(a, b) == StrCasecmp(a, CString(b))

(* str_contains: strstr(3) finds the needle at some offset.               *)
StrContains(s, x) ==
    \E i \in 0..Len(CString(s)) : IsPrefix(x, SubSeq(CString(s), i + 1, Len(CString(s))))

(* Mutant: the loop's result without the final length test.              *)
RECURSIVE CompareLoopByPrefix(_, _, _)
CompareLoopByPrefix(p, q, i) ==
    IF p[i] # NUL /\ q[i] # NUL
    THEN IF p[i] # q[i] THEN -1 ELSE CompareLoopByPrefix(p, q, i + 1)
    ELSE 0

(* The loop of str_compare: walk both C strings while neither is at its   *)
(* NUL; a differing character is -1, and so is stopping on one NUL only.  *)
RECURSIVE CompareLoop(_, _, _)
CompareLoop(p, q, i) ==
    IF p[i] # NUL /\ q[i] # NUL
    THEN IF p[i] # q[i] THEN -1 ELSE CompareLoop(p, q, i + 1)
    ELSE IF p[i] # q[i] THEN -1 ELSE 0

StrCompare(a, b) == CompareLoop(buf[a], buf[b], 1)

(* str_get_char: a position at or past str_len throws; otherwise the byte *)
(* at value + position.                                                    *)
StrGetChar(s, i) == IF i >= len[s] THEN -1 ELSE buf[s][i + 1]

(* str_count: the bytes equal to c before the NUL.                         *)
StrCount(s, c) == Cardinality({i \in DOMAIN CString(s) : CString(s)[i] = c})

(* str_cmp_terminator: -1 (throw_silent) when len > 0 and the last byte   *)
(* is not the terminator.                                                  *)
StrCmpTerminator(s, c) == IF len[s] > 0 /\ buf[s][len[s]] # c THEN -1 ELSE 0

(* str_get_terminator: the byte at value + len - 1, or at value.          *)
StrGetTerminator(s) == IF len[s] > 0 THEN buf[s][len[s]] ELSE buf[s][1]

-----------------------------------------------------------------------------
Init == /\ live = [s \in Strs |-> FALSE]
        /\ buf = [s \in Strs |-> <<>>]
        /\ len = [s \in Strs |-> 0]

Next ==
    \/ \E s \in Strs : \/ StrNew(s) \/ StrDestroy(s) \/ StrTruncate(s) \/ StrChomp(s)
                       \/ StrToUpper(s)
    \/ \E s \in Strs, x \in Lits : StrCat(s, x) \/ StrCpy(s, x) \/ StrSprintf(s, x)
    \/ \E s \in Strs, c \in Chars : StrPutc(s, c)
    \/ \E s \in Strs, c \in Chars \cup {NUL} : StrSetTerminator(s, c)
    \/ \E s \in Strs : \E n \in 0..MaxLen : StrTruncateAt(s, n)
    \/ \E s \in Strs : \E n \in 0..len[s] : StrSetLen(s, n)
    \/ \E s \in Strs : \E n \in 0..MaxLen : StrRead(s, n)
    \/ \E d \in Strs : \E s \in Strs \ {d} :
          \/ StrAppend(d, s) \/ StrCopy(d, s) \/ StrMove(d, s)
          \/ StrSwap(d, s) \/ StrPrepend(d, s)

(* str_translate, with every other call.                                  *)
NextWithTranslate ==
    \/ Next
    \/ \E s \in Strs, old, new \in Chars : old # new /\ StrTranslate(s, old, new)

Spec == Init /\ [][Next]_vars
TranslateSpec == Init /\ [][NextWithTranslate]_vars

-----------------------------------------------------------------------------
TypeOK == /\ live \in [Strs -> BOOLEAN]
          /\ buf \in [Strs -> Seq(Bytes)]
          /\ len \in [Strs -> 0..MaxLen]

(* The two readings of a string agree: every live string with a buffer    *)
(* has len < size, a NUL at value[len] and characters before it, so       *)
(* strlen(value) = len; a string whose value is NULL has len 0.  Every    *)
(* operation that writes the buffer, grows it, or frees it has to keep    *)
(* this, including the error paths of str_ncpy, str_copy and str_vprintf. *)
Terminated ==
    \A s \in Strs : live[s] =>
        IF buf[s] = <<>> THEN len[s] = 0
        ELSE /\ len[s] < Size(s)
             /\ buf[s][len[s] + 1] = NUL
             /\ \A i \in 1..len[s] : buf[s][i] \in Chars
\* Note: the reading functions mix the two readings: str_get_char,
\* str_cmp_terminator and str_get_terminator use len, the others the NUL.

(* The abstract text of a string is its first len bytes; bytes past the   *)
(* end of a NULL or short buffer read as Junk.                             *)
Text(s) == [i \in 1..len[s] |-> IF i <= Size(s) THEN buf[s][i] ELSE Junk]

Abstract == INSTANCE StringSpec WITH text <- [s \in Strs |-> Text(s)]

Readable(s) == live[s] /\ buf[s] # <<>>

(* Every reading function reports what StringSpec says of the texts, in  *)
(* every reachable state, for every argument up to MaxLen characters:    *)
(* the C-string loops (str_compare, strcmp, strncmp, strcasecmp, strstr, *)
(* str_count) and the len-based reads (str_get_char, str_cmp_terminator, *)
(* str_get_terminator) agree on where a string ends.                      *)
StringQueries ==
    \A s \in Strs : Readable(s) =>
        LET t == Text(s) IN
        /\ \A i \in 0..MaxLen : StrGetChar(s, i) = Abstract!GetChar(t, i)
        /\ \A c \in Chars : /\ StrCount(s, c) = Abstract!Count(t, c)
                            /\ StrCmpTerminator(s, c) = Abstract!CmpTerminator(t, c)
        /\ StrGetTerminator(s) = Abstract!Terminator(t)
        /\ \A x \in BoundedSeq(Chars, MaxLen) :
              /\ StrCmp(s, x) = Abstract!Lex(t, x)
              /\ StrCasecmp(s, x) = Abstract!CaseCompare(t, x)
              /\ StrContains(s, x) = Abstract!HasSubstring(t, x)
              /\ \A n \in 1..MaxLen + 1 : StrNcmp(s, x, n) = Abstract!Ncmp(t, x, n)
        /\ \A o \in Strs \ {s} : Readable(o) =>
              /\ StrCompare(s, o) = Abstract!Compare(t, Text(o))
              /\ StrCaseCompare(s, o) = Abstract!CaseCompare(t, Text(o))

(* Each str_chomp, str_to_upper, str_set_terminator, str_prepend and      *)
(* str_move call does to the texts exactly what StringSpec's operation of *)
(* the same name says, whatever other call could have produced the same *)
(* texts: chomp drops a trailing LF and then a trailing CR, prepend puts  *)
(* the source first, move empties the source only after copying it.      *)
OperationEffects ==
    [][/\ \A s \in Strs :
          /\ StrChomp(s) => Abstract!StrChomp(s)
          /\ StrToUpper(s) => Abstract!StrToUpper(s)
          /\ \A c \in Chars \cup {NUL} : StrSetTerminator(s, c) => Abstract!StrSetTerminator(s, c)
       /\ \A d, s \in Strs : d # s =>
          /\ StrPrepend(d, s) => Abstract!StrPrepend(d, s)
          /\ StrMove(d, s) => Abstract!StrMove(d, s)]_vars

(* str_translate replaces every occurrence of old by new, as its comment *)
(* and its selftest ("a+b+c" to "a b c") say.                              *)
TranslateEffect ==
    [][\A s \in Strs, old, new \in Chars : StrTranslate(s, old, new) => Abstract!StrTranslate(s, old, new)]_vars

(* Every sequence of str_* calls, on the buffers, is a sequence of the    *)
(* documented operations on texts: appends append, copies copy, a failed  *)
(* copy empties its destination, chomp removes exactly the line           *)
(* terminator, prepend puts the source first, translation replaces every *)
(* occurrence.                                                             *)
StringRefinement == Abstract!Spec
====
