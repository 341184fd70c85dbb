----------------------------- MODULE StringSpec -----------------------------
(***************************************************************************)
(* What the string library of src/tags/1.0/trunk/string.c promises, in    *)
(* the words of its documentation comments: a string object holds a       *)
(* sequence of characters, and each operation replaces that sequence.     *)
(* The queries are operators on texts: what each reading function is      *)
(* documented to report.  StringBuffer (buffer, length, NUL terminator)   *)
(* is checked against this specification.                                 *)
(*                                                                         *)
(* An operation whose allocation fails returns -1; the documented         *)
(* outcome is that the destination is left empty (str_ncpy, str_copy and  *)
(* str_vprintf free or truncate it first) or unchanged (str_cat), and a   *)
(* str_move whose copy fails leaves its source alone.  Characters are     *)
(* byte values; NUL is 0.                                                  *)
(***************************************************************************)
EXTENDS Integers, Sequences, SequencesExt, FiniteSets

CONSTANTS Strs, Chars, CR, LF

VARIABLES live, text

vars == <<live, text>>

Empty == <<>>
NUL == 0

Set(s, t) == text' = [text EXCEPT ![s] = t]

Ends(t, c) == t # Empty /\ Last(t) = c

(* toupper(3) and tolower(3) in the C locale.                             *)
Upper(c) == IF c \in 97..122 THEN c - 32 ELSE c
Lower(c) == IF c \in 65..90 THEN c + 32 ELSE c

StrNew(s)     == /\ ~live[s]
                 /\ live' = [live EXCEPT ![s] = TRUE]
                 /\ Set(s, Empty)
StrDestroy(s) == /\ live' = [live EXCEPT ![s] = FALSE]
                 /\ Set(s, Empty)
StrTruncate(s) == Set(s, Empty) /\ UNCHANGED live
(* The text a step gives s is a sequence of characters; with the other    *)
(* strings unchanged.                                                      *)
SetAny(s)     == /\ text'[s] \in Seq(Chars)
                 /\ \A o \in Strs \ {s} : text'[o] = text[o]
(* str_cat, str_putc, str_append: text[s] followed by the new characters. *)
StrCat(s)     == /\ SetAny(s)
                 /\ Len(text'[s]) > Len(text[s])
                 /\ SubSeq(text'[s], 1, Len(text[s])) = text[s]
                 /\ UNCHANGED live
(* str_cpy and str_sprintf: a new value, or empty on failure.             *)
StrCpy(s)     == SetAny(s) /\ UNCHANGED live
StrCopy(d, s) == \E t \in {text[s], Empty} : Set(d, t) /\ UNCHANGED live
StrMove(d, s) == /\ \/ text' = [text EXCEPT ![d] = text[s], ![s] = Empty]
                    \/ Set(d, Empty)
                 /\ UNCHANGED live
(* str_prepend: src followed by dest; a failed copy of src empties dest,  *)
(* a failed copy of dest changes nothing.                                  *)
StrPrepend(d, s) == \E t \in {text[s] \o text[d], Empty} : Set(d, t) /\ UNCHANGED live
(* str_chomp: remove a trailing LF, then a trailing CR (the selftest      *)
(* chomps ".\r\n", ".\n" and ".\r" to ".").                                *)
StrChomp(s)   == LET t  == text[s]
                     u  == IF Ends(t, LF) THEN Front(t) ELSE t
                 IN  /\ Set(s, IF Ends(u, CR) THEN Front(u) ELSE u)
                     /\ UNCHANGED live
(* str_truncate_at and str_set_len used to shrink: a prefix.             *)
StrShorten(s) == \E n \in 0..Len(text[s]) : Set(s, SubSeq(text[s], 1, n)) /\ UNCHANGED live
StrToUpper(s) == Set(s, [i \in DOMAIN text[s] |-> Upper(text[s][i])]) /\ UNCHANGED live
(* str_translate: every occurrence of old becomes new.                    *)
StrTranslate(s, old, new) ==
    /\ Set(s, [i \in DOMAIN text[s] |-> IF text[s][i] = old THEN new ELSE text[s][i]])
    /\ UNCHANGED live
(* str_set_terminator: the last character becomes the terminator; NUL    *)
(* removes it.                                                              *)
StrSetTerminator(s, c) ==
    /\ Set(s, IF text[s] = Empty THEN (IF c = NUL THEN Empty ELSE <<c>>)
              ELSE Front(text[s]) \o (IF c = NUL THEN Empty ELSE <<c>>))
    /\ UNCHANGED live
StrSwap(a, b) == /\ text' = [text EXCEPT ![a] = text[b], ![b] = text[a]]
                 /\ UNCHANGED live

-----------------------------------------------------------------------------
(* What the queries report about texts.                                    *)

(* str_compare, str_case_compare, str_casecmp: 0 if equal, else -1.       *)
Compare(t, u) == IF t = u THEN 0 ELSE -1
CaseCompare(t, u) == Compare([i \in DOMAIN t |-> Lower(t[i])], [i \in DOMAIN u |-> Lower(u[i])])

(* str_cmp, str_ncmp (strcmp(3), strncmp(3)): the sign of the            *)
(* lexicographic order by byte value, on the first n characters.          *)
Sign(n) == IF n > 0 THEN 1 ELSE IF n < 0 THEN -1 ELSE 0
Lex(t, u) ==
    IF t = u THEN 0
    ELSE IF IsPrefix(t, u) THEN -1
    ELSE IF IsPrefix(u, t) THEN 1
    ELSE LET i == Min({k \in 1..Min({Len(t), Len(u)}) : t[k] # u[k]})
         IN  Sign(t[i] - u[i])
Ncmp(t, u, n) == Lex(SubSeq(t, 1, Min({n, Len(t)})), SubSeq(u, 1, Min({n, Len(u)})))

(* str_contains: u occurs in t.                                             *)
HasSubstring(t, u) == \E i \in 0..Len(t) - Len(u) : SubSeq(t, i + 1, i + Len(u)) = u

(* str_get_char: the character at a position, -1 past the end.           *)
GetChar(t, i) == IF i < Len(t) THEN t[i + 1] ELSE -1
(* str_count: the occurrences of c.                                         *)
Count(t, c) == Cardinality({i \in DOMAIN t : t[i] = c})
(* str_cmp_terminator: 0 if the string is empty or ends with c.           *)
CmpTerminator(t, c) == IF t = Empty \/ Last(t) = c THEN 0 ELSE -1
(* str_get_terminator: the last character (the NUL of an empty string).   *)
Terminator(t) == IF t = Empty THEN NUL ELSE Last(t)

-----------------------------------------------------------------------------
Init == /\ live = [s \in Strs |-> FALSE]
        /\ text = [s \in Strs |-> Empty]

Next ==
    \/ \E s \in Strs : \/ StrNew(s) \/ StrDestroy(s) \/ StrTruncate(s) \/ StrChomp(s)
                       \/ StrCat(s) \/ StrCpy(s) \/ StrShorten(s) \/ StrToUpper(s)
    \/ \E s \in Strs, c \in Chars \cup {NUL} : StrSetTerminator(s, c)
    \/ \E s \in Strs, old, new \in Chars : StrTranslate(s, old, new)
    \/ \E a, b \in Strs : a # b /\ (StrCopy(a, b) \/ StrMove(a, b) \/ StrSwap(a, b)
                                    \/ StrPrepend(a, b))

Spec == Init /\ [][Next]_vars
=============================================================================
