------------------------------ MODULE ListCodec ------------------------------
(***************************************************************************)
(* The text encoding of lists: list_serialize and list_deserialize of     *)
(* src/trunk/list.c with the string functions they call, str_escape,      *)
(* str_unescape and str_split of src/tags/1.0/trunk/string.c.  These are  *)
(* pure functions of their inputs (each call works on its own local       *)
(* strings and lists), so they are operators on texts: a text is a        *)
(* sequence of character codes, a list a sequence of texts.  Allocation   *)
(* failures are not modelled here; StringBuffer and List cover them.      *)
(***************************************************************************)
EXTENDS Integers, Sequences, SequencesExt

Percent == 37
Space == 32
LineFeed == 10
CarriageReturn == 13

(* isalnum(3) in the C locale, and the other characters str_escape keeps: *)
(* strchr("/_.-~", c).                                                     *)
IsAlnum(c) == c \in 48..57 \cup 65..90 \cup 97..122
Unreserved(c) == IsAlnum(c) \/ c \in {47, 95, 46, 45, 126}

(* The characters of "%02x": lower-case hexadecimal digits.               *)
HexDigit(n) == IF n < 10 THEN 48 + n ELSE 87 + n
IsHex(c) == c \in 48..57 \cup 97..102 \cup 65..70
HexValue(c) == IF c \in 48..57 THEN c - 48 ELSE IF c \in 97..102 THEN c - 87 ELSE c - 55

(* Mutant: '%' itself is left unescaped.                                   *)
EscapeKeepsPercent(t) ==
    FlattenSeq([i \in DOMAIN t |->
        IF Unreserved(t[i]) \/ t[i] = Percent THEN <<t[i]>>
        ELSE <<Percent, HexDigit(t[i] \div 16), HexDigit(t[i] % 16)>>])

(* str_escape: str_truncate(dest), nothing more for an empty source;      *)
(* otherwise each unreserved character is kept and every other one is    *)
(* written as snprintf("%%%02x", c & 0xff); the result is moved to dest.  *)
Escape(t) ==
    FlattenSeq([i \in DOMAIN t |->
        IF Unreserved(t[i]) THEN <<t[i]>>
        ELSE <<Percent, HexDigit(t[i] \div 16), HexDigit(t[i] % 16)>>])

(* sscanf(&s[i], "%%%02x", &code) on the characters after a '%': the hex *)
(* digits it converts, at most two (0 when it converts none).  Text that *)
(* str_escape produced never has a sign, blank or "0x" after a '%', the   *)
(* other inputs %x accepts.                                                *)
HexRun(t, i) == IF i <= Len(t) /\ IsHex(t[i])
                THEN IF i + 1 <= Len(t) /\ IsHex(t[i + 1]) THEN 2 ELSE 1
                ELSE 0
Code(t, i) == IF HexRun(t, i) = 2 THEN 16 * HexValue(t[i]) + HexValue(t[i + 1])
              ELSE HexValue(t[i])

(* The loop of str_unescape from index i: a '%' that sscanf converts is   *)
(* replaced by str_putc(code) and i advances by 3 whatever the number of  *)
(* digits converted; str_putc of code 0 appends nothing (str_cat of "").  *)
RECURSIVE UnescapeFrom(_, _)
UnescapeFrom(t, i) ==
    IF i > Len(t) THEN <<>>
    ELSE IF t[i] = Percent /\ HexRun(t, i + 1) > 0
         THEN (IF Code(t, i + 1) = 0 THEN <<>> ELSE <<Code(t, i + 1)>>) \o UnescapeFrom(t, i + 3)
         ELSE <<t[i]>> \o UnescapeFrom(t, i + 1)

(* str_unescape(dest, src): an empty source returns at once, leaving dest *)
(* as it was; otherwise the decoded text is moved into dest.              *)
Unescape(dest, t) == IF t = <<>> THEN dest ELSE UnescapeFrom(t, 1)

(* str_chomp: a trailing LF, then a trailing CR, removed.                  *)
Chomp(t) == LET u == IF t # <<>> /\ Last(t) = LineFeed THEN Front(t) ELSE t
            IN  IF u # <<>> /\ Last(u) = CarriageReturn THEN Front(u) ELSE u

(* strsep(3) with a one-character delimiter, repeated until it returns    *)
(* NULL: the pieces between delimiters, the empty ones included.          *)
RECURSIVE Pieces(_, _)
Pieces(t, d) ==
    LET i == SelectInSeq(t, LAMBDA c : c = d)
    IN  IF i = 0 THEN <<t>> ELSE <<SubSeq(t, 1, i - 1)>> \o Pieces(SubSeq(t, i + 1, Len(t)), d)

(* str_split(dest, src, d): an empty source returns at once, leaving the  *)
(* destination list as it was; otherwise list_truncate(dest), str_chomp   *)
(* of a copy of src, and a list_cat of each piece (chomped too when d is  *)
(* LF).                                                                    *)
StrSplit(dest, t, d) ==
    IF t = <<>> THEN dest
    ELSE LET ps == Pieces(Chomp(t), d)
         IN  IF d = LineFeed THEN [i \in DOMAIN ps |-> Chomp(ps[i])] ELSE ps

(* list_serialize: str_truncate(dest); for each value, str_escape into   *)
(* buf, a space before every value but the first, then str_append(buf).  *)
Serialize(q) ==
    IF q = <<>> THEN <<>>
    ELSE Escape(q[1]) \o FlattenSeq([i \in 1..Len(q) - 1 |-> <<Space>> \o Escape(q[i + 1])])

(* The loop of list_deserialize: str_unescape(buf, token) then            *)
(* list_push(dest, buf), with the one local buf carried from token to    *)
(* token.                                                                   *)
RECURSIVE PushUnescaped(_, _)
PushUnescaped(toks, buf) ==
    IF toks = <<>> THEN <<>>
    ELSE LET b == Unescape(buf, Head(toks))
         IN  <<b>> \o PushUnescaped(Tail(toks), b)

(* list_deserialize(dest, src): list_truncate(dest), str_split of src on *)
(* spaces into a fresh local list, then the loop; buf starts empty.       *)
Deserialize(w) == PushUnescaped(StrSplit(<<>>, w, Space), <<>>)

=============================================================================
