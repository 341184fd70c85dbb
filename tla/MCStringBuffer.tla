--------------------------- MODULE MCStringBuffer ---------------------------
(* Character codes and literal C strings for checking StringBuffer.       *)
EXTENDS StringBuffer

(* 'A', 'a', '\r', '\n': a letter in both cases, for the case-folding     *)
(* functions, and the two line terminators.                                *)
MCChars == {65, 97, 13, 10}

(* "a", "A\n", "\r\n": a character, a line, a bare terminator.            *)
MCLits == {<<97>>, <<65, 10>>, <<13, 10>>}
(* Bytes a descriptor may hold: a character and NUL.                      *)
MCReadBytesWithNul == {97, 0}
====
