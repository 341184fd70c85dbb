------------------------------ MODULE HashCodec ------------------------------
(***************************************************************************)
(* The text form of hash tables: hash_serialize and hash_deserialize of   *)
(* src/tags/1.0/naturalc/hash.c, with the string functions they call      *)
(* (str_subst_regex and its regex_replace_all, str_str_regex, str_split,  *)
(* str_get_terminator and str_set_terminator of                           *)
(* src/tags/1.0/trunk/string.c).  Each call works on its own local        *)
(* strings, so these are operators on texts (sequences of character      *)
(* codes).  A table is given as its buckets in slot order, each the       *)
(* sequence of its strings: key, value, key, value...  Allocation        *)
(* failures are not modelled here; HashTable covers them.                 *)
(***************************************************************************)
EXTENDS ListCodec

Colon == 58
Backslash == 92

(* regex_replace_all with the pattern "\n" and the replacement "\\\n":    *)
(* regexec(3) reports the first match only, so the text before the first *)
(* LF, the replacement, and the text after it.  No LF leaves the text.    *)
ReplaceFirstLF(v) ==
    LET i == SelectInSeq(v, LAMBDA c : c = LineFeed)
    IN  IF i = 0 THEN v
        ELSE SubSeq(v, 1, i - 1) \o <<Backslash, LineFeed>> \o SubSeq(v, i + 1, Len(v))

(* str_subst_regex(val, "\n", "\\\n"): regex_replace_all, then len set to *)
(* strlen of the result.                                                   *)
SubstRegex(v) == ReplaceFirstLF(v)

(* One pair of hash_serialize: str_sprintf(buf, "%s: ", key), then the    *)
(* value (through str_subst_regex when strchr finds an LF in it), then    *)
(* str_putc(buf, '\n').                                                    *)
PairLine(k, v) ==
    k \o <<Colon, Space>>
      \o (IF \E i \in DOMAIN v : v[i] = LineFeed THEN SubstRegex(v) ELSE v)
      \o <<LineFeed>>

(* hash_serialize(str, hash): each bucket from 0 to 255, each pair from   *)
(* the head, its line appended to str (which is not truncated first).    *)
HashSerialize(str, buckets) ==
    str \o FlattenSeq([j \in DOMAIN buckets |->
                FlattenSeq([i \in 1..Len(buckets[j]) \div 2 |->
                              PairLine(buckets[j][2 * i - 1], buckets[j][2 * i])])])

(* The bracket [A-Za-z0-9._-] (REG_ICASE adds nothing to it).            *)
KeyChar(c) == IsAlnum(c) \/ c \in {46, 95, 45}

(* The last position of the run of key characters that starts at i.     *)
RECURSIVE RunEnd(_, _)
RunEnd(t, i) == IF i < Len(t) /\ KeyChar(t[i + 1]) THEN RunEnd(t, i + 1) ELSE i

(* Where regexec(3) can start a match of the pattern of hash.c:471 (a    *)
(* bracketed key group, ": ", and a group of any characters): at          *)
(* the first key character of a run that ": " follows.  A match starting *)
(* inside a run would also match from the run's start, which is further  *)
(* left; ':' and ' ' end every run, so the first group is the whole run. *)
MatchStarts(t) ==
    {i \in DOMAIN t : /\ KeyChar(t[i])
                      /\ i = 1 \/ ~KeyChar(t[i - 1])
                      /\ RunEnd(t, i) + 2 <= Len(t)
                      /\ t[RunEnd(t, i) + 1] = Colon
                      /\ t[RunEnd(t, i) + 2] = Space}

NoMatch == [key |-> <<>>, val |-> <<>>, found |-> FALSE]

(* Mutant: the match taken at the last possible start, not the first.    *)
StrStrRegexRightmost(t) ==
    IF MatchStarts(t) = {} THEN NoMatch
    ELSE LET i == Max(MatchStarts(t))
         IN  [key |-> SubSeq(t, i, RunEnd(t, i)), val |-> SubSeq(t, RunEnd(t, i) + 3, Len(t)),
              found |-> TRUE]

(* str_str_regex(line, pattern, key, val): REG_NOMATCH returns -1;        *)
(* otherwise each subexpression is str_ncpy'd into its string: the        *)
(* leftmost match, the key run and everything after ": ".                 *)
StrStrRegex(t) ==
    IF MatchStarts(t) = {} THEN NoMatch
    ELSE LET i == Min(MatchStarts(t))
         IN  [key |-> SubSeq(t, i, RunEnd(t, i)), val |-> SubSeq(t, RunEnd(t, i) + 3, Len(t)),
              found |-> TRUE]

(* str_get_terminator: the last character, or the NUL of an empty string. *)
LastChar(v) == IF v = <<>> THEN 0 ELSE Last(v)

(* One pass of hash_deserialize's loop over a line, on its locals key,    *)
(* val and multiline, the pairs hash_set so far and whether the call is   *)
(* still running.  A blank line is skipped.  With no key, str_str_regex   *)
(* fills key and val, and a line it does not match fails the call;        *)
(* otherwise the line is appended to val.  A value ending in '\' has it   *)
(* replaced by LF (str_set_terminator) and the next line continues it;    *)
(* any other ends the pair: an LF is appended after a continued value,    *)
(* the pair is hash_set, and key and val are truncated.                   *)
ParseLine(st, line) ==
    IF ~st.running \/ line = <<>> THEN st
    ELSE LET m  == StrStrRegex(line)
             kv == IF st.key = <<>> THEN m ELSE [key |-> st.key, val |-> st.val \o line]
         IN  IF st.key = <<>> /\ ~m.found THEN [st EXCEPT !.running = FALSE]
             ELSE IF LastChar(kv.val) = Backslash
             THEN [st EXCEPT !.key = kv.key, !.val = Front(kv.val) \o <<LineFeed>>,
                             !.multiline = TRUE]
             ELSE [st EXCEPT !.key = <<>>, !.val = <<>>, !.multiline = FALSE,
                             !.set = Append(@, <<kv.key, IF st.multiline
                                                          THEN kv.val \o <<LineFeed>>
                                                          ELSE kv.val>>)]

(* hash_deserialize(hash, str): str_split on LF into a fresh list, the   *)
(* loop, and "parse error" when a key is left without its value.  The     *)
(* pairs it hash_set, in order (they stay set when the call fails), and  *)
(* whether it returned 0.                                                  *)
HashDeserialize(t) ==
    LET r == FoldLeft(ParseLine,
                      [key |-> <<>>, val |-> <<>>, multiline |-> FALSE, set |-> <<>>,
                       running |-> TRUE],
                      StrSplit(<<>>, t, LineFeed))
    IN  [set |-> r.set, ok |-> r.running /\ r.key = <<>>]
=============================================================================
