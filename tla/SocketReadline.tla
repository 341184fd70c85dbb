--------------------------- MODULE SocketReadline ---------------------------
(***************************************************************************)
(* The line reader of a connected socket: socket_readline() in            *)
(* src/socket.c with the list and string helpers it calls (str_split,     *)
(* str_chomp, list_merge, list_shift).  The session thread calls it in a  *)
(* loop (session_process_request); each action below is one whole call.   *)
(*                                                                         *)
(* The peer is the environment: it sends the byte sequence `sent` and     *)
(* then either closes the connection or stays silent.  read(2) hands the  *)
(* reader any non-empty chunk of what has arrived, so a call may consume  *)
(* any prefix of the unread bytes that its loop condition allows.         *)
(*                                                                         *)
(* Bytes are abstracted to one ordinary byte "a", CR and LF: the code     *)
(* only ever tests for the last two.                                       *)
(***************************************************************************)
EXTENDS Naturals, Sequences, SequencesExt

CONSTANTS
    Bytes,          \* subset of {"a", "CR", "LF"} the peer may send
    MaxLen,         \* longest byte sequence the peer sends
    PeerMayStall    \* can the peer go quiet long enough for SO_RCVTIMEO

LF == "LF"
CR == "CR"

ASSUME Bytes \subseteq {"a", CR, LF} /\ LF \in Bytes
ASSUME MaxLen \in Nat /\ PeerMayStall \in BOOLEAN

\* Outcome of the last call: still usable, or the end the caller saw.
Statuses == {"reading", "timeout", "eof", "logic_error", "crashed"}

VARIABLES
    sent,        \* everything the peer sends in this connection
    peerCloses,  \* does the peer close after sending it
    pos,         \* bytes of `sent` already taken by read(2)
    buf,         \* sock->read_buf: the list of lines not yet returned
    fragmented,  \* sock->status.fragmented: last element of buf is partial
    tailLost,    \* buf is non-empty but buf->tail is NULL
    connected,   \* sock->status.connected
    status,      \* how the last call ended
    delivered    \* history: the lines returned to the caller, in order

vars == <<sent, peerCloses, pos, buf, fragmented, tailLost, connected,
          status, delivered>>

IsLF(c) == c = LF

(* strsep(3) on LF: the tokens between the delimiters, empty ones kept.   *)
RECURSIVE Strsep(_)
Strsep(s) ==
    LET i == SelectInSeq(s, IsLF)
    IN  IF i = 0 THEN <<s>>
        ELSE <<SubSeq(s, 1, i - 1)>> \o Strsep(SubSeq(s, i + 1, Len(s)))

(* str_chomp: drop one trailing LF, then one trailing CR, whether or not  *)
(* an LF was there.                                                        *)
Chomp(s) ==
    LET s1 == IF s # <<>> /\ Last(s) = LF THEN Front(s) ELSE s
    IN  IF s1 # <<>> /\ Last(s1) = CR THEN Front(s1) ELSE s1

(* str_split(tok, line, '\n'): chomp a copy, split it, chomp each token.  *)
SplitLines(p) ==
    LET toks == Strsep(Chomp(p))
    IN  [i \in DOMAIN toks |-> Chomp(toks[i])]

Unread == SubSeq(sent, pos + 1, Len(sent))
HasLF(p) == SelectInSeq(p, IsLF) # 0

(* Mutant: the `goto read_loop` for an incomplete line is dropped, so any *)
(* non-empty chunk is split at once.                                       *)
ReadChunksNoWait ==
    {SubSeq(sent, pos + 1, k) : k \in pos + 1 .. Len(sent)}

(* The read loop returns a chunk only once it holds an LF or the peer has *)
(* closed (socket.c 855-908); it stops after the chunk with the first LF, *)
(* which may carry more bytes behind it.                                   *)
ReadChunks ==
    {SubSeq(sent, pos + 1, k) : k \in
        {k \in pos + 1 .. Len(sent) : HasLF(SubSeq(sent, pos + 1, k))}}
    \cup (IF peerCloses /\ Unread # <<>> /\ ~HasLF(Unread)
          THEN {Unread} ELSE {})

(* Mutant: the count is advanced past the NUL that read() leaves.        *)
AdvanceCountsNul(p) == pos + Len(p) + 1

(* str_cat(line, buf) of each read(2) result: the bytes taken so far.     *)
Advance(p) == pos + Len(p)

(* Mutant: the first token is glued to the fragment but never shifted    *)
(* off the token list.                                                     *)
RestKeepsFirst(toks) == toks

(* The token list handed to list_merge: without its first token when that *)
(* token was appended to the fragment.                                     *)
Rest(toks) == IF fragmented THEN Tail(toks) ELSE toks

\* The buffered path: a complete line waits and no fragment is pending.
ReadlineBuffered ==
    /\ status = "reading"
    /\ buf # <<>>
    /\ ~fragmented
    /\ delivered' = Append(delivered, Head(buf))
    /\ buf' = Tail(buf)
    /\ tailLost' = (tailLost /\ Len(buf) > 1)
    /\ UNCHANGED <<sent, peerCloses, pos, fragmented, connected, status>>

(* A read that got data: split it, glue the first token onto a pending    *)
(* fragment, append the rest with list_merge, set the fragment flag and   *)
(* shift one line to the caller.  The two "logic error" checks throw, and *)
(* list_merge onto a non-empty list writes through its tail pointer.      *)
ReadlineData ==
    /\ status = "reading"
    /\ buf = <<>> \/ fragmented
    /\ \E p \in ReadChunks :
        LET toks    == SplitLines(p)
            tailNull == buf = <<>> \/ tailLost
            glued   == IF fragmented
                       THEN [buf EXCEPT ![Len(buf)] = @ \o Head(toks)]
                       ELSE buf
            rest    == Rest(toks)
            merged  == glued \o rest
        IN  /\ pos' = Advance(p)
            /\ connected' = (connected /\ HasLF(p))
            /\ IF fragmented /\ tailNull
               THEN /\ status' = "logic_error"
                    /\ UNCHANGED <<buf, fragmented, tailLost, delivered>>
               ELSE IF glued # <<>> /\ tailLost
               THEN /\ status' = "crashed"
                    /\ UNCHANGED <<buf, fragmented, tailLost, delivered>>
               ELSE /\ status' = "reading"
                    /\ fragmented' = (Last(p) # LF)
                    /\ delivered' = Append(delivered, Head(merged))
                    /\ buf' = Tail(merged)
                    /\ tailLost' = (rest = <<>> /\ glued # <<>>
                                    /\ Len(merged) > 1)
    /\ UNCHANGED <<sent, peerCloses>>

(* EAGAIN: SO_RCVTIMEO expired while the line was still incomplete.  The  *)
(* bytes already read into the local `line` are dropped with it.           *)
ReadlineTimeout ==
    /\ status = "reading"
    /\ buf = <<>> \/ fragmented
    /\ PeerMayStall
    /\ \E k \in pos .. Len(sent) :
        /\ ~HasLF(SubSeq(sent, pos + 1, k))
        /\ k < Len(sent) \/ ~peerCloses
        /\ pos' = k
    /\ status' = "timeout"
    /\ UNCHANGED <<sent, peerCloses, buf, fragmented, tailLost, connected,
                   delivered>>

(* read(2) returned 0 with nothing read: "truncated read(2)".             *)
ReadlineEof ==
    /\ status = "reading"
    /\ buf = <<>> \/ fragmented
    /\ peerCloses
    /\ pos = Len(sent)
    /\ connected' = FALSE
    /\ status' = "eof"
    /\ UNCHANGED <<sent, peerCloses, pos, buf, fragmented, tailLost,
                   delivered>>

Init ==
    /\ sent \in BoundedSeq(Bytes, MaxLen)
    /\ peerCloses \in BOOLEAN
    /\ pos = 0
    /\ buf = <<>>
    /\ fragmented = FALSE
    /\ tailLost = FALSE
    /\ connected = TRUE
    /\ status = "reading"
    /\ delivered = <<>>

Readline == ReadlineBuffered \/ ReadlineData \/ ReadlineTimeout \/ ReadlineEof

Next == Readline

(* session_handler calls readline again as long as the session stays in  *)
(* READ, so a call that can be made is eventually made.                    *)
Spec == Init /\ [][Next]_vars /\ WF_vars(Readline)

-----------------------------------------------------------------------------
TypeOK ==
    /\ sent \in Seq(Bytes) /\ Len(sent) <= MaxLen
    /\ peerCloses \in BOOLEAN
    /\ pos \in 0 .. Len(sent)
    /\ buf \in Seq(Seq(Bytes))
    /\ fragmented \in BOOLEAN /\ tailLost \in BOOLEAN
    /\ connected \in BOOLEAN
    /\ status \in Statuses
    /\ delivered \in Seq(Seq(Bytes))

(* The lines of a byte stream as the protocol defines them: LF ends a     *)
(* line, a CR just before the LF belongs to the terminator, and bytes     *)
(* after the last LF form one unfinished line.                             *)
DropCR(l) == IF l # <<>> /\ Last(l) = CR THEN Front(l) ELSE l
StreamLines(s) ==
    LET toks == Strsep(s)
        done == [i \in 1 .. Len(toks) - 1 |-> DropCR(toks[i])]
    IN  IF Last(toks) = <<>> THEN done ELSE Append(done, Last(toks))

(* Every byte socket_readline takes from read(2) reaches the caller once  *)
(* and in order: the lines returned so far followed by sock->read_buf are *)
(* exactly the lines of the bytes read, however read(2) chunked them and  *)
(* however fragments were glued back together.  A call that timed out is *)
(* excluded: session_process_request then ends the session, so the partial *)
(* line it dropped is never asked for.                                     *)
LineIntegrity ==
    status # "timeout" => delivered \o buf = StreamLines(SubSeq(sent, 1, pos))

(* readline never reaches its "logic error" throws and never lets         *)
(* list_merge write through the NULL tail that an empty merge leaves.     *)
NoListCorruption == status \notin {"logic_error", "crashed"}

(* Every complete line the peer sends is eventually returned by some call *)
(* of the session's read loop.                                             *)
CompleteLinesDelivered ==
    <>(Len(delivered) >= Len(SelectSeq(sent, IsLF)))

=============================================================================
