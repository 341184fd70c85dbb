------------------------------ MODULE DnsLists ------------------------------
(***************************************************************************)
(* The list-building lookups of src/trunk/dns.c, as operators over the    *)
(* answers the resolver gives: dns_get_mx_list over the reply of          *)
(* res_query(domain, C_IN, T_MX), and dns_ping_blocklist and              *)
(* dns_query_blocklist over what gethostbyname(3) answers for the         *)
(* blocklists' zones.  Each call runs under DNS_RESOLVER_MUTEX and is one *)
(* function of its inputs, so the operators are checked against a         *)
(* reference definition for every input of bounded size.                  *)
(*                                                                         *)
(* A DNS name is a sequence of labels followed by a zone: the dotted quad *)
(* a.b.c.d is <<a, b, c, d>>.                                              *)
(***************************************************************************)
EXTENDS Integers, Sequences, SequencesExt

CONSTANTS Domains,     \* domain names given to dns_get_mx_list
          Hosts,       \* mail exchanger names in MX records
          Blocklists,  \* DNSBL zones
          Addrs,       \* client IPv4 addresses, as four octets
          Listed,      \* Listed[b]: the addresses blocklist b lists
          Health       \* Health[b]: "up", "silent" (no answer) or "gone" (NXDOMAIN)

ASSUME /\ Listed \in [Blocklists -> SUBSET Addrs]
       /\ Health \in [Blocklists -> {"up", "silent", "gone"}]

-----------------------------------------------------------------------------
(* dns_get_mx_list                                                        *)

(* dns_log_error(domain, message): the h_errno text goes to the log, and  *)
(* the function "always returns -1" by its throw.                         *)
DnsLogError == -1

(* An answer record: its owner name, its type, the exchange it names, and *)
(* whether dn_expand can decompress its names.  The preference is read   *)
(* and dropped (GETSHORT(rec_pref)), so it is left out.                    *)
Records == [owner : Domains, type : {"MX", "CNAME"}, host : Hosts, expands : BOOLEAN]

(* What res_query returns: a length < 0 (HOST_NOT_FOUND, NO_DATA,        *)
(* TRY_AGAIN, ...), a length above the buffer, a reply whose question     *)
(* section dn_skipname rejects, or a reply with answers.                   *)
ReplyStatus == {"failed", "too_large", "bad_question", "ok"}

(* Mutant: the owner name not compared with the domain.                   *)
RECURSIVE MxLoopAnyOwner(_, _, _)
MxLoopAnyOwner(domain, answers, dest) ==
    IF answers = <<>> THEN [ret |-> 0, list |-> dest]
    ELSE LET r == Head(answers)
         IN  IF ~r.expands \/ r.type # "MX"
             THEN [ret |-> -1, list |-> dest]
             ELSE MxLoopAnyOwner(domain, Tail(answers), Append(dest, r.host))

(* The answer loop: dn_expand of the owner ("error expanding hostname"),  *)
(* the owner compared with the domain ("extraneous response"), the type   *)
(* ("expecting type MX"), dn_expand of the exchange ("error decompressing *)
(* RR"), then list_push.  A throw leaves what was pushed before it.       *)
RECURSIVE MxLoop(_, _, _)
MxLoop(domain, answers, dest) ==
    IF answers = <<>> THEN [ret |-> 0, list |-> dest]
    ELSE LET r == Head(answers)
         IN  IF ~r.expands \/ r.owner # domain \/ r.type # "MX"
             THEN [ret |-> -1, list |-> dest]
             ELSE MxLoop(domain, Tail(answers), Append(dest, r.host))

(* dns_get_mx_list(dest, domain): list_truncate(dest), res_query; a       *)
(* negative length returns dns_log_error, which always throws; a length  *)
(* above sizeof(response) throws; the question section is skipped; then  *)
(* the answer loop.  The list is not sorted ("@todo Sort").              *)
DnsGetMxList(domain, status, answers) ==
    IF status # "ok" THEN [ret |-> DnsLogError, list |-> <<>>]
    ELSE MxLoop(domain, answers, <<>>)

-----------------------------------------------------------------------------
(* dns_ping_blocklist and dns_query_blocklist                             *)

(* gethostbyname(3) of the name labels.zone: answer or NULL, and h_errno. *)
(* A working blocklist has an A record for the reversed octets of every   *)
(* address it lists and for the test entry 127.0.0.2; a silent one times  *)
(* out (TRY_AGAIN); a gone one denies every name (HOST_NOT_FOUND).        *)
TestEntry == <<127, 0, 0, 2>>

GetHostByName(labels, zone) ==
    CASE Health[zone] = "silent" -> [answer |-> FALSE, herr |-> "TRY_AGAIN"]
      [] Health[zone] = "gone"   -> [answer |-> FALSE, herr |-> "HOST_NOT_FOUND"]
      [] OTHER -> LET a == labels \in {Reverse(x) : x \in Listed[zone] \cup {TestEntry}}
                  IN  [answer |-> a, herr |-> IF a THEN "NETDB_SUCCESS" ELSE "HOST_NOT_FOUND"]

(* The ping loop: the query "2.0.0.127.<suffix>", and every blocklist     *)
(* but those answering NULL with HOST_NOT_FOUND is pushed onto valid.     *)
RECURSIVE PingLoop(_, _)
PingLoop(dnsbl, valid) ==
    IF dnsbl = <<>> THEN valid
    ELSE LET r == GetHostByName(<<2, 0, 0, 127>>, Head(dnsbl))
         IN  PingLoop(Tail(dnsbl),
                      IF ~r.answer /\ r.herr = "HOST_NOT_FOUND" THEN valid
                      ELSE Append(valid, Head(dnsbl)))

(* dns_ping_blocklist: the loop, then list_truncate(dnsbl) and            *)
(* list_copy(dnsbl, valid).                                               *)
DnsPingBlocklist(dnsbl) == PingLoop(dnsbl, <<>>)

(* Mutant: the octets joined without list_reverse.                        *)
ForwardAddress(addr) == addr

(* The query name's labels: str_from_inet gives the dotted quad,          *)
(* str_split on '.', list_reverse, str_join with '.'.                     *)
ReverseAddress(addr) == Reverse(addr)

(* The query loop: "<rev_addr>.<domain>" for each blocklist until one     *)
(* answers, which sets *result and breaks.                                *)
RECURSIVE QueryLoop(_, _)
QueryLoop(dnsbl, addr) ==
    IF dnsbl = <<>> THEN FALSE
    ELSE IF GetHostByName(ReverseAddress(addr), Head(dnsbl)).answer THEN TRUE
    ELSE QueryLoop(Tail(dnsbl), addr)

(* dns_query_blocklist(&result, dnsbl, sock): result false, then the loop *)
(* over the client's address sock->remote.                                *)
DnsQueryBlocklist(dnsbl, addr) == QueryLoop(dnsbl, addr)

-----------------------------------------------------------------------------
(* dns_get_nameservers and dns_get_txt_record                             *)

(* A line of /etc/resolv.conf: "nameserver <host>", a "nameserver" line   *)
(* that the value pattern does not match (trailing text, no value), or   *)
(* any other line.                                                        *)
ResolvLines == [kind : {"ns"}, host : Hosts] \cup [kind : {"bad", "other"}, host : {"none"}]

(* The line loop: str_match_regex "^nameserver" skips the other lines;    *)
(* str_str_regex returns -1 on REG_NOMATCH, which ends the function with  *)
(* the servers pushed so far; list_push of the captured value.            *)
RECURSIVE NsLoop(_, _)
NsLoop(lines, dest) ==
    IF lines = <<>> THEN [ret |-> 0, list |-> dest]
    ELSE CASE Head(lines).kind = "other" -> NsLoop(Tail(lines), dest)
           [] Head(lines).kind = "bad"   -> [ret |-> -1, list |-> dest]
           [] OTHER -> NsLoop(Tail(lines), Append(dest, Head(lines).host))

(* dns_get_nameservers(dest): list_truncate, file_read of                 *)
(* /etc/resolv.conf (which may fail), str_split on LF, the line loop.     *)
DnsGetNameservers(readable, lines) ==
    IF ~readable THEN [ret |-> -1, list |-> <<>>] ELSE NsLoop(lines, <<>>)

(* A reply to res_search(host, C_IN, T_TXT): whether dn_expand takes the  *)
(* question and the answer name, the answer's type, and the first         *)
(* character-string's length against the RDATA size.                      *)
TxtReplies == [qexpands : BOOLEAN, aexpands : BOOLEAN, type : {"TXT", "MX"},
               txtSize : 0..2, ansSize : 1..2, text : Hosts]

(* dns_get_txt_record(dest, host): list_truncate; res_search < 0 returns  *)
(* dns_log_error; the question's dn_expand; the answer's type read before *)
(* its name (GETSHORT of the name's first bytes), its dn_expand, its type *)
(* again; txt_size >= ans_size or 0 throws; then str_ncpy and list_push   *)
(* of the one answer the function reads.                                  *)
DnsGetTxtRecord(found, r) ==
    IF ~found THEN [ret |-> DnsLogError, list |-> <<>>]
    ELSE IF ~r.qexpands \/ r.type # "TXT" \/ ~r.aexpands THEN [ret |-> -1, list |-> <<>>]
    ELSE IF r.txtSize >= r.ansSize \/ r.txtSize = 0 THEN [ret |-> -1, list |-> <<>>]
    ELSE [ret |-> 0, list |-> <<r.text>>]

-----------------------------------------------------------------------------
(* The inputs: every blocklist list of up to three entries (a blocklist   *)
(* may be named twice) and every reply of up to two answers.             *)
BlocklistLists == UNION {[1..n -> Blocklists] : n \in 0..3}
AnswerLists == UNION {[1..n -> Records] : n \in 0..2}

(* The MX contract (dns_get_mx_list's comment: "Get a list of the MX      *)
(* records for a domain"): the call returns 0 exactly when the resolver   *)
(* answered and every answer is an MX record of that domain whose names   *)
(* decompress, and then the list holds the exchanges of all the answers,  *)
(* in the reply's order.                                                  *)
MxContract ==
    \A d \in Domains, st \in ReplyStatus, ans \in AnswerLists :
        LET res  == DnsGetMxList(d, st, ans)
            good == \A i \in DOMAIN ans : ans[i].owner = d /\ ans[i].type = "MX" /\ ans[i].expands
        IN  /\ (res.ret = 0) = (st = "ok" /\ good)
            /\ res.ret = 0 => res.list = [i \in DOMAIN ans |-> ans[i].host]

(* The verdict the selftest's ping then query must give for the client at *)
(* address a: listed exactly when one of the configured blocklists is     *)
(* working and lists a; a silent or gone blocklist never lists it.        *)
ListedVerdict(a) ==
    \A l \in BlocklistLists :
        DnsQueryBlocklist(DnsPingBlocklist(l), a) =
            \E i \in DOMAIN l : Health[l[i]] = "up" /\ a \in Listed[l[i]]

(* dns_get_nameservers ("Get a list of the system's DNS name servers from *)
(* /etc/resolv.conf"): for every resolv.conf of up to three lines, the    *)
(* call returns 0 exactly when the file was read and every nameserver     *)
(* line names a server, and then lists those servers in file order.       *)
NameserversContract ==
    \A rd \in BOOLEAN, ls \in UNION {[1..n -> ResolvLines] : n \in 0..3} :
        LET res == DnsGetNameservers(rd, ls)
            ns  == SelectSeq(ls, LAMBDA l : l.kind # "other")
        IN  /\ (res.ret = 0) = (rd /\ \A i \in DOMAIN ns : ns[i].kind = "ns")
            /\ res.ret = 0 => res.list = [i \in DOMAIN ns |-> ns[i].host]

(* dns_get_txt_record's "@bug doesn't handle multiple responses": for a   *)
(* reply of one well-formed TXT answer it returns that text, and it never *)
(* returns more than one.                                                 *)
TxtContract ==
    \A f \in BOOLEAN, r \in TxtReplies :
        LET res  == DnsGetTxtRecord(f, r)
            good == f /\ r.qexpands /\ r.aexpands /\ r.type = "TXT" /\ 0 < r.txtSize /\ r.txtSize < r.ansSize
        IN  /\ (res.ret = 0) = good
            /\ Len(res.list) <= 1 /\ (good => res.list = <<r.text>>)

(* dns_ping_blocklist's comment: "Any blocklist that does not answer will *)
(* be removed from the list."                                             *)
PingRemovesSilent ==
    \A l \in BlocklistLists :
        \A i \in DOMAIN DnsPingBlocklist(l) : Health[DnsPingBlocklist(l)[i]] = "up"
====
