--------------------------- MODULE MCSocketEndpoint ---------------------------
(* The socket endpoints, with the DNS list lookups, which take their      *)
(* client address from an accepted socket, checked in the same run.       *)
EXTENDS SocketEndpoint, TLC

CONSTANTS i1, i2, o1

(* The sockets of one kind are interchangeable.                           *)
SocketSymmetry == Permutations(Inbound) \cup Permutations(Outbound)

(* Two clients whose octets are each other's reverse, so that a query    *)
(* name built in the wrong order names the other client.                 *)
MCAddrs == {<<1, 2, 3, 4>>, <<4, 3, 2, 1>>}

(* Two domains, two exchanges, and three blocklists: b1 works, b2 never  *)
(* answers, b3 has been withdrawn.                                        *)
DL == INSTANCE DnsLists
        WITH Domains <- {"d1", "d2"}, Hosts <- {"h1", "h2"}, Blocklists <- {"b1", "b2", "b3"},
             Addrs <- MCAddrs,
             Health <- [b \in {"b1", "b2", "b3"} |->
                          CASE b = "b1" -> "up" [] b = "b2" -> "silent" [] OTHER -> "gone"],
             Listed <- [b \in {"b1", "b2", "b3"} |->
                          IF b = "b1" THEN {<<1, 2, 3, 4>>} ELSE {<<4, 3, 2, 1>>}]

(* The blocklist verdict for accepted clients: dns_query_blocklist, after *)
(* dns_ping_blocklist, reads the client's address from sock->remote,      *)
(* which socket_accept's getpeername(2) filled; for every session socket  *)
(* that is open, and every configured list of blocklists, it reports the  *)
(* client listed exactly when a working blocklist lists that address.     *)
BlocklistVerdict ==
    \A s \in Inbound : phase[s] = "open" => DL!ListedVerdict(sk[s].remote)

(* The properties of DnsLists, stated there, for these inputs.            *)
MxContract == DL!MxContract
NameserversContract == DL!NameserversContract
TxtContract == DL!TxtContract
PingRemovesSilent == DL!PingRemovesSilent
====
