------------------------------- MODULE MCConf -------------------------------
(***************************************************************************)
(* Files for module ConfLoad: one that is accepted and others that differ   *)
(* from it in a key or two.                                                 *)
(***************************************************************************)
EXTENDS ConfLoad

CONSTANT Unset     \* a change that removes the key

\* Prefixes: bytes of two bits, 2 for IPv4 and 4 for IPv6.
Rule4(len, addr) == [v6 |-> FALSE, prefixlen |-> len, addr |-> addr]
Rule6(len, addr) == [v6 |-> TRUE, prefixlen |-> len, addr |-> addr]

V4(a) == [family |-> 4, addr |-> a]
V6(a) == [family |-> 6, addr |-> a]

Base == [
    instance |-> [interface |-> "eth0", tunnel_src |-> 1, tx_ports |-> <<"eth1">>],
    acl |-> [enabled |-> TRUE, allow |-> <<Rule4(3, <<2, 0>>)>>, block |-> <<Rule4(2, <<1, 0>>)>>],
    ratelimit |-> [enabled |-> TRUE, tokens_per_sec |-> 4, burst_packets |-> 1],
    backend |-> <<[name |-> "a", id |-> 1, addr |-> 1, mode |-> "l2dsr", mac |-> 1],
                  [name |-> "b", id |-> 2, addr |-> 2, mode |-> "gue"]>>,
    vip |-> <<[addr |-> <<V4(1)>>, port |-> 443, proto |-> "udp", hash_key |-> 1, table_seed |-> 1,
               acl |-> TRUE, ratelimit |-> TRUE, hash_5tuple |-> FALSE,
               members |-> <<[backend |-> "a", weight |-> 1], [backend |-> "b", weight |-> 2]>>],
              [addr |-> <<V4(2), V4(3)>>, proto |-> "sctp", hash_key |-> 2, table_seed |-> 2,
               hash_ports |-> TRUE, members |-> <<[backend |-> "b", weight |-> 1]>>]>>]

\* Changes to the tables of the file: the values a key takes.
InInstance ==
    {<<"interface", v>> : v \in {Unset, Wrong, NoName}}
    \cup {<<"tunnel_src", v>> : v \in {Unset, Wrong}}
    \cup {<<"tx_ports", v>> : v \in {Unset, <<"eth0", "eth0">>, <<"eth1", Wrong>>, <<"eth1", "eth0", "eth2">>}}
    \cup {<<"max_frame", v>> : v \in {Wrong, 65536}}

InAcl ==
    {<<"enabled", v>> : v \in {Unset, Wrong}}
    \cup {<<"allow", v>> : v \in {Unset, <<Rule4(1, <<0, 0>>)>>, <<Rule4(0, <<0, 0>>)>>,
                                  <<Rule4(3, <<2, 1>>), Rule4(3, <<2, 0>>)>>, <<Rule4(5, <<0, 0>>)>>}}
    \cup {<<"block", v>> : v \in {Wrong, <<Rule4(4, <<2, 1>>)>>, <<Rule4(4, <<2, 3>>), Wrong>>,
                                  <<Rule6(7, <<1, 0, 0, 2>>), Rule6(7, <<1, 0, 0, 3>>), Rule4(4, <<0, 1>>)>>}}

InRatelimit ==
    {<<"enabled", FALSE>>}
    \cup {<<"tokens_per_sec", v>> : v \in {Unset, 3, -1}}
    \cup {<<"burst_packets", v>> : v \in {0, 2^24 - 1, 2^24}}

InBackend ==
    {<<"name", v>> : v \in {Wrong, "a"}}
    \cup {<<"id", v>> : v \in {Unset, Wrong, 0, 1, 3, 4}}
    \cup {<<"addr", v>> : v \in {Unset, 0, 3}}
    \cup {<<"mode", v>> : v \in {Wrong, "vxlan", "l2dsr"}}
    \cup {<<"state", v>> : v \in {Wrong, "down"}}
    \cup {<<"fib", v>> : v \in {FALSE, TRUE}}
    \cup {<<"egress", v>> : v \in {"eth0", "eth2"}}
    \cup {<<"encap_dport", v>> : v \in {6081, 65536}}
    \cup {<<"vni", v>> : v \in {7, 0}} \cup {<<"inner_mac", v>> : v \in {0, 1}}

InVip ==
    {<<"addr", v>> : v \in {Unset, <<>>, <<V4(1)>>, <<V4(2), V4(2)>>, <<V4(2), V6(2)>>, <<V4(2), Wrong>>,
                            <<V4(2), V4(3), V4(4)>>}}
    \cup {<<"port", v>> : v \in {80, 65536}} \cup {<<"proto", v>> : v \in {Wrong, "udp"}}
    \cup {<<"hash_key", v>> : v \in {Unset, Wrong}}
    \cup {<<key, TRUE>> : key \in {"acl", "ratelimit", "hash_5tuple", "quic"}}
    \cup {<<"hash_ports", v>> : v \in {Unset, Wrong}}
    \cup {<<"quic_cid_len", v>> : v \in {6, 20, 31}} \cup {<<"dscp", v>> : v \in {63, 64}}
    \cup {<<"members", v>> : v \in {Unset, <<>>, <<[backend |-> "c", weight |-> 1]>>,
                                    <<[backend |-> "b", weight |-> 1], [backend |-> "b", weight |-> 2]>>,
                                    <<[backend |-> "b", weight |-> 0]>>}}

\* Where a change is made: in a section, or in the second element of an array.
Changes ==
    {<<"instance", c>> : c \in InInstance} \cup {<<"acl", c>> : c \in InAcl}
    \cup {<<"ratelimit", c>> : c \in InRatelimit}
    \cup {<<"backend", c>> : c \in InBackend} \cup {<<"vip", c>> : c \in InVip}
    \cup {<<sec, Wrong>> : sec \in {"instance", "acl", "ratelimit", "backend", "vip"}}
    \cup {<<sec, Unset>> : sec \in {"instance", "acl", "backend"}}

Alter(tab, key, v) ==
    IF v = Unset THEN [k \in DOMAIN tab \ {key} |-> tab[k]]
    ELSE [k \in DOMAIN tab \cup {key} |-> IF k = key THEN v ELSE tab[k]]

Changed(f, c) ==
    IF c[2] \in {Wrong, Unset} THEN Alter(f, c[1], c[2])
    ELSE IF c[1] \notin DOMAIN f THEN f
    ELSE IF f[c[1]] = Wrong THEN f
    ELSE IF c[1] \in {"backend", "vip"}
         THEN [f EXCEPT ![c[1]][2] = Alter(@, c[2][1], c[2][2])]
         ELSE [f EXCEPT ![c[1]] = Alter(@, c[2][1], c[2][2])]

Also(f, cs) == FoldLeft(Changed, f, cs)

\* A VIP that steers by connection ID, one whose group is hashed by client address,
\* and a VXLAN backend: changes to these meet rules that Base does not come near.
Quic == Changed(Base, <<"vip", <<"quic", TRUE>>>>)
ByAddress == Changed(Base, <<"vip", <<"hash_ports", Unset>>>>)
Vxlan == Also(Base, <<<<"backend", <<"mode", "vxlan">>>>, <<"backend", <<"vni", 7>>>>,
                      <<"backend", <<"inner_mac", 1>>>>>>)

MCFiles ==
    {Wrong, NoFile, Base, Vxlan} \cup {Changed(Base, c) : c \in Changes}
    \cup {Changed(f, <<"vip", c>>) : f \in {Quic, ByAddress}, c \in InVip}
    \cup {Changed(Vxlan, <<"backend", c>>) : c \in InBackend}

\* What the operator edits the file to: mistakes, and what a reload may not change.
MCRevisions ==
    {Base, Wrong, NoFile}
    \cup {Changed(Base, c) : c \in {<<"backend", <<"addr", 3>>>>, <<"backend", <<"id", 3>>>>,
                                    <<"backend", <<"encap_dport", 6081>>>>,
                                    <<"instance", <<"interface", "eth1">>>>,
                                    <<"vip", <<"dscp", 64>>>>, <<"vip", <<"members", Unset>>>>}}
    \cup {Also(Base, <<<<"vip", <<"dscp", 64>>>>, <<"vip", <<"port", 65536>>>>, <<"backend", <<"id", 4>>>>>>)}

\* One file that is edited and edited back.
MCFile == {Base}
MCReweighted == {Base, Changed(Base, <<"vip", <<"members", <<[backend |-> "a", weight |-> 1]>>>>>>)}
=============================================================================
