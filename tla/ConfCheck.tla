----------------------------- MODULE ConfCheck ------------------------------
(***************************************************************************)
(* The rules a parsed configuration must keep: conf_check() and             *)
(* conf_check_against_previous() of marlind/conf_check.c.                   *)
(***************************************************************************)
EXTENDS ConfFile

\* Mutated form of check_instance: an interface that is not there is an error.
check_instance_host(inst, host) ==
    IF inst.iface = NoName \/ inst.iface \notin host THEN [errs |-> 1, warns |-> 0]
    ELSE [errs |-> Count({p \in Pairs(inst.tx_ports) : inst.tx_ports[p[1]] = inst.tx_ports[p[2]]}),
          warns |-> Count({i \in DOMAIN inst.tx_ports : inst.tx_ports[i] = inst.iface})]

\* check_instance(): host is the set of interfaces if_nametoindex() finds.  One
\* that is not there is a warning: the file may be checked on another host.
check_instance(inst, host) ==
    IF inst.iface = NoName THEN [errs |-> 1, warns |-> 0]
    ELSE [errs |-> Count({p \in Pairs(inst.tx_ports) : inst.tx_ports[p[1]] = inst.tx_ports[p[2]]}),
          warns |-> Count({i \in DOMAIN inst.tx_ports : inst.tx_ports[i] = inst.iface})
                    + IF inst.iface \in host THEN 0 ELSE 1]

is_attach_or_txport(inst, name) == name \in {inst.iface} \cup Range(inst.tx_ports)

\* Rules about one backend that it breaks.
check_one_backend(b, inst) ==
    Count({rule \in {"addr", "tunnel_src", "vni", "inner_mac", "not_vxlan", "egress"} :
        CASE rule = "addr" -> b.addr = 0
          [] rule = "tunnel_src" -> b.encap_required /\ ~inst.tunnel_src_set
          [] rule = "vni" -> b.mode = "vxlan" /\ (~b.vni_stated \/ b.vni = 0 \/ b.vni >= 2^24)
          [] rule = "inner_mac" -> b.mode = "vxlan" /\ (~b.inner_mac_stated \/ b.inner_mac = 0)
          [] rule = "not_vxlan" -> b.mode # "vxlan" /\ (b.vni_stated \/ b.inner_mac_stated)
          [] rule = "egress" -> b.has_egress /\ ~is_attach_or_txport(inst, b.egress)})

\* MARLIN_BE_F_FIB: as stated, and otherwise wherever a MAC is stated.
fib_default(b) == [b EXCEPT !.fib = IF b.fib_stated THEN b.fib_value ELSE b.mac_stated]

check_backends(c) ==
    LET bs == c.backends
    IN (IF Len(bs) > MaxBackends - 1 THEN 1 ELSE 0)
       + Count({i \in DOMAIN bs : bs[i].id = 0}) + Count({i \in DOMAIN bs : bs[i].id >= MaxBackends})
       + Count({p \in Pairs(bs) : bs[p[1]].name = bs[p[2]].name})
       + Count({p \in Pairs(bs) : bs[p[1]].id = bs[p[2]].id})
       + Total([i \in DOMAIN bs |-> check_one_backend(bs[i], c.instance)])

\* Where the backend of that name is, the first of several; nowhere if there is none.
find_backend(c, name) ==
    {i \in DOMAIN c.backends : /\ c.backends[i].name = name
                               /\ \A j \in DOMAIN c.backends : j < i => c.backends[j].name # name}

\* The unknown member is reported alone.
check_vip_members(v, c) ==
    LET known(i) == find_backend(c, v.members[i].backend_name) # {}
        up(i) == \E j \in find_backend(c, v.members[i].backend_name) : c.backends[j].up
    IN [errs |-> Count({i \in DOMAIN v.members : ~known(i)})
                 + Count({i \in DOMAIN v.members : known(i) /\ v.members[i].weight = 0})
                 + Count({p \in Pairs(v.members) :
                             /\ known(p[1])
                             /\ v.members[p[1]].backend_name = v.members[p[2]].backend_name}),
        warns |-> IF \E i \in DOMAIN v.members : up(i) THEN 0 ELSE 1]

resolve_members(v, c) ==
    [v EXCEPT !.members = [i \in DOMAIN v.members |->
        LET found == find_backend(c, v.members[i].backend_name)
        IN IF found = {} THEN v.members[i]
           ELSE [v.members[i] EXCEPT !.backend_id = c.backends[CHOOSE j \in found : TRUE].id]]]

\* Mutated form of check_vip_group: the rule about the two families is left out.
check_vip_group_one_family(v) ==
    IF Len(v.keys) < 2 \/ v.keys[1].proto # "sctp" THEN [errs |-> 0, warns |-> 0]
    ELSE [errs |-> IF Flag(v.flags, "hash_5tuple") THEN 1 ELSE 0,
          warns |-> IF Flag(v.flags, "hash_ports") THEN 0 ELSE 1]

check_vip_group(v) ==
    LET families == {v.keys[k].family : k \in DOMAIN v.keys}
        mixed == 4 \in families /\ families # {4} /\ ~Flag(v.flags, "hash_ports")
    IN IF Len(v.keys) < 2 \/ v.keys[1].proto # "sctp" THEN [errs |-> 0, warns |-> 0]
       ELSE [errs |-> (IF Flag(v.flags, "hash_5tuple") THEN 1 ELSE 0) + (IF mixed THEN 1 ELSE 0),
             warns |-> IF mixed \/ Flag(v.flags, "hash_ports") THEN 0 ELSE 1]

check_one_vip(v, c) ==
    LET proto == IF DOMAIN v.keys = {} THEN "none" ELSE v.keys[1].proto
        rules == Count({rule \in {"cid_len", "dscp", "ratelimit", "hash_ports", "both"} :
            CASE rule = "cid_len" -> Flag(v.flags, "quic") /\ VIP_QUIC_CID_LEN(v.flags) \notin 7 .. 20
              [] rule = "dscp" -> VIP_DSCP(v.flags) > 63
              [] rule = "ratelimit" -> Flag(v.flags, "ratelimit") /\ ~Flag(v.flags, "acl")
              [] rule = "hash_ports" -> Flag(v.flags, "hash_ports") /\ proto # "sctp"
              [] rule = "both" -> Flag(v.flags, "hash_ports") /\ Flag(v.flags, "hash_5tuple")})
    IN [errs |-> rules + check_vip_group(v).errs + check_vip_members(v, c).errs,
        warns |-> check_vip_group(v).warns + check_vip_members(v, c).warns]

\* Where the addresses of a configuration are: an entry and a place in it.
KeyPlaces(c) == UNION {{e} \X (DOMAIN c.vips[e].keys) : e \in DOMAIN c.vips}

KeyAt(c, at) == c.vips[at[1]].keys[at[2]]

\* Keys are compared within an entry and with every later one; vip_key_eq() is equality.
check_vips(c) ==
    LET later(at, by) == at[1] < by[1] \/ (at[1] = by[1] /\ at[2] < by[2])
        each == [e \in DOMAIN c.vips |-> check_one_vip(c.vips[e], c)]
    IN [errs |-> (IF Count(KeyPlaces(c)) > MaxVips THEN 1 ELSE 0)
                 + Count({p \in KeyPlaces(c) \X KeyPlaces(c) :
                             later(p[1], p[2]) /\ KeyAt(c, p[1]) = KeyAt(c, p[2])})
                 + Total([e \in DOMAIN each |-> each[e].errs]),
        warns |-> Total([e \in DOMAIN each |-> each[e].warns])]

(***************************************************************************)
(* The ACL, byte by byte.                                                   *)
(***************************************************************************)

\* Mutated form of conf_cidr_host_bits_set: only whole bytes are looked at.
host_bits_whole_bytes(e) ==
    \E byte \in 1 .. Width(e.v6) : (byte - 1) * ByteBits >= e.prefixlen /\ e.addr[byte] # 0

\* The bits of a byte past the prefix, where the byte is cut by it or lies past it.
conf_cidr_host_bits_set(e) ==
    \E byte \in 1 .. Width(e.v6) :
        LET base == (byte - 1) * ByteBits
            keep == e.prefixlen - base
        IN IF base >= e.prefixlen THEN e.addr[byte] # 0
           ELSE base + ByteBits > e.prefixlen /\ e.addr[byte] % 2^(ByteBits - keep) # 0

\* Mutated form of prefix_covers: all bits of the byte the prefix ends in are compared.
prefix_covers_unmasked(outer, inner) ==
    /\ outer.prefixlen <= inner.prefixlen
    /\ \A byte \in 1 .. Width(outer.v6) :
          (byte - 1) * ByteBits < outer.prefixlen => outer.addr[byte] = inner.addr[byte]

prefix_covers(outer, inner) ==
    /\ outer.prefixlen <= inner.prefixlen
    /\ \A byte \in 1 .. Width(outer.v6) :
          LET base == (byte - 1) * ByteBits
              keep == IF base + ByteBits <= outer.prefixlen THEN ByteBits ELSE outer.prefixlen - base
              mask == 2^(ByteBits - keep)
          IN base < outer.prefixlen => outer.addr[byte] \div mask = inner.addr[byte] \div mask

\* A default route among the allow rules, host bits; any broad rule is warned of.
check_acl_list(entries, allow, v6) ==
    [errs |-> (IF Count(DOMAIN entries) > MaxAcl THEN 1 ELSE 0)
              + Count({i \in DOMAIN entries : /\ allow /\ entries[i].prefixlen = 0
                                              /\ \A byte \in 1 .. Width(v6) : entries[i].addr[byte] = 0})
              + Count({i \in DOMAIN entries : conf_cidr_host_bits_set(entries[i])}),
     warns |-> Count({i \in DOMAIN entries :
                         entries[i].prefixlen < IF v6 THEN 4 * ByteBits ELSE ByteBits})]

check_acl_dead_rules(acl) ==
    LET dead(allow, block) == Count({i \in DOMAIN block : \E j \in DOMAIN allow :
                                         prefix_covers(allow[j], block[i])})
    IN dead(acl.list["allow_v4"], acl.list["block_v4"]) + dead(acl.list["allow_v6"], acl.list["block_v6"])

check_acl(acl) ==
    LET each == [l \in Lists |-> check_acl_list(acl.list[l], IsAllow(l), IsV6(l))]
    IN [errs |-> Total([l \in Lists |-> each[l].errs]),
        warns |-> Total([l \in Lists |-> each[l].warns]) + check_acl_dead_rules(acl)]

(***************************************************************************)
(* The limiter, and everything together.                                    *)
(***************************************************************************)

\* RL_TOKEN_SHIFT is 8, a second has 953 ticks and a fraction.
marlind_scale_refill(tokens_per_sec) == (tokens_per_sec * 2^8) \div 953

check_ratelimit(c) ==
    LET metered == \E e \in DOMAIN c.vips : Flag(c.vips[e].flags, "ratelimit")
    IN IF ~c.ratelimit.enabled THEN [errs |-> 0, warns |-> 0]
       ELSE [errs |-> (IF c.acl.enabled THEN 0 ELSE 1)
                      + (IF c.ratelimit.burst_packets \in 1 .. 2^24 - 1 THEN 0 ELSE 1)
                      + (IF metered /\ marlind_scale_refill(c.ratelimit.tokens_per_sec) = 0
                         THEN 1 ELSE 0),
             warns |-> IF metered THEN 0 ELSE 1]

conf_check(c, host) ==
    LET inst == check_instance(c.instance, host)
        vips == check_vips(c)
        acl == check_acl(c.acl)
        rl == check_ratelimit(c)
    IN [val |-> [c EXCEPT !.backends = [i \in DOMAIN c.backends |-> fib_default(c.backends[i])],
                          !.vips = [e \in DOMAIN c.vips |-> resolve_members(c.vips[e], c)]],
        errs |-> inst.errs + check_backends(c) + vips.errs + acl.errs + rl.errs,
        warns |-> inst.warns + vips.warns + acl.warns + rl.warns]

Identity(b) == <<b.addr, b.mode, b.encap_dport, b.vni, b.inner_mac>>

\* Mutated form of backend_identity_changed: the encapsulation's port is not compared.
backend_identity_changed_no_dport(cur, prev) ==
    cur.addr # prev.addr \/ cur.mode # prev.mode \/ cur.vni # prev.vni
    \/ cur.inner_mac # prev.inner_mac

backend_identity_changed(cur, prev) ==
    \/ cur.addr # prev.addr \/ cur.mode # prev.mode \/ cur.encap_dport # prev.encap_dport
    \/ cur.vni # prev.vni \/ cur.inner_mac # prev.inner_mac

conf_check_against_previous(cur, prev) ==
    Count({k \in {"iface", "object", "pin_dir"} : cur.instance[k] # prev.instance[k]})
    + Count({i \in DOMAIN cur.backends : \E j \in DOMAIN prev.backends :
                 /\ cur.backends[i].id = prev.backends[j].id
                 /\ backend_identity_changed(cur.backends[i], prev.backends[j])})
=============================================================================
