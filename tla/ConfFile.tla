------------------------------ MODULE ConfFile ------------------------------
(***************************************************************************)
(* What marlind makes of a configuration file: the parsers of               *)
(* marlind/conf.c, the rules of marlind/conf_check.c and the conversions of *)
(* marlind/conf_value.c, as operators.  Each returns what it wrote ("val")  *)
(* and how many diagnostics it added ("errs", "warns").                     *)
(*                                                                         *)
(* A TOML table is a function from the keys it states.  A value of the      *)
(* wrong type, too long for its field, or that its conf_parse function does *)
(* not take, is Wrong: each costs one diagnostic and leaves the field as    *)
(* calloc() made it.  An address that stands alone is an array of one.      *)
(***************************************************************************)
EXTENDS Integers, Sequences, FiniteSets, FiniteSetsExt, Functions, SequencesExt

CONSTANTS
    Wrong,         \* a value that cannot be read
    NoName,        \* the empty string, which calloc() leaves in a name
    MaxBackends,   \* MAX_BACKENDS
    MaxVips,       \* MAX_VIPS
    MaxTxPorts,    \* MAX_TX_PORTS
    MaxAcl,        \* MAX_ACL_ENTRIES
    U32Max,        \* the largest __u32
    ByteBits,      \* bits of a byte of an address, 8
    V4Bytes,       \* bytes of an IPv4 address, 4
    V6Bytes        \* bytes of an IPv6 address, 16

ASSUME ConfFileAssumption ==
    /\ MaxBackends \in Nat \ {0} /\ MaxVips \in Nat /\ MaxTxPorts \in Nat /\ MaxAcl \in Nat
    /\ U32Max \in Nat /\ ByteBits \in Nat \ {0} /\ V4Bytes \in Nat \ {0} /\ V6Bytes \in Nat \ {0}

Count(S) == Cardinality(S)

\* The sum of a function's values: pairs of an argument and one of its units.
Total(f) == Count(UNION {{x} \X (1 .. f[x]) : x \in DOMAIN f})

\* Two places of an array, the first before the second.
Pairs(arr) == {p \in (DOMAIN arr) \X (DOMAIN arr) : p[1] < p[2]}

\* The values of a __u16, of a VXLAN network identifier, and of the two fields of
\* vip_meta.flags.
U16 == 0 .. 65535
U24 == 0 .. 2^24 - 1
U5 == 0 .. 31
U6 == 0 .. 63

(***************************************************************************)
(* The accessors.                                                           *)
(***************************************************************************)

\* Mutated form of get_bool: a key that is absent leaves the caller's variable alone.
get_bool_unwritten(tab, key, flag) ==
    IF key \notin DOMAIN tab THEN [ok |-> TRUE, present |-> FALSE, out |-> flag, errs |-> 0]
    ELSE IF tab[key] = Wrong THEN [ok |-> FALSE, present |-> TRUE, out |-> flag, errs |-> 1]
    ELSE [ok |-> TRUE, present |-> TRUE, out |-> tab[key], errs |-> 0]

\* flag is what the caller's variable holds: an absent key makes it false, a
\* value of another type leaves it.
get_bool(tab, key, flag) ==
    IF key \notin DOMAIN tab THEN [ok |-> TRUE, present |-> FALSE, out |-> FALSE, errs |-> 0]
    ELSE IF tab[key] = Wrong THEN [ok |-> FALSE, present |-> TRUE, out |-> flag, errs |-> 1]
    ELSE [ok |-> TRUE, present |-> TRUE, out |-> tab[key], errs |-> 0]

\* get_int() and the range its callers hold it to.
get_int(tab, key, range) ==
    IF key \notin DOMAIN tab THEN [stated |-> FALSE, val |-> 0, errs |-> 0]
    ELSE IF tab[key] = Wrong \/ tab[key] \notin range
         THEN [stated |-> FALSE, val |-> 0, errs |-> 1]
    ELSE [stated |-> TRUE, val |-> tab[key], errs |-> 0]

req_int(tab, key, range) ==
    IF key \in DOMAIN tab THEN get_int(tab, key, range)
    ELSE [stated |-> FALSE, val |-> 0, errs |-> 1]

\* get_str() and the conversion of the string.
get_str(tab, key, default) ==
    IF key \notin DOMAIN tab THEN [stated |-> FALSE, val |-> default, errs |-> 0]
    ELSE IF tab[key] = Wrong THEN [stated |-> FALSE, val |-> default, errs |-> 1]
    ELSE [stated |-> TRUE, val |-> tab[key], errs |-> 0]

req_str(tab, key, default) ==
    IF key \in DOMAIN tab THEN get_str(tab, key, default)
    ELSE [stated |-> FALSE, val |-> default, errs |-> 1]

\* An optional section, or one that must not be of another type.
section(top, key, none) ==
    [tab |-> IF key \in DOMAIN top /\ top[key] # Wrong THEN top[key] ELSE none,
     errs |-> IF key \in DOMAIN top /\ top[key] = Wrong THEN 1 ELSE 0]

(***************************************************************************)
(* [instance], [acl] and [ratelimit].                                       *)
(***************************************************************************)

\* Reading stops when tx_ports[] is full; a longer list is reported first.  The
\* ports keep the places they have in the file, here and in the lists of the ACL.
parse_instance_tx_ports(tab) ==
    LET arr == section(tab, "tx_ports", <<>>)
        before(i) == {j \in DOMAIN arr.tab : j < i /\ arr.tab[j] # Wrong}
        read == {i \in DOMAIN arr.tab : Count(before(i)) < MaxTxPorts}
    IN [val |-> [i \in {j \in read : arr.tab[j] # Wrong} |-> arr.tab[i]],
        errs |-> arr.errs + (IF Len(arr.tab) > MaxTxPorts THEN 1 ELSE 0)
                 + Count({i \in read : arr.tab[i] = Wrong})]

\* max_frame == 0 is a stated value like any other.
parse_instance(top) ==
    LET sec == section(top, "instance", <<>>)
        iface == req_str(sec.tab, "interface", NoName)
        object == get_str(sec.tab, "object", "MARLIN_DEFAULT_OBJ")
        pin_dir == get_str(sec.tab, "pin_dir", "MARLIN_DEFAULT_PIN_DIR")
        tunnel == get_str(sec.tab, "tunnel_src", 0)
        tx == parse_instance_tx_ports(sec.tab)
        frame == get_int(sec.tab, "max_frame", U16)
    IN [val |-> [iface |-> iface.val, object |-> object.val, pin_dir |-> pin_dir.val,
                 tunnel_src |-> tunnel.val, tunnel_src_set |-> tunnel.stated,
                 tx_ports |-> tx.val, max_frame |-> frame.val, max_frame_set |-> frame.stated],
        errs |-> IF "instance" \notin DOMAIN top \/ sec.errs = 1 THEN 1
                 ELSE iface.errs + object.errs + pin_dir.errs + tunnel.errs + tx.errs + frame.errs]

Lists == {"allow_v4", "block_v4", "allow_v6", "block_v6"}

IsAllow(l) == l \in {"allow_v4", "allow_v6"}

IsV6(l) == l \in {"allow_v6", "block_v6"}

Width(v6) == IF v6 THEN V6Bytes ELSE V4Bytes

\* A prefix no longer than the addresses of its family.
conf_parse_cidr(elem) == elem # Wrong /\ elem.prefixlen <= Width(elem.v6) * ByteBits

parse_acl(top) ==
    LET sec == section(top, "acl", <<>>)
        enabled == get_bool(sec.tab, "enabled", FALSE)
        arr(key) == section(sec.tab, key, <<>>)
        key(l) == IF IsAllow(l) THEN "allow" ELSE "block"
        places(l) == {i \in DOMAIN arr(key(l)).tab :
                         conf_parse_cidr(arr(key(l)).tab[i]) /\ arr(key(l)).tab[i].v6 = IsV6(l)}
        bad(k) == arr(k).errs + Count({i \in DOMAIN arr(k).tab : ~conf_parse_cidr(arr(k).tab[i])})
    IN [val |-> [enabled |-> enabled.out,
                 list |-> [l \in Lists |-> [i \in places(l) |-> arr(key(l)).tab[i]]]],
        errs |-> sec.errs + enabled.errs + bad("allow") + bad("block")]

parse_ratelimit(top) ==
    LET sec == section(top, "ratelimit", <<>>)
        enabled == get_bool(sec.tab, "enabled", FALSE)
        tokens == get_int(sec.tab, "tokens_per_sec", 0 .. U32Max)
        burst == get_int(sec.tab, "burst_packets", 0 .. U32Max)
    IN [val |-> [enabled |-> enabled.out, tokens_per_sec |-> tokens.val, burst_packets |-> burst.val],
        errs |-> sec.errs + enabled.errs + tokens.errs + burst.errs]

(***************************************************************************)
(* [[backend]].                                                             *)
(***************************************************************************)

\* The port an encapsulation uses unless the file states one.
encap_dport_default(mode) == CASE mode = "gue" -> 6080 [] mode = "vxlan" -> 4789 [] OTHER -> 0

\* An element that is not a table leaves a zeroed backend.  fib is MARLIN_BE_F_FIB,
\* which check_one_backend() sets.
parse_one_backend(elem) ==
    LET tab == IF elem = Wrong THEN <<>> ELSE elem
        name == req_str(tab, "name", NoName)
        id == req_int(tab, "id", 0 .. MaxBackends - 1)
        addr == req_str(tab, "addr", 0)
        mode == req_str(tab, "mode", "l2dsr")
        state == get_str(tab, "state", "up")
        mac == get_str(tab, "mac", 0)
        fib == get_bool(tab, "fib", FALSE)
        egress == get_str(tab, "egress", NoName)
        dport == get_int(tab, "encap_dport", U16)
        vni == get_int(tab, "vni", U24)
        inner == get_str(tab, "inner_mac", 0)
    IN [val |-> [name |-> name.val, id |-> id.val, addr |-> addr.val, mode |-> mode.val,
                 encap_required |-> mode.val # "l2dsr", up |-> state.val = "up" /\ elem # Wrong,
                 mac |-> mac.val, mac_stated |-> mac.stated,
                 fib |-> FALSE, fib_stated |-> fib.ok /\ fib.present, fib_value |-> fib.out,
                 egress |-> egress.val, has_egress |-> egress.stated,
                 encap_dport |-> IF dport.stated THEN dport.val ELSE encap_dport_default(mode.val),
                 vni |-> vni.val, vni_stated |-> vni.stated,
                 inner_mac |-> inner.val, inner_mac_stated |-> inner.stated],
        errs |-> IF elem = Wrong THEN 1
                 ELSE name.errs + id.errs + addr.errs + mode.errs + state.errs + mac.errs + fib.errs
                      + egress.errs + dport.errs + vni.errs + inner.errs]

\* One array of tables.
parse_array(top, key, one(_)) ==
    LET arr == section(top, key, <<>>)
    IN [val |-> [i \in DOMAIN arr.tab |-> one(arr.tab[i]).val],
        errs |-> arr.errs + Total([i \in DOMAIN arr.tab |-> one(arr.tab[i]).errs])]

parse_backends(top) == parse_array(top, "backend", parse_one_backend)

(***************************************************************************)
(* [[vip]].                                                                 *)
(***************************************************************************)

\* The boolean keys, and the bits of vip_meta.flags.
FlagKeys == {"acl", "ratelimit", "hash_5tuple", "hash_ports", "quic"}

FlagBit(key) == CASE key = "acl" -> 1 [] key = "ratelimit" -> 2 [] key = "hash_5tuple" -> 4
                  [] key = "quic" -> 8 [] key = "hash_ports" -> 16

\* A field of flags: its bits after a shift.
Flag(flags, key) == (flags \div FlagBit(key)) % 2 = 1
VIP_QUIC_CID_LEN(flags) == (flags \div 2^8) % 2^5
VIP_DSCP(flags) == (flags \div 2^16) % 2^6

\* One local variable serves all five keys.  The fields of flags do not overlap and
\* what is in range fits its mask, so that |= adds.
parse_vip_flag_bits(tab) ==
    LET acl == get_bool(tab, "acl", FALSE)
        ratelimit == get_bool(tab, "ratelimit", acl.out)
        hash_5tuple == get_bool(tab, "hash_5tuple", ratelimit.out)
        hash_ports == get_bool(tab, "hash_ports", hash_5tuple.out)
        quic == get_bool(tab, "quic", hash_ports.out)
        cid_len == get_int(tab, "quic_cid_len", U5)
        dscp == get_int(tab, "dscp", U6)
        bit(got, key) == IF got.ok /\ got.out THEN FlagBit(key) ELSE 0
    IN [val |-> bit(acl, "acl") + bit(ratelimit, "ratelimit") + bit(hash_5tuple, "hash_5tuple")
                + bit(hash_ports, "hash_ports") + bit(quic, "quic")
                + cid_len.val * 2^8 + dscp.val * 2^16,
        errs |-> acl.errs + ratelimit.errs + hash_5tuple.errs + hash_ports.errs + quic.errs
                 + cid_len.errs + dscp.errs]

\* An address that cannot be read leaves a key of no family.
parse_one_addr(elem) == IF elem = Wrong THEN [family |-> 0, addr |-> 0] ELSE elem

\* parse_vip_address(), and port and proto given to every key.
parse_vip_keys(tab) ==
    LET sec == section(tab, "addr", <<>>)
        port == get_int(tab, "port", U16)
        proto == req_str(tab, "proto", "none")
    IN [val |-> [k \in DOMAIN sec.tab |->
                    [family |-> parse_one_addr(sec.tab[k]).family, addr |-> parse_one_addr(sec.tab[k]).addr,
                     port |-> port.val, proto |-> proto.val]],
        errs |-> port.errs + proto.errs
                 + IF DOMAIN sec.tab = {} THEN 1 ELSE Count({k \in DOMAIN sec.tab : sec.tab[k] = Wrong})]

parse_vip_member(elem) ==
    LET tab == IF elem = Wrong THEN <<>> ELSE elem
        backend == req_str(tab, "backend", NoName)
        weight == req_int(tab, "weight", 1 .. U32Max)
    IN [val |-> [backend_name |-> backend.val, backend_id |-> 0, weight |-> weight.val],
        errs |-> IF elem = Wrong THEN 1 ELSE backend.errs + weight.errs]

\* members is required, unlike the other arrays of tables.
parse_vip_members(tab) ==
    LET read == parse_array(tab, "members", parse_vip_member)
    IN [read EXCEPT !.errs = @ + IF "members" \in DOMAIN tab THEN 0 ELSE 1]

parse_one_vip(elem) ==
    LET tab == IF elem = Wrong THEN <<>> ELSE elem
        keys == parse_vip_keys(tab)
        hash_key == req_str(tab, "hash_key", 0)
        table_seed == req_str(tab, "table_seed", 0)
        flags == parse_vip_flag_bits(tab)
        members == parse_vip_members(tab)
    IN [val |-> [keys |-> keys.val, hash_key |-> hash_key.val, table_seed |-> table_seed.val,
                 flags |-> flags.val, members |-> members.val],
        errs |-> IF elem = Wrong THEN 1
                 ELSE keys.errs + hash_key.errs + table_seed.errs + flags.errs + members.errs]

parse_vips(top) == parse_array(top, "vip", parse_one_vip)

(***************************************************************************)
(* What toml_parse_file() and the conf_parse functions can hand over.       *)
(***************************************************************************)

IsArray(tab, key) ==
    key \in DOMAIN tab /\ tab[key] # Wrong => tab[key] \in Seq(Range(tab[key]))

\* A value that is read is one of those its conversion knows.
IsOneOf(tab, key, S) == key \in DOMAIN tab => tab[key] \in S \cup {Wrong}

IsRule(e) ==
    e \in [v6 : BOOLEAN, prefixlen : Nat, addr : [1 .. Width(e.v6) -> 0 .. 2^ByteBits - 1]]

IsVip(tab) ==
    /\ \A key \in FlagKeys : IsOneOf(tab, key, BOOLEAN)
    /\ IsOneOf(tab, "proto", {"tcp", "udp", "sctp"})
    /\ IsArray(tab, "addr") /\ IsArray(tab, "members")
    /\ \A a \in Range(section(tab, "addr", <<>>).tab) : a # Wrong => a.family \in {4, 6}

IsToml(top) ==
    LET tab(key) == section(top, key, <<>>).tab
    IN /\ IsArray(tab("instance"), "tx_ports")
       /\ IsOneOf(tab("acl"), "enabled", BOOLEAN) /\ IsOneOf(tab("ratelimit"), "enabled", BOOLEAN)
       /\ \A key \in {"allow", "block"} :
             /\ IsArray(tab("acl"), key)
             /\ \A e \in Range(section(tab("acl"), key, <<>>).tab) : e # Wrong => IsRule(e)
       /\ IsArray(top, "backend") /\ IsArray(top, "vip")
       /\ \A b \in Range(tab("backend")) : b # Wrong => IsOneOf(b, "fib", BOOLEAN)
       /\ \A v \in Range(tab("vip")) : v # Wrong => IsVip(v)
=============================================================================
