------------------------------ MODULE Datapath ------------------------------
(***************************************************************************)
(* The XDP program of bpf/: one CPU takes packet after packet through       *)
(* xdp_main(), marlin_acl_check(), marlin_lb_process(), the encapsulations  *)
(* and the next hop, while the control plane rewrites the maps it reads.    *)
(*                                                                         *)
(* Every map lookup is a step of its own, so that writes fall between them. *)
(* Packets are sequential: programs on other CPUs share only maps that the  *)
(* datapath reads (the limiter's buckets are RateLimit's subject; here its  *)
(* verdict is a free choice).  How vip_map and fwd_table change is the      *)
(* subject of Reconcile.                                                    *)
(***************************************************************************)
EXTENDS Parser

CONSTANTS
    Setups,        \* the hosts considered, each a record of
                   \*   frames: what may arrive, see Parser; also linear and total
                   \*     (lengths in the first buffer and in all) and cid (the id
                   \*     the connection ID decodes to, or 0)
                   \*   vips, fwd_table, backends: contents of these maps, the
                   \*     backends without their state bit
                   \*   fibs: what the kernel's FIB may answer
                   \*   flags, lists, max_frames: values of marlin_config.flags, of
                   \*     acl_lists and of max_frame
                   \*   sources: client addresses that ACL rules are written for
                   \*   packets, writes: bounds on what is received and on what
                   \*     the control plane writes
    RowOf(_),      \* SipHash of a sequence, reduced to a row of a block
    MaxVips, MaxBackends

\* What bpf_fib_lookup() may return, as marlin_nexthop_fib() tells it apart.
FibAnswer == {"SUCCESS", "NO_NEIGH", "FWD_DISABLED", "BLACKHOLE", "UNREACHABLE", "PROHIBIT",
              "FRAG_NEEDED", "UNSPEC"}

\* A backend that states a MAC states its own; one that does not has 0.
ASSUME SetupAssumption ==
    \A s \in Setups :
        /\ \A f \in s.frames : IsFrame(f) /\ f.linear \in Nat /\ f.total \in Nat
        /\ \A fib \in s.fibs : fib.rc \in FibAnswer
        /\ DOMAIN s.backends \subseteq 1 .. MaxBackends - 1
        /\ \A b \in DOMAIN s.backends : s.backends[b].mac \in {0, s.backends[b].addr}
        /\ s.max_frames \subseteq Nat

ASSUME MaxBackendsAssumption == MaxBackends \in Nat

VARIABLES
    setup,    \* the host; its vip_map and fwd_table do not change
    config,   \* the config map's row: flags, acl_lists and max_frame
    trie,     \* acl_{allow,block}_{v4,v6}: sources the rules of each list match
    up,       \* ids whose slot carries MARLIN_BE_F_STATE
    pkt,      \* marlin_ctx of the packet in progress
    done,     \* history: the packets that left, and how
    received, writes

vars == <<setup, config, trie, up, pkt, done, received, writes>>

vips == setup.vips
fwd_table == setup.fwd_table
Backends == setup.backends

-----------------------------------------------------------------------------

AclLists == {"allow", "block"} \X {"v4", "v6"}

NoPacket == [pc |-> "idle"]

Overhead == [ipip |-> 20, gue |-> 32, vxlan |-> 50]     \* MARLIN_OVERHEAD_*

EthLen == 14

\* The MAC addresses of the FIB's gateway and of the router a frame came from.
Gateway == -1
Router == -2

\* marlin_action(): the verdicts that hand the packet to the host's stack, and
\* those that send it.
Passed == {"VIP_MISS", "ICMP_ECHO", "NOT_FORWARDED"}
Sent == {"TX", "REDIRECT"}

\* The connection a frame is about: an ICMP error quotes a reply to the client.
FlowOf(f) ==
    IF IsIcmp(f.family, f.proto) /\ f.type = "error"
    THEN <<f.quote.dst, f.quote.src, f.quote.proto, f.quote.dport, f.quote.sport>>
    ELSE <<f.src, f.dst, f.proto, f.sport, f.dport>>

Client(f) == FlowOf(f)[1]

\* Frame f's client is on a list of the tries `rules` that the config row `cfg` puts
\* in force.
Listed(list, f, cfg, rules) ==
    LET l == <<list, f.family>>
    IN "ACL" \in cfg.flags /\ l \in cfg.acl_lists /\ Client(f) \in rules[l]

Allowed(f, cfg, rules) == Listed("allow", f, cfg, rules)
Blocked(f, cfg, rules) == Listed("block", f, cfg, rules) /\ ~Allowed(f, cfg, rules)

\* What is remembered of packet p: `out` says what the step that ended it decided.
Fate(p, verdict, out) ==
    [verdict |-> verdict, frame |-> p.frame, key |-> p.key, blocked |-> p.blocked,
     allowed |-> p.allowed, cid_slot |-> p.cid_slot, max_frame |-> p.cfg.max_frame,
     backend |-> out.backend, by |-> out.by, dmac |-> out.dmac, len |-> out.len]

\* A packet that has left.
Leave(verdict, out) ==
    /\ done' = done \cup {Fate(pkt, verdict, out)}
    /\ pkt' = NoPacket

NoKey == <<>>

Nothing == [backend |-> 0, by |-> "none", dmac |-> 0, len |-> 0]

Drop(verdict) == Leave(verdict, Nothing)

MapsUnchanged == UNCHANGED <<setup, config, trie, up, received, writes>>

-----------------------------------------------------------------------------
(***************************************************************************)
(* xdp_main() and marlin_acl_check()                                        *)
(***************************************************************************)

\* xdp_main(): config is copied, the frame parsed; what the parser ends leaves before
\* any list is looked up.
Receive(f) ==
    LET p == marlin_parse(f)
        blocked == Blocked(f, config, trie)
        allowed == Allowed(f, config, trie)
        seen == [frame |-> f, cfg |-> config, key |-> NoKey, blocked |-> blocked,
                 allowed |-> allowed, cid_slot |-> "unused"]
    IN /\ pkt.pc = "idle" /\ received < setup.packets
       /\ received' = received + 1
       /\ IF p.rc = "OK"
          THEN /\ pkt' = [pc |-> "allow", frame |-> f, cfg |-> config, tuple |-> p.tuple,
                          flags |-> p.flags, acl |-> "NONE", key |-> NoKey, by |-> "none",
                          target |-> 0, blocked |-> blocked, allowed |-> allowed,
                          cid_slot |-> IF f.cid \in up THEN "up" ELSE "down"]
               /\ UNCHANGED done
          ELSE done' = done \cup {Fate(seen, p.rc, Nothing)} /\ UNCHANGED pkt
       /\ UNCHANGED <<setup, config, trie, up, writes>>

\* Whether the copied flags and acl_lists let the list be looked up, and it matches.
Matches(list) ==
    LET l == <<list, pkt.tuple.family>>
    IN "ACL" \in pkt.cfg.flags /\ l \in pkt.cfg.acl_lists /\ pkt.tuple.src \in trie[l]

\* The allow list's lookup of acl_check_v4() and acl_check_v6().
AclAllow ==
    /\ pkt.pc = "allow"
    /\ pkt' = IF Matches("allow") THEN [pkt EXCEPT !.pc = "vip", !.acl = "ALLOW"]
              ELSE [pkt EXCEPT !.pc = "block"]
    /\ MapsUnchanged /\ UNCHANGED done

\* Their block list's.
AclBlock ==
    /\ pkt.pc = "block"
    /\ pkt' = [pkt EXCEPT !.pc = "vip", !.acl = IF Matches("block") THEN "BLOCK" ELSE "NONE"]
    /\ MapsUnchanged /\ UNCHANGED done

-----------------------------------------------------------------------------
(***************************************************************************)
(* marlin_lb_process()                                                      *)
(***************************************************************************)

vip_key(t, port) == <<t.family, t.dst, t.proto, port>>

\* marlin_lb_select_vip(): the port's own VIP, else the address's.
SelectVip(t) ==
    LET keys == <<vip_key(t, t.dport), vip_key(t, 0)>>
        hits == {i \in 1 .. 2 : keys[i] \in DOMAIN vips}
    IN IF hits = {} THEN NoKey ELSE keys[Min(hits)]

\* Mutated form of AclEnforce: only a VIP's own bit is asked for.
AclEnforceVipOnly(vflags) == pkt.acl # "BLOCK" \/ "ACL" \notin vflags

\* marlin_lb_acl_enforce(), for the flags of a VIP, or {"MISS"}.
AclEnforce(vflags) == pkt.acl # "BLOCK" \/ (vflags # {"MISS"} /\ "ACL" \notin vflags)

\* marlin_lb_filter(): whether marlin_ratelimit() is asked.
Metered(vflags) ==
    "RL" \in pkt.cfg.flags /\ "RATELIMIT" \in vflags /\ pkt.acl # "ALLOW"

\* Mutated form of CheckFrag: ports are hashed for fragments too.
CheckFragNever(vflags, flags) == TRUE

\* marlin_lb_check_frag().
CheckFrag(vflags, flags) ==
    vflags \cap {"HASH_5TUPLE", "HASH_PORTS"} = {} \/ flags \cap FRAG_ANY = {}

\* marlin_lb_select_vip(), marlin_lb_admit() and marlin_lb_check_frag();
\* `over` is marlin_ratelimit()'s answer.
Admit(over) ==
    LET key == SelectVip(pkt.tuple)
        vip == vips[key]
        vflags == IF key = NoKey THEN {"MISS"} ELSE vip.flags
        verdict == IF key # NoKey /\ vip.vip_num >= MaxVips THEN "MAP_BOUNDS"
                   ELSE IF ~AclEnforce(vflags) THEN "ACL_BLOCKED"
                   ELSE IF key = NoKey THEN "VIP_MISS"
                   ELSE IF Metered(vflags) /\ over THEN "RATELIMITED"
                   ELSE IF ~CheckFrag(vflags, pkt.flags) THEN "FRAG_UNSUPPORTED" ELSE "OK"
    IN /\ pkt.pc = "vip"
       /\ IF verdict = "OK"
          THEN pkt' = [pkt EXCEPT !.pc = "cid", !.key = key] /\ UNCHANGED done
          ELSE Drop(verdict)
       /\ MapsUnchanged

\* marlin_lb_quic_decode(): the id in the connection ID, NO_BACKEND (0) if none.
QuicDecode ==
    IF pkt.flags \cap FRAG_ANY # {} \/ pkt.frame.cid >= MaxBackends THEN 0 ELSE pkt.frame.cid

\* Mutated form of QuicTarget: the slot's state is not looked at.
QuicTargetAnyState ==
    IF {"QUIC"} \subseteq vips[pkt.key].flags \cap pkt.flags THEN QuicDecode ELSE 0

\* marlin_lb_select_backend_quic() and its caller's conditions.
QuicTarget ==
    IF {"QUIC"} \subseteq vips[pkt.key].flags \cap pkt.flags /\ QuicDecode \in up
    THEN QuicDecode ELSE 0

\* What marlin_lb_select_backend_by_hash() hashes.
HashInput(vflags, t) ==
    IF "HASH_5TUPLE" \in vflags THEN <<t.src, t.dst, t.sport, t.dport, t.proto, t.family>>
    ELSE IF "HASH_PORTS" \in vflags THEN <<t.sport, t.dport>> ELSE <<t.src>>

\* marlin_lb_select_backend_by_hash().
ByHash ==
    LET bid == fwd_table[vips[pkt.key].vip_num][RowOf(HashInput(vips[pkt.key].flags, pkt.tuple))]
    IN IF bid >= MaxBackends THEN 0 ELSE bid

\* marlin_lb_select_backend().
SelectBackend ==
    /\ pkt.pc = "cid"
    /\ pkt' = [pkt EXCEPT !.pc = "load", !.by = IF QuicTarget # 0 THEN "cid" ELSE "hash",
                           !.target = IF QuicTarget # 0 THEN QuicTarget ELSE ByHash]
    /\ MapsUnchanged /\ UNCHANGED done

-----------------------------------------------------------------------------
(***************************************************************************)
(* Encapsulation and next hop                                               *)
(***************************************************************************)

\* Mutated form of Validate: what lies in further buffers is not counted.
ValidateLinear(f) == f.linear >= EthLen

\* marlin_lb_validate().
Validate(f) == f.linear >= EthLen /\ f.linear = f.total

\* marlin_frame_fits(): pkt_len is the length in the first buffer.
FrameFitsIn(overhead, max) == max = 0 \/ pkt.frame.linear + overhead <= max

\* What the encapsulations have in common; `room` is whether
\* bpf_xdp_adjust_head() finds the headroom.
Grow(overhead, room) ==
    IF ~FrameFitsIn(overhead, pkt.cfg.max_frame) THEN "FRAME_TOO_BIG"
    ELSE IF room THEN "OK" ELSE "ADJUST_HEAD"

marlin_ipip_encap_packet(room) == Grow(Overhead.ipip, room)
marlin_gue_encap_packet(room) == Grow(Overhead.gue, room)
marlin_vxlan_encap_packet(room) == Grow(Overhead.vxlan, room)

\* marlin_lb_encap_packet().
Encap(be, room) ==
    CASE be.mode = "ipip" -> marlin_ipip_encap_packet(room)
      [] be.mode = "gue" -> marlin_gue_encap_packet(room)
      [] be.mode = "vxlan" -> marlin_vxlan_encap_packet(room)
      [] OTHER -> "MAP_BOUNDS"

Hop(verdict, dmac) == [verdict |-> verdict, dmac |-> dmac]

\* Mutated form of NexthopFib: a gateway is as good as the backend.
NexthopFibAnyHop(be, fib, l2dsr) ==
    IF be.addr = 0 THEN Hop("BACKEND_UNRESOLVED", 0)
    ELSE IF fib.rc = "NO_NEIGH" /\ l2dsr /\ fib.onlink /\ fib.back /\ be.mac # 0 THEN Hop("TX", be.mac)
    ELSE IF fib.rc # "SUCCESS" THEN Hop(fib.rc, 0)
    ELSE Hop(IF fib.back THEN "TX" ELSE IF fib.port THEN "REDIRECT" ELSE "NO_TX_PORT",
             IF fib.onlink THEN be.addr ELSE Gateway)

\* marlin_nexthop_fib().  A host's address and its MAC are the same value here.
NexthopFib(be, fib, l2dsr) ==
    IF be.addr = 0 THEN Hop("BACKEND_UNRESOLVED", 0)
    ELSE IF fib.rc = "NO_NEIGH" /\ l2dsr /\ fib.onlink /\ fib.back /\ be.mac # 0 THEN Hop("TX", be.mac)
    ELSE IF fib.rc # "SUCCESS" THEN Hop(fib.rc, 0)
    ELSE IF l2dsr /\ ~fib.onlink THEN Hop("FIB_GATEWAYED", 0)
    ELSE Hop(IF fib.back THEN "TX" ELSE IF fib.port THEN "REDIRECT" ELSE "NO_TX_PORT",
             IF fib.onlink THEN be.addr ELSE Gateway)

\* marlin_nexthop_l2dsr() and marlin_nexthop_encapsulate(), which without FIB
\* returns the frame to the router it came from.
Nexthop(be, fib) ==
    IF be.mode = "l2dsr"
    THEN IF ~be.fib /\ be.mac # 0 THEN Hop("TX", be.mac) ELSE NexthopFib(be, fib, TRUE)
    ELSE IF be.fib THEN NexthopFib(be, fib, FALSE) ELSE Hop("TX", Router)

\* marlin_lb_load_backend() and the rest of marlin_lb_process_packet(), which
\* works on the slot that was copied.
Forward(fib, room) ==
    LET be == Backends[pkt.target]
        encap == Encap(be, room)
        hop == Nexthop(be, fib)
        extra == IF be.mode = "l2dsr" THEN 0 ELSE Overhead[be.mode]
    IN /\ pkt.pc = "load"
       /\ IF pkt.target = 0 THEN Drop("NO_BACKEND")
          ELSE IF pkt.target \notin up
          THEN Leave("BACKEND_DOWN", [Nothing EXCEPT !.backend = pkt.target, !.by = pkt.by])
          ELSE IF ~Validate(pkt.frame) THEN Drop("ENCAP_LENGTH")
          ELSE IF be.mode # "l2dsr" /\ encap # "OK" THEN Drop(encap)
          ELSE Leave(hop.verdict, [backend |-> pkt.target, by |-> pkt.by, dmac |-> hop.dmac,
                                   len |-> pkt.frame.total + extra])
       /\ MapsUnchanged

-----------------------------------------------------------------------------
(***************************************************************************)
(* The control plane's writes                                               *)
(***************************************************************************)

\* History kept of the packet in progress across a write: whether its client has
\* been blocked, or allowed, by the rules ever since it arrived, and whether the slot that its
\* connection ID names has been up, or down, ever since.
Witness(newtrie, flipped) ==
    IF pkt.pc = "idle" THEN UNCHANGED pkt
    ELSE pkt' = [pkt EXCEPT !.blocked = @ /\ Blocked(pkt.frame, pkt.cfg, newtrie),
                            !.allowed = @ /\ Allowed(pkt.frame, pkt.cfg, newtrie),
                            !.cid_slot = IF pkt.frame.cid \in flipped THEN "flipped" ELSE @]

Write ==
    /\ writes < setup.writes /\ writes' = writes + 1
    /\ UNCHANGED <<setup, done, received>>

\* write_config(): any row, also one that turns the ACL off or clears the bit of a list
\* that still has rules (which a reconcile that overlooked them does, see Reconcile).
WriteConfig(flags, lists, max) ==
    /\ Write
    /\ config' = [flags |-> flags, acl_lists |-> lists, max_frame |-> max]
    /\ UNCHANGED <<trie, up, pkt>>

\* reconcile_acl_v4() and reconcile_acl_v6(): a rule goes in once its list's bit
\* is set, or out.
InsertRule(l, s) ==
    /\ Write /\ l \in config.acl_lists /\ s \notin trie[l]
    /\ trie' = [trie EXCEPT ![l] = @ \cup {s}]
    /\ Witness(trie', {}) /\ UNCHANGED <<config, up>>

DeleteRule(l, s) ==
    /\ Write /\ s \in trie[l]
    /\ trie' = [trie EXCEPT ![l] = @ \ {s}]
    /\ Witness(trie', {}) /\ UNCHANGED <<config, up>>

\* write_backends() with another state for one backend.
SetState(b) ==
    /\ Write
    /\ up' = IF b \in up THEN up \ {b} ELSE up \cup {b}
    /\ Witness(trie, {b}) /\ UNCHANGED <<config, trie>>

-----------------------------------------------------------------------------

Init ==
    /\ setup \in Setups
    /\ trie \in [AclLists -> SUBSET setup.sources]
    /\ config \in [flags : setup.flags, acl_lists : setup.lists, max_frame : setup.max_frames]
    /\ up = DOMAIN Backends
    /\ pkt = NoPacket /\ done = {} /\ received = 0 /\ writes = 0

Packet ==
    \/ \E f \in setup.frames : Receive(f)
    \/ AclAllow \/ AclBlock
    \/ \E over \in BOOLEAN : Admit(over)
    \/ SelectBackend
    \/ \E fib \in setup.fibs, room \in BOOLEAN : Forward(fib, room)

ControlPlane ==
    \/ \E flags \in setup.flags, lists \in setup.lists, max \in setup.max_frames :
           WriteConfig(flags, lists, max)
    \/ \E l \in AclLists, s \in setup.sources : InsertRule(l, s) \/ DeleteRule(l, s)
    \/ \E b \in DOMAIN Backends : SetState(b)

Next == Packet \/ ControlPlane

Spec == Init /\ [][Next]_vars

-----------------------------------------------------------------------------
(***************************************************************************)
(* Properties                                                               *)
(***************************************************************************)

\* Whatever of a connection the hash forwards under one VIP key, whole packets,
\* fragments or ICMP errors about it, goes to the same backend: the tuple that
\* marlin_parse() and marlin_parse_icmp() make of it feeds the same row
\* (marlin_lb_check_frag() refuses what would not).
FlowAffinity ==
    \A p, q \in done :
        /\ p.verdict \in Sent /\ q.verdict \in Sent /\ p.by = "hash" /\ q.by = "hash"
        /\ p.key = q.key /\ FlowOf(p.frame) = FlowOf(q.frame)
        => p.backend = q.backend

\* t is a later fragment of the datagram whose first fragment is h.
SameDatagram(h, t) ==
    LET tail(x) == IF x = "first" THEN "tail" ELSE x
    IN h # t /\ t = [h EXCEPT !.frag = tail(@), !.ext = [i \in DOMAIN @ |-> tail(@[i])]]

\* A VIP for every port of an address (and no other VIP there) takes the
\* fragments of a datagram together: if the datapath forwards one it never hands
\* another to the host's stack, which is what keying them on different
\* protocols would do (the frag_ext refusal of marlin_parse()).
HalvesTogether ==
    \A p, q \in done :
        /\ SameDatagram(p.frame, q.frame) /\ p.frame.proto \in WithPorts
        /\ \A k \in DOMAIN vips : k[2] = p.frame.dst => k[4] = 0
        => /\ ~(p.verdict \in Sent /\ q.verdict \in Passed)
           /\ ~(p.verdict \in Passed /\ q.verdict \in Sent)

\* A client that is on the block list, and not on the allow list, ever since xdp_main()
\* copied config, in lists that the copy puts in force, has no packet, fragment or ICMP
\* error forwarded by a VIP that enforces the ACL or passed to the host for want of a VIP;
\* other rules and later config rows do not matter.  A client that is on the allow list
\* all along is neither blocked nor metered, whatever block rules come and go.  This says
\* nothing of ICMP_ECHO and NOT_FORWARDED, the other verdicts of Passed: marlin_parse()
\* gives them before marlin_acl_check() is reached, to blocked clients too.
FilterHolds ==
    \A p \in done :
        /\ p.blocked /\ p.verdict \in Sent \cup {"VIP_MISS"}
           => p.key # NoKey /\ "ACL" \notin vips[p.key].flags
        /\ p.allowed => p.verdict \notin {"ACL_BLOCKED", "RATELIMITED"}

\* A connection ID is followed while the backend it names is up, and is no
\* obstacle while that backend is down: the packet is then served by the hash
\* (the fall-through of marlin_lb_select_backend()).
QuicHonoured ==
    \A p \in done :
        p.by # "none" /\ "QUIC" \in vips[p.key].flags /\ "QUIC" \in marlin_parse(p.frame).flags
        => /\ p.cid_slot = "down" => p.by = "hash"
           /\ p.cid_slot = "up" /\ marlin_parse(p.frame).flags \cap FRAG_ANY = {}
              => p.by = "cid" /\ p.backend = p.frame.cid

\* Direct server return on layer 2 rewrites nothing but MAC addresses, so such a
\* frame is only ever sent to the backend's own MAC: not to a gateway and not to
\* an unset one (marlin_nexthop_l2dsr() and marlin_nexthop_fib()).
DirectDelivery ==
    \A p \in done :
        p.verdict \in Sent /\ Backends[p.backend].mode = "l2dsr"
        => p.dmac = Backends[p.backend].addr

\* An encapsulated frame, counted over all its buffers, is never longer than the
\* max_frame in force when the packet arrived (marlin_frame_fits() looks at the
\* first buffer only, marlin_lb_validate() makes that enough).
FrameFits ==
    \A p \in done :
        p.verdict \in Sent /\ Backends[p.backend].mode # "l2dsr" /\ p.max_frame # 0
        => p.len <= p.max_frame
=============================================================================
