--------------------------- MODULE DatapathProofs ---------------------------
(***************************************************************************)
(* What a packet meets between the copy of config and its verdict, for      *)
(* every frame, host and sequence of the control plane's writes.            *)
(***************************************************************************)
EXTENDS Datapath, TLAPS, WellFoundedInduction

(***************************************************************************)
(* The parser.                                                              *)
(***************************************************************************)

\* The lowest number of a set is in it, whatever set that is.
LEMMA MinMember ==
    ASSUME NEW T, T \subseteq Nat, T # {}
    PROVE  Min(T) \in T
<1> DEFINE R == OpToRel(<, Nat)
<1>1. IsWellFoundedOn(R, Nat)
  BY NatLessThanWellFounded
<1>2. \A x, y \in Nat : <<y, x>> \in R <=> y < x
  BY DEF OpToRel
<1> HIDE DEF R
<1>3. PICK n \in T : \A m \in T : ~(<<m, n>> \in R)
  BY <1>1, WFMin
<1>4. ASSUME NEW m \in T PROVE n <= m
  <2>1. n \in Nat /\ m \in Nat
    OBVIOUS
  <2>2. ~(m < n)
    BY <1>2, <1>3, <2>1, Zenon
  <2> QED
    BY <2>1, <2>2
<1> QED
  BY <1>4 DEF Min

ExtHdr == {"opt", "whole", "first", "tail"}

\* marlin_walk_ext6() takes something else than the upper-layer protocol for it only
\* behind the Fragment header of a tail, and notes that in frag_ext.
LEMMA WalkedProto ==
    ASSUME NEW chain \in Seq(ExtHdr), NEW proto, NEW max,
           ~WalkExt6(chain, proto, max).frag_ext \/ "FRAG" \notin WalkExt6(chain, proto, max).flags
    PROVE  WalkExt6(chain, proto, max).proto = proto
<1> DEFINE tails == {i \in DOMAIN chain : chain[i] = "tail"}
           last == IF tails = {} THEN Len(chain) ELSE Min(tails)
           ext == \E i \in 1 .. last : /\ chain[i] # "opt" /\ i < Len(chain)
                                       /\ \E j \in 1 .. i : chain[j] \in {"first", "tail"}
           flags == UNION {FragFlag(chain[i]) : i \in 1 .. last}
<1>1. /\ WalkExt6(chain, proto, max).proto = IF last < Len(chain) THEN chain[last + 1] ELSE proto
      /\ WalkExt6(chain, proto, max).frag_ext = ext
      /\ WalkExt6(chain, proto, max).flags = flags
  BY DEF WalkExt6
<1>2. CASE tails = {}
  BY <1>1, <1>2
<1>3. CASE tails # {}
  <2>1. Min(tails) \in tails
    <3>1. tails \subseteq Nat
      OBVIOUS
    <3> HIDE DEF tails
    <3> QED
      BY <1>3, <3>1, MinMember
  <2>2. last \in 1 .. Len(chain) /\ chain[last] = "tail"
    BY <1>3, <2>1
  <2> HIDE DEF tails, last
  <2>3. "FRAG" \in flags
    <3>1. FragFlag(chain[last]) = {"FRAG"}
      BY <2>2 DEF FragFlag
    <3>2. last \in 1 .. last
      BY <2>2
    <3> QED
      BY <3>1, <3>2
  <2>4. last < Len(chain) => ext
    <3> SUFFICES ASSUME last < Len(chain) PROVE ext
      OBVIOUS
    <3>1. last \in 1 .. last /\ chain[last] # "opt" /\ chain[last] \in {"first", "tail"}
      BY <2>2
    <3> QED
      BY <3>1
  <2> QED
    BY <1>1, <2>3, <2>4
<1> QED
  BY <1>2, <1>3

\* What marlin_parse_l3() makes of headers that are no tail of a datagram, or of a
\* frame that marlin_parse() does not refuse for frag_ext.
LEMMA L3Proto ==
    ASSUME NEW w, NEW family \in {"v4", "v6"}, NEW max, w.ext \in Seq(ExtHdr),
           \/ ~ParseL3(w, family, max).frag_ext
           \/ "FRAG" \notin ParseL3(w, family, max).flags
    PROVE  ParseL3(w, family, max).proto = w.proto
<1>1. CASE family = "v4"
  BY <1>1 DEF ParseL3
<1>2. CASE family = "v6"
  <2>1. ParseL3(w, family, max) = WalkExt6(w.ext, w.proto, max)
    BY <1>2 DEF ParseL3
  <2> QED
    BY <2>1, WalkedProto
<1> QED
  BY <1>1, <1>2

\* The tuple of frame f shows the connection the frame is about.
TupleShows(f) ==
    LET t == marlin_parse(f).tuple
        c == FlowOf(f)
    IN /\ t.family = f.family /\ t.src = c[1] /\ t.dst = c[2] /\ t.proto = c[3]
       /\ "FRAG" \notin marlin_parse(f).flags => t.sport = c[4] /\ t.dport = c[5]

\* Whatever marlin_parse() hands to the load balancer, whole packet, fragment or ICMP
\* error, it hands over with the addresses and the protocol of its connection, and
\* with its ports unless it is a tail.
LEMMA ParsedTuple ==
    ASSUME NEW f, IsFrame(f), marlin_parse(f).rc = "OK"
    PROVE  f.family \in {"v4", "v6"} /\ TupleShows(f)
<1> DEFINE l3 == ParseL3(f, f.family, MaxExt)
           ports == ParsePorts(l3.proto, f.cut = "l4")
<1>1. f.family \in {"v4", "v6"} /\ l3.rc = "OK" /\ ~l3.frag_ext
  <2>1. f.family # "other" /\ l3.rc = "OK"
    BY DEF marlin_parse, Ends
  <2>2. ~l3.frag_ext
    BY DEF marlin_parse, Ends
  <2> QED
    BY <2>1, <2>2 DEF IsFrame
<1>2. l3.proto = f.proto
  <2>1. f.ext \in Seq(ExtHdr)
    BY DEF IsFrame, ExtHdr
  <2> QED
    BY <1>1, <2>1, L3Proto
<1>3. CASE "FRAG" \in l3.flags
  <2>1. /\ ~IsIcmp(f.family, l3.proto)
        /\ marlin_parse(f) = Parsed(f.family, l3.proto, f.src, f.dst, 0, 0, l3.flags)
    BY <1>1, <1>3 DEF marlin_parse, Ends
  <2>2. FlowOf(f) = <<f.src, f.dst, f.proto, f.sport, f.dport>>
    BY <1>2, <2>1 DEF FlowOf
  <2> HIDE DEF l3
  <2> QED
    BY <1>1, <1>2, <1>3, <2>1, <2>2 DEF TupleShows, Parsed
<1>4. CASE "FRAG" \notin l3.flags /\ IsIcmp(f.family, l3.proto)
  <2> DEFINE q == f.quote
             m3 == ParseL3(q, f.family, MaxEmbExt)
  <2>1. marlin_parse(f) = ParseIcmp(f, l3.flags)
    BY <1>1, <1>4 DEF marlin_parse, Ends
  <2>2. /\ f.type = "error" /\ "FRAG" \notin m3.flags
        /\ marlin_parse(f) = Parsed(f.family, m3.proto, q.dst, q.src, q.dport, q.sport,
                                    l3.flags \cup {"ICMP"})
    BY <2>1 DEF ParseIcmp, Ends
  <2>3. q.ext \in Seq(ExtHdr)
    BY <1>2, <1>4, <2>2 DEF IsFrame, ExtHdr
  <2>4. m3.proto = q.proto
    BY <1>1, <2>2, <2>3, L3Proto
  <2>5. FlowOf(f) = <<q.dst, q.src, q.proto, q.dport, q.sport>>
    BY <1>2, <1>4, <2>2 DEF FlowOf
  <2> HIDE DEF l3, m3, q
  <2> QED
    BY <1>1, <2>2, <2>4, <2>5 DEF TupleShows, Parsed
<1>5. CASE "FRAG" \notin l3.flags /\ ~IsIcmp(f.family, l3.proto)
  <2>1. marlin_parse(f) = Parsed(f.family, l3.proto, f.src, f.dst, f.sport, f.dport,
                                 l3.flags \cup QuicFlag(f, l3.proto))
    BY <1>1, <1>5 DEF marlin_parse, Ends
  <2>2. FlowOf(f) = <<f.src, f.dst, f.proto, f.sport, f.dport>>
    BY <1>2, <1>5 DEF FlowOf
  <2> HIDE DEF l3
  <2> QED
    BY <1>1, <1>2, <2>1, <2>2 DEF TupleShows, Parsed
<1> QED
  BY <1>1, <1>3, <1>4, <1>5

\* What marlin_parse() itself decides: it sends nothing, and it leaves to the host only
\* what is no IP packet or has no ports of its own; none of its verdicts is the ACL's or
\* the limiter's.
LEMMA ParseRefuses ==
    ASSUME NEW f, IsFrame(f), marlin_parse(f).rc # "OK"
    PROVE  /\ marlin_parse(f).rc \notin Sent \cup {"VIP_MISS", "ACL_BLOCKED", "RATELIMITED"}
           /\ marlin_parse(f).rc \in Passed => f.family = "other" \/ f.proto \notin WithPorts
<1> DEFINE l3 == ParseL3(f, f.family, MaxExt)
           ports == ParsePorts(l3.proto, f.cut = "l4")
           rc == marlin_parse(f).rc
<1>1. CASE f.cut = "eth" \/ f.family = "other" \/ f.cut = "l3"
  BY <1>1 DEF marlin_parse, Ends, Sent, Passed
<1>2. l3.rc \in {"OK", "EXT_HDR_LIMIT", "UNSUPPORTED_PROTO"}
  BY DEF ParseL3, WalkExt6
<1>3. CASE ~(f.cut = "eth" \/ f.family = "other" \/ f.cut = "l3") /\ l3.rc # "OK"
  <2>1. rc = l3.rc
    BY <1>3 DEF marlin_parse, Ends
  <2> QED
    BY <1>2, <1>3, <2>1 DEF Sent, Passed
<1>4. CASE /\ ~(f.cut = "eth" \/ f.family = "other" \/ f.cut = "l3") /\ l3.rc = "OK"
           /\ l3.proto \in Unsupported \/ l3.frag_ext
  <2>1. rc = "UNSUPPORTED_PROTO"
    BY <1>4 DEF marlin_parse, Ends
  <2> QED
    BY <2>1 DEF Sent, Passed
<1>5. CASE /\ ~(f.cut = "eth" \/ f.family = "other" \/ f.cut = "l3") /\ l3.rc = "OK"
           /\ ~(l3.proto \in Unsupported \/ l3.frag_ext)
  <2>1. f.family \in {"v4", "v6"} /\ f.ext \in Seq(ExtHdr)
    BY <1>5 DEF IsFrame, ExtHdr
  <2>2. l3.proto = f.proto
    BY <1>5, <2>1, L3Proto
  <2>3. IsIcmp(f.family, f.proto) => f.proto \notin WithPorts
    BY DEF IsIcmp, WithPorts
  <2>4. CASE "FRAG" \in l3.flags
    <3>1. IsIcmp(f.family, l3.proto) /\ rc = "NOT_FORWARDED"
      BY <1>5, <2>4 DEF marlin_parse, Ends, Parsed
    <3> QED
      BY <2>2, <2>3, <3>1 DEF Sent, Passed
  <2>5. CASE "FRAG" \notin l3.flags /\ IsIcmp(f.family, l3.proto)
    <3>1. rc = ParseIcmp(f, l3.flags).rc
      BY <1>5, <2>5 DEF marlin_parse
    <3>2. rc \in {"OK", "PARSE_ERROR", "ICMP_ECHO", "NOT_FORWARDED", "ICMP_UNPARSEABLE"}
      BY <3>1 DEF ParseIcmp, Ends, Parsed
    <3> QED
      BY <2>2, <2>3, <2>5, <3>2 DEF Sent, Passed
  <2>6. CASE "FRAG" \notin l3.flags /\ ~IsIcmp(f.family, l3.proto)
    <3>1. ports # "OK" /\ rc = ports
      BY <1>5, <2>6 DEF marlin_parse, Ends, Parsed
    <3> QED
      BY <2>2, <3>1 DEF ParsePorts, Sent, Passed
  <2> QED
    BY <2>4, <2>5, <2>6
<1> QED
  BY <1>1, <1>3, <1>4, <1>5

(***************************************************************************)
(* The invariant.                                                           *)
(***************************************************************************)

\* The maps and the copy that write_config() left.
MapsOK ==
    /\ setup \in Setups
    /\ config \in [flags : setup.flags, acl_lists : setup.lists, max_frame : setup.max_frames]
    /\ DOMAIN trie = AclLists
    /\ up \subseteq DOMAIN Backends

\* Frame f came through marlin_lb_select_vip() and marlin_lb_check_frag() with key k.
Admitted(f, k) ==
    /\ marlin_parse(f).rc = "OK"
    /\ k = SelectVip(marlin_parse(f).tuple) /\ k # NoKey
    /\ CheckFrag(vips[k].flags, marlin_parse(f).flags)

\* marlin_lb_select_backend_by_hash() of frame f under key k.
HashTarget(f, k) ==
    LET bid == fwd_table[vips[k].vip_num][RowOf(HashInput(vips[k].flags, marlin_parse(f).tuple))]
    IN IF bid >= MaxBackends THEN 0 ELSE bid

\* Frame f, whose connection ID names a slot that was `slot` throughout, was given
\* backend b because of `by`.
Chosen(f, k, slot, by, b) ==
    /\ by \in {"hash", "cid"}
    /\ by = "hash" => b = HashTarget(f, k)
    /\ "QUIC" \in vips[k].flags /\ "QUIC" \in marlin_parse(f).flags
       => /\ slot = "down" => by = "hash"
          /\ slot = "up" /\ marlin_parse(f).flags \cap FRAG_ANY = {} => by = "cid" /\ b = f.cid

\* pkt has the fields of marlin_ctx.
Fields ==
    pkt = [pc |-> pkt.pc, frame |-> pkt.frame, cfg |-> pkt.cfg, tuple |-> pkt.tuple,
           flags |-> pkt.flags, acl |-> pkt.acl, key |-> pkt.key, by |-> pkt.by,
           target |-> pkt.target, blocked |-> pkt.blocked, allowed |-> pkt.allowed,
           cid_slot |-> pkt.cid_slot]

\* The tuple and the flags are those of the frame, wherever the packet is.
ParsedFrame ==
    /\ pkt.frame \in setup.frames /\ marlin_parse(pkt.frame).rc = "OK"
    /\ pkt.tuple = marlin_parse(pkt.frame).tuple /\ pkt.flags = marlin_parse(pkt.frame).flags
    /\ pkt.cfg.max_frame \in Nat

\* What the history says of the rules is so now, under the copied row.
RulesSeen ==
    /\ pkt.blocked => Blocked(pkt.frame, pkt.cfg, trie)
    /\ pkt.allowed => Allowed(pkt.frame, pkt.cfg, trie)

SlotSeen ==
    /\ pkt.cid_slot = "up" => pkt.frame.cid \in up
    /\ pkt.cid_slot = "down" => pkt.frame.cid \notin up

\* What marlin_acl_check() returned, once it has, and what enforcing it left.
AclSeen ==
    /\ pkt.pc = "block" => ~pkt.allowed
    /\ pkt.pc = "vip" => (pkt.blocked => pkt.acl = "BLOCK") /\ (pkt.allowed => pkt.acl = "ALLOW")
    /\ pkt.pc \in {"cid", "load"} /\ pkt.blocked => "ACL" \notin vips[pkt.key].flags

\* marlin_lb_process() between two of its lookups.
PacketOK ==
    pkt.pc # "idle" =>
        /\ pkt.pc \in {"allow", "block", "vip", "cid", "load"}
        /\ Fields /\ ParsedFrame /\ RulesSeen /\ SlotSeen /\ AclSeen
        /\ pkt.pc \in {"cid", "load"} => Admitted(pkt.frame, pkt.key)
        /\ pkt.pc = "load" => Chosen(pkt.frame, pkt.key, pkt.cid_slot, pkt.by, pkt.target)

\* What is known of a packet that left: the properties of one packet, where it was
\* sent to, and why it was left to the host.
Filtered(p) ==
    /\ p.blocked /\ p.verdict \in Sent \cup {"VIP_MISS"}
       => p.key # NoKey /\ "ACL" \notin vips[p.key].flags
    /\ p.allowed => p.verdict \notin {"ACL_BLOCKED", "RATELIMITED"}

Delivered(p) ==
    p.verdict \in Sent =>
        /\ Admitted(p.frame, p.key)
        /\ p.by # "none"
        /\ Backends[p.backend].mode = "l2dsr" => p.dmac = Backends[p.backend].addr
        /\ Backends[p.backend].mode # "l2dsr" /\ p.max_frame # 0 => p.len <= p.max_frame

LeftToHost(p) ==
    p.verdict \in Passed =>
        \/ p.frame.family = "other" \/ p.frame.proto \notin WithPorts
        \/ marlin_parse(p.frame).rc = "OK" /\ SelectVip(marlin_parse(p.frame).tuple) = NoKey

LeftOK(p) ==
    /\ p.frame \in setup.frames
    /\ p.by # "none" => Chosen(p.frame, p.key, p.cid_slot, p.by, p.backend)
    /\ Filtered(p) /\ Delivered(p) /\ LeftToHost(p)

DoneOK == \A p \in done : LeftOK(p)

PathInv == MapsOK /\ PacketOK /\ DoneOK

(***************************************************************************)
(* What the actions have in common.                                         *)
(***************************************************************************)

\* No write to the maps of this host touches what these are about.
LEMMA SameHost ==
    ASSUME setup' = setup
    PROVE  /\ \A f, k : Admitted(f, k) => Admitted(f, k)'
           /\ \A f, k, s, by, b : Chosen(f, k, s, by, b) => Chosen(f, k, s, by, b)'
           /\ \A p : LeftOK(p) => LeftOK(p)'
<1>1. \A t : SelectVip(t)' = SelectVip(t)
  BY DEF SelectVip, vip_key, vips
<1>2. \A f, k : Admitted(f, k) => Admitted(f, k)'
  BY <1>1 DEF Admitted, vips
<1>3. \A f, k : HashTarget(f, k)' = HashTarget(f, k)
  BY DEF HashTarget, vips, fwd_table
<1>4. \A f, k, s, by, b : Chosen(f, k, s, by, b) => Chosen(f, k, s, by, b)'
  BY <1>3 DEF Chosen, vips
<1>5. \A p : /\ Filtered(p) => Filtered(p)'
             /\ Delivered(p) => Delivered(p)'
             /\ LeftToHost(p) => LeftToHost(p)'
  BY <1>1, <1>2 DEF Filtered, Delivered, LeftToHost, vips, Backends
<1>6. \A p : LeftOK(p) => LeftOK(p)'
  BY <1>4, <1>5 DEF LeftOK
<1> QED
  BY <1>2, <1>4, <1>6

\* That a packet was admitted depends on the host only, which does not change.
LEMMA StaysAdmitted ==
    ASSUME setup' = setup, Admitted(pkt'.frame, pkt'.key)
    PROVE  Admitted(pkt.frame, pkt.key)'
  BY DEF Admitted, SelectVip, vip_key, vips

\* Nor does what chose its backend.
LEMMA StaysChosen ==
    ASSUME setup' = setup,
           Chosen(pkt'.frame, pkt'.key, pkt'.cid_slot, pkt'.by, pkt'.target)
    PROVE  Chosen(pkt.frame, pkt.key, pkt.cid_slot, pkt.by, pkt.target)'
  BY DEF Chosen, HashTarget, vips, fwd_table

\* One more packet has left, and the maps are as they were.
LEMMA OneMore ==
    ASSUME DoneOK, setup' = setup, NEW p, LeftOK(p), done' = done \cup {p}
    PROVE  DoneOK'
  BY SameHost DEF DoneOK

\* No packet has left.
LEMMA SameDone ==
    ASSUME DoneOK, setup' = setup, done' = done
    PROVE  DoneOK'
  BY SameHost DEF DoneOK

\* No map was written.
LEMMA SameMaps ==
    ASSUME MapsOK, setup' = setup, config' = config, trie' = trie, up' = up
    PROVE  MapsOK'
  BY DEF MapsOK, Backends

\* A frame of a host is one that can be on a wire.
LEMMA FrameKnown ==
    ASSUME MapsOK, NEW f \in setup.frames
    PROVE  IsFrame(f) /\ f.linear \in Nat /\ f.total \in Nat
  BY SetupAssumption DEF MapsOK

\* A packet with a verdict of its own kind that is not sent has nothing to answer for.
LEMMA Dropped ==
    ASSUME NEW p, p.frame \in setup.frames, NEW v,
           v \notin Sent \cup Passed \cup {"ACL_BLOCKED", "RATELIMITED"}
    PROVE  LeftOK(Fate(p, v, Nothing))
  BY DEF LeftOK, Fate, Nothing, Filtered, Delivered, LeftToHost, Passed

(***************************************************************************)
(* The packet's steps.                                                      *)
(***************************************************************************)

\* xdp_main() takes its copy of config and parses the frame.
LEMMA ReceiveKeeps ==
    ASSUME PathInv, NEW f \in setup.frames, Receive(f)
    PROVE  PathInv'
<1>1. setup' = setup /\ config' = config /\ trie' = trie /\ up' = up /\ pkt.pc = "idle"
  BY DEF Receive
<1>2. MapsOK'
  BY <1>1, SameMaps DEF PathInv
<1>3. IsFrame(f)
  BY FrameKnown DEF PathInv
<1>4. CASE marlin_parse(f).rc = "OK"
  <2>1. /\ done' = done
        /\ pkt' = [pc |-> "allow", frame |-> f, cfg |-> config, tuple |-> marlin_parse(f).tuple,
                   flags |-> marlin_parse(f).flags, acl |-> "NONE", key |-> NoKey, by |-> "none",
                   target |-> 0, blocked |-> Blocked(f, config, trie),
                   allowed |-> Allowed(f, config, trie),
                   cid_slot |-> IF f.cid \in up THEN "up" ELSE "down"]
    BY <1>4 DEF Receive
  <2>2. DoneOK'
    BY <1>1, <2>1, SameDone DEF PathInv
  <2>4. Fields' /\ SlotSeen' /\ AclSeen' /\ pkt'.pc = "allow"
    BY <1>1, <2>1 DEF Fields, SlotSeen, AclSeen
  <2>5. ParsedFrame'
    <3>1. config.max_frame \in Nat
      BY SetupAssumption DEF PathInv, MapsOK
    <3> QED
      BY <1>1, <1>4, <2>1, <3>1 DEF ParsedFrame
  <2>6. RulesSeen'
    <3>1. /\ pkt'.frame = f /\ pkt'.cfg = config
          /\ pkt'.blocked = Blocked(f, config, trie) /\ pkt'.allowed = Allowed(f, config, trie)
      BY <2>1
    <3> QED
      BY <1>1, <3>1 DEF RulesSeen, Blocked, Allowed, Listed
  <2> QED
    BY <1>2, <2>2, <2>4, <2>5, <2>6 DEF PathInv, PacketOK
<1>5. CASE marlin_parse(f).rc # "OK"
  <2> DEFINE seen == [frame |-> f, cfg |-> config, key |-> NoKey,
                      blocked |-> Blocked(f, config, trie),
                      allowed |-> Allowed(f, config, trie), cid_slot |-> "unused"]
             d == Fate(seen, marlin_parse(f).rc, Nothing)
  <2>1. done' = done \cup {d} /\ pkt' = pkt
    BY <1>5 DEF Receive
  <2>2. LeftOK(d)
    <3>1. /\ d.frame = f /\ d.verdict = marlin_parse(f).rc /\ d.by = "none"
      BY DEF Fate, Nothing
    <3> HIDE DEF d
    <3> QED
      BY <1>3, <1>5, <3>1, ParseRefuses DEF LeftOK, Filtered, Delivered, LeftToHost
  <2> HIDE DEF d
  <2>3. DoneOK'
    BY <1>1, <2>1, <2>2, OneMore DEF PathInv
  <2>4. PacketOK'
    BY <1>1, <2>1 DEF PacketOK
  <2> QED
    BY <1>2, <2>3, <2>4 DEF PathInv
<1> QED
  BY <1>4, <1>5

\* Most steps of a packet leave its frame, its copy of config and its history alone.
SamePacket ==
    /\ pkt'.frame = pkt.frame /\ pkt'.cfg = pkt.cfg /\ pkt'.tuple = pkt.tuple
    /\ pkt'.flags = pkt.flags /\ pkt'.blocked = pkt.blocked /\ pkt'.allowed = pkt.allowed
    /\ pkt'.cid_slot = pkt.cid_slot

\* What was seen since the packet arrived is still so while the maps stay.
LEMMA StaysParsed ==
    ASSUME ParsedFrame, RulesSeen, SlotSeen, SamePacket,
           setup' = setup, trie' = trie, up' = up
    PROVE  ParsedFrame' /\ RulesSeen' /\ SlotSeen'
<1>1. ParsedFrame'
  BY DEF ParsedFrame, SamePacket
<1>2. SlotSeen'
  BY DEF SlotSeen, SamePacket
<1>4. RulesSeen'
  BY DEF RulesSeen, SamePacket, Blocked, Allowed, Listed
<1> QED
  BY <1>1, <1>2, <1>4

\* The ACL looks up the client of the frame's connection in the lists of its family.
LEMMA AclMatch ==
    ASSUME MapsOK, ParsedFrame, NEW list
    PROVE  Matches(list) <=> Listed(list, pkt.frame, pkt.cfg, trie)
<1>1. TupleShows(pkt.frame)
  BY FrameKnown, ParsedTuple DEF ParsedFrame
<1>2. pkt.tuple.family = pkt.frame.family /\ pkt.tuple.src = Client(pkt.frame)
  BY <1>1 DEF TupleShows, ParsedFrame, Client
<1> QED
  BY <1>2 DEF Matches, Listed

\* The first lookup of marlin_acl_check() keeps the invariant.
LEMMA AclAllowKeeps ==
    ASSUME PathInv, AclAllow
    PROVE  PathInv'
<1>1. /\ setup' = setup /\ config' = config /\ trie' = trie /\ up' = up /\ done' = done
      /\ pkt.pc = "allow"
  BY DEF AclAllow, MapsUnchanged
<1>2. MapsOK' /\ DoneOK'
  BY <1>1, SameMaps, SameDone DEF PathInv
<1>3. Fields /\ ParsedFrame /\ RulesSeen /\ SlotSeen
  BY <1>1 DEF PathInv, PacketOK
<1>4. CASE Matches("allow")
  <2>1. pkt' = [pkt EXCEPT !.pc = "vip", !.acl = "ALLOW"]
    BY <1>4 DEF AclAllow
  <2>2. Fields' /\ SamePacket /\ pkt'.pc = "vip" /\ pkt'.acl = "ALLOW"
    BY <1>3, <2>1 DEF Fields, SamePacket
  <2>3. ParsedFrame' /\ RulesSeen' /\ SlotSeen'
    BY <1>1, <1>3, <2>2, StaysParsed
  <2>4. AclSeen'
    <3>1. ~pkt.blocked
      BY <1>3, <1>4, AclMatch DEF PathInv, RulesSeen, Blocked, Allowed
    <3> QED
      BY <1>1, <2>2, <3>1 DEF AclSeen, SamePacket
  <2> QED
    BY <1>2, <2>2, <2>3, <2>4 DEF PathInv, PacketOK
<1>5. CASE ~Matches("allow")
  <2>1. pkt' = [pkt EXCEPT !.pc = "block"]
    BY <1>5 DEF AclAllow
  <2>2. Fields' /\ SamePacket /\ pkt'.pc = "block"
    BY <1>3, <2>1 DEF Fields, SamePacket
  <2>3. ParsedFrame' /\ RulesSeen' /\ SlotSeen'
    BY <1>1, <1>3, <2>2, StaysParsed
  <2>4. AclSeen'
    <3>1. ~pkt.allowed
      BY <1>3, <1>5, AclMatch DEF PathInv, RulesSeen, Allowed
    <3> QED
      BY <1>1, <2>2, <3>1 DEF AclSeen, SamePacket
  <2> QED
    BY <1>2, <2>2, <2>3, <2>4 DEF PathInv, PacketOK
<1> QED
  BY <1>4, <1>5

\* So does the second.
LEMMA AclBlockKeeps ==
    ASSUME PathInv, AclBlock
    PROVE  PathInv'
<1>1. /\ setup' = setup /\ config' = config /\ trie' = trie /\ up' = up /\ done' = done
      /\ pkt.pc = "block"
      /\ pkt' = [pkt EXCEPT !.pc = "vip", !.acl = IF Matches("block") THEN "BLOCK" ELSE "NONE"]
  BY DEF AclBlock, MapsUnchanged
<1>2. MapsOK' /\ DoneOK'
  BY <1>1, SameMaps, SameDone DEF PathInv
<1>3. Fields /\ ParsedFrame /\ RulesSeen /\ SlotSeen /\ AclSeen
  BY <1>1 DEF PathInv, PacketOK
<1>4. /\ Fields' /\ SamePacket /\ pkt'.pc = "vip"
      /\ pkt'.acl = IF Matches("block") THEN "BLOCK" ELSE "NONE"
  BY <1>1, <1>3 DEF Fields, SamePacket
<1>5. ParsedFrame' /\ RulesSeen' /\ SlotSeen'
  BY <1>1, <1>3, <1>4, StaysParsed
<1>6. AclSeen'
  <2>1. ~pkt.allowed /\ (pkt.blocked => Matches("block"))
    BY <1>1, <1>3, AclMatch DEF PathInv, RulesSeen, AclSeen, Blocked
  <2> QED
    BY <1>1, <1>4, <2>1 DEF AclSeen, SamePacket
<1> QED
  BY <1>2, <1>4, <1>5, <1>6 DEF PathInv, PacketOK

\* VIP lookup, ACL, limiter and fragment rule keep the invariant.
LEMMA AdmitKeeps ==
    ASSUME PathInv, NEW over \in BOOLEAN, Admit(over)
    PROVE  PathInv'
<1> DEFINE key == SelectVip(pkt.tuple)
           vflags == IF key = NoKey THEN {"MISS"} ELSE vips[key].flags
           verdict == IF key # NoKey /\ vips[key].vip_num >= MaxVips THEN "MAP_BOUNDS"
                      ELSE IF ~AclEnforce(vflags) THEN "ACL_BLOCKED"
                      ELSE IF key = NoKey THEN "VIP_MISS"
                      ELSE IF Metered(vflags) /\ over THEN "RATELIMITED"
                      ELSE IF ~CheckFrag(vflags, pkt.flags) THEN "FRAG_UNSUPPORTED" ELSE "OK"
<1>1. /\ setup' = setup /\ config' = config /\ trie' = trie /\ up' = up /\ pkt.pc = "vip"
      /\ IF verdict = "OK" THEN pkt' = [pkt EXCEPT !.pc = "cid", !.key = key] /\ done' = done
         ELSE done' = done \cup {Fate(pkt, verdict, Nothing)} /\ pkt' = NoPacket
  BY DEF Admit, MapsUnchanged, Drop, Leave
<1>2. MapsOK'
  BY <1>1, SameMaps DEF PathInv
<1>3. Fields /\ ParsedFrame /\ RulesSeen /\ SlotSeen /\ AclSeen
  BY <1>1 DEF PathInv, PacketOK
<1>4. CASE verdict = "OK"
  <2>1. /\ pkt' = [pkt EXCEPT !.pc = "cid", !.key = key] /\ done' = done
        /\ key # NoKey /\ AclEnforce(vips[key].flags) /\ CheckFrag(vips[key].flags, pkt.flags)
    BY <1>1, <1>4
  <2> HIDE DEF key, verdict, vflags
  <2>2. DoneOK'
    BY <1>1, <2>1, SameDone DEF PathInv
  <2>3. Fields' /\ SamePacket /\ pkt'.pc = "cid" /\ pkt'.key = key
    BY <1>3, <2>1 DEF Fields, SamePacket
  <2>4. ParsedFrame' /\ RulesSeen' /\ SlotSeen'
    BY <1>1, <1>3, <2>3, StaysParsed
  <2>5. AclSeen'
    <3>1. pkt.blocked => "ACL" \notin vips[key].flags
      BY <1>1, <1>3, <2>1 DEF AclSeen, AclEnforce
    <3> QED
      BY <1>1, <2>3, <3>1 DEF AclSeen, SamePacket, vips
  <2>6. Admitted(pkt.frame, pkt.key)'
    <3>1. Admitted(pkt.frame, key)
      BY <1>3, <2>1 DEF Admitted, ParsedFrame, key
    <3>2. Admitted(pkt'.frame, pkt'.key)
      BY <2>3, <3>1 DEF SamePacket
    <3> QED
      BY <1>1, <3>2, StaysAdmitted
  <2> QED
    BY <1>2, <2>2, <2>3, <2>4, <2>5, <2>6 DEF PathInv, PacketOK
<1>5. CASE verdict # "OK"
  <2> DEFINE d == Fate(pkt, verdict, Nothing)
  <2>1. done' = done \cup {d} /\ pkt' = NoPacket
    BY <1>1, <1>5
  <2>2. LeftOK(d)
    <3>1. CASE verdict \in {"MAP_BOUNDS", "FRAG_UNSUPPORTED"}
      <4> HIDE DEF verdict
      <4> QED
        BY <1>3, <3>1, Dropped DEF ParsedFrame, Sent, Passed
    <3>2. CASE verdict \in {"ACL_BLOCKED", "RATELIMITED", "VIP_MISS"}
      <4>1. verdict = "VIP_MISS" => key = NoKey /\ AclEnforce({"MISS"})
        OBVIOUS
      <4>2. verdict = "ACL_BLOCKED" => pkt.acl = "BLOCK"
        BY DEF AclEnforce
      <4>3. verdict = "RATELIMITED" => pkt.acl # "ALLOW"
        BY DEF Metered
      <4>4. /\ d.frame = pkt.frame /\ d.verdict = verdict /\ d.by = "none"
            /\ d.blocked = pkt.blocked /\ d.allowed = pkt.allowed
        BY DEF Fate, Nothing
      <4> HIDE DEF d, verdict, vflags
      <4>5. Filtered(d)
        BY <1>1, <1>3, <3>2, <4>1, <4>2, <4>3, <4>4
        DEF Filtered, AclSeen, AclEnforce, Sent, Passed
      <4>6. Delivered(d)
        BY <3>2, <4>4 DEF Delivered, Sent
      <4>7. LeftToHost(d)
        BY <1>3, <3>2, <4>1, <4>4 DEF LeftToHost, Passed, ParsedFrame
      <4> QED
        BY <1>3, <4>4, <4>5, <4>6, <4>7 DEF LeftOK, ParsedFrame
    <3> HIDE DEF d
    <3> QED
      BY <1>5, <3>1, <3>2
  <2> HIDE DEF d
  <2>3. DoneOK'
    BY <1>1, <2>1, <2>2, OneMore DEF PathInv
  <2>4. PacketOK'
    BY <2>1 DEF PacketOK, NoPacket
  <2> QED
    BY <1>2, <2>3, <2>4 DEF PathInv
<1> QED
  BY <1>4, <1>5

\* The connection ID decides only for a slot that is up, and always for one that is
\* up throughout, unless the packet is a fragment.
LEMMA SelectBackendKeeps ==
    ASSUME PathInv, SelectBackend
    PROVE  PathInv'
<1> DEFINE by == IF QuicTarget # 0 THEN "cid" ELSE "hash"
           target == IF QuicTarget # 0 THEN QuicTarget ELSE ByHash
<1>1. /\ setup' = setup /\ config' = config /\ trie' = trie /\ up' = up /\ done' = done
      /\ pkt.pc = "cid"
      /\ pkt' = [pkt EXCEPT !.pc = "load", !.by = by, !.target = target]
  BY DEF SelectBackend, MapsUnchanged
<1>2. MapsOK' /\ DoneOK'
  BY <1>1, SameMaps, SameDone DEF PathInv
<1>3. /\ Fields /\ ParsedFrame /\ RulesSeen /\ SlotSeen /\ AclSeen
      /\ Admitted(pkt.frame, pkt.key)
  BY <1>1 DEF PathInv, PacketOK
<1>4. Chosen(pkt.frame, pkt.key, pkt.cid_slot, by, target)
  <2>1. up \subseteq 1 .. MaxBackends - 1
    BY SetupAssumption DEF PathInv, MapsOK, Backends
  <2>2. ByHash = HashTarget(pkt.frame, pkt.key)
    BY <1>3 DEF ByHash, HashTarget, ParsedFrame
  <2>3. ASSUME "QUIC" \in vips[pkt.key].flags, "QUIC" \in pkt.flags
        PROVE  /\ pkt.cid_slot = "down" => QuicTarget = 0
               /\ pkt.cid_slot = "up" /\ pkt.flags \cap FRAG_ANY = {}
                  => QuicTarget = pkt.frame.cid /\ pkt.frame.cid # 0
    <3>1. {"QUIC"} \subseteq vips[pkt.key].flags \cap pkt.flags
      BY <2>3
    <3>2. CASE pkt.cid_slot = "down"
      <4>1. QuicDecode \notin up
        BY <1>3, <2>1, <3>2 DEF SlotSeen, QuicDecode
      <4> QED
        BY <3>2, <4>1 DEF QuicTarget
    <3>3. CASE pkt.cid_slot = "up" /\ pkt.flags \cap FRAG_ANY = {}
      <4>1. pkt.frame.cid \in up
        BY <1>3, <3>3 DEF SlotSeen
      <4>2. pkt.frame.cid \in Int /\ pkt.frame.cid < MaxBackends /\ pkt.frame.cid # 0
        <5>1. pkt.frame.cid \in 1 .. MaxBackends - 1
          BY <2>1, <4>1
        <5> QED
          BY <5>1, MaxBackendsAssumption
      <4>3. QuicDecode = pkt.frame.cid
        BY <3>3, <4>2, MaxBackendsAssumption DEF QuicDecode
      <4> QED
        BY <3>1, <3>3, <4>1, <4>2, <4>3 DEF QuicTarget
    <3> QED
      BY <3>2, <3>3
  <2> QED
    BY <1>3, <2>2, <2>3 DEF Chosen, ParsedFrame
<1> HIDE DEF by, target
<1>5. /\ Fields' /\ SamePacket /\ pkt'.pc = "load" /\ pkt'.key = pkt.key
      /\ pkt'.by = by /\ pkt'.target = target
  BY <1>1, <1>3 DEF Fields, SamePacket
<1>6. ParsedFrame' /\ RulesSeen' /\ SlotSeen'
  BY <1>1, <1>3, <1>5, StaysParsed
<1>7. AclSeen'
  BY <1>1, <1>3, <1>5 DEF AclSeen, SamePacket, vips
<1>8. Admitted(pkt.frame, pkt.key)'
  BY <1>1, <1>3, <1>5, StaysAdmitted DEF SamePacket
<1>9. Chosen(pkt.frame, pkt.key, pkt.cid_slot, pkt.by, pkt.target)'
  BY <1>1, <1>4, <1>5, StaysChosen DEF SamePacket
<1> QED
  BY <1>2, <1>5, <1>6, <1>7, <1>8, <1>9 DEF PathInv, PacketOK

\* marlin_nexthop_l2dsr() and marlin_nexthop_fib() send a layer-2 frame to the backend.
LEMMA NexthopDirect ==
    ASSUME MapsOK, NEW b \in DOMAIN Backends, NEW fib \in setup.fibs
    PROVE  LET hop == Nexthop(Backends[b], fib)
           IN /\ hop.verdict \notin Passed \cup {"ACL_BLOCKED", "RATELIMITED"}
              /\ hop.verdict \in Sent /\ Backends[b].mode = "l2dsr"
                 => hop.dmac = Backends[b].addr
<1>1. fib.rc \in FibAnswer /\ Backends[b].mac \in {0, Backends[b].addr}
  BY SetupAssumption DEF MapsOK, Backends
<1>2. ASSUME NEW l2dsr \in BOOLEAN
      PROVE  LET hop == NexthopFib(Backends[b], fib, l2dsr)
             IN /\ hop.verdict \notin Passed \cup {"ACL_BLOCKED", "RATELIMITED"}
                /\ hop.verdict \in Sent /\ l2dsr => hop.dmac = Backends[b].addr
  BY <1>1 DEF NexthopFib, Hop, Sent, Passed, FibAnswer
<1>3. CASE Backends[b].mode = "l2dsr"
  BY <1>1, <1>2, <1>3 DEF Nexthop, Hop, Sent, Passed
<1>4. CASE Backends[b].mode # "l2dsr"
  BY <1>1, <1>2, <1>4 DEF Nexthop, Hop, Sent, Passed
<1> QED
  BY <1>3, <1>4

\* The encapsulations refuse what would exceed max_frame, and they see all of the frame.
LEMMA EncapFits ==
    ASSUME MapsOK, ParsedFrame, Validate(pkt.frame), NEW be, NEW room \in BOOLEAN,
           Encap(be, room) = "OK", pkt.cfg.max_frame # 0
    PROVE  pkt.frame.total + Overhead[be.mode] <= pkt.cfg.max_frame
<1>1. pkt.frame.linear = pkt.frame.total
  BY DEF Validate
<1>2. be.mode \in {"ipip", "gue", "vxlan"}
  BY DEF Encap
<1>3. Encap(be, room) = Grow(Overhead[be.mode], room)
  BY <1>2 DEF Encap, Overhead, marlin_ipip_encap_packet, marlin_gue_encap_packet,
              marlin_vxlan_encap_packet
<1>4. FrameFitsIn(Overhead[be.mode], pkt.cfg.max_frame)
  BY <1>3 DEF Grow
<1> QED
  BY <1>1, <1>4 DEF FrameFitsIn

\* Selection of the backend, encapsulation and next hop keep the invariant.
LEMMA ForwardKeeps ==
    ASSUME PathInv, NEW fib \in setup.fibs, NEW room \in BOOLEAN, Forward(fib, room)
    PROVE  PathInv'
<1> DEFINE be == Backends[pkt.target]
           hop == Nexthop(be, fib)
           extra == IF be.mode = "l2dsr" THEN 0 ELSE Overhead[be.mode]
           out == [backend |-> pkt.target, by |-> pkt.by, dmac |-> hop.dmac,
                   len |-> pkt.frame.total + extra]
           down == [Nothing EXCEPT !.backend = pkt.target, !.by = pkt.by]
<1>1. setup' = setup /\ config' = config /\ trie' = trie /\ up' = up /\ pkt.pc = "load"
  BY DEF Forward, MapsUnchanged
<1>2. MapsOK'
  BY <1>1, SameMaps DEF PathInv
<1>3. /\ Fields /\ ParsedFrame /\ AclSeen /\ Admitted(pkt.frame, pkt.key)
      /\ Chosen(pkt.frame, pkt.key, pkt.cid_slot, pkt.by, pkt.target)
  BY <1>1 DEF PathInv, PacketOK
<1>4. ASSUME NEW d, LeftOK(d), done' = done \cup {d}, pkt' = NoPacket
      PROVE  PathInv'
  <2>1. DoneOK'
    BY <1>1, <1>4, OneMore DEF PathInv
  <2>2. PacketOK'
    BY <1>4 DEF PacketOK, NoPacket
  <2> QED
    BY <1>2, <2>1, <2>2 DEF PathInv
<1>5. CASE pkt.target = 0
  <2>1. Drop("NO_BACKEND")
    BY <1>5 DEF Forward
  <2> QED
    BY <1>3, <1>4, <2>1, Dropped DEF Drop, Leave, ParsedFrame, Sent, Passed
<1>6. CASE pkt.target # 0 /\ pkt.target \notin up
  <2> DEFINE d == Fate(pkt, "BACKEND_DOWN", down)
  <2>1. done' = done \cup {d} /\ pkt' = NoPacket
    BY <1>6 DEF Forward, Leave
  <2>2. /\ d.verdict = "BACKEND_DOWN" /\ d.frame = pkt.frame /\ d.key = pkt.key
        /\ d.by = pkt.by /\ d.backend = pkt.target /\ d.cid_slot = pkt.cid_slot
    BY DEF Fate, Nothing
  <2> HIDE DEF d
  <2>3. LeftOK(d)
    BY <1>3, <2>2 DEF LeftOK, Filtered, Delivered, LeftToHost, Sent, Passed, ParsedFrame
  <2> QED
    BY <1>4, <2>1, <2>3
<1>7. CASE pkt.target # 0 /\ pkt.target \in up /\ ~Validate(pkt.frame)
  <2>1. Drop("ENCAP_LENGTH")
    BY <1>7 DEF Forward
  <2> QED
    BY <1>3, <1>4, <2>1, Dropped DEF Drop, Leave, ParsedFrame, Sent, Passed
<1>8. CASE /\ pkt.target # 0 /\ pkt.target \in up /\ Validate(pkt.frame)
           /\ be.mode # "l2dsr" /\ Encap(be, room) # "OK"
  <2>1. Drop(Encap(be, room))
    BY <1>8 DEF Forward
  <2>2. Encap(be, room) \in {"FRAME_TOO_BIG", "ADJUST_HEAD", "MAP_BOUNDS"}
    BY <1>8 DEF Encap, Grow, marlin_ipip_encap_packet, marlin_gue_encap_packet,
                marlin_vxlan_encap_packet
  <2>3. Encap(be, room) \notin Sent \cup Passed \cup {"ACL_BLOCKED", "RATELIMITED"}
    BY <2>2 DEF Sent, Passed
  <2> QED
    BY <1>3, <1>4, <2>1, <2>3, Dropped DEF Drop, Leave, ParsedFrame
<1>9. CASE /\ pkt.target # 0 /\ pkt.target \in up /\ Validate(pkt.frame)
           /\ be.mode = "l2dsr" \/ Encap(be, room) = "OK"
  <2> DEFINE d == Fate(pkt, hop.verdict, out)
  <2>1. done' = done \cup {d} /\ pkt' = NoPacket
    BY <1>9 DEF Forward, Leave
  <2>2. pkt.target \in DOMAIN Backends
    BY <1>9 DEF PathInv, MapsOK
  <2>3. /\ hop.verdict \notin Passed \cup {"ACL_BLOCKED", "RATELIMITED"}
        /\ hop.verdict \in Sent /\ be.mode = "l2dsr" => hop.dmac = be.addr
    BY <2>2, NexthopDirect DEF PathInv
  <2>4. be.mode # "l2dsr" /\ pkt.cfg.max_frame # 0
        => pkt.frame.total + extra <= pkt.cfg.max_frame
    BY <1>3, <1>9, EncapFits DEF PathInv
  <2>5. /\ d.verdict = hop.verdict /\ d.frame = pkt.frame /\ d.key = pkt.key
        /\ d.by = pkt.by /\ d.backend = pkt.target /\ d.cid_slot = pkt.cid_slot
        /\ d.blocked = pkt.blocked /\ d.allowed = pkt.allowed
        /\ d.dmac = hop.dmac /\ d.len = pkt.frame.total + extra
        /\ d.max_frame = pkt.cfg.max_frame
    BY DEF Fate
  <2>6. be = Backends[d.backend]
    BY <2>5
  <2> HIDE DEF d, hop, extra, out, be
  <2>7. Filtered(d)
    BY <1>1, <1>3, <2>3, <2>5 DEF Filtered, AclSeen, Admitted
  <2>8. Delivered(d)
    BY <1>3, <2>3, <2>4, <2>5, <2>6 DEF Delivered, Chosen
  <2>9. LeftToHost(d)
    BY <2>3, <2>5 DEF LeftToHost
  <2>10. LeftOK(d)
    BY <1>3, <2>5, <2>7, <2>8, <2>9 DEF LeftOK, ParsedFrame
  <2> QED
    BY <1>4, <2>1, <2>10
<1> QED
  BY <1>5, <1>6, <1>7, <1>8, <1>9

(***************************************************************************)
(* The control plane's steps.                                               *)
(***************************************************************************)

\* A write that leaves the maps in order leaves the packet in progress in order.
LEMMA WitnessKeeps ==
    ASSUME PathInv, MapsOK', setup' = setup, done' = done, NEW flipped,
           \A c : c \notin flipped => (c \in up' <=> c \in up),
           Witness(trie', flipped)
    PROVE  PathInv'
<1>1. DoneOK'
  BY SameDone DEF PathInv
<1>2. CASE pkt.pc = "idle"
  <2>1. pkt' = pkt
    BY <1>2 DEF Witness
  <2> QED
    BY <1>1, <1>2, <2>1 DEF PathInv, PacketOK
<1>3. CASE pkt.pc # "idle"
  <2>1. /\ pkt.pc \in {"allow", "block", "vip", "cid", "load"}
        /\ Fields /\ ParsedFrame /\ RulesSeen /\ SlotSeen /\ AclSeen
        /\ pkt.pc \in {"cid", "load"} => Admitted(pkt.frame, pkt.key)
        /\ pkt.pc = "load" => Chosen(pkt.frame, pkt.key, pkt.cid_slot, pkt.by, pkt.target)
    BY <1>3 DEF PathInv, PacketOK
  <2>2. pkt' = [pkt EXCEPT !.blocked = @ /\ Blocked(pkt.frame, pkt.cfg, trie'),
                           !.allowed = @ /\ Allowed(pkt.frame, pkt.cfg, trie'),
                           !.cid_slot = IF pkt.frame.cid \in flipped THEN "flipped" ELSE @]
    BY <1>3 DEF Witness
  <2>3. /\ pkt'.blocked = (pkt.blocked /\ Blocked(pkt.frame, pkt.cfg, trie'))
        /\ pkt'.allowed = (pkt.allowed /\ Allowed(pkt.frame, pkt.cfg, trie'))
        /\ pkt'.cid_slot = IF pkt.frame.cid \in flipped THEN "flipped" ELSE pkt.cid_slot
    BY <2>1, <2>2 DEF Fields
  <2>4. /\ pkt'.pc = pkt.pc /\ pkt'.frame = pkt.frame /\ pkt'.cfg = pkt.cfg
        /\ pkt'.tuple = pkt.tuple /\ pkt'.flags = pkt.flags /\ pkt'.acl = pkt.acl
        /\ pkt'.key = pkt.key /\ pkt'.by = pkt.by /\ pkt'.target = pkt.target
    BY <2>1, <2>2 DEF Fields
  <2>5. Fields'
    BY <2>1, <2>2 DEF Fields
  <2>6. ParsedFrame'
    BY <2>1, <2>4 DEF ParsedFrame
  <2>7. RulesSeen'
    BY <2>3, <2>4 DEF RulesSeen, Blocked, Allowed, Listed
  <2>8. SlotSeen'
    BY <2>1, <2>3, <2>4 DEF SlotSeen
  <2>9. AclSeen'
    BY <2>1, <2>3, <2>4 DEF AclSeen, vips
  <2>10. pkt.pc \in {"cid", "load"} => Admitted(pkt.frame, pkt.key)'
    BY <2>1, <2>4, StaysAdmitted
  <2>11. pkt.pc = "load" => Chosen(pkt.frame, pkt.key, pkt.cid_slot, pkt.by, pkt.target)'
    <3> SUFFICES ASSUME pkt.pc = "load"
                 PROVE  Chosen(pkt.frame, pkt.key, pkt.cid_slot, pkt.by, pkt.target)'
      OBVIOUS
    <3>1. Chosen(pkt'.frame, pkt'.key, pkt'.cid_slot, pkt'.by, pkt'.target)
      BY <2>1, <2>3, <2>4 DEF Chosen
    <3> QED
      BY <3>1, StaysChosen
  <2> QED
    BY <1>1, <2>1, <2>4, <2>5, <2>6, <2>7, <2>8, <2>9, <2>10, <2>11 DEF PathInv, PacketOK
<1> QED
  BY <1>2, <1>3

\* write_config() under a packet keeps the invariant.
LEMMA WriteConfigKeeps ==
    ASSUME PathInv, NEW flags \in setup.flags, NEW lists \in setup.lists,
           NEW max \in setup.max_frames, WriteConfig(flags, lists, max)
    PROVE  PathInv'
<1>1. /\ setup' = setup /\ done' = done /\ trie' = trie /\ up' = up /\ pkt' = pkt
      /\ config' = [flags |-> flags, acl_lists |-> lists, max_frame |-> max]
  BY DEF WriteConfig, Write
<1>2. MapsOK'
  BY <1>1 DEF PathInv, MapsOK, Backends
<1>3. DoneOK'
  BY <1>1, SameDone DEF PathInv
<1>4. PacketOK'
  <2> SUFFICES ASSUME pkt.pc # "idle" PROVE PacketOK'
    BY <1>1 DEF PacketOK
  <2>1. /\ Fields /\ ParsedFrame /\ RulesSeen /\ SlotSeen /\ AclSeen
        /\ pkt.pc \in {"allow", "block", "vip", "cid", "load"}
        /\ pkt.pc \in {"cid", "load"} => Admitted(pkt.frame, pkt.key)
        /\ pkt.pc = "load" => Chosen(pkt.frame, pkt.key, pkt.cid_slot, pkt.by, pkt.target)
    BY DEF PathInv, PacketOK
  <2>2. Fields' /\ AclSeen'
    BY <1>1, <2>1 DEF Fields, AclSeen, vips
  <2>3. ParsedFrame' /\ RulesSeen' /\ SlotSeen'
    BY <1>1, <2>1, StaysParsed DEF SamePacket
  <2>4. pkt.pc \in {"cid", "load"} => Admitted(pkt.frame, pkt.key)'
    BY <1>1, <2>1, StaysAdmitted
  <2>5. pkt.pc = "load" => Chosen(pkt.frame, pkt.key, pkt.cid_slot, pkt.by, pkt.target)'
    BY <1>1, <2>1, StaysChosen
  <2> QED
    BY <1>1, <2>1, <2>2, <2>3, <2>4, <2>5 DEF PacketOK
<1> QED
  BY <1>2, <1>3, <1>4 DEF PathInv

\* A rule that comes or goes under a packet: its history says so.
LEMMA RuleKeeps ==
    ASSUME PathInv, NEW l \in AclLists, NEW s \in setup.sources,
           InsertRule(l, s) \/ DeleteRule(l, s)
    PROVE  PathInv'
<1>1. setup' = setup /\ done' = done /\ config' = config /\ up' = up /\ Witness(trie', {})
  BY DEF InsertRule, DeleteRule, Write
<1>2. MapsOK'
  BY <1>1 DEF PathInv, MapsOK, Backends, InsertRule, DeleteRule
<1> QED
  BY <1>1, <1>2, WitnessKeeps

\* A state bit that changes under a packet: its history says so.
LEMMA SetStateKeeps ==
    ASSUME PathInv, NEW b \in DOMAIN Backends, SetState(b)
    PROVE  PathInv'
<1>1. /\ setup' = setup /\ done' = done /\ config' = config /\ trie' = trie
      /\ up' = IF b \in up THEN up \ {b} ELSE up \cup {b}
      /\ Witness(trie, {b})
  BY DEF SetState, Write
<1>2. MapsOK'
  BY <1>1 DEF PathInv, MapsOK, Backends
<1>3. Witness(trie', {b})
  BY <1>1 DEF Witness
<1> QED
  BY <1>1, <1>2, <1>3, WitnessKeeps

(***************************************************************************)
(* The theorems.                                                            *)
(***************************************************************************)

\* Between any two lookups of a packet and any two writes of the control plane, the
\* packet's tuple is its frame's, its history agrees with the maps, and
\* everything said of the packets that left is true.
THEOREM PathInvariant == Spec => []PathInv
<1>1. Init => PathInv
  BY DEF Init, PathInv, MapsOK, PacketOK, DoneOK, NoPacket, AclLists
<1>2. PathInv /\ [Next]_vars => PathInv'
  <2> SUFFICES ASSUME PathInv, [Next]_vars PROVE PathInv'
    OBVIOUS
  <2>1. ASSUME NEW f \in setup.frames, Receive(f) PROVE PathInv'
    BY <2>1, ReceiveKeeps
  <2>2. CASE AclAllow
    BY <2>2, AclAllowKeeps
  <2>3. CASE AclBlock
    BY <2>3, AclBlockKeeps
  <2>4. ASSUME NEW over \in BOOLEAN, Admit(over) PROVE PathInv'
    BY <2>4, AdmitKeeps
  <2>5. CASE SelectBackend
    BY <2>5, SelectBackendKeeps
  <2>6. ASSUME NEW fib \in setup.fibs, NEW room \in BOOLEAN, Forward(fib, room) PROVE PathInv'
    BY <2>6, ForwardKeeps
  <2>7. ASSUME NEW flags \in setup.flags, NEW lists \in setup.lists, NEW max \in setup.max_frames,
               WriteConfig(flags, lists, max)
        PROVE  PathInv'
    BY <2>7, WriteConfigKeeps
  <2>8. ASSUME NEW l \in AclLists, NEW s \in setup.sources, InsertRule(l, s) \/ DeleteRule(l, s)
        PROVE  PathInv'
    BY <2>8, RuleKeeps
  <2>9. ASSUME NEW b \in DOMAIN Backends, SetState(b) PROVE PathInv'
    BY <2>9, SetStateKeeps
  <2>10. CASE UNCHANGED vars
    <3>1. /\ setup' = setup /\ config' = config /\ trie' = trie /\ up' = up /\ pkt' = pkt
          /\ done' = done
      BY <2>10 DEF vars
    <3>2. MapsOK' /\ DoneOK'
      BY <3>1, SameMaps, SameDone DEF PathInv
    <3>3. PacketOK'
      BY <3>1 DEF PathInv, PacketOK, Fields, ParsedFrame, RulesSeen, Blocked, Allowed, Listed, SlotSeen, AclSeen,
                  Admitted, SelectVip, vip_key, Chosen, HashTarget, vips, fwd_table
    <3> QED
      BY <3>2, <3>3 DEF PathInv
  <2> QED
    BY <2>1, <2>2, <2>3, <2>4, <2>5, <2>6, <2>7, <2>8, <2>9, <2>10 DEF Next, Packet, ControlPlane
<1> QED
  BY <1>1, <1>2, PTL DEF Spec

\* However rules and the config row change around a packet, one of a client that the copied
\* row and the rules block throughout is not forwarded by a VIP that enforces the ACL nor
\* passed on for want of a VIP, and one of an allowed client is neither blocked nor metered.
THEOREM FilterAlwaysHolds == Spec => []FilterHolds
<1>1. PathInv => FilterHolds
  BY DEF PathInv, DoneOK, LeftOK, Filtered, FilterHolds
<1> QED
  BY <1>1, PathInvariant, PTL

\* Whatever the FIB answers, a layer-2 frame is sent to the backend's own MAC.
THEOREM AlwaysDirect == Spec => []DirectDelivery
<1>1. PathInv => DirectDelivery
  BY DEF PathInv, DoneOK, LeftOK, Delivered, DirectDelivery
<1> QED
  BY <1>1, PathInvariant, PTL

\* No frame, in however many buffers it came, leaves longer than max_frame.
THEOREM FrameAlwaysFits == Spec => []FrameFits
<1>1. PathInv => FrameFits
  BY DEF PathInv, DoneOK, LeftOK, Delivered, FrameFits
<1> QED
  BY <1>1, PathInvariant, PTL

\* A connection ID is followed while its backend stays up and ignored while it stays
\* down, whatever happens to other slots and rules.
THEOREM QuicAlwaysHonoured == Spec => []QuicHonoured
<1>1. PathInv => QuicHonoured
  BY DEF PathInv, DoneOK, LeftOK, Chosen, QuicHonoured
<1> QED
  BY <1>1, PathInvariant, PTL

\* marlin_lb_select_vip() returns a key of the tuple, and misses only where the address
\* has no VIP for every port either.
LEMMA SelectedKey ==
    ASSUME NEW t
    PROVE  /\ SelectVip(t) # NoKey
              => SelectVip(t) \in DOMAIN vips \cap {vip_key(t, t.dport), vip_key(t, 0)}
           /\ vip_key(t, 0) \in DOMAIN vips => SelectVip(t) # NoKey
<1> DEFINE keys == <<vip_key(t, t.dport), vip_key(t, 0)>>
           hits == {i \in 1 .. 2 : keys[i] \in DOMAIN vips}
<1>1. SelectVip(t) = IF hits = {} THEN NoKey ELSE keys[Min(hits)]
  BY DEF SelectVip
<1>2. \A i \in 1 .. 2 : keys[i] # NoKey
  <2>1. ASSUME NEW port PROVE vip_key(t, port) # NoKey
    <3>1. Len(vip_key(t, port)) = 4 /\ Len(NoKey) = 0
      BY DEF vip_key, NoKey
    <3> QED
      BY <3>1
  <2>2. keys[1] # NoKey /\ keys[2] # NoKey
    BY <2>1
  <2> HIDE DEF keys
  <2> QED
    BY <2>2
<1>3. hits # {} => Min(hits) \in hits
  <2>1. hits \subseteq Nat
    OBVIOUS
  <2> HIDE DEF hits
  <2> QED
    BY <2>1, MinMember
<1>4. ASSUME hits # {}
      PROVE  /\ SelectVip(t) # NoKey
             /\ SelectVip(t) \in DOMAIN vips \cap {vip_key(t, t.dport), vip_key(t, 0)}
  <2> DEFINE i == Min(hits)
  <2>1. i \in 1 .. 2 /\ keys[i] \in DOMAIN vips /\ SelectVip(t) = keys[i]
    BY <1>1, <1>3, <1>4
  <2> HIDE DEF i
  <2> QED
    BY <1>2, <2>1
<1>5. vip_key(t, 0) \in DOMAIN vips => 2 \in hits
  OBVIOUS
<1> QED
  BY <1>1, <1>4, <1>5

\* Two frames of one connection under one key hash alike.
LEMMA SameInput ==
    ASSUME NEW f, NEW g, NEW k, IsFrame(f), IsFrame(g), Admitted(f, k), Admitted(g, k),
           FlowOf(f) = FlowOf(g)
    PROVE  HashTarget(f, k) = HashTarget(g, k)
<1> DEFINE t == marlin_parse(f).tuple
           u == marlin_parse(g).tuple
           vf == vips[k].flags
<1>1. TupleShows(f) /\ TupleShows(g)
  BY ParsedTuple DEF Admitted
<1>2. t.src = u.src /\ t.dst = u.dst /\ t.proto = u.proto
  BY <1>1 DEF TupleShows
<1>3. t.family = u.family
  <2>1. /\ k \in {vip_key(t, t.dport), vip_key(t, 0)}
        /\ k \in {vip_key(u, u.dport), vip_key(u, 0)}
    BY SelectedKey DEF Admitted
  <2> HIDE DEF t, u
  <2>2. k[1] = t.family /\ k[1] = u.family
    BY <2>1 DEF vip_key
  <2> QED
    BY <2>2
<1>4. "HASH_5TUPLE" \in vf \/ "HASH_PORTS" \in vf => t.sport = u.sport /\ t.dport = u.dport
  <2> SUFFICES ASSUME "HASH_5TUPLE" \in vf \/ "HASH_PORTS" \in vf
               PROVE  t.sport = u.sport /\ t.dport = u.dport
    OBVIOUS
  <2>1. "FRAG" \notin marlin_parse(f).flags /\ "FRAG" \notin marlin_parse(g).flags
    BY DEF Admitted, CheckFrag, FRAG_ANY
  <2> QED
    BY <1>1, <2>1 DEF TupleShows
<1>5. HashInput(vf, t) = HashInput(vf, u)
  <2> HIDE DEF t, u, vf
  <2> QED
    BY <1>2, <1>3, <1>4 DEF HashInput
<1> QED
  BY <1>5 DEF HashTarget

\* Packets, fragments and ICMP errors of a connection that the hash forwards under one
\* key go to one backend: for every hash, every table and all extension headers.
THEOREM FlowAlwaysTogether == Spec => []FlowAffinity
<1>1. PathInv => FlowAffinity
  <2> SUFFICES ASSUME PathInv, NEW p \in done, NEW q \in done,
                      p.verdict \in Sent, q.verdict \in Sent, p.by = "hash", q.by = "hash",
                      p.key = q.key, FlowOf(p.frame) = FlowOf(q.frame)
               PROVE  p.backend = q.backend
    BY DEF FlowAffinity
  <2>1. LeftOK(p) /\ LeftOK(q)
    BY DEF PathInv, DoneOK
  <2>2. IsFrame(p.frame) /\ IsFrame(q.frame)
    BY <2>1, FrameKnown DEF PathInv, LeftOK
  <2>3. Admitted(p.frame, p.key) /\ Admitted(q.frame, p.key)
    BY <2>1 DEF LeftOK, Delivered
  <2>4. p.backend = HashTarget(p.frame, p.key) /\ q.backend = HashTarget(q.frame, p.key)
    BY <2>1 DEF LeftOK, Chosen
  <2> QED
    BY <2>2, <2>3, <2>4, SameInput
<1> QED
  BY <1>1, PathInvariant, PTL

\* Of two frames to one address and protocol, not one is sent and the other left to
\* the host, where the address has only a VIP for every port.
LEMMA NeverSplit ==
    ASSUME PathInv, NEW p \in done, NEW q \in done, p.verdict \in Sent, q.verdict \in Passed,
           p.frame.family = q.frame.family, p.frame.dst = q.frame.dst,
           p.frame.proto = q.frame.proto, p.frame.proto \in WithPorts,
           \A k \in DOMAIN vips : k[2] = p.frame.dst => k[4] = 0
    PROVE  FALSE
<1> DEFINE t == marlin_parse(p.frame).tuple
           u == marlin_parse(q.frame).tuple
<1>1. LeftOK(p) /\ LeftOK(q)
  BY DEF PathInv, DoneOK
<1>2. IsFrame(p.frame) /\ IsFrame(q.frame)
  BY <1>1, FrameKnown DEF PathInv, LeftOK
<1>3. Admitted(p.frame, p.key)
  BY <1>1 DEF LeftOK, Delivered
<1>4. p.frame.family # "other" /\ TupleShows(p.frame)
  BY <1>2, <1>3, ParsedTuple DEF Admitted
<1>5. marlin_parse(q.frame).rc = "OK" /\ SelectVip(u) = NoKey
  BY <1>1, <1>4 DEF LeftOK, LeftToHost
<1>6. TupleShows(q.frame)
  BY <1>2, <1>5, ParsedTuple
<1>7. ~IsIcmp(p.frame.family, p.frame.proto)
  BY DEF IsIcmp, WithPorts
<1>8. /\ t.family = u.family /\ t.dst = p.frame.dst /\ u.dst = p.frame.dst
      /\ t.proto = u.proto
  BY <1>4, <1>6, <1>7 DEF TupleShows, FlowOf
<1>9. p.key \in DOMAIN vips /\ p.key \in {vip_key(t, t.dport), vip_key(t, 0)}
  BY <1>3, SelectedKey DEF Admitted
<1> HIDE DEF t, u
<1>10. p.key = vip_key(t, 0)
  <2>1. p.key[2] = p.frame.dst
    BY <1>8, <1>9 DEF vip_key
  <2>2. p.key[4] = 0
    BY <1>9, <2>1
  <2> QED
    BY <1>9, <2>2 DEF vip_key
<1>11. vip_key(u, 0) = p.key
  BY <1>8, <1>10 DEF vip_key
<1> QED
  BY <1>5, <1>9, <1>11, SelectedKey

\* The fragments of a datagram to an address with a VIP for every port are not divided
\* between a backend and the host, however their headers are arranged.
THEOREM HalvesAlwaysTogether == Spec => []HalvesTogether
<1>1. PathInv => HalvesTogether
  <2> SUFFICES ASSUME PathInv, NEW p \in done, NEW q \in done,
                      SameDatagram(p.frame, q.frame), p.frame.proto \in WithPorts,
                      \A k \in DOMAIN vips : k[2] = p.frame.dst => k[4] = 0
               PROVE  /\ ~(p.verdict \in Sent /\ q.verdict \in Passed)
                      /\ ~(p.verdict \in Passed /\ q.verdict \in Sent)
    BY DEF HalvesTogether
  <2>1. LeftOK(p)
    BY DEF PathInv, DoneOK
  <2>2. IsFrame(p.frame)
    BY <2>1, FrameKnown DEF PathInv, LeftOK
  <2>3. /\ p.frame.family = q.frame.family /\ p.frame.dst = q.frame.dst
        /\ p.frame.proto = q.frame.proto
    BY <2>2 DEF SameDatagram, IsFrame
  <2> QED
    BY <2>3, NeverSplit
<1> QED
  BY <1>1, PathInvariant, PTL
=============================================================================
