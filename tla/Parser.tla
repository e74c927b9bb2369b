------------------------------- MODULE Parser -------------------------------
(***************************************************************************)
(* bpf/parser.c: from a frame to the tuple and flags that the rest of the   *)
(* datapath works on.                                                       *)
(*                                                                         *)
(* A frame is a record of what its headers say:                             *)
(*   family      "v4", "v6", or "other" for any other EtherType             *)
(*   ext         the chain of IPv6 extension headers (<<>> for IPv4), each  *)
(*               "opt" or a Fragment header "whole", "first" or "tail"      *)
(*   frag        the same for the IPv4 fragment field                       *)
(*   src, dst, proto, sport, dport                                          *)
(*   type        of an ICMP message: "error", "echo" or "other"             *)
(*   quote       the headers quoted by an ICMP error, a record like this    *)
(*   cut         where the frame ends too early: "eth", "l3", "l4", "quote" *)
(*               or "none"                                                  *)
(*   short       a UDP payload that opens with a QUIC short header          *)
(* Addresses and ports are numbers; 0 is what memset() leaves in a tuple.   *)
(***************************************************************************)
EXTENDS Integers, Sequences, FiniteSetsExt

CONSTANTS
    MaxExt,       \* MAX_EXT_HDRS
    MaxEmbExt     \* MARLIN_ICMP_EMB_EXT_HDRS

ASSUME ParserAssumption == MaxExt \in Nat /\ MaxEmbExt \in 0 .. MaxExt

Unsupported == {"esp", "ah"}     \* marlin_proto_unsupported()
WithPorts == {"tcp", "udp", "sctp"}     \* marlin_proto_has_ports()

\* marlin_proto_is_icmp().
IsIcmp(family, proto) == <<family, proto>> \in {<<"v4", "icmp">>, <<"v6", "icmp6">>}

FRAG_ANY == {"FRAG", "FRAG_FIRST"}

\* marlin_parse_frag4() and marlin_parse_frag6().
FragFlag(f) == CASE f = "tail" -> {"FRAG"} [] f = "first" -> {"FRAG_FIRST"} [] OTHER -> {}

\* Mutated form of WalkExt6: an extension header behind a Fragment header is
\* not noted.
WalkExt6Blind(chain, proto, max) ==
    LET tails == {i \in DOMAIN chain : chain[i] = "tail"}
        last == IF tails = {} THEN Len(chain) ELSE Min(tails)
    IN [rc |-> IF last > max THEN "EXT_HDR_LIMIT"
               ELSE IF tails = {} /\ proto \in Unsupported THEN "UNSUPPORTED_PROTO" ELSE "OK",
        proto |-> IF last < Len(chain) THEN chain[last + 1] ELSE proto,
        flags |-> UNION {FragFlag(chain[i]) : i \in 1 .. last},
        frag_ext |-> FALSE]

\* marlin_walk_ext6(): up to the upper-layer header, or to the Fragment header
\* of a tail, whose next header is then taken for the protocol.  frag_ext: a
\* fragment's Fragment header is followed by another extension header.
WalkExt6(chain, proto, max) ==
    LET tails == {i \in DOMAIN chain : chain[i] = "tail"}
        last == IF tails = {} THEN Len(chain) ELSE Min(tails)
    IN [rc |-> IF last > max THEN "EXT_HDR_LIMIT"
               ELSE IF tails = {} /\ proto \in Unsupported THEN "UNSUPPORTED_PROTO" ELSE "OK",
        proto |-> IF last < Len(chain) THEN chain[last + 1] ELSE proto,
        flags |-> UNION {FragFlag(chain[i]) : i \in 1 .. last},
        frag_ext |-> \E i \in 1 .. last :
                        /\ chain[i] # "opt" /\ i < Len(chain)
                        /\ \E j \in 1 .. i : chain[j] \in {"first", "tail"}]

\* marlin_parse_l3() of an untruncated header.
ParseL3(w, family, max) ==
    IF family = "v4"
    THEN [rc |-> "OK", proto |-> w.proto, flags |-> FragFlag(w.frag), frag_ext |-> FALSE]
    ELSE WalkExt6(w.ext, w.proto, max)

\* marlin_parse_ports(): what it returns.
ParsePorts(proto, cut) ==
    IF proto \in Unsupported THEN "UNSUPPORTED_PROTO"
    ELSE IF proto \notin WithPorts THEN "NOT_FORWARDED"
    ELSE IF cut THEN "PARSE_ERROR" ELSE "OK"

\* Headers that can be on a wire: an ICMP error quotes headers of its own family.
IsFrame(f) ==
    /\ {"family", "ext", "frag", "src", "dst", "proto", "sport", "dport", "type", "quote", "cut",
        "short"} \subseteq DOMAIN f
    /\ f.family \in {"v4", "v6", "other"}
    /\ f.ext \in Seq({"opt", "whole", "first", "tail"})
    /\ IsIcmp(f.family, f.proto) /\ f.type = "error"
       => f.quote.ext \in Seq({"opt", "whole", "first", "tail"})

\* A parse that ends early, with nothing for the load balancer.
Ends(rc) == [rc |-> rc]

Parsed(family, proto, src, dst, sport, dport, flags) ==
    [rc |-> "OK", flags |-> flags,
     tuple |-> [family |-> family, proto |-> proto, src |-> src, dst |-> dst,
                sport |-> sport, dport |-> dport]]

\* marlin_parse_icmp(): an error is steered like the flow it is about, which the
\* quoted reply shows reversed.
ParseIcmp(w, flags) ==
    LET q == w.quote
        l3 == ParseL3(q, w.family, MaxEmbExt)
    IN IF w.cut = "l4" THEN Ends("PARSE_ERROR")
       ELSE IF w.type # "error"
       THEN Ends(IF w.type = "echo" THEN "ICMP_ECHO" ELSE "NOT_FORWARDED")
       ELSE IF \/ w.cut = "quote" \/ l3.rc # "OK" \/ "FRAG" \in l3.flags
               \/ ParsePorts(l3.proto, q.cut = "l4") # "OK"
       THEN Ends("ICMP_UNPARSEABLE")
       ELSE Parsed(w.family, l3.proto, q.dst, q.src, q.dport, q.sport, flags \cup {"ICMP"})

\* marlin_parse_quic(): the flag it returns for a UDP packet.
QuicFlag(w, proto) == IF proto = "udp" /\ w.short THEN {"QUIC"} ELSE {}

\* marlin_parse().
marlin_parse(w) ==
    LET l3 == ParseL3(w, w.family, MaxExt)
        ports == ParsePorts(l3.proto, w.cut = "l4")
    IN IF w.cut = "eth" THEN Ends("PARSE_ERROR")
       ELSE IF w.family = "other" THEN Ends("NOT_FORWARDED")
       ELSE IF w.cut = "l3" THEN Ends("PARSE_ERROR")
       ELSE IF l3.rc # "OK" THEN Ends(l3.rc)
       ELSE IF l3.proto \in Unsupported \/ l3.frag_ext THEN Ends("UNSUPPORTED_PROTO")
       ELSE IF "FRAG" \in l3.flags
       THEN IF IsIcmp(w.family, l3.proto) THEN Ends("NOT_FORWARDED")
            ELSE Parsed(w.family, l3.proto, w.src, w.dst, 0, 0, l3.flags)
       ELSE IF IsIcmp(w.family, l3.proto) THEN ParseIcmp(w, l3.flags)
       ELSE IF ports # "OK" THEN Ends(ports)
       ELSE Parsed(w.family, l3.proto, w.src, w.dst, w.sport, w.dport,
                   l3.flags \cup QuicFlag(w, l3.proto))
=============================================================================
