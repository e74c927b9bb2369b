---------------------------- MODULE MCDatapath ------------------------------
(***************************************************************************)
(* Small instances of Datapath.                                             *)
(***************************************************************************)
EXTENDS Datapath, TLC

Vip == 9     \* the address of the VIPs
Transit == 7  \* a router on the way to a client

\* Two rows: neighbouring ports and neighbouring addresses take different ones.
\* (The elements from the fifth on are names.)
MCRowOf(s) == MapThenSumSet(LAMBDA i : s[i], DOMAIN s \cap 1 .. 4) % 2

Packet0 ==
    [family |-> "v4", ext |-> <<>>, frag |-> "whole", src |-> 1, dst |-> Vip, proto |-> "udp",
     sport |-> 6, dport |-> 3, type |-> "none", quote |-> <<>>, cut |-> "none",
     short |-> FALSE, cid |-> 0, linear |-> 100, total |-> 100]

\* The ICMP error a router sends about a backend's reply to f.
ErrorAbout(f) ==
    [f EXCEPT !.src = Transit, !.proto = IF f.family = "v4" THEN "icmp" ELSE "icmp6",
              !.sport = 0, !.dport = 0, !.type = "error", !.frag = "whole", !.ext = <<>>,
              !.quote = [f EXCEPT !.src = f.dst, !.dst = f.src,
                                  !.sport = f.dport, !.dport = f.sport]]

Chains(n) == UNION {[1 .. k -> {"opt", "first", "tail", "whole"}] : k \in 0 .. n}

Fragments == {[Packet0 EXCEPT !.frag = fr] : fr \in {"whole", "first", "tail"}}

V6 == [Packet0 EXCEPT !.family = "v6"]

Chained == {[V6 EXCEPT !.ext = c] : c \in Chains(2)} \cup {[V6 EXCEPT !.ext = <<"opt", "opt", "opt">>]}

Quic == {[Packet0 EXCEPT !.short = TRUE, !.cid = c, !.frag = fr] :
             c \in {0, 1, 2, 3, 8}, fr \in {"whole", "first"}}

Errors == {ErrorAbout(f) : f \in Fragments \cup {[V6 EXCEPT !.ext = c] : c \in Chains(1)}}

\* What never reaches the load balancer.
Strays == {[Packet0 EXCEPT !.cut = c] : c \in {"eth", "l3", "l4"}}
          \cup {[Packet0 EXCEPT !.proto = p] : p \in {"esp", "ah", "gre"}}
          \cup {[ErrorAbout(V6) EXCEPT !.type = t] : t \in {"echo", "other"}}
          \cup {[Packet0 EXCEPT !.family = "other"], [ErrorAbout(V6) EXCEPT !.cut = "quote"],
                [ErrorAbout(Packet0) EXCEPT !.frag = "tail"]}

SteerFrames == Fragments \cup Chained \cup Quic \cup Errors \cup Strays
               \cup {[Packet0 EXCEPT !.dport = 4]}

Key(family, port) == <<family, Vip, "udp", port>>

Meta(num, flags) == [vip_num |-> num, flags |-> flags]

Both(port, num, flags) == [k \in {Key("v4", port), Key("v6", port)} |-> Meta(num, flags)]

\* A VIP of its own for port 3, beside one for every port, or either alone.
SteerVips ==
    {Both(0, 0, flags) : flags \in {{}, {"HASH_5TUPLE"}, {"HASH_PORTS"}, {"QUIC"}}}
    \cup {Both(3, 0, {"HASH_5TUPLE", "QUIC"}), Both(3, 1, {}) @@ Both(0, 0, {"HASH_PORTS"})}

Block(even, odd) == [row \in 0 .. 1 |-> IF row = 0 THEN even ELSE odd]

SteerTable == [n \in 0 .. 1 |-> Block(1, 2)]

Slot(mode, id, mac, fib) == [mode |-> mode, addr |-> id, mac |-> mac, fib |-> fib]

SteerBackends == [id \in 1 .. 2 |-> Slot("l2dsr", id, id, FALSE)]

Fib(rc, onlink, back, port) == [rc |-> rc, onlink |-> onlink, back |-> back, port |-> port]

OneFib == {Fib("SUCCESS", TRUE, TRUE, TRUE)}

Host(frames, vips_, table, slots, fibs, flags, lists, max_frames, sources, packets, writes_) ==
    [frames |-> frames, vips |-> vips_, fwd_table |-> table, backends |-> slots, fibs |-> fibs,
     flags |-> flags, lists |-> lists, max_frames |-> max_frames, sources |-> sources,
     packets |-> packets, writes |-> writes_]

NoLists == {{}}

Steer == {Host(SteerFrames, v, SteerTable, SteerBackends, OneFib, {{}}, NoLists, {0}, {}, 2, 1) :
             v \in SteerVips}

(***************************************************************************)
(* Filtering and limiting.                                                  *)
(***************************************************************************)
FilterFrames ==
    Fragments \cup {ErrorAbout(Packet0), ErrorAbout(V6), V6, [Packet0 EXCEPT !.src = 2]}
    \cup {[Packet0 EXCEPT !.dst = 8], [Packet0 EXCEPT !.dport = 4], [Packet0 EXCEPT !.proto = "gre"]}
    \cup {[ErrorAbout(Packet0) EXCEPT !.src = 1, !.type = "echo"]}

FilterVips ==
    {Both(3, 0, {"ACL", "RATELIMIT"}) @@ Both(0, 1, flags) : flags \in {{}, {"ACL"}}}

\* acl_lists: the lists of some kinds for both families, and all of one family.
FilterLists ==
    {kinds \X {"v4", "v6"} : kinds \in SUBSET {"allow", "block"}} \cup {{"allow", "block"} \X {"v4"}}

Filter == {Host(FilterFrames, v, SteerTable, SteerBackends, OneFib,
                {{"RL"}, {"ACL", "RL"}}, FilterLists, {0}, {1}, 1, 2) : v \in FilterVips}

(***************************************************************************)
(* Sending: every way a backend can be set up, every answer of the FIB.     *)
(***************************************************************************)
DeliverFrames ==
    {[Packet0 EXCEPT !.linear = n, !.total = n] : n \in {13, 90, 91, 100}}
    \cup {[Packet0 EXCEPT !.linear = 90, !.total = 140]}

DeliverTables == {[n \in {0} |-> Block(b, b)] : b \in 0 .. 7}

DeliverBackends ==
    [id \in 1 .. 7 |-> CASE id = 1 -> Slot("l2dsr", id, id, FALSE)
                         [] id = 2 -> Slot("l2dsr", id, 0, FALSE)
                         [] id = 3 -> Slot("l2dsr", id, id, TRUE)
                         [] id = 4 -> Slot("l2dsr", id, 0, TRUE)
                         [] id = 5 -> Slot("ipip", id, 0, TRUE)
                         [] id = 6 -> Slot("gue", id, 0, FALSE)
                         [] id = 7 -> Slot("vxlan", id, 0, TRUE)]

AllFibs == [rc : {"SUCCESS", "NO_NEIGH", "UNREACHABLE"}, onlink : BOOLEAN,
            back : BOOLEAN, port : BOOLEAN]

Deliver == {Host(DeliverFrames, Both(0, 0, {"HASH_5TUPLE"}), t, DeliverBackends, AllFibs, {{}},
                 NoLists, {0, 122, 140}, {}, 1, 1) : t \in DeliverTables}

Hosts == Steer \cup Filter \cup Deliver
=============================================================================
