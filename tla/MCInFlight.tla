---------------------------- MODULE MCInFlight ------------------------------
(***************************************************************************)
(* A small instance of InFlight.                                            *)
(***************************************************************************)
EXTENDS InFlight, TLC

CONSTANTS a, b, c

MCDigest(row, ident) == (ident * 3 + row * 5) % 8

\* Every weight is 1: no scores are compared.
MCScore(n, weight) == n

ListsOfConfs == {EntryKeys(cf) : cf \in Confs}

NoBaselines == {}

Vip(keys, ids) ==
    [keys |-> keys, members |-> [i \in DOMAIN ids |-> [id |-> ids[i], weight |-> 1]]]

\* Backend 1 is always up, 2 always down and 3 as the file says.
Slot(i, up) == [ident |-> i, mac |-> i, encap |-> FALSE, up |-> up]

Bes(states) == [i \in DOMAIN states |-> [slot |-> Slot(i, states[i]), egress |-> FALSE]]

Conf(vips, states) ==
    [vips |-> vips, backends |-> Bes(states), acl |-> [l \in Lists |-> {}], tx_ports |-> {},
     max_frame |-> "nonzero"]

\* The VIP of a is the same in all three, at another place in the file; around it a
\* group is split, and its addresses and a backend, which goes down first, go.
Grouped == Conf(<<Vip(<<b, c>>, <<3>>), Vip(<<a>>, <<1, 2>>)>>, <<TRUE, FALSE, TRUE>>)
Split   == Conf(<<Vip(<<c>>, <<2>>), Vip(<<b>>, <<3>>), Vip(<<a>>, <<1, 2>>)>>, <<TRUE, FALSE, FALSE>>)
Alone   == Conf(<<Vip(<<a>>, <<1, 2>>)>>, <<TRUE, FALSE>>)

FlightConfs == {Grouped, Split, Alone}

\* b is a port of the address of a, which is served on any port.
Ports == [k \in Key |-> IF k = b THEN a ELSE k]
=============================================================================
