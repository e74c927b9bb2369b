---------------------------- MODULE MCReconcile -----------------------------
(***************************************************************************)
(* Small instances of Reconcile.                                            *)
(***************************************************************************)
EXTENDS ReconcileRefines, TLC

CONSTANTS a, b, c, d, r1, r2, r3, p1, p2, p3

\* Digests chosen so that two members share a table's two rows and either of
\* them alone takes both.
MCDigest(row, ident) == (ident * 3 + row * 5) % 8

\* Every weight is 1: no scores are compared.
MCScore(n, weight) == n

ListsOfConfs == {EntryKeys(cf) : cf \in Confs}

NoBaselines == {}

Slot(ident) == [ident |-> ident, mac |-> ident, encap |-> FALSE, up |-> TRUE]

Backend(slot) == [slot |-> slot, egress |-> FALSE]

Member(id) == [id |-> id, weight |-> 1]

Vip(keys, ids) == [keys |-> keys, members |-> [i \in DOMAIN ids |-> Member(ids[i])]]

NoRules == [l \in Lists |-> {}]

Conf(vips, bes, acl, tx) ==
    [vips |-> vips, backends |-> bes, acl |-> acl, tx_ports |-> tx, max_frame |-> "derived"]

Unchecked(cf) == [cf EXCEPT !.max_frame = "zero"]

B1 == 1 :> Backend(Slot(1))
B2 == 2 :> Backend(Slot(2))
B3 == 3 :> Backend(Slot(3))

(***************************************************************************)
(* Regrouping: two groups of two addresses, their exchange (a dependency     *)
(* cycle), a merge, and a configuration without one of the backends.        *)
(***************************************************************************)
Pairs   == Conf(<<Vip(<<a, b>>, <<1>>), Vip(<<c, d>>, <<2, 3>>)>>, B1 @@ B2 @@ B3, NoRules, {})
Crossed == Conf(<<Vip(<<a, c>>, <<1>>), Vip(<<b, d>>, <<2>>)>>, B1 @@ B2, NoRules, {})
Merged  == Conf(<<Vip(<<a, b, c>>, <<3>>)>>, B3, NoRules, {})

RegroupConfs == {Pairs, Crossed, Merged}

(***************************************************************************)
(* Access lists and ports at their limits, one VIP that is replaced by       *)
(* another when vip_map has a single row, an encapsulating and a plain       *)
(* backend, max_frame derived and stated as 0: lists that appear, change by  *)
(* one rule, fill their trie with other rules, and vanish.                   *)
(***************************************************************************)
Rules(block4, block6) ==
    [l \in Lists |-> CASE l = "block_v4" -> block4 [] l = "block_v6" -> block6 [] OTHER -> {}]

Tunnel == 2 :> Backend([ident |-> 2, mac |-> 0, encap |-> TRUE, up |-> TRUE])

OneVip(id) == <<Vip(<<a>>, <<id>>)>>

Open    == Conf(OneVip(1), B1, NoRules, {p1})
Guarded == Unchecked(Conf(OneVip(1), B1 @@ Tunnel, Rules({r1, r2}, {}), {p1, p2}))
Swapped == Conf(<<Vip(<<b>>, <<2>>)>>, Tunnel, Rules({r2, r3}, {r1}), {p1, p3})

\* The first with an egress interface stated for its backend.
EgressConf == Conf(OneVip(1), 1 :> [slot |-> Slot(1), egress |-> TRUE], NoRules, {p1})

AclConfs == {Open, Guarded, Swapped, EgressConf}

(***************************************************************************)
(* Instances for the statements the code does not keep.                     *)
(***************************************************************************)
EgressConfs == {Open, EgressConf}

Both == Conf(<<Vip(<<a>>, <<1, 2>>)>>, B1 @@ B2, NoRules, {})
Only == Conf(OneVip(1), B1, NoRules, {})

\* The second adds backend 2; the third adds it at another address.
Moved == Conf(<<Vip(<<a>>, <<1, 2>>)>>, B1 @@ (2 :> Backend(Slot(3))), NoRules, {})

ReaddressConfs == {Only, Both, Moved}
=============================================================================
