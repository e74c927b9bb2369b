----------------------------- MODULE FwdMembers -----------------------------
(***************************************************************************)
(* One VIP's block of fwd_table over a series of reloads: each reload gives  *)
(* the VIP some list of members (any order, any weights) and write_vip()    *)
(* regenerates the block from it with fwd_gen_block(); nothing remembers     *)
(* the list before.  What consistent hashing promises is a relation between *)
(* the blocks of successive lists.                                          *)
(***************************************************************************)
EXTENDS FwdGen, SequencesExt

CONSTANTS
    MemberLists,   \* the member lists a configuration may give the VIP
    Scale,         \* normalise() returns 1 .. Scale of Scale; in the code 2^53
    MaxWeight      \* the largest weight, UINT32_MAX in the code

\* What conf_check() and parse_vip_member() let through: a backend is a member once,
\* its id is a slot and its weight is not 0.
ASSUME MemberListsAssumption ==
    \A ms \in MemberLists :
        /\ ms \in Seq(Range(ms))
        /\ \A i \in DOMAIN ms : ms[i].id \in Nat \ {0} /\ ms[i].weight \in 1 .. MaxWeight
        /\ \A i, j \in DOMAIN ms : i # j => ms[i].id # ms[j].id

\* A digest is what fills normalise()'s range; log() and the division by the weight
\* keep the order of their arguments, though they may round different ones to the
\* same double.
ASSUME ScoreAssumption ==
    /\ TableSize \in Nat /\ Coarse \in Nat \ {0} /\ Scale \in Nat \ {0} /\ MaxWeight \in Nat \ {0}
    /\ \A ms \in MemberLists : \A i \in DOMAIN ms : \A row \in Row :
          Digest(row, ms[i].ident) \in 0 .. Scale * Coarse - 1
    /\ \A n \in 1 .. Scale, w \in 1 .. MaxWeight : Score(n, w) \in Int
    /\ \A n, o \in 1 .. Scale, w, x \in 1 .. MaxWeight :
          n <= o /\ w <= x => Score(n, w) <= Score(o, x)

VARIABLES members, block

vars == <<members, block>>

Init == members = <<>> /\ block = fwd_gen_block(<<>>)

\* write_vip()'s regeneration of the block.
Regenerate(ms) == members' = ms /\ block' = fwd_gen_block(ms)

\* conf_check_against_previous(): a backend of both lists is the one it was.
SameIdentities(ms) ==
    \A m \in Range(members), n \in Range(ms) : m.id = n.id => m.ident = n.ident

Next == \E ms \in MemberLists : SameIdentities(ms) /\ Regenerate(ms)

Spec == Init /\ [][Next]_vars

-----------------------------------------------------------------------------

\* The weight of a backend in a list, 0 if it is not a member.
WeightIn(ms, id) ==
    IF \E m \in Range(ms) : m.id = id THEN (CHOOSE m \in Range(ms) : m.id = id).weight ELSE 0

\* The digests of a row that pick_row_equal_weight() tells apart but
\* pick_row_weighted(), at one weight, does not.
Collides(ms, row) ==
    \E m, n \in Range(ms) :
        /\ m.weight = n.weight /\ Digest(row, m.ident) # Digest(row, n.ident)
        /\ Score(Normalise(Digest(row, m.ident)), m.weight) = Score(Normalise(Digest(row, n.ident)), n.weight)

\* A row moves only away from a backend that left or lost weight, or to one that
\* joined or gained weight: rows never move between two backends that a reload
\* leaves as they are, and the order of the members does not matter.  Stated
\* for the rows in which fwd_gen.c's two comparisons see the same order.
MinimalDisruption ==
    [][\A row \in Row :
          block'[row] # block[row] =>
             \/ WeightIn(members', block[row]) < WeightIn(members, block[row])
             \/ WeightIn(members', block'[row]) > WeightIn(members, block'[row])
             \/ Collides(members, row) \/ Collides(members', row)]_vars
=============================================================================
