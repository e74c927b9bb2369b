------------------------------- MODULE FwdGen -------------------------------
(***************************************************************************)
(* The forwarding-table generator of marlind/fwd_gen.c: every row of a      *)
(* VIP's block goes to the member with the highest rendezvous score.        *)
(*                                                                         *)
(* A member is a record [id, ident, weight]: ident stands for the hashed    *)
(* identity (addr, vni, inner_mac).  SipHash and log() are external and     *)
(* enter as the constant operators Digest(row, ident) and Score(n, weight); *)
(* the VIP's table_seed is fixed.                                           *)
(***************************************************************************)
EXTENDS Integers, Sequences

CONSTANTS
    TableSize,      \* TABLE_SIZE: rows of a block
    Digest(_, _),   \* marlind_siphash() of a row and a member identity
    Coarse,         \* normalise() keeps digest \div Coarse; in the code 2^11
    Score(_, _)     \* log(n / 2^53) / weight as a double, rounded as it is: only its order is used

NO_BACKEND == 0     \* MARLIN_NO_BACKEND

Row == 0 .. (TableSize - 1)

\* normalise(): the numerator of u, which is in (0, 1].
Normalise(d) == (d \div Coarse) + 1

\* Mutated form of BeatsByDigest: the earlier member keeps a tie.
BeatsByDigestFirst(row, m, best) == Digest(row, m.ident) > Digest(row, best.ident)

\* The comparison of pick_row_equal_weight(); ties go to the lower id.
BeatsByDigest(row, m, best) ==
    \/ Digest(row, m.ident) > Digest(row, best.ident)
    \/ Digest(row, m.ident) = Digest(row, best.ident) /\ m.id < best.id

\* The comparison of pick_row_weighted(); ties go to the lower id.
BeatsByScore(row, m, best) ==
    LET score(x) == Score(Normalise(Digest(row, x.ident)), x.weight)
    IN \/ score(m) > score(best)
       \/ score(m) = score(best) /\ m.id < best.id

EqualWeight(members) == \A i \in DOMAIN members : members[i].weight = members[1].weight

Beats(equal, row, m, best) ==
    IF equal THEN BeatsByDigest(row, m, best) ELSE BeatsByScore(row, m, best)

\* pick_row_equal_weight() and pick_row_weighted(): one scan over the members.
PickRow(members, row) ==
    LET best[i \in DOMAIN members] ==
            IF i = 1 THEN members[1]
            ELSE IF Beats(EqualWeight(members), row, members[i], best[i - 1])
                 THEN members[i] ELSE best[i - 1]
    IN best[Len(members)].id

\* fwd_gen_block(): the whole block; a VIP without members drops everything.
fwd_gen_block(members) ==
    [row \in Row |-> IF members = <<>> THEN NO_BACKEND ELSE PickRow(members, row)]
=============================================================================
