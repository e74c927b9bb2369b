---------------------------- MODULE MCFwdMembers ----------------------------
(***************************************************************************)
(* Three backends; every combination of their digests occurs in some row.   *)
(***************************************************************************)
EXTENDS FwdMembers, FiniteSets, TLC

Digests == Scale * Coarse

MCDigest(row, ident) == (row \div (Digests ^ (ident - 1))) % Digests

\* log(n1 / Scale) / w1 > log(n2 / Scale) / w2 without the logarithm: both sides are
\* raised to w1 * w2 and multiplied out.
Outweighs(n1, w1, n2, w2) == (n1 ^ w2) * (Scale ^ w1) > (n2 ^ w1) * (Scale ^ w2)

\* A score is how many scores are lower, in a table.
Ranks ==
    <<>> @@ [s \in (1 .. Scale) \X (1 .. MaxWeight) |->
             Cardinality({t \in (1 .. Scale) \X (1 .. MaxWeight) : Outweighs(s[1], s[2], t[1], t[2])})]

MCScore(n, weight) == Ranks[<<n, weight>>]

\* The third backend may be given another's address between two reloads.
MCMemberLists ==
    {ms \in UNION {[1 .. n -> [id : 1 .. 3, ident : 1 .. 3, weight : 1 .. MaxWeight]] : n \in 0 .. 3} :
        /\ \A i \in DOMAIN ms : ms[i].ident = ms[i].id \/ (ms[i].id = 3 /\ ms[i].ident = 1)
        /\ \A i, j \in DOMAIN ms : i # j => ms[i].id # ms[j].id}
=============================================================================
