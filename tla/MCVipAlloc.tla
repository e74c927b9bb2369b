----------------------------- MODULE MCVipAlloc -----------------------------
(***************************************************************************)
(* Small instances of the planner.                                          *)
(***************************************************************************)
EXTENDS VipAlloc, SequencesExt

CONSTANTS a, b, c, d, e

\* Every way of cutting a prefix of <<a, b, c, d, e>> into non-empty entries.  Up
\* to a renaming of the keys these are all the lists over five keys, and every
\* baseline is tried with each.  Five keys are the fewest with which an entry can
\* be blocked by a ring it is not part of.
Cuts(s) == {cut \in UNION {[1 .. n -> 1 .. Len(s)] : n \in 1 .. Len(s)} :
               /\ cut[Len(cut)] = Len(s)
               /\ \A i \in 1 .. (Len(cut) - 1) : cut[i] < cut[i + 1]}

CutAt(s, cut) == [i \in DOMAIN cut |-> SubSeq(s, IF i = 1 THEN 1 ELSE cut[i - 1] + 1, cut[i])]

AllLists == {<<>>} \cup UNION {{CutAt(s, cut) : cut \in Cuts(s)} : s \in Prefixes(<<a, b, c, d, e>>) \ {<<>>}}

\* What is pinned was left by earlier configurations, some of them only partly
\* applied, so any key can lead anywhere: all five keys live, or all but the first
\* or the last of the list, on up to four blocks in every way.  The fifth block, which
\* a cycle has to borrow, lies between them.
Blocks == {0, 1, 3, 4}

WideBaselines == [Key -> Blocks] \cup [Key \ {a} -> Blocks] \cup [Key \ {e} -> Blocks]
=============================================================================
