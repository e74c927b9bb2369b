-------------------------- MODULE FwdMembersProofs --------------------------
(***************************************************************************)
(* Proofs about fwd_gen_block() over a series of reloads: the scan of a row  *)
(* ends at the member no other one beats, and so a row only moves for a      *)
(* reason.                                                                  *)
(***************************************************************************)
EXTENDS FwdMembers, TLAPS, WellFoundedInduction

(***************************************************************************)
(* What the scan of pick_row_equal_weight() and pick_row_weighted() returns.*)
(* The scan is a recursive function; that it is defined, and what it        *)
(* returns, is shown by looking at the first index where it would not be.   *)
(***************************************************************************)

\* A set of naturals that is not empty has a lowest element.
LEMMA LowestIndex ==
    ASSUME NEW T, T \subseteq Nat, T # {}
    PROVE  \E n \in T : \A m \in T : n <= m
<1> DEFINE R == OpToRel(<, Nat)
<1>1. IsWellFoundedOn(R, Nat)
  BY NatLessThanWellFounded
<1>2. \A x, y \in Nat : <<y, x>> \in R <=> y < x
  BY DEF OpToRel
<1> HIDE DEF R
<1>3. PICK n \in T : \A m \in T : ~(<<m, n>> \in R)
  BY <1>1, WFMin
<1>4. ASSUME NEW m \in T PROVE n <= m
  <2>1. n \in Nat /\ m \in Nat
    OBVIOUS
  <2>2. ~(m < n)
    BY <1>2, <1>3, <2>1, Zenon
  <2> QED
    BY <2>1, <2>2
<1> QED
  BY <1>4

\* The number a member is compared by: its digest, or its weighted score.
Rank(equal, row, m) ==
    IF equal THEN Digest(row, m.ident) ELSE Score(Normalise(Digest(row, m.ident)), m.weight)

\* Both comparisons of fwd_gen.c: the higher number, of equal ones the lower id.
LEMMA BeatsByRank ==
    ASSUME NEW equal \in BOOLEAN, NEW row, NEW m, NEW n
    PROVE  Beats(equal, row, m, n) <=>
              \/ Rank(equal, row, m) > Rank(equal, row, n)
              \/ Rank(equal, row, m) = Rank(equal, row, n) /\ m.id < n.id
<1>1. CASE equal
  BY <1>1 DEF Beats, Rank, BeatsByDigest
<1>2. CASE ~equal
  BY <1>2 DEF Beats, Rank, BeatsByScore
<1> QED
  BY <1>1, <1>2

\* The scan after i members, given the best of those before.
ScanAt(ms, row, g, i) ==
    IF i = 1 THEN ms[1]
    ELSE IF Beats(EqualWeight(ms), row, ms[i], g[i - 1]) THEN ms[i] ELSE g[i - 1]

\* g is what the scan of the first n members computes.
IsScan(ms, row, n, g) ==
    /\ g = [i \in 1 .. n |-> g[i]]
    /\ \A i \in 1 .. n : g[i] = ScanAt(ms, row, g, i)

\* A scan of pick_row_*() over any number of members exists.
LEMMA ScanDefined ==
    ASSUME NEW ms, NEW row, NEW n \in Nat
    PROVE  \E g : IsScan(ms, row, n, g)
<1> DEFINE Bad == {m \in Nat : ~\E g : IsScan(ms, row, m, g)}
<1> SUFFICES ASSUME Bad # {} PROVE FALSE
  BY DEF Bad
<1>1. PICK m \in Bad : \A l \in Bad : m <= l
  BY LowestIndex
<1>2. m \in Nat /\ ~\E g : IsScan(ms, row, m, g)
  BY DEF Bad
<1>3. m # 0
  <2> DEFINE z == [i \in 1 .. 0 |-> 0]
  <2>1. IsScan(ms, row, 0, z)
    BY DEF IsScan
  <2> QED
    BY <1>2, <2>1
<1>4. m - 1 \in Nat /\ m - 1 \notin Bad
  BY <1>1, <1>2, <1>3
<1>5. PICK g : IsScan(ms, row, m - 1, g)
  BY <1>4 DEF Bad
<1> DEFINE h == [i \in 1 .. m |-> IF i = m THEN ScanAt(ms, row, g, m) ELSE g[i]]
<1>6. h = [i \in 1 .. m |-> h[i]]
  OBVIOUS
<1>7. ASSUME NEW i \in 1 .. m PROVE h[i] = ScanAt(ms, row, h, i)
  <2>1. i = 1 \/ h[i - 1] = g[i - 1]
    BY <1>2
  <2>2. ScanAt(ms, row, h, i) = ScanAt(ms, row, g, i)
    BY <2>1 DEF ScanAt
  <2>3. CASE i = m
    BY <2>2, <2>3
  <2>4. CASE i # m
    <3>1. i \in 1 .. (m - 1)
      BY <1>2, <2>4
    <3> QED
      BY <1>5, <2>2, <2>4, <3>1 DEF IsScan
  <2> QED
    BY <2>3, <2>4
<1>8. IsScan(ms, row, m, h)
  BY <1>6, <1>7 DEF IsScan
<1> QED
  BY <1>2, <1>8

\* Where numbers are compared, a member that a beaten one does not beat is not
\* beaten by what beats that one: Beats is transitive in the form the scan needs.
LEMMA BeatsChain ==
    ASSUME NEW equal \in BOOLEAN, NEW row, NEW l, NEW m, NEW n,
           Rank(equal, row, l) \in Int, Rank(equal, row, m) \in Int, Rank(equal, row, n) \in Int,
           l.id \in Nat, m.id \in Nat, n.id \in Nat,
           ~Beats(equal, row, l, m), Beats(equal, row, n, m)
    PROVE  ~Beats(equal, row, l, n)
  BY BeatsByRank

\* pick_row_*(): best is the entry of a member that no member beats.
LEMMA PickRowBest ==
    ASSUME NEW Val, NEW ms \in Seq(Val), ms # <<>>, NEW row, NEW equal \in BOOLEAN,
           equal = EqualWeight(ms),
           \A i \in DOMAIN ms : Rank(equal, row, ms[i]) \in Int /\ ms[i].id \in Nat
    PROVE  \E i \in DOMAIN ms :
              /\ PickRow(ms, row) = ms[i].id
              /\ \A j \in DOMAIN ms : ~Beats(equal, row, ms[j], ms[i])
<1> DEFINE n == Len(ms)
           best == CHOOSE g : g = [i \in DOMAIN ms |-> ScanAt(ms, row, g, i)]
<1>1. n \in Nat /\ n >= 1 /\ DOMAIN ms = 1 .. n
  OBVIOUS
<1>2. PickRow(ms, row) = best[n].id
  BY DEF PickRow, ScanAt
<1>3. PICK g : IsScan(ms, row, n, g)
  BY <1>1, ScanDefined
<1>4. g = [i \in DOMAIN ms |-> ScanAt(ms, row, g, i)]
  BY <1>1, <1>3 DEF IsScan
<1>5. best = [i \in DOMAIN ms |-> ScanAt(ms, row, best, i)]
  BY <1>4, Zenon
<1> HIDE DEF best
<1> DEFINE Good(m) == \E i \in DOMAIN ms :
                         best[m] = ms[i] /\ \A j \in 1 .. m : ~Beats(equal, row, ms[j], ms[i])
           Bad == {m \in 1 .. n : ~Good(m)}
<1>6. Bad = {}
  <2> SUFFICES ASSUME Bad # {} PROVE FALSE
    OBVIOUS
  <2>0. Bad \subseteq Nat
    BY <1>1
  <2>1. PICK m \in Bad : \A l \in Bad : m <= l
    <3> HIDE DEF Bad
    <3> QED
      BY <2>0, LowestIndex
  <2>2. m \in 1 .. n /\ best[m] = ScanAt(ms, row, best, m) /\ ~Good(m)
    BY <1>1, <1>5
  <2>3. m # 1
    <3> SUFFICES ASSUME m = 1 PROVE FALSE
      OBVIOUS
    <3>1. best[1] = ms[1] /\ 1 \in DOMAIN ms
      BY <1>1, <2>2 DEF ScanAt
    <3>2. ~Beats(equal, row, ms[1], ms[1])
      BY <3>1, BeatsByRank
    <3>3. \A j \in 1 .. 1 : j = 1
      OBVIOUS
    <3> QED
      BY <2>2, <3>1, <3>2, <3>3
  <2>4. m - 1 \in 1 .. n /\ m - 1 \notin Bad
    <3> HIDE DEF Bad
    <3> QED
      BY <1>1, <2>1, <2>2, <2>3
  <2>5. Good(m - 1)
    BY <2>4
  <2>6. PICK i \in DOMAIN ms :
           best[m - 1] = ms[i] /\ \A j \in 1 .. (m - 1) : ~Beats(equal, row, ms[j], ms[i])
    BY <2>5
  <2>7. best[m] = IF Beats(equal, row, ms[m], ms[i]) THEN ms[m] ELSE ms[i]
    BY <2>2, <2>3, <2>6 DEF ScanAt
  <2>8. \A j \in 1 .. m : j = m \/ j \in 1 .. (m - 1)
    BY <1>1, <2>2
  <2>9. m \in DOMAIN ms /\ \A j \in 1 .. m : j \in DOMAIN ms
    BY <1>1, <2>2
  <2>10. CASE Beats(equal, row, ms[m], ms[i])
    <3>1. ASSUME NEW j \in 1 .. (m - 1), j \in DOMAIN ms PROVE ~Beats(equal, row, ms[j], ms[m])
      BY <2>6, <2>9, <2>10, <3>1, BeatsChain
    <3>2. ~Beats(equal, row, ms[m], ms[m])
      BY <2>9, BeatsByRank
    <3>3. \A j \in 1 .. m : ~Beats(equal, row, ms[j], ms[m])
      BY <2>8, <2>9, <3>1, <3>2, Zenon
    <3> QED
      BY <2>2, <2>7, <2>9, <2>10, <3>3
  <2>11. CASE ~Beats(equal, row, ms[m], ms[i])
    <3>1. \A j \in 1 .. m : ~Beats(equal, row, ms[j], ms[i])
      BY <2>6, <2>8, <2>11, Zenon
    <3> QED
      BY <2>2, <2>7, <2>11, <3>1
  <2> QED
    BY <2>10, <2>11
<1>7. n \in 1 .. n /\ Good(n)
  BY <1>1, <1>6
<1> QED
  BY <1>1, <1>2, <1>7

(***************************************************************************)
(* Digests, scores and weights of the members a configuration may give.     *)
(***************************************************************************)

\* normalise(): a digest goes to 1 .. Scale, and a higher one not to a lower number.
LEMMA NormaliseFacts ==
    ASSUME NEW d \in 0 .. Scale * Coarse - 1
    PROVE  /\ Normalise(d) \in 1 .. Scale
           /\ \A e \in 0 .. Scale * Coarse - 1 : d <= e => Normalise(d) <= Normalise(e)
<1>1. Coarse \in Nat /\ Coarse > 0 /\ Scale \in Nat /\ Scale * Coarse \in Nat
  BY ScoreAssumption
<1>2. ASSUME NEW c \in 0 .. Scale * Coarse - 1
      PROVE  /\ c \in Nat /\ c < Scale * Coarse /\ c \div Coarse \in Nat
             /\ (c \div Coarse) * Coarse <= c /\ c < ((c \div Coarse) + 1) * Coarse
  BY <1>1
<1>3. \A q, r, k \in Nat : q < r => q * k + k <= r * k
  OBVIOUS
<1>4. d \div Coarse < Scale
  BY <1>1, <1>2, <1>3
<1>5. ASSUME NEW e \in 0 .. Scale * Coarse - 1, d <= e PROVE d \div Coarse <= e \div Coarse
  BY <1>1, <1>2, <1>3, <1>5
<1>6. ASSUME NEW e \in 0 .. Scale * Coarse - 1, d <= e PROVE Normalise(d) <= Normalise(e)
  BY <1>2, <1>5, <1>6 DEF Normalise
<1> QED
  BY <1>1, <1>2, <1>4, <1>6 DEF Normalise

\* The digest and the number log() is taken of, of a member in a row.
LEMMA MemberFacts ==
    ASSUME NEW ms \in MemberLists, NEW i \in DOMAIN ms, NEW row \in Row
    PROVE  /\ ms[i].id \in Nat /\ ms[i].id # 0
           /\ ms[i].weight \in 1 .. MaxWeight /\ ms[i].weight \in Nat /\ ms[i].weight > 0
           /\ Digest(row, ms[i].ident) \in 0 .. Scale * Coarse - 1
           /\ Digest(row, ms[i].ident) \in Int
           /\ Normalise(Digest(row, ms[i].ident)) \in 1 .. Scale
           /\ \A equal \in BOOLEAN : Rank(equal, row, ms[i]) \in Int
<1>1. /\ ms[i].id \in Nat /\ ms[i].id # 0
      /\ ms[i].weight \in 1 .. MaxWeight /\ ms[i].weight \in Nat /\ ms[i].weight > 0
  BY MemberListsAssumption, ScoreAssumption
<1>2. Digest(row, ms[i].ident) \in 0 .. Scale * Coarse - 1
  BY ScoreAssumption
<1>3. Digest(row, ms[i].ident) \in Int
  BY <1>2, ScoreAssumption
<1>4. Normalise(Digest(row, ms[i].ident)) \in 1 .. Scale
  BY <1>2, NormaliseFacts
<1>5. Score(Normalise(Digest(row, ms[i].ident)), ms[i].weight) \in Int
  BY <1>1, <1>4, ScoreAssumption
<1> QED
  BY <1>1, <1>2, <1>3, <1>4, <1>5 DEF Rank

\* fwd_gen_block() of a list that is not empty: the row's backend is a member
\* no member beats.
LEMMA RowBest ==
    ASSUME NEW ms \in MemberLists, ms # <<>>, NEW row \in Row, NEW equal \in BOOLEAN,
           equal = EqualWeight(ms)
    PROVE  \E i \in DOMAIN ms :
              /\ fwd_gen_block(ms)[row] = ms[i].id
              /\ \A j \in DOMAIN ms : ~Beats(equal, row, ms[j], ms[i])
<1>1. ms \in Seq(Range(ms))
  BY MemberListsAssumption
<1>2. \A i \in DOMAIN ms : Rank(equal, row, ms[i]) \in Int /\ ms[i].id \in Nat
  BY MemberFacts
<1>3. fwd_gen_block(ms)[row] = PickRow(ms, row)
  BY DEF fwd_gen_block
<1>4. \E i \in DOMAIN ms :
         /\ PickRow(ms, row) = ms[i].id
         /\ \A j \in DOMAIN ms : ~Beats(equal, row, ms[j], ms[i])
  <2> DEFINE Val == Range(ms)
  <2> HIDE DEF Val
  <2>1. ms \in Seq(Val)
    BY <1>1 DEF Val
  <2> QED
    BY <1>2, <2>1, PickRowBest
<1> QED
  BY <1>3, <1>4

\* WeightIn of a member is its weight, and 0 for any other backend.
LEMMA WeightFacts ==
    ASSUME NEW ms \in MemberLists \cup {<<>>}
    PROVE  /\ \A i \in DOMAIN ms : WeightIn(ms, ms[i].id) = ms[i].weight
           /\ \A id : (\A i \in DOMAIN ms : ms[i].id # id) => WeightIn(ms, id) = 0
<1>1. Range(ms) = {ms[i] : i \in DOMAIN ms}
  BY DEF Range
<1>2. ASSUME NEW i \in DOMAIN ms PROVE WeightIn(ms, ms[i].id) = ms[i].weight
  <2>1. \A j \in DOMAIN ms : ms[j].id = ms[i].id => j = i
    BY MemberListsAssumption
  <2> DEFINE m == CHOOSE m \in Range(ms) : m.id = ms[i].id
  <2>2. m \in Range(ms) /\ m.id = ms[i].id
    BY <1>1
  <2>3. m = ms[i]
    <3> HIDE DEF m
    <3> QED
      BY <1>1, <2>1, <2>2
  <2> QED
    BY <1>1, <2>3 DEF WeightIn
<1>3. ASSUME NEW id, \A i \in DOMAIN ms : ms[i].id # id PROVE WeightIn(ms, id) = 0
  BY <1>1, <1>3 DEF WeightIn
<1> QED
  BY <1>2, <1>3

(***************************************************************************)
(* Two backends and one row before and after a reload.                      *)
(***************************************************************************)

\* A score grows with the digest and with the weight.
LEMMA ScoreGrows ==
    ASSUME NEW d \in 0 .. Scale * Coarse - 1, NEW e \in 0 .. Scale * Coarse - 1, d <= e,
           NEW w \in 1 .. MaxWeight, NEW x \in 1 .. MaxWeight, w <= x
    PROVE  /\ Score(Normalise(d), w) \in Int /\ Score(Normalise(e), x) \in Int
           /\ Score(Normalise(d), w) <= Score(Normalise(e), x)
<1>1. Normalise(d) \in 1 .. Scale /\ Normalise(e) \in 1 .. Scale /\ Normalise(d) <= Normalise(e)
  BY NormaliseFacts
<1> QED
  BY <1>1, ScoreAssumption

\* Of two backends that are in both lists, the one that was preferred and lost no
\* weight is not overtaken by one that gained none, whichever of the two
\* comparisons each list uses; the exception is two digests that one comparison
\* tells apart and the other does not.
LEMMA NotOvertaken ==
    ASSUME NEW A \in MemberLists, NEW B \in MemberLists, NEW row \in Row,
           NEW i \in DOMAIN A, NEW j \in DOMAIN A, NEW k \in DOMAIN B, NEW l \in DOMAIN B,
           A[i].id = B[k].id, A[i].ident = B[k].ident,
           A[j].id = B[l].id, A[j].ident = B[l].ident,
           A[i].weight <= B[k].weight, B[l].weight <= A[j].weight,
           NEW p \in BOOLEAN, NEW q \in BOOLEAN,
           p => A[i].weight = A[j].weight, q => B[k].weight = B[l].weight,
           ~Beats(p, row, A[j], A[i]), ~Beats(q, row, B[k], B[l]),
           ~Collides(A, row), ~Collides(B, row)
    PROVE  A[i].id = A[j].id
<1> DEFINE D == Digest(row, A[i].ident)
           E == Digest(row, A[j].ident)
           w == A[i].weight
           x == A[j].weight
           v == B[k].weight
           u == B[l].weight
           sw == Score(Normalise(D), w)
           sx == Score(Normalise(E), x)
           sv == Score(Normalise(D), v)
           su == Score(Normalise(E), u)
           a == A[i].id
           b == A[j].id
<1>1. /\ D \in 0 .. Scale * Coarse - 1 /\ E \in 0 .. Scale * Coarse - 1 /\ D \in Int /\ E \in Int
      /\ w \in 1 .. MaxWeight /\ x \in 1 .. MaxWeight /\ v \in 1 .. MaxWeight /\ u \in 1 .. MaxWeight
      /\ w \in Nat /\ x \in Nat /\ v \in Nat /\ u \in Nat
      /\ a \in Nat /\ b \in Nat
  BY MemberFacts
<1>2. /\ B[k].id = a /\ B[l].id = b
      /\ Digest(row, B[k].ident) = D /\ Digest(row, B[l].ident) = E
  OBVIOUS
<1>3. /\ Rank(p, row, A[i]) = IF p THEN D ELSE sw
      /\ Rank(p, row, A[j]) = IF p THEN E ELSE sx
      /\ Rank(q, row, B[k]) = IF q THEN D ELSE sv
      /\ Rank(q, row, B[l]) = IF q THEN E ELSE su
  BY <1>2 DEF Rank
<1>4. sw \in Int /\ sx \in Int /\ sv \in Int /\ su \in Int /\ sw <= sv /\ su <= sx
  <2> HIDE DEF D, E, w, x, v, u
  <2>1. w <= v /\ u <= x /\ D <= D /\ E <= E
    BY <1>1 DEF w, x, v, u
  <2> QED
    BY <1>1, <2>1, ScoreGrows
<1>5. (D <= E /\ w = x => sw <= sx) /\ (D <= E /\ v = u => sv <= su)
      /\ (E <= D /\ w = x => sx <= sw) /\ (E <= D /\ v = u => su <= sv)
  <2> HIDE DEF D, E, w, x, v, u
  <2> QED
    BY <1>1, ScoreGrows
<1>6. D # E /\ w = x => sw # sx
  <2>1. A[i] \in Range(A) /\ A[j] \in Range(A)
    BY DEF Range
  <2> QED
    BY <2>1, Zenon DEF Collides
<1>7. D # E /\ v = u => sv # su
  <2>1. B[k] \in Range(B) /\ B[l] \in Range(B)
    BY DEF Range
  <2> QED
    BY <1>2, <2>1, Zenon DEF Collides
<1>8. ~(Rank(p, row, A[j]) > Rank(p, row, A[i]) \/ (Rank(p, row, A[j]) = Rank(p, row, A[i]) /\ b < a))
  BY BeatsByRank
<1>9. ~(Rank(q, row, B[k]) > Rank(q, row, B[l]) \/ (Rank(q, row, B[k]) = Rank(q, row, B[l]) /\ a < b))
  BY <1>2, BeatsByRank
<1>10. (p => w = x) /\ (q => v = u)
  OBVIOUS
<1>11. /\ IF p THEN ~(E > D \/ (E = D /\ b < a)) ELSE ~(sx > sw \/ (sx = sw /\ b < a))
       /\ IF q THEN ~(D > E \/ (D = E /\ a < b)) ELSE ~(sv > su \/ (sv = su /\ a < b))
  <2> HIDE DEF D, E, sw, sx, sv, su, a, b
  <2> QED
    BY <1>3, <1>8, <1>9
<1>12. a = b
  <2> HIDE DEF D, E, w, x, v, u, sw, sx, sv, su, a, b
  <2>1. \/ w = x /\ ~(E > D \/ (E = D /\ b < a))
        \/ ~(sx > sw \/ (sx = sw /\ b < a))
    BY <1>10, <1>11, Zenon
  <2>2. \/ v = u /\ ~(D > E \/ (D = E /\ a < b))
        \/ ~(sv > su \/ (sv = su /\ a < b))
    BY <1>10, <1>11, Zenon
  <2> DEFINE byD == w = x /\ ~(E > D \/ (E = D /\ b < a))
             byE == v = u /\ ~(D > E \/ (D = E /\ a < b))
             byS == ~(sx > sw \/ (sx = sw /\ b < a))
             byT == ~(sv > su \/ (sv = su /\ a < b))
  <2>3. CASE byD /\ byE
    BY <1>1, <2>3
  <2>4. CASE byS /\ byT
    BY <1>1, <1>4, <2>4
  <2>5. CASE byD /\ byT
    <3>1. sx <= sw /\ E <= D
      BY <1>1, <1>5, <2>5
    <3>2. sv = su /\ sw = sx
      BY <1>4, <2>5, <3>1
    <3>3. D = E
      BY <1>6, <2>5, <3>2, Zenon
    <3> QED
      BY <1>1, <2>5, <3>2, <3>3
  <2>6. CASE byS /\ byE
    <3>1. sv <= su /\ D <= E
      BY <1>1, <1>5, <2>6
    <3>2. sv = su /\ sw = sx
      BY <1>4, <2>6, <3>1
    <3>3. D = E
      BY <1>7, <2>6, <3>2, Zenon
    <3> QED
      BY <1>1, <2>6, <3>2, <3>3
  <2> QED
    BY <2>1, <2>2, <2>3, <2>4, <2>5, <2>6
<1> QED
  BY <1>12

(***************************************************************************)
(* The specification.                                                       *)
(***************************************************************************)

\* The block is the one of the list the VIP has, and nothing else.
BlockInv == members \in MemberLists \cup {<<>>} /\ block = fwd_gen_block(members)

\* write_vip() leaves the block of the list it was given, whatever was there.
THEOREM BlockInvariant == Spec => []BlockInv
<1>1. Init => BlockInv
  BY DEF Init, BlockInv
<1>2. BlockInv /\ [Next]_vars => BlockInv'
  BY DEF BlockInv, Next, Regenerate, vars
<1> QED
  BY <1>1, <1>2, PTL DEF Spec

\* A row moves only away from a backend that left or lost weight, or to one that
\* joined or gained weight: what MinimalDisruption says of one reload.
LEMMA ReloadMoves ==
    ASSUME BlockInv, NEW ms \in MemberLists, SameIdentities(ms), NEW row \in Row,
           fwd_gen_block(ms)[row] # block[row],
           ~(WeightIn(ms, block[row]) < WeightIn(members, block[row])),
           ~(WeightIn(ms, fwd_gen_block(ms)[row]) > WeightIn(members, fwd_gen_block(ms)[row])),
           ~Collides(members, row), ~Collides(ms, row)
    PROVE  FALSE
<1> DEFINE A == members
           a == fwd_gen_block(A)[row]
           b == fwd_gen_block(ms)[row]
           p == EqualWeight(A)
           q == EqualWeight(ms)
<1>1. A \in MemberLists \cup {<<>>} /\ block[row] = a /\ a # b
  BY DEF BlockInv
<1>2. p \in BOOLEAN /\ q \in BOOLEAN
  BY DEF EqualWeight
<1>3. \A l \in {A, ms} : l = <<>> => \A id : WeightIn(l, id) = 0
  BY WeightFacts
<1>4. ASSUME NEW l \in {A, ms}, NEW i \in DOMAIN l
      PROVE  WeightIn(l, l[i].id) \in Nat /\ WeightIn(l, l[i].id) > 0 /\ WeightIn(l, l[i].id) = l[i].weight
  <2>1. l \in MemberLists
    BY <1>1
  <2>2. WeightIn(l, l[i].id) = l[i].weight
    BY <1>1, WeightFacts
  <2> QED
    BY <2>1, <2>2, MemberFacts
<1>5. ms # <<>>
  <2> SUFFICES ASSUME ms = <<>> PROVE FALSE
    OBVIOUS
  <2>1. A # <<>> /\ A \in MemberLists
    BY <1>1
  <2>2. PICK i \in DOMAIN A : a = A[i].id
    BY <1>2, <2>1, RowBest
  <2> QED
    BY <1>1, <1>3, <1>4, <2>2
<1>6. PICK l \in DOMAIN ms : b = ms[l].id /\ \A k \in DOMAIN ms : ~Beats(q, row, ms[k], ms[l])
  <2> HIDE DEF q
  <2>1. q = EqualWeight(ms)
    BY DEF q
  <2> QED
    BY <1>2, <1>5, <2>1, RowBest
<1>7. A # <<>>
  BY <1>1, <1>3, <1>4, <1>6
<1>8. A \in MemberLists
  BY <1>1, <1>7
<1>9. PICK i \in DOMAIN A : a = A[i].id /\ \A j \in DOMAIN A : ~Beats(p, row, A[j], A[i])
  <2> HIDE DEF p
  <2>1. p = EqualWeight(A)
    BY DEF p
  <2> QED
    BY <1>2, <1>7, <1>8, <2>1, RowBest
<1>10. PICK k \in DOMAIN ms : ms[k].id = a
  <2> SUFFICES ASSUME \A k \in DOMAIN ms : ms[k].id # a PROVE FALSE
    OBVIOUS
  <2>1. WeightIn(ms, a) = 0
    BY WeightFacts
  <2>2. WeightIn(A, a) \in Nat /\ WeightIn(A, a) > 0
    BY <1>4, <1>9
  <2> QED
    BY <1>1, <2>1, <2>2
<1>11. PICK j \in DOMAIN A : A[j].id = b
  <2> SUFFICES ASSUME \A j \in DOMAIN A : A[j].id # b PROVE FALSE
    OBVIOUS
  <2>1. WeightIn(A, b) = 0
    BY <1>1, WeightFacts
  <2>2. WeightIn(ms, b) \in Nat /\ WeightIn(ms, b) > 0
    BY <1>4, <1>6
  <2> QED
    BY <2>1, <2>2
<1>12. A[i].ident = ms[k].ident /\ A[j].ident = ms[l].ident
  <2>1. A[i] \in Range(members) /\ A[j] \in Range(members) /\ ms[k] \in Range(ms) /\ ms[l] \in Range(ms)
    BY DEF Range
  <2> QED
    BY <1>6, <1>9, <1>10, <1>11, <2>1 DEF SameIdentities
<1>13. A[i].weight <= ms[k].weight /\ ms[l].weight <= A[j].weight
  <2>1. WeightIn(A, a) = A[i].weight /\ WeightIn(ms, a) = ms[k].weight
    BY <1>4, <1>9, <1>10
  <2>2. WeightIn(A, b) = A[j].weight /\ WeightIn(ms, b) = ms[l].weight
    BY <1>4, <1>6, <1>11
  <2>3. A[i].weight \in Nat /\ A[j].weight \in Nat /\ ms[k].weight \in Nat /\ ms[l].weight \in Nat
    BY <1>8, MemberFacts
  <2> QED
    BY <1>1, <2>1, <2>2, <2>3
<1>14. (p => A[i].weight = A[j].weight) /\ (q => ms[k].weight = ms[l].weight)
  BY DEF EqualWeight
<1>15. A[i].id = A[j].id
  <2> HIDE DEF p, q
  <2> QED
    BY <1>2, <1>6, <1>8, <1>9, <1>10, <1>11, <1>12, <1>13, <1>14, NotOvertaken
<1> QED
  BY <1>1, <1>9, <1>11, <1>15

\* MinimalDisruption holds of every series of reloads, for any number of members,
\* rows and weights: a row leaves a backend only if that left or lost weight, or
\* for one that joined or gained weight.
THEOREM MinimalDisruptionTheorem == Spec => MinimalDisruption
<1>1. ASSUME BlockInv, [Next]_vars, NEW row \in Row, block'[row] # block[row]
      PROVE  \/ WeightIn(members', block[row]) < WeightIn(members, block[row])
             \/ WeightIn(members', block'[row]) > WeightIn(members, block'[row])
             \/ Collides(members, row) \/ Collides(members', row)
  <2>1. Next
    BY <1>1 DEF vars
  <2>2. PICK ms \in MemberLists : SameIdentities(ms) /\ members' = ms /\ block' = fwd_gen_block(ms)
    BY <2>1 DEF Next, Regenerate
  <2> QED
    BY <1>1, <2>2, ReloadMoves
<1>2. BlockInv /\ [Next]_vars =>
         [\A row \in Row :
             block'[row] # block[row] =>
                \/ WeightIn(members', block[row]) < WeightIn(members, block[row])
                \/ WeightIn(members', block'[row]) > WeightIn(members, block'[row])
                \/ Collides(members, row) \/ Collides(members', row)]_vars
  BY <1>1
<1> QED
  BY <1>2, BlockInvariant, PTL DEF Spec, MinimalDisruption
=============================================================================
