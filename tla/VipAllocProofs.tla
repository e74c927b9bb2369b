--------------------------- MODULE VipAllocProofs ---------------------------
(***************************************************************************)
(* Proofs about the planner: its types, SafePlan, what it prefers and what   *)
(* it relocates, for every number of blocks, every accepted [[vip]] list and *)
(* every content of vip_map.                                                *)
(***************************************************************************)
EXTENDS VipAlloc, TLAPS, WellFoundedInduction, FiniteSetTheorems

(***************************************************************************)
(* The inductive invariant.  SafePlan speaks of the whole plan; it is kept  *)
(* because refs[] says where every key leads after the writes planned so    *)
(* far, because numbers are not shared and because a relocated entry is one *)
(* the plan has not mentioned yet.                                          *)
(***************************************************************************)

\* No block is assigned to two entries.
NumsDistinct == \A e, f \in Entry : num[e] = num[f] /\ num[e] # Unset => e = f

\* refs[] is the effect of the writes planned so far.
RefsTrack ==
    \A k \in DOMAIN refs : \A e \in Entry : k \in KeysOf(entries, e) =>
        refs[k] = IF e \in Written THEN num[e] ELSE baseline[k]

\* An entry is written at most once.
OrderOnce == \A p, q \in DOMAIN order : order[p] = order[q] => p = q

\* What holds at each point of control.
AtControl ==
    /\ alloc_pc \in {"idle", "refused", "match", "free"} => order = <<>>
    /\ alloc_pc = "free" => \A e \in Entry : e < cursor => num[e] # Unset
    /\ alloc_pc \in {"order", "walk", "done"} => \A e \in Entry : num[e] # Unset
    /\ alloc_pc = "walk" => cursor \in Entry \ Written

\* SafePlan with the key's owner named.
SafeWrites ==
    \A p \in DOMAIN order : \A k \in DOMAIN refs : \A e \in Entry :
        k \in KeysOf(entries, e) /\ e # order[p] =>
            (IF \E q \in 1 .. (p - 1) : order[q] = e THEN num[e] ELSE baseline[k])
                # num[order[p]]

PlanInv ==
    /\ AllocTypeOK
    /\ UniqueKeys(entries)
    /\ NumsDistinct
    /\ RefsTrack
    /\ OrderOnce
    /\ AtControl
    /\ SafeWrites

(***************************************************************************)
(* Lemmas.                                                                  *)
(***************************************************************************)

\* The lowest element the loops of vip_alloc.c find is an element.
LEMMA MinIn ==
    ASSUME NEW S, S \subseteq Nat, S # {}
    PROVE  Min(S) \in S
<1> DEFINE R == OpToRel(<, Nat)
<1>1. IsWellFoundedOn(R, Nat)
  BY NatLessThanWellFounded
<1>2. \A x, y \in Nat : <<y, x>> \in R <=> y < x
  BY DEF OpToRel
<1> HIDE DEF R
<1>3. PICK x \in S : \A y \in S : ~(<<y, x>> \in R)
  BY <1>1, WFMin
<1>4. ASSUME NEW y \in S PROVE x <= y
  <2>1. x \in Nat /\ y \in Nat
    OBVIOUS
  <2>2. ~(y < x)
    BY <1>2, <1>3, <2>1, Zenon
  <2> QED
    BY <2>1, <2>2
<1> QED
  BY <1>4 DEF Min

\* A key belongs to one entry only, so the owner of a key is that entry.
LEMMA KeysDisjoint ==
    ASSUME UniqueKeys(entries), NEW e \in Entry, NEW f \in Entry,
           NEW k, k \in KeysOf(entries, e), k \in KeysOf(entries, f)
    PROVE  e = f
<1>1. PICK i \in DOMAIN entries[e] : k = entries[e][i]
  BY DEF KeysOf, Range
<1>2. PICK j \in DOMAIN entries[f] : k = entries[f][j]
  BY DEF KeysOf, Range
<1>3. <<e, i>> \in KeyPositions(entries) /\ <<f, j>> \in KeyPositions(entries)
  BY DEF KeyPositions, Entry
<1> QED
  BY <1>1, <1>2, <1>3, Zenon DEF UniqueKeys

\* A key has one owner.
LEMMA OwnerOfKey ==
    ASSUME UniqueKeys(entries), NEW e \in Entry, NEW k, k \in KeysOf(entries, e)
    PROVE  Owner(k) = e
<1>1. \E f \in Entry : k \in KeysOf(entries, f)
  OBVIOUS
<1>2. Owner(k) \in Entry /\ k \in KeysOf(entries, Owner(k))
  BY <1>1, Zenon DEF Owner
<1> QED
  BY <1>2, KeysDisjoint, Zenon

\* An index of entries[] is a natural number.
LEMMA EntryIndexes ==
    ASSUME AllocTypeOK
    PROVE  /\ entries \in Seq(Seq(Key))
           /\ Entry = 1 .. Len(entries)
           /\ Len(entries) \in Nat
           /\ Unset \notin Num
<1>1. entries \in Seq(Seq(Key))
  BY DEF AllocTypeOK
<1>2. Unset \notin Num
  BY VipAllocAssumption DEF Num
<1> QED
  BY <1>1, <1>2 DEF Entry

\* vip_alloc_match() returns a number of the baseline nobody holds, or none.
LEMMA MatchUnused ==
    ASSUME AllocTypeOK, NEW e \in Entry
    PROVE  Match(e) \in (Num \ Used) \cup {Unset}
<1>1. CASE MatchIndexes(e) = {}
  BY <1>1 DEF Match
<1>2. CASE MatchIndexes(e) # {}
  <2>1. MatchIndexes(e) \subseteq Nat
    BY EntryIndexes DEF MatchIndexes
  <2>2. Min(MatchIndexes(e)) \in MatchIndexes(e)
    BY <1>2, <2>1, MinIn
  <2> DEFINE k == entries[e][Min(MatchIndexes(e))]
  <2>3. k \in DOMAIN baseline /\ baseline[k] \notin Used
    BY <2>2 DEF MatchIndexes
  <2>4. baseline[k] \in Num
    BY <2>3 DEF AllocTypeOK, Range
  <2> QED
    BY <1>2, <2>3, <2>4 DEF Match
<1> QED
  BY <1>1, <1>2

\* Giving an entry a number nobody holds keeps numbers distinct.
LEMMA DistinctKept ==
    ASSUME AllocTypeOK, NumsDistinct, NEW e \in Entry, NEW n,
           n \in (Num \ Used) \cup {Unset} \/ n = num[e],
           entries' = entries, num' = [num EXCEPT ![e] = n]
    PROVE  NumsDistinct' /\ num' \in [Entry -> Num \cup {Unset}]
<1>1. num \in [Entry -> Num \cup {Unset}]
  BY DEF AllocTypeOK
<1>2. \A f \in Entry : num[f] = Unset \/ num[f] \in Used
  BY <1>1 DEF Used
<1>3. \A f \in Entry : num'[f] = IF f = e THEN n ELSE num[f]
  BY <1>1
<1>4. Entry' = Entry
  BY DEF Entry
<1>5. n \in Num \cup {Unset}
  BY <1>1
<1>6. NumsDistinct'
  BY <1>2, <1>3, <1>4 DEF NumsDistinct
<1> QED
  BY <1>1, <1>5, <1>6

(***************************************************************************)
(* The invariant holds initially and is kept by every action.               *)
(***************************************************************************)

\* The invariant holds initially.
LEMMA PlanInvInit == AllocInit => PlanInv
<1> SUFFICES ASSUME AllocInit PROVE PlanInv
  OBVIOUS
<1> USE DEF AllocInit
<1>1. entries = <<>> /\ DOMAIN entries = {} /\ Len(entries) = 0
  OBVIOUS
<1>2. UniqueKeys(entries)
  BY <1>1 DEF UniqueKeys, KeyPositions
<1>3. AllocTypeOK
  BY <1>1, <1>2 DEF AllocTypeOK, Entry, Owned, Range
<1>4. NumsDistinct /\ RefsTrack /\ OrderOnce /\ AtControl /\ SafeWrites
  BY <1>1 DEF NumsDistinct, RefsTrack, OrderOnce, AtControl, SafeWrites, Entry
<1> QED
  BY <1>2, <1>3, <1>4 DEF PlanInv

\* vip_alloc() is called.
LEMMA PlanInvStart ==
    ASSUME NEW ents \in EntryLists, NEW base, base \in [DOMAIN base -> Num], DOMAIN base \subseteq Key,
           AllocStart(ents, base)
    PROVE  PlanInv'
<1>1. ents \in Seq(Seq(Key)) /\ UniqueKeys(ents)
  BY VipAllocAssumption
<1>2. /\ entries' = ents /\ baseline' = base /\ order' = <<>> /\ seen' = {} /\ cursor' = 1
      /\ num' = [e \in DOMAIN ents |-> Unset]
      /\ alloc_pc' \in {"match", "refused"}
  BY DEF AllocStart
<1>3. refs' = [k \in DOMAIN base \cap Owned' |-> base[k]]
  BY <1>2 DEF AllocStart, Restrict, Owned, Entry
<1>4. AllocTypeOK'
  <2>1. Entry' = DOMAIN ents /\ Len(entries') \in Nat
    BY <1>1, <1>2 DEF Entry
  <2>2. Range(base) \subseteq Num
    BY <1>1 DEF Range
  <2>3. refs' \in [DOMAIN baseline' \cap Owned' -> Num]
    BY <1>1, <1>2, <1>3
  <2>4. cursor' \in 1 .. (Len(entries') + 1)
    BY <1>2, <2>1
  <2> QED
    BY <1>1, <1>2, <2>1, <2>2, <2>3, <2>4 DEF AllocTypeOK
<1>5. UniqueKeys(entries)'
  BY <1>1, <1>2
<1>6. DOMAIN order' = {} /\ Written' = {}
  BY <1>2 DEF Written, Range
<1>7. NumsDistinct'
  BY <1>2 DEF NumsDistinct, Entry
<1>8. RefsTrack'
  BY <1>2, <1>3, <1>6 DEF RefsTrack
<1>9. OrderOnce' /\ SafeWrites'
  BY <1>6 DEF OrderOnce, SafeWrites
<1>10. AtControl'
  BY <1>2 DEF AtControl
<1> QED
  BY <1>4, <1>5, <1>7, <1>8, <1>9, <1>10 DEF PlanInv

\* The claiming loops change num and the cursor only, before anything is planned.
LEMMA PlanInvClaim ==
    ASSUME PlanInv, alloc_pc \in {"match", "free"}, NEW e \in Entry, cursor = e,
           NEW n, n \in (Num \ Used) \cup {Unset} \/ n = num[e],
           num' = [num EXCEPT ![e] = n], cursor' = cursor + 1,
           alloc_pc' \in {"match", "free", "failed"},
           alloc_pc' = "free" => alloc_pc = "free" /\ n # Unset,
           UNCHANGED <<entries, baseline, refs, order, seen>>
    PROVE  PlanInv'
<1> USE DEF PlanInv
<1>1. order = <<>> /\ DOMAIN order' = {} /\ Written' = {} /\ Written = {}
  BY DEF AtControl, Written, Range
<1>2. Entry' = Entry /\ Owned' = Owned /\ UniqueKeys(entries)'
  BY DEF Entry, Owned
<1>3. NumsDistinct' /\ num' \in [Entry -> Num \cup {Unset}]
  BY DistinctKept
<1>4. cursor' \in 1 .. (Len(entries) + 1)
  BY EntryIndexes
<1>5. AllocTypeOK'
  BY <1>2, <1>3, <1>4 DEF AllocTypeOK
<1>6. RefsTrack'
  BY <1>1, <1>2 DEF RefsTrack
<1>7. OrderOnce' /\ SafeWrites'
  BY <1>1 DEF OrderOnce, SafeWrites
<1>8. AtControl'
  <2>1. ASSUME alloc_pc' = "free", NEW f \in Entry, f < cursor + 1 PROVE num'[f] # Unset
    <3>1. \A g \in Entry : num'[g] = IF g = e THEN n ELSE num[g]
      BY DEF AllocTypeOK
    <3>2. f = cursor \/ f < cursor
      BY <2>1, EntryIndexes
    <3> QED
      BY <2>1, <3>1, <3>2 DEF AtControl
  <2> QED
    BY <1>1, <1>2, <2>1 DEF AtControl
<1> QED
  BY <1>2, <1>3, <1>5, <1>6, <1>7, <1>8

\* Writing an entry whose block no key of another entry leads to is safe, now
\* and for the writes planned before it.
LEMMA PlanInvSchedule ==
    ASSUME PlanInv, alloc_pc \in {"order", "walk"}, alloc_pc' = "order",
           NEW e \in Entry \ Written, NEW n \in Num, Schedule(e, n),
           \A k \in DOMAIN refs : refs[k] = n => k \in KeysOf(entries, e),
           n = num[e] \/ n \notin Used,
           UNCHANGED <<entries, baseline, cursor, seen>>
    PROVE  PlanInv'
<1> USE DEF PlanInv
<1>1. /\ num' = [num EXCEPT ![e] = n]
      /\ order' = Append(order, e)
      /\ refs' = [k \in DOMAIN refs |-> IF k \in KeysOf(entries, e) THEN n ELSE refs[k]]
  BY DEF Schedule
<1>2. /\ num \in [Entry -> Num \cup {Unset}] /\ order \in Seq(Entry)
      /\ refs \in [DOMAIN baseline \cap Owned -> Num]
  BY DEF AllocTypeOK
<1>3. Entry' = Entry /\ Owned' = Owned /\ UniqueKeys(entries)'
  BY DEF Entry, Owned
<1>4. \A f \in Entry : num'[f] = IF f = e THEN n ELSE num[f]
  BY <1>1, <1>2
<1>5. /\ DOMAIN order = 1 .. Len(order) /\ Len(order) \in Nat
      /\ DOMAIN order' = 1 .. (Len(order) + 1) /\ order' \in Seq(Entry)
      /\ order'[Len(order) + 1] = e
      /\ \A p \in DOMAIN order : order'[p] = order[p] /\ order[p] \in Entry /\ order[p] # e
  BY <1>1, <1>2 DEF Written, Range
<1>6. Written' = Written \cup {e}
  BY <1>5 DEF Written, Range
<1>7. NumsDistinct' /\ num' \in [Entry -> Num \cup {Unset}]
  BY <1>1, DistinctKept
<1>8. AllocTypeOK'
  BY <1>1, <1>2, <1>3, <1>5, <1>7 DEF AllocTypeOK
<1>9. RefsTrack'
  <2> SUFFICES ASSUME NEW k \in DOMAIN refs, NEW f \in Entry, k \in KeysOf(entries, f)
               PROVE  refs'[k] = IF f \in Written' THEN num'[f] ELSE baseline[k]
    BY <1>1, <1>3 DEF RefsTrack
  <2>1. CASE f = e
    BY <1>1, <1>4, <1>6, <2>1
  <2>2. CASE f # e
    <3>1. k \notin KeysOf(entries, e)
      BY <2>2, KeysDisjoint
    <3> QED
      BY <1>1, <1>4, <1>6, <2>2, <3>1 DEF RefsTrack
  <2> QED
    BY <2>1, <2>2
<1>10. OrderOnce'
  BY <1>5 DEF OrderOnce
<1>11. SafeWrites'
  <2> SUFFICES ASSUME NEW p \in DOMAIN order', NEW k \in DOMAIN refs, NEW f \in Entry,
                      k \in KeysOf(entries, f), f # order'[p]
               PROVE  (IF \E q \in 1 .. (p - 1) : order'[q] = f THEN num'[f] ELSE baseline[k])
                          # num'[order'[p]]
    BY <1>1, <1>3 DEF SafeWrites
  <2>1. p \in DOMAIN order \/ p = Len(order) + 1
    BY <1>5
  <2>2. (\E q \in 1 .. (p - 1) : order'[q] = f) <=> (\E q \in 1 .. (p - 1) : order[q] = f)
    BY <1>5
  <2>3. (\E q \in 1 .. (p - 1) : order[q] = f) => f # e
    BY <1>5
  <2>4. CASE p \in DOMAIN order
    <3>1. order'[p] = order[p] /\ num'[order'[p]] = num[order[p]]
      BY <1>4, <1>5, <2>4
    <3> QED
      BY <1>4, <2>2, <2>3, <2>4, <3>1 DEF SafeWrites
  <2>5. CASE p = Len(order) + 1
    <3>1. order'[p] = e /\ num'[order'[p]] = n /\ f # e
      BY <1>4, <1>5, <2>5
    <3>2. (\E q \in 1 .. (p - 1) : order[q] = f) <=> f \in Written
      BY <1>5, <2>5 DEF Written, Range
    <3>3. refs[k] # n
      BY <3>1, KeysDisjoint
    <3> QED
      BY <1>4, <2>2, <3>1, <3>2, <3>3 DEF RefsTrack
  <2> QED
    BY <2>1, <2>4, <2>5
<1>12. AtControl'
  BY <1>3, <1>4, EntryIndexes DEF AtControl
<1> QED
  BY <1>3, <1>7, <1>8, <1>9, <1>10, <1>11, <1>12

\* Actions that move only control, the cursor and the walk.
LEMMA PlanInvControl ==
    ASSUME PlanInv, UNCHANGED <<entries, baseline, num, refs, order>>,
           alloc_pc' \in {"match", "free", "order", "walk", "done", "failed"},
           cursor' \in 1 .. (Len(entries) + 1), seen' \subseteq Entry,
           AtControl'
    PROVE  PlanInv'
<1>1. Entry' = Entry /\ Owned' = Owned /\ Written' = Written
  BY DEF Entry, Owned, Written
<1>2. AllocTypeOK'
  BY <1>1 DEF PlanInv, AllocTypeOK
<1>3. NumsDistinct' /\ RefsTrack' /\ OrderOnce' /\ UniqueKeys(entries)'
  BY <1>1 DEF PlanInv, NumsDistinct, RefsTrack, OrderOnce
<1>4. SafeWrites'
  BY <1>1 DEF PlanInv, SafeWrites
<1> QED
  BY <1>2, <1>3, <1>4 DEF PlanInv

\* An entry that blocks an unwritten entry is unwritten itself.
LEMMA BlockerUnwritten ==
    ASSUME PlanInv, alloc_pc = "walk", NEW f \in Blockers(cursor)
    PROVE  f \in Entry \ Written
<1> USE DEF PlanInv
<1>1. PICK k \in DOMAIN refs :
         /\ refs[k] = num[cursor]
         /\ k \notin KeysOf(entries, cursor)
         /\ f = Owner(k)
  BY DEF Blockers
<1>2. PICK e \in Entry : k \in KeysOf(entries, e)
  BY <1>1 DEF AllocTypeOK, Owned
<1>3. f = e
  BY <1>1, <1>2, OwnerOfKey
<1>4. cursor \in Entry /\ num[cursor] # Unset /\ e # cursor
  BY <1>1, <1>2 DEF AtControl
<1>5. e \in Written => refs[k] = num[e]
  BY <1>2 DEF RefsTrack
<1> QED
  BY <1>1, <1>2, <1>3, <1>4, <1>5 DEF NumsDistinct

\* The invariant is kept by every iteration.
LEMMA PlanInvNext ==
    ASSUME PlanInv, AllocNext
    PROVE  PlanInv'
<1> USE DEF PlanInv
<1>1. CASE ClaimMatch
  <2>1. CASE cursor \in Entry
    <3>1. Match(cursor) \in (Num \ Used) \cup {Unset}
      BY <2>1, MatchUnused
    <3> QED
      BY <1>1, <2>1, <3>1, PlanInvClaim DEF ClaimMatch
  <2>2. CASE cursor \notin Entry
    <3>1. /\ alloc_pc' = "free" /\ cursor' = 1 /\ order = <<>>
          /\ UNCHANGED <<entries, baseline, num, refs, order, seen>>
      BY <1>1, <2>2 DEF ClaimMatch, AtControl
    <3>2. cursor' \in 1 .. (Len(entries) + 1) /\ seen' \subseteq Entry
      BY <3>1, EntryIndexes DEF AllocTypeOK
    <3>3. Entry' = Entry
      BY <3>1 DEF Entry
    <3>4. \A e \in Entry' : ~(e < cursor')
      BY <3>1, <3>3, EntryIndexes
    <3>5. AtControl'
      BY <3>1, <3>4 DEF AtControl
    <3> QED
      BY <3>1, <3>2, <3>5, PlanInvControl
  <2> QED
    BY <2>1, <2>2
<1>2. CASE ClaimFree
  <2>1. CASE cursor \in Entry /\ num[cursor] = Unset /\ Num \ Used # {}
    <3>1. Num \ Used \subseteq Nat
      BY VipAllocAssumption DEF Num
    <3>2. Min(Num \ Used) \in Num \ Used
      BY <2>1, <3>1, MinIn
    <3>3. Min(Num \ Used) # Unset
      BY <3>2, EntryIndexes
    <3>4. /\ num' = [num EXCEPT ![cursor] = Min(Num \ Used)] /\ cursor' = cursor + 1
          /\ alloc_pc = "free" /\ alloc_pc' = "free"
          /\ UNCHANGED <<entries, baseline, refs, order, seen>>
      BY <1>2, <2>1 DEF ClaimFree
    <3> QED
      BY <2>1, <3>2, <3>3, <3>4, PlanInvClaim
  <2>2. CASE cursor \in Entry /\ ~(num[cursor] = Unset /\ Num \ Used # {})
    <3>1. /\ num' = num /\ cursor' = cursor + 1 /\ alloc_pc = "free"
          /\ alloc_pc' = IF num[cursor] = Unset THEN "failed" ELSE "free"
          /\ UNCHANGED <<entries, baseline, refs, order, seen>>
      BY <1>2, <2>2 DEF ClaimFree
    <3>2. num' = [num EXCEPT ![cursor] = num[cursor]]
      BY <2>2, <3>1 DEF AllocTypeOK
    <3> QED
      BY <2>2, <3>1, <3>2, PlanInvClaim
  <2>3. CASE cursor \notin Entry
    <3>1. /\ alloc_pc = "free" /\ alloc_pc' = "order"
          /\ UNCHANGED <<entries, baseline, num, refs, order, seen, cursor>>
      BY <1>2, <2>3 DEF ClaimFree
    <3>2. cursor' \in 1 .. (Len(entries) + 1) /\ seen' \subseteq Entry
      BY <3>1 DEF AllocTypeOK
    <3>3. \A e \in Entry : e < cursor
      BY <2>3, EntryIndexes DEF AllocTypeOK
    <3>4. Entry' = Entry
      BY <3>1 DEF Entry
    <3>5. AtControl'
      BY <3>1, <3>3, <3>4 DEF AtControl
    <3> QED
      BY <3>1, <3>2, <3>5, PlanInvControl
  <2> QED
    BY <2>1, <2>2, <2>3
<1>3. CASE OrderReady
  <2> DEFINE e == Min(Ready)
  <2>1. Ready \subseteq Nat /\ Ready # {}
    BY <1>3, EntryIndexes DEF Ready, OrderReady
  <2>2. e \in Ready
    BY <2>1, MinIn
  <2>3. e \in Entry \ Written /\ BlockReady(num[e], e)
    BY <2>2 DEF Ready
  <2>4. Schedule(e, num[e]) /\ alloc_pc = "order" /\ alloc_pc' = "order"
        /\ UNCHANGED <<entries, baseline, cursor, seen>>
    BY <1>3 DEF OrderReady
  <2>5. num[e] \in Num
    BY <2>3, <2>4 DEF AtControl, AllocTypeOK
  <2> HIDE DEF e
  <2> QED
    BY <2>3, <2>4, <2>5, PlanInvSchedule DEF BlockReady
<1>4. CASE OrderStuck
  <2>1. /\ alloc_pc = "order" /\ alloc_pc' = "walk" /\ seen' = {}
        /\ Entry \ Written # {} /\ cursor' = Min(Entry \ Written)
        /\ UNCHANGED <<entries, baseline, num, refs, order>>
    BY <1>4 DEF OrderStuck
  <2>2. Entry \ Written \subseteq Nat
    BY EntryIndexes
  <2>3. cursor' \in Entry \ Written
    BY <2>1, <2>2, MinIn
  <2>4. cursor' \in 1 .. (Len(entries) + 1)
    BY <2>3, EntryIndexes
  <2>5. AtControl'
    BY <2>1, <2>3 DEF AtControl, Entry, Written
  <2> QED
    BY <2>1, <2>4, <2>5, PlanInvControl
<1>5. CASE WalkBlocker
  <2>1. /\ alloc_pc = "walk" /\ alloc_pc' = "walk" /\ seen' = seen \cup {cursor}
        /\ cursor' \in IF Blockers(cursor) = {} THEN {cursor} ELSE Blockers(cursor)
        /\ UNCHANGED <<entries, baseline, num, refs, order>>
    BY <1>5 DEF WalkBlocker
  <2>2. cursor \in Entry \ Written
    BY <2>1 DEF AtControl
  <2>3. cursor' \in Entry \ Written
    BY <2>1, <2>2, BlockerUnwritten
  <2>4. cursor' \in 1 .. (Len(entries) + 1) /\ seen' \subseteq Entry
    BY <2>1, <2>2, <2>3, EntryIndexes DEF AllocTypeOK
  <2>5. AtControl'
    BY <2>1, <2>3 DEF AtControl, Entry, Written
  <2> QED
    BY <2>1, <2>4, <2>5, PlanInvControl
<1>6. CASE Relocate
  <2> DEFINE spare == {n \in Num \ Used : Unreferenced(n)}
  <2>1. cursor \in Entry \ Written /\ alloc_pc = "walk"
    BY <1>6 DEF AtControl, Relocate
  <2>2. CASE spare # {}
    <3>1. spare \subseteq Nat
      BY VipAllocAssumption DEF Num
    <3>2. Min(spare) \in spare
      BY <2>2, <3>1, MinIn
    <3>3. Schedule(cursor, Min(spare)) /\ alloc_pc' = "order"
          /\ UNCHANGED <<entries, baseline, cursor, seen>>
      BY <1>6, <2>2 DEF Relocate
    <3>4. /\ Min(spare) \in Num /\ Min(spare) \notin Used
          /\ \A k \in DOMAIN refs : refs[k] # Min(spare)
      BY <3>2 DEF Unreferenced
    <3> HIDE DEF spare
    <3> QED
      BY <2>1, <3>3, <3>4, PlanInvSchedule
  <2>3. CASE spare = {}
    <3>1. alloc_pc' = "failed" /\ UNCHANGED <<entries, baseline, cursor, num, refs, order, seen>>
      BY <1>6, <2>3 DEF Relocate
    <3>2. cursor' \in 1 .. (Len(entries) + 1) /\ seen' \subseteq Entry
      BY <3>1 DEF AllocTypeOK
    <3>3. AtControl'
      BY <3>1 DEF AtControl
    <3> QED
      BY <3>1, <3>2, <3>3, PlanInvControl
  <2> QED
    BY <2>2, <2>3
<1>7. CASE OrderDone
  <2>1. /\ alloc_pc = "order" /\ alloc_pc' = "done"
        /\ UNCHANGED <<entries, baseline, cursor, num, refs, order, seen>>
    BY <1>7 DEF OrderDone
  <2>2. cursor' \in 1 .. (Len(entries) + 1) /\ seen' \subseteq Entry
    BY <2>1 DEF AllocTypeOK
  <2>3. AtControl'
    BY <2>1 DEF AtControl, Entry
  <2> QED
    BY <2>1, <2>2, <2>3, PlanInvControl
<1> QED
  BY <1>1, <1>2, <1>3, <1>4, <1>5, <1>6, <1>7 DEF AllocNext

\* Nothing happens.
LEMMA PlanInvStutter ==
    ASSUME PlanInv, UNCHANGED alloc_vars
    PROVE  PlanInv'
<1>1. Entry' = Entry /\ Owned' = Owned /\ Written' = Written
  BY DEF alloc_vars, Entry, Owned, Written
<1> QED
  BY <1>1 DEF PlanInv, alloc_vars, AllocTypeOK, NumsDistinct, RefsTrack, OrderOnce,
              AtControl, SafeWrites

\* The invariant implies SafePlan.
LEMMA PlanInvSafe == PlanInv => SafePlan
<1> SUFFICES ASSUME PlanInv, NEW p \in DOMAIN order, NEW k \in DOMAIN refs,
                    k \notin KeysOf(entries, order[p])
             PROVE  Location(k, p) # num[order[p]]
  BY DEF SafePlan
<1> USE DEF PlanInv
<1>1. PICK e \in Entry : k \in KeysOf(entries, e)
  BY DEF AllocTypeOK, Owned
<1>2. Owner(k) = e
  BY <1>1, OwnerOfKey
<1>3. e # order[p]
  BY <1>1
<1> QED
  BY <1>1, <1>2, <1>3 DEF SafeWrites, Location

(***************************************************************************)
(* A second invariant, for what the planner chooses: why it never runs out  *)
(* of blocks, and why it leaves an entry its block.                         *)
(***************************************************************************)

\* The argument checks of vip_alloc() were passed.
Accepted ==
    alloc_pc \notin {"idle", "refused"} =>
        /\ Cardinality(KeyPositions(entries)) <= MaxVips
        /\ \A e \in Entry : entries[e] # <<>>

\* The block of e is one that its own keys lead to in the baseline.
Matched(e) == \E k \in KeysOf(entries, e) \cap DOMAIN baseline : baseline[k] = num[e]

\* The blocks the baseline keys of e lead to are all with entries they match.
Outdone(e) ==
    \A k \in KeysOf(entries, e) \cap DOMAIN baseline :
        \E g \in Entry : Matched(g) /\ num[g] = baseline[k]

\* An entry without a match found its blocks claimed; so of two entries in each
\* other's way one has a match.
ClaimsInOrder ==
    /\ alloc_pc = "match" =>
          \A e \in Entry : /\ num[e] # Unset => Matched(e)
                           /\ e < cursor => num[e] # Unset \/ Outdone(e)
                           /\ e >= cursor => num[e] = Unset
    /\ alloc_pc = "free" => \A e \in Entry : Matched(e) \/ Outdone(e)
    /\ alloc_pc \in {"order", "walk"} =>
          \A e, f \in Entry \ Written : \A k \in KeysOf(entries, f) \cap DOMAIN baseline :
              baseline[k] = num[e] => Matched(e) \/ Matched(f)

\* Block n is that of the live keys of e, and of no other live keys.
Prefers(e, n) ==
    /\ KeysOf(entries, e) \cap DOMAIN refs # {}
    /\ KeysOf(entries, e) \cap DOMAIN refs = {k \in DOMAIN refs : baseline[k] = n}

PreferenceKept ==
    \A e \in Entry, n \in Num : Prefers(e, n) =>
        /\ alloc_pc = "match" /\ e < cursor => num[e] = n
        /\ alloc_pc \in {"free", "order", "walk", "done"} => num[e] = n

\* The walk is taken only when every unwritten entry is blocked, and the end is
\* reached only when none is unwritten.
WalkStuck ==
    /\ alloc_pc = "walk" => Ready = {}
    /\ alloc_pc = "done" => Entry \subseteq Written

ChoiceInv ==
    /\ Accepted /\ ClaimsInOrder /\ PreferenceKept /\ WalkStuck
    /\ AllocNeverFails

\* vip_alloc_claim() prefers a block that a key of the entry leads to and nobody has.
LEMMA MatchFound ==
    ASSUME AllocTypeOK, NEW e \in Entry
    PROVE  /\ Match(e) # Unset =>
                 \E k \in KeysOf(entries, e) \cap DOMAIN baseline : baseline[k] = Match(e)
           /\ Match(e) = Unset =>
                 \A k \in KeysOf(entries, e) \cap DOMAIN baseline : baseline[k] \in Used
<1>1. CASE MatchIndexes(e) = {}
  <2>1. ASSUME NEW k \in KeysOf(entries, e) \cap DOMAIN baseline PROVE baseline[k] \in Used
    <3>1. PICK j \in DOMAIN entries[e] : entries[e][j] = k
      BY DEF KeysOf, Range
    <3> QED
      BY <1>1, <3>1 DEF MatchIndexes
  <2> QED
    BY <1>1, <2>1 DEF Match
<1>2. CASE MatchIndexes(e) # {}
  <2>1. MatchIndexes(e) \subseteq Nat
    BY EntryIndexes DEF MatchIndexes
  <2>2. Min(MatchIndexes(e)) \in MatchIndexes(e)
    BY <1>2, <2>1, MinIn
  <2>3. PICK j \in MatchIndexes(e) : Match(e) = baseline[entries[e][j]]
    BY <1>2, <2>2 DEF Match
  <2>4. entries[e][j] \in KeysOf(entries, e) \cap DOMAIN baseline
    BY <2>3 DEF MatchIndexes, KeysOf, Range
  <2>5. Match(e) # Unset
    BY <2>3, <2>4, EntryIndexes DEF AllocTypeOK, Range
  <2> QED
    BY <2>3, <2>4, <2>5
<1> QED
  BY <1>1, <1>2

\* The live keys of an entry are the baseline's.
LEMMA LiveKeys ==
    ASSUME PlanInv
    PROVE  /\ \A e \in Entry : KeysOf(entries, e) \cap DOMAIN refs = KeysOf(entries, e) \cap DOMAIN baseline
           /\ \A k \in DOMAIN refs : \E e \in Entry : k \in KeysOf(entries, e)
           /\ \A k \in DOMAIN baseline : baseline[k] \in Num /\ baseline[k] # Unset
<1>1. DOMAIN refs = DOMAIN baseline \cap Owned
  BY DEF PlanInv, AllocTypeOK
<1>2. \A k \in DOMAIN baseline : baseline[k] \in Num
  BY DEF PlanInv, AllocTypeOK, Range
<1> QED
  BY <1>1, <1>2, EntryIndexes DEF Owned, PlanInv

\* A preferred block is ready for its entry.
LEMMA PreferredReady ==
    ASSUME PlanInv, NEW e \in Entry, NEW n \in Num, Prefers(e, n), num[e] = n
    PROVE  BlockReady(n, e)
<1> SUFFICES ASSUME NEW k \in DOMAIN refs, refs[k] = n, k \notin KeysOf(entries, e) PROVE FALSE
  BY DEF BlockReady
<1>1. PICK f \in Entry : k \in KeysOf(entries, f)
  BY LiveKeys
<1>2. f # e /\ n # Unset
  BY <1>1, EntryIndexes DEF PlanInv
<1>3. f \in Written => num[f] = n
  BY <1>1 DEF PlanInv, RefsTrack
<1>4. f \notin Written => baseline[k] = n
  BY <1>1 DEF PlanInv, RefsTrack
<1>5. baseline[k] = n => k \in KeysOf(entries, e)
  BY DEF Prefers
<1> QED
  BY <1>2, <1>3, <1>4, <1>5 DEF PlanInv, NumsDistinct

(***************************************************************************)
(* There are as many blocks as keys: counting.                              *)
(***************************************************************************)

\* There are MaxVips blocks.
LEMMA BlockCount == IsFiniteSet(Num) /\ Cardinality(Num) = MaxVips
<1>1. 0 \in Int /\ MaxVips - 1 \in Int /\ ~(0 > MaxVips - 1) /\ MaxVips - 1 - 0 + 1 = MaxVips
  BY VipAllocAssumption
<1> QED
  BY <1>1, FS_Interval DEF Num

\* A list states finitely many keys.
LEMMA PositionsFinite ==
    ASSUME NEW ents \in Seq(Seq(Key))
    PROVE  IsFiniteSet(KeyPositions(ents))
<1> DEFINE of == [e \in DOMAIN ents |-> {e} \X DOMAIN ents[e]]
           all == {{e} \X DOMAIN ents[e] : e \in DOMAIN ents}
<1>1. DOMAIN ents = 1 .. Len(ents) /\ Len(ents) \in Nat
  OBVIOUS
<1>2. IsFiniteSet(DOMAIN ents)
  BY <1>1, FS_Interval
<1>3. of \in Surjection(DOMAIN ents, all)
  BY DEF Surjection
<1>4. IsFiniteSet(all)
  BY <1>2, <1>3, FS_Surjection
<1>5. ASSUME NEW e \in DOMAIN ents PROVE IsFiniteSet({e} \X DOMAIN ents[e])
  <2>1. ents[e] \in Seq(Key)
    OBVIOUS
  <2>2. DOMAIN ents[e] = 1 .. Len(ents[e]) /\ Len(ents[e]) \in Nat
    BY <2>1
  <2>3. IsFiniteSet(DOMAIN ents[e])
    BY <2>2, FS_Interval
  <2>4. IsFiniteSet({e})
    BY FS_Singleton
  <2> QED
    BY <2>3, <2>4, FS_Product
<1>6. \A T \in all : IsFiniteSet(T)
  BY <1>5
<1> QED
  BY <1>4, <1>6, FS_UNION DEF KeyPositions

\* Owned keys are at most the key positions.
LEMMA OwnedCount ==
    ASSUME AllocTypeOK
    PROVE  /\ IsFiniteSet(Owned) /\ IsFiniteSet(KeyPositions(entries))
           /\ Cardinality(Owned) \in Nat /\ Cardinality(KeyPositions(entries)) \in Nat
           /\ Cardinality(Owned) <= Cardinality(KeyPositions(entries))
<1> DEFINE at == [p \in KeyPositions(entries) |-> entries[p[1]][p[2]]]
<1>1. IsFiniteSet(KeyPositions(entries))
  BY PositionsFinite DEF AllocTypeOK
<1>2. ASSUME NEW p \in KeyPositions(entries) PROVE entries[p[1]][p[2]] \in Owned
  <2>1. PICK e \in DOMAIN entries : p \in {e} \X DOMAIN entries[e]
    BY DEF KeyPositions
  <2>2. p[1] = e /\ p[2] \in DOMAIN entries[e]
    BY <2>1
  <2> QED
    BY <2>2 DEF Owned, Entry, KeysOf, Range
<1>3. ASSUME NEW k \in Owned PROVE \E p \in KeyPositions(entries) : at[p] = k
  <2>1. PICK e \in Entry : k \in KeysOf(entries, e)
    BY DEF Owned
  <2>2. PICK j \in DOMAIN entries[e] : entries[e][j] = k
    BY <2>1 DEF KeysOf, Range
  <2>3. <<e, j>> \in KeyPositions(entries)
    BY <2>2 DEF KeyPositions, Entry
  <2>4. at[<<e, j>>] = k
    BY <2>2, <2>3
  <2> QED
    BY <2>3, <2>4
<1>4. at \in [KeyPositions(entries) -> Owned]
  BY <1>2
<1>5. at \in Surjection(KeyPositions(entries), Owned)
  BY <1>3, <1>4 DEF Surjection
<1>6. IsFiniteSet(Owned) /\ Cardinality(Owned) <= Cardinality(KeyPositions(entries))
  BY <1>1, <1>5, FS_Surjection
<1> QED
  BY <1>1, <1>6, FS_CardinalityType

\* Blocks that are told apart by keys, with a key to spare, leave a block over.
LEMMA BlockLeft ==
    ASSUME AllocTypeOK, Cardinality(KeyPositions(entries)) <= MaxVips, NEW k0 \in Owned,
           NEW f \in [Num -> Owned \ {k0}]
    PROVE  \E m, n \in Num : m # n /\ f[m] = f[n]
<1>1. IsFiniteSet(Owned) /\ Cardinality(Owned) <= MaxVips /\ Cardinality(Owned) \in Nat /\ MaxVips \in Nat
  BY OwnedCount, VipAllocAssumption
<1>2. IsFiniteSet(Owned \ {k0}) /\ Cardinality(Owned \ {k0}) = Cardinality(Owned) - 1
  BY <1>1, FS_RemoveElement
<1>3. Cardinality(Owned \ {k0}) < Cardinality(Num)
  BY <1>1, <1>2, BlockCount
<1> QED
  BY <1>2, <1>3, BlockCount, FS_PigeonHole

\* vip_alloc_claim() finds a free number: every other entry holds at most one.
LEMMA FreeExists ==
    ASSUME PlanInv, Accepted, alloc_pc = "free", cursor \in Entry, num[cursor] = Unset
    PROVE  Num \ Used # {}
<1> SUFFICES ASSUME Num \subseteq Used PROVE FALSE
  OBVIOUS
<1>1. \A e \in Entry : entries[e] \in Seq(Key) /\ entries[e] # <<>>
  BY EntryIndexes DEF Accepted, PlanInv, Entry
<1>2. \A e \in Entry : entries[e][1] \in KeysOf(entries, e)
  BY <1>1 DEF KeysOf, Range
<1> DEFINE key(n) == entries[CHOOSE e \in Entry : num[e] = n][1]
           f == [n \in Num |-> key(n)]
           k0 == entries[cursor][1]
<1>3. \A n \in Num : \E e \in Entry : num[e] = n /\ n # Unset
  BY EntryIndexes DEF Used, PlanInv
<1>4. ASSUME NEW n \in Num
      PROVE  \E e \in Entry : num[e] = n /\ key(n) \in KeysOf(entries, e) /\ e # cursor
  <2>1. PICK e \in Entry : e = (CHOOSE d \in Entry : num[d] = n) /\ num[e] = n /\ n # Unset
    BY <1>3, Zenon
  <2> QED
    BY <1>2, <2>1
<1> HIDE DEF key
<1>5. k0 \in Owned /\ k0 \in KeysOf(entries, cursor)
  BY <1>2 DEF Owned
<1>6. \A n \in Num : key(n) \in Owned \ {k0}
  BY <1>4, <1>5, KeysDisjoint DEF Owned, PlanInv
<1>7. f \in [Num -> Owned \ {k0}]
  BY <1>6
<1>8. PICK m, n \in Num : m # n /\ f[m] = f[n]
  BY <1>5, <1>7, BlockLeft DEF Accepted, PlanInv
<1>9. key(m) = key(n)
  BY <1>8
<1> QED
  BY <1>4, <1>8, <1>9, KeysDisjoint DEF PlanInv

\* Where all unwritten entries are blocked, two live keys lead to one block: that of
\* an entry that has a match.
LEMMA SharedBlock ==
    ASSUME PlanInv, ChoiceInv, alloc_pc = "walk"
    PROVE  \E j, k \in DOMAIN refs : j # k /\ refs[j] = refs[k]
<1> USE DEF PlanInv
<1>1. cursor \in Entry \ Written /\ Ready = {}
  BY DEF AtControl, ChoiceInv, WalkStuck
<1>2. \A e \in Entry \ Written : \E k \in DOMAIN refs : refs[k] = num[e] /\ k \notin KeysOf(entries, e)
  BY <1>1 DEF Ready, BlockReady
<1>3. ASSUME NEW e \in Entry \ Written, Matched(e)
      PROVE  \E j, k \in DOMAIN refs : j # k /\ refs[j] = refs[k]
  <2>1. PICK j \in KeysOf(entries, e) \cap DOMAIN baseline : baseline[j] = num[e]
    BY <1>3 DEF Matched
  <2>2. j \in DOMAIN refs /\ refs[j] = num[e]
    BY <1>3, <2>1, LiveKeys DEF RefsTrack
  <2> QED
    BY <1>2, <2>1, <2>2
<1>4. PICK k \in DOMAIN refs : refs[k] = num[cursor] /\ k \notin KeysOf(entries, cursor)
  BY <1>1, <1>2
<1>5. PICK f \in Entry : k \in KeysOf(entries, f)
  BY LiveKeys
<1>6. f \notin Written
  <2>1. Owner(k) = f
    BY <1>5, OwnerOfKey
  <2>2. f \in Blockers(cursor)
    BY <1>4, <2>1 DEF Blockers
  <2> QED
    BY <2>2, BlockerUnwritten
<1>7. k \in DOMAIN baseline /\ baseline[k] = num[cursor]
  BY <1>4, <1>5, <1>6, LiveKeys DEF RefsTrack
<1>8. Matched(cursor) \/ Matched(f)
  BY <1>1, <1>5, <1>6, <1>7 DEF ChoiceInv, ClaimsInOrder
<1> QED
  BY <1>1, <1>3, <1>5, <1>6, <1>8

\* vip_alloc_relocate() finds a spare block, although none is reserved: the keys are
\* no more than the blocks, and two of them share one.
LEMMA SpareExists ==
    ASSUME PlanInv, ChoiceInv, alloc_pc = "walk"
    PROVE  {n \in Num \ Used : Unreferenced(n)} # {}
<1> USE DEF PlanInv
<1> SUFFICES ASSUME \A n \in Num : n \in Used \/ ~Unreferenced(n) PROVE FALSE
  OBVIOUS
<1>1. PICK j, k0 \in DOMAIN refs : j # k0 /\ refs[j] = refs[k0]
  BY SharedBlock
<1>2. Ready = {} /\ \A e \in Entry : entries[e] # <<>> /\ entries[e] \in Seq(Key)
  BY EntryIndexes DEF ChoiceInv, WalkStuck, Accepted, Entry
<1> DEFINE lead(n, k) == k \in DOMAIN refs /\ refs[k] = n
           own(n, k) == k \notin DOMAIN refs /\ \E e \in Entry : num[e] = n /\ k \in KeysOf(entries, e)
           key(n) == CHOOSE k \in Owned \ {k0} : IF Unreferenced(n) THEN own(n, k) ELSE lead(n, k)
           f == [n \in Num |-> key(n)]
<1>3. DOMAIN refs \subseteq Owned
  BY DEF AllocTypeOK
<1>4. ASSUME NEW n \in Num
      PROVE  \E k \in Owned \ {k0} : IF Unreferenced(n) THEN own(n, k) ELSE lead(n, k)
  <2>1. CASE ~Unreferenced(n)
    BY <1>1, <1>3, <2>1 DEF Unreferenced
  <2>2. CASE Unreferenced(n)
    <3>1. PICK e \in Entry : num[e] = n
      BY <2>2 DEF Used
    <3>2. e \in Written
      <4>1. ASSUME e \notin Written PROVE FALSE
        <5>1. BlockReady(num[e], e)
          BY <2>2, <3>1 DEF BlockReady, Unreferenced
        <5> QED
          BY <1>2, <4>1, <5>1 DEF Ready
      <4> QED
        BY <4>1
    <3>3. entries[e][1] \in KeysOf(entries, e)
      BY <1>2 DEF KeysOf, Range
    <3>4. entries[e][1] \notin DOMAIN refs
      BY <2>2, <3>1, <3>2, <3>3 DEF RefsTrack, Unreferenced
    <3>5. entries[e][1] \in Owned \ {k0}
      BY <1>1, <3>3, <3>4 DEF Owned
    <3> QED
      BY <2>2, <3>1, <3>3, <3>4, <3>5
  <2> QED
    BY <2>1, <2>2
<1>5. \A n \in Num : /\ key(n) \in Owned \ {k0}
                     /\ IF Unreferenced(n) THEN own(n, key(n)) ELSE lead(n, key(n))
  BY <1>4, Zenon
<1> HIDE DEF key
<1>6. f \in [Num -> Owned \ {k0}]
  BY <1>5
<1>7. PICK m, n \in Num : m # n /\ f[m] = f[n]
  BY <1>1, <1>3, <1>6, BlockLeft DEF ChoiceInv, Accepted
<1>8. key(m) = key(n)
  BY <1>7
<1>9. Unreferenced(m) <=> Unreferenced(n)
  BY <1>5, <1>8
<1>10. CASE ~Unreferenced(m)
  BY <1>5, <1>7, <1>8, <1>9, <1>10
<1>11. CASE Unreferenced(m)
  BY <1>5, <1>7, <1>8, <1>9, <1>11, KeysDisjoint
<1> QED
  BY <1>10, <1>11

(***************************************************************************)
(* The second invariant is kept.                                            *)
(***************************************************************************)

\* The second invariant holds initially.
LEMMA ChoiceInvInit == AllocInit => ChoiceInv
BY DEF AllocInit, ChoiceInv, Accepted, ClaimsInOrder, PreferenceKept, WalkStuck, AllocNeverFails

\* vip_alloc() is called.
LEMMA ChoiceInvStart ==
    ASSUME NEW ents \in EntryLists, NEW base, AllocStart(ents, base)
    PROVE  ChoiceInv'
<1>1. /\ ents \in Seq(Seq(Key)) /\ entries' = ents /\ Entry' = DOMAIN ents /\ cursor' = 1
      /\ num' = [e \in DOMAIN ents |-> Unset] /\ alloc_pc' \in {"match", "refused"}
      /\ alloc_pc' = "match" => /\ Cardinality(KeyPositions(ents)) <= MaxVips
                                /\ \A e \in DOMAIN ents : ents[e] # <<>>
  BY VipAllocAssumption DEF AllocStart, Entry
<1>2. Accepted' /\ AllocNeverFails' /\ WalkStuck'
  BY <1>1 DEF Accepted, AllocNeverFails, WalkStuck
<1>3. \A e \in Entry' : ~(e < cursor')
  BY <1>1
<1>4. ClaimsInOrder' /\ PreferenceKept'
  BY <1>1, <1>3 DEF ClaimsInOrder, PreferenceKept
<1> QED
  BY <1>2, <1>4 DEF ChoiceInv

\* What the second invariant is about stays as it is when num, refs' domain and the
\* arguments do.
LEMMA SameChoices ==
    ASSUME UNCHANGED <<entries, baseline, num>>, DOMAIN refs' = DOMAIN refs
    PROVE  /\ Entry' = Entry
           /\ \A e : Matched(e)' = Matched(e) /\ Outdone(e)' = Outdone(e)
           /\ \A e, n : Prefers(e, n)' = Prefers(e, n)
BY DEF Entry, Matched, Outdone, Prefers

\* The pass over the entries with a live key.
LEMMA ChoiceInvMatch ==
    ASSUME PlanInv, ChoiceInv, ClaimMatch
    PROVE  ChoiceInv'
<1> USE DEF PlanInv
<1>0. alloc_pc = "match" /\ UNCHANGED <<entries, baseline, refs, order, seen>> /\ Entry' = Entry
  BY DEF ClaimMatch, Entry
<1>1. CASE cursor \in Entry
  <2>1. /\ num' = [num EXCEPT ![cursor] = Match(cursor)] /\ cursor' = cursor + 1 /\ alloc_pc' = "match"
    BY <1>1 DEF ClaimMatch
  <2>2. PICK e \in Entry : e = cursor
    BY <1>1
  <2>a. e \in Nat /\ cursor' = e + 1 /\ \A f \in Entry : f \in Nat
    BY <2>1, <2>2, EntryIndexes
  <2>b. num[e] = Unset
    BY <1>0, <2>2, <2>a DEF ChoiceInv, ClaimsInOrder
  <2>c. /\ num \in [Entry -> Num \cup {Unset}]
        /\ \A f \in Entry : num'[f] = IF f = e THEN Match(e) ELSE num[f]
    BY <2>1, <2>2 DEF AllocTypeOK
  <2>3. /\ num \in [Entry -> Num \cup {Unset}] /\ num[e] = Unset
        /\ \A f \in Entry : num'[f] = IF f = e THEN Match(e) ELSE num[f]
        /\ \A f \in Entry : f < cursor' <=> f < e \/ f = e
        /\ \A f \in Entry : f >= cursor' => f >= e /\ f # e
    BY <2>a, <2>b, <2>c
  <2>4. \A f \in Entry : num[f] # Unset => Matched(f)
    BY <1>0 DEF ChoiceInv, ClaimsInOrder
  <2>5. \A f \in Entry : Matched(f) => num[f] # Unset /\ f # e /\ Matched(f)'
    BY <1>0, <2>3, LiveKeys DEF Matched
  <2>6. Match(e) # Unset => Matched(e)'
    BY <1>0, <2>3, MatchFound DEF Matched
  <2>7. \A f \in Entry : Outdone(f) => Outdone(f)'
    BY <1>0, <2>3, <2>5 DEF Outdone
  <2>8. Match(e) = Unset => Outdone(e)'
    <3> SUFFICES ASSUME Match(e) = Unset, NEW k \in KeysOf(entries, e) \cap DOMAIN baseline
                 PROVE  \E g \in Entry : Matched(g)' /\ num'[g] = baseline[k]
      BY <1>0 DEF Outdone
    <3>1. baseline[k] \in Used
      BY MatchFound
    <3>2. PICK g \in Entry : num[g] = baseline[k] /\ num[g] # Unset
      BY <3>1 DEF Used
    <3> QED
      BY <2>3, <2>4, <2>5, <3>2
  <2>9. ClaimsInOrder'
    <3>1. ASSUME NEW f \in Entry
          PROVE  /\ num'[f] # Unset => Matched(f)'
                 /\ f < cursor' => num'[f] # Unset \/ Outdone(f)'
                 /\ f >= cursor' => num'[f] = Unset
      <4>1. f < e => num[f] # Unset \/ Outdone(f)
        BY <1>0, <2>2 DEF ChoiceInv, ClaimsInOrder
      <4>2. f >= e => num[f] = Unset
        BY <1>0, <2>2 DEF ChoiceInv, ClaimsInOrder
      <4> QED
        BY <2>3, <2>4, <2>5, <2>6, <2>7, <2>8, <4>1, <4>2
    <3> QED
      BY <1>0, <2>1, <3>1 DEF ClaimsInOrder
  <2>10. PreferenceKept'
    <3> SUFFICES ASSUME NEW f \in Entry, NEW n \in Num, Prefers(f, n), f < cursor' PROVE num'[f] = n
      BY <1>0, <2>1 DEF PreferenceKept, Prefers
    <3>1. CASE f # e
      BY <1>0, <2>2, <2>3, <3>1 DEF ChoiceInv, PreferenceKept
    <3>2. CASE f = e
      <4>1. \A k \in KeysOf(entries, e) \cap DOMAIN baseline : baseline[k] = n
        BY <3>2, LiveKeys DEF Prefers
      <4>2. PICK k \in KeysOf(entries, e) \cap DOMAIN baseline : baseline[k] = n
        BY <3>2, <4>1, LiveKeys DEF Prefers
      <4>3. n \notin Used
        <5> SUFFICES ASSUME NEW g \in Entry, num[g] = n, num[g] # Unset PROVE FALSE
          BY DEF Used
        <5>1. g # e
          BY <2>3
        <5>2. PICK j \in KeysOf(entries, g) \cap DOMAIN baseline : baseline[j] = n
          BY <2>4 DEF Matched
        <5>3. j \in DOMAIN refs
          BY <5>2, LiveKeys
        <5>4. j \in KeysOf(entries, e)
          BY <3>2, <5>2, <5>3 DEF Prefers
        <5> QED
          BY <5>1, <5>2, <5>4, KeysDisjoint
      <4>4. Match(e) # Unset
        BY <4>2, <4>3, MatchFound
      <4>5. Match(e) = n
        BY <4>1, <4>4, MatchFound
      <4> QED
        BY <2>3, <3>2, <4>5
    <3> QED
      BY <3>1, <3>2
  <2>11. Accepted' /\ WalkStuck' /\ AllocNeverFails'
    BY <1>0, <2>1 DEF ChoiceInv, Accepted, WalkStuck, AllocNeverFails
  <2> QED
    BY <2>9, <2>10, <2>11 DEF ChoiceInv
<1>2. CASE cursor \notin Entry
  <2>1. alloc_pc' = "free" /\ cursor' = 1 /\ num' = num
    BY <1>2 DEF ClaimMatch
  <2>2. \A e \in Entry : e < cursor
    BY <1>2, EntryIndexes DEF AllocTypeOK
  <2>3. \A e : Matched(e)' = Matched(e) /\ Outdone(e)' = Outdone(e)
    BY <1>0, <2>1, SameChoices
  <2>4. \A e, n : Prefers(e, n)' = Prefers(e, n)
    BY <1>0, <2>1, SameChoices
  <2>5. \A e \in Entry : Matched(e) \/ Outdone(e)
    BY <1>0, <2>2 DEF ChoiceInv, ClaimsInOrder
  <2>6. ClaimsInOrder'
    BY <1>0, <2>1, <2>3, <2>5 DEF ClaimsInOrder
  <2>7. PreferenceKept'
    BY <1>0, <2>1, <2>2, <2>4 DEF ChoiceInv, PreferenceKept
  <2>8. Accepted' /\ WalkStuck' /\ AllocNeverFails'
    BY <1>0, <2>1 DEF ChoiceInv, Accepted, WalkStuck, AllocNeverFails
  <2> QED
    BY <2>6, <2>7, <2>8 DEF ChoiceInv
<1> QED
  BY <1>1, <1>2

\* The pass over the others.
LEMMA ChoiceInvFree ==
    ASSUME PlanInv, ChoiceInv, ClaimFree
    PROVE  ChoiceInv'
<1> USE DEF PlanInv
<1>0. alloc_pc = "free" /\ UNCHANGED <<entries, baseline, refs, order, seen>> /\ Entry' = Entry
  BY DEF ClaimFree, Entry
<1>1. CASE cursor \in Entry /\ num[cursor] = Unset
  <2>1. /\ num' = [num EXCEPT ![cursor] = Min(Num \ Used)] /\ alloc_pc' = "free"
    BY <1>0, <1>1, FreeExists DEF ClaimFree, ChoiceInv
  <2>2. /\ num \in [Entry -> Num \cup {Unset}]
        /\ \A f \in Entry : num[f] # Unset => num'[f] = num[f]
    BY <1>1, <2>1 DEF AllocTypeOK
  <2>3. \A f \in Entry : Matched(f) => num[f] # Unset /\ Matched(f)'
    BY <1>0, <2>2, LiveKeys DEF Matched
  <2>4. \A f \in Entry : Outdone(f) => Outdone(f)'
    BY <1>0, <2>2, <2>3 DEF Outdone
  <2>5. ClaimsInOrder'
    BY <1>0, <2>1, <2>3, <2>4 DEF ChoiceInv, ClaimsInOrder
  <2>6. PreferenceKept'
    <3>1. \A e, n : Prefers(e, n)' = Prefers(e, n)
      BY <1>0 DEF Prefers
    <3> QED
      BY <1>0, <2>1, <2>2, <3>1, EntryIndexes DEF ChoiceInv, PreferenceKept
  <2>7. Accepted' /\ WalkStuck' /\ AllocNeverFails'
    BY <1>0, <2>1 DEF ChoiceInv, Accepted, WalkStuck, AllocNeverFails
  <2> QED
    BY <2>5, <2>6, <2>7 DEF ChoiceInv
<1>2. CASE ~(cursor \in Entry /\ num[cursor] = Unset)
  <2>1. num' = num /\ alloc_pc' \in {"free", "order"}
    BY <1>2 DEF ClaimFree
  <2>2. \A e : Matched(e)' = Matched(e) /\ Outdone(e)' = Outdone(e)
    BY <1>0, <2>1, SameChoices
  <2>3. \A e, n : Prefers(e, n)' = Prefers(e, n)
    BY <1>0, <2>1, SameChoices
  <2>4. \A e, f \in Entry : \A k \in KeysOf(entries, f) \cap DOMAIN baseline :
           baseline[k] = num[e] => Matched(e) \/ Matched(f)
    <3> SUFFICES ASSUME NEW e \in Entry, NEW f \in Entry, NEW k \in KeysOf(entries, f) \cap DOMAIN baseline,
                        baseline[k] = num[e], ~Matched(f)
                 PROVE  Matched(e)
      OBVIOUS
    <3>1. PICK g \in Entry : Matched(g) /\ num[g] = baseline[k]
      BY <1>0 DEF ChoiceInv, ClaimsInOrder, Outdone
    <3>2. num[g] # Unset
      BY <3>1, LiveKeys
    <3> QED
      BY <3>1, <3>2 DEF NumsDistinct
  <2>5. ClaimsInOrder'
    <3>1. alloc_pc' = "free" => \A e \in Entry' : Matched(e)' \/ Outdone(e)'
      BY <1>0, <2>2 DEF ChoiceInv, ClaimsInOrder
    <3>2. \A e, f \in Entry' \ Written' : \A k \in KeysOf(entries', f) \cap DOMAIN baseline' :
             baseline'[k] = num'[e] => Matched(e)' \/ Matched(f)'
      BY <1>0, <2>1, <2>2, <2>4
    <3> QED
      BY <2>1, <3>1, <3>2 DEF ClaimsInOrder
  <2>6. PreferenceKept'
    BY <1>0, <2>1, <2>3 DEF ChoiceInv, PreferenceKept
  <2>7. Accepted' /\ WalkStuck' /\ AllocNeverFails'
    BY <1>0, <2>1 DEF ChoiceInv, Accepted, WalkStuck, AllocNeverFails
  <2> QED
    BY <2>5, <2>6, <2>7 DEF ChoiceInv
<1> QED
  BY <1>1, <1>2

\* Scheduling an entry under its own number, or a number nobody else prefers.
LEMMA ChoiceInvSchedule ==
    ASSUME PlanInv, ChoiceInv, alloc_pc \in {"order", "walk"}, alloc_pc' = "order",
           NEW e \in Entry \ Written, NEW n \in Num, Schedule(e, n),
           n = num[e] \/ \A m \in Num : ~Prefers(e, m),
           UNCHANGED <<entries, baseline, cursor, seen>>
    PROVE  ChoiceInv'
<1> USE DEF PlanInv
<1>1. /\ Entry' = Entry /\ DOMAIN refs' = DOMAIN refs
      /\ \A f \in Entry : f # e => num'[f] = num[f]
      /\ num'[e] = n
  BY DEF Schedule, Entry, AllocTypeOK
<1>2. Written' = Written \cup {e}
  <2>1. order' = Append(order, e) /\ order \in Seq(Entry)
    BY DEF Schedule, AllocTypeOK
  <2> QED
    BY <2>1 DEF Written, Range
<1>3. \A f \in Entry \ Written' : f \in Entry \ Written /\ num'[f] = num[f] /\ Matched(f)' = Matched(f)
  BY <1>1, <1>2 DEF Matched
<1>4. ClaimsInOrder'
  BY <1>1, <1>3 DEF ChoiceInv, ClaimsInOrder
<1>5. PreferenceKept'
  <2>1. \A f, m : Prefers(f, m)' = Prefers(f, m)
    BY <1>1 DEF Prefers
  <2> QED
    BY <1>1, <2>1 DEF ChoiceInv, PreferenceKept
<1>6. Accepted' /\ WalkStuck' /\ AllocNeverFails'
  BY <1>1 DEF ChoiceInv, Accepted, WalkStuck, AllocNeverFails
<1> QED
  BY <1>4, <1>5, <1>6 DEF ChoiceInv

\* The second invariant is kept by every iteration.
LEMMA ChoiceInvNext ==
    ASSUME PlanInv, ChoiceInv, AllocNext
    PROVE  ChoiceInv'
<1> USE DEF PlanInv
<1>1. CASE OrderReady
  <2>1. Ready \subseteq Nat /\ Ready # {}
    BY <1>1, EntryIndexes DEF Ready, OrderReady
  <2>2. PICK e \in Ready : e = Min(Ready)
    BY <2>1, MinIn
  <2>3. /\ e \in Entry \ Written /\ num[e] \in Num
        /\ Schedule(e, num[e]) /\ alloc_pc = "order" /\ alloc_pc' = "order"
        /\ UNCHANGED <<entries, baseline, cursor, seen>>
    BY <1>1, <2>2 DEF OrderReady, Ready, AtControl, AllocTypeOK
  <2> QED
    BY <2>3, ChoiceInvSchedule
<1>2. CASE Relocate
  <2>1. cursor \in Entry \ Written /\ alloc_pc = "walk" /\ Ready = {}
    BY <1>2 DEF AtControl, Relocate, ChoiceInv, WalkStuck
  <2>2. {n \in Num \ Used : Unreferenced(n)} # {}
    BY <2>1, SpareExists
  <2>3. {n \in Num \ Used : Unreferenced(n)} \subseteq Nat
    BY VipAllocAssumption DEF Num
  <2>4. PICK n \in Num : n = Min({m \in Num \ Used : Unreferenced(m)})
    BY <2>2, <2>3, MinIn
  <2>5. Schedule(cursor, n) /\ alloc_pc' = "order" /\ UNCHANGED <<entries, baseline, cursor, seen>>
    BY <1>2, <2>2, <2>4 DEF Relocate
  <2>6. \A m \in Num : ~Prefers(cursor, m)
    <3> SUFFICES ASSUME NEW m \in Num, Prefers(cursor, m) PROVE FALSE
      OBVIOUS
    <3>1. num[cursor] = m
      BY <2>1 DEF ChoiceInv, PreferenceKept
    <3>2. BlockReady(num[cursor], cursor)
      BY <2>1, <3>1, PreferredReady
    <3> QED
      BY <2>1, <3>2 DEF Ready
  <2> QED
    BY <2>1, <2>5, <2>6, ChoiceInvSchedule
<1>3. CASE OrderStuck \/ WalkBlocker \/ OrderDone
  <2>1. /\ UNCHANGED <<entries, baseline, num, refs, order>>
        /\ alloc_pc \in {"order", "walk"} /\ alloc_pc' \in {"order", "walk", "done"}
        /\ alloc_pc' = "walk" => alloc_pc = "walk" \/ Ready = {}
        /\ alloc_pc' = "done" => Entry \ Written = {}
    BY <1>3 DEF OrderStuck, WalkBlocker, OrderDone
  <2>2. Entry' = Entry /\ Written' = Written /\ Ready' = Ready
    BY <2>1 DEF Entry, Written, Ready, BlockReady
  <2>3. \A e : Matched(e)' = Matched(e)
    BY <2>1, SameChoices
  <2>4. \A e, n : Prefers(e, n)' = Prefers(e, n)
    BY <2>1, SameChoices
  <2>5. ClaimsInOrder'
    BY <2>1, <2>2, <2>3 DEF ChoiceInv, ClaimsInOrder
  <2>6. PreferenceKept'
    BY <2>1, <2>2, <2>4 DEF ChoiceInv, PreferenceKept
  <2>7. Accepted' /\ WalkStuck' /\ AllocNeverFails'
    BY <2>1, <2>2 DEF ChoiceInv, Accepted, WalkStuck, AllocNeverFails
  <2> QED
    BY <2>5, <2>6, <2>7 DEF ChoiceInv
<1> QED
  BY <1>1, <1>2, <1>3, ChoiceInvMatch, ChoiceInvFree DEF AllocNext

\* Nothing happens.
LEMMA ChoiceInvStutter ==
    ASSUME ChoiceInv, UNCHANGED alloc_vars
    PROVE  ChoiceInv'
<1>1. UNCHANGED <<entries, baseline, alloc_pc, cursor, num, refs, order>>
  BY DEF alloc_vars
<1>2. Entry' = Entry /\ Written' = Written /\ Ready' = Ready
  BY <1>1 DEF Entry, Written, Ready, BlockReady
<1>3. \A e : Matched(e)' = Matched(e) /\ Outdone(e)' = Outdone(e)
  BY <1>1, SameChoices
<1>4. \A e, n : Prefers(e, n)' = Prefers(e, n)
  BY <1>1, SameChoices
<1> QED
  BY <1>1, <1>2, <1>3, <1>4 DEF ChoiceInv, Accepted, ClaimsInOrder, PreferenceKept, WalkStuck, AllocNeverFails

(***************************************************************************)
(* Theorems.                                                                *)
(***************************************************************************)

\* vip_alloc() keeps its inductive invariant from one loop iteration to the
\* next, on every list and every baseline.
THEOREM PlannerInvariant == PlannerSpec => []PlanInv
<1>1. AllocInit => PlanInv
  BY PlanInvInit
<1>2. PlanInv /\ [PlannerNext]_alloc_vars => PlanInv'
  <2>1. ASSUME PlanInv, Plan PROVE PlanInv'
    BY <2>1, PlanInvStart, VipAllocAssumption DEF Plan
  <2> QED
    BY <2>1, PlanInvNext, PlanInvStutter DEF PlannerNext
<1> QED
  BY <1>1, <1>2, PTL DEF PlannerSpec

\* The variables of vip_alloc() keep their types; in particular every number it
\* assigns and every reference it tracks is a block of fwd_table.
THEOREM PlannerTypeOK == PlannerSpec => []AllocTypeOK
<1>1. PlanInv => AllocTypeOK
  BY DEF PlanInv
<1> QED
  BY <1>1, PlannerInvariant, PTL

\* A plan of vip_alloc() never has a block rewritten while a key of another
\* entry leads to it, for any number of VIPs, keys and blocks.
THEOREM PlannerSafe == PlannerSpec => []SafePlan
  BY PlannerInvariant, PlanInvSafe, PTL

\* The second invariant, on every list and every baseline.
THEOREM PlannerChoices == PlannerSpec => []ChoiceInv
<1>1. AllocInit => ChoiceInv
  BY ChoiceInvInit
<1>2. PlanInv /\ ChoiceInv /\ [PlannerNext]_alloc_vars => ChoiceInv'
  <2>1. ASSUME Plan PROVE ChoiceInv'
    BY <2>1, ChoiceInvStart DEF Plan
  <2> QED
    BY <2>1, ChoiceInvNext, ChoiceInvStutter DEF PlannerNext
<1> QED
  BY <1>1, <1>2, PlannerInvariant, PTL DEF PlannerSpec

\* vip_alloc() never fails for want of a block once it has accepted its arguments:
\* vip_alloc_relocate() finds one even when every key is live and every block taken,
\* for any number of VIPs.
THEOREM PlannerNeverFails == PlannerSpec => []AllocNeverFails
<1>1. ChoiceInv => AllocNeverFails
  BY DEF ChoiceInv
<1> QED
  BY <1>1, PlannerChoices, PTL

\* vip_alloc_match() before any free number is given, and relocation of cycles only:
\* an entry whose live keys share their block with no other entry keeps it.
THEOREM PlannerStable == PlannerSpec => []StablePreference
<1>1. ChoiceInv => StablePreference
  BY DEF ChoiceInv, PreferenceKept, StablePreference, Prefers
<1> QED
  BY <1>1, PlannerChoices, PTL

(***************************************************************************)
(* The walk of vip_alloc_order() along blocked entries.  That the entry it  *)
(* comes back to is on a cycle is not a matter of where it is: the          *)
(* invariant keeps the whole way it came.                                   *)
(***************************************************************************)

\* way is a chain of n steps from an entry to one that blocks it; it passes no
\* entry twice, seen[] holds the entries it has left, and it ends at cursor.
Walked(n, way) ==
    /\ way \in [0 .. n -> Entry]
    /\ way[n] = cursor
    /\ seen = {way[i] : i \in 0 .. (n - 1)}
    /\ \A i, j \in 0 .. (n - 1) : way[i] = way[j] => i = j
    /\ \A i \in 0 .. (n - 1) : way[i + 1] \in Blockers(way[i])

WalkInv == alloc_pc = "walk" => \E n \in Nat : \E way : Walked(n, way)

\* An entry that is not ready has a blocker to walk to.
LEMMA BlockerExists ==
    ASSUME PlanInv, ChoiceInv, alloc_pc = "walk"
    PROVE  Blockers(cursor) # {}
<1>1. cursor \in Entry \ Written /\ cursor \notin Ready
  BY DEF PlanInv, AtControl, ChoiceInv, WalkStuck
<1>2. ~BlockReady(num[cursor], cursor)
  BY <1>1 DEF Ready
<1>3. PICK k \in DOMAIN refs : refs[k] = num[cursor] /\ k \notin KeysOf(entries, cursor)
  BY <1>2 DEF BlockReady
<1>4. Owner(k) \in Blockers(cursor)
  BY <1>3 DEF Blockers
<1> QED
  BY <1>4

\* The walk starts at the first unwritten entry, having left none.
LEMMA WalkStarts ==
    ASSUME PlanInv, OrderStuck
    PROVE  WalkInv'
<1>0. PICK c : c = cursor'
  OBVIOUS
<1> DEFINE w == [i \in 0 .. 0 |-> c]
<1>1. Entry \ Written \subseteq Nat /\ Entry \ Written # {}
  BY EntryIndexes DEF PlanInv, OrderStuck
<1>2. cursor' \in Entry \ Written /\ seen' = {} /\ Entry' = Entry
  BY <1>1, MinIn DEF OrderStuck, Entry
<1>3. w \in [0 .. 0 -> Entry] /\ w[0] = c /\ 0 .. (0 - 1) = {}
  BY <1>0, <1>2
<1> HIDE DEF w
<1>4. Walked(0, w)'
  BY <1>0, <1>2, <1>3 DEF Walked
<1> QED
  BY <1>4 DEF WalkInv

\* A step of the walk lengthens the way by an entry not yet left.
LEMMA WalkGoesOn ==
    ASSUME PlanInv, ChoiceInv, WalkInv, WalkBlocker
    PROVE  WalkInv'
<1>1. alloc_pc = "walk" /\ cursor \notin seen /\ seen' = seen \cup {cursor}
  BY DEF WalkBlocker
<1>0. PICK n \in Nat : \E way : Walked(n, way)
  BY <1>1 DEF WalkInv
<1>2. PICK way : Walked(n, way)
  BY <1>0
<1>c. PICK c : c = cursor'
  OBVIOUS
<1>3. c \in Blockers(cursor) /\ c \in Entry
  BY <1>1, <1>c, BlockerExists, BlockerUnwritten DEF WalkBlocker
<1>4. Entry' = Entry /\ \A e : Blockers(e)' = Blockers(e)
  BY DEF WalkBlocker, Entry, Blockers, Owner
<1> DEFINE w == [i \in 0 .. (n + 1) |-> IF i = n + 1 THEN c ELSE way[i]]
<1>5. w[n + 1] = c /\ \A i \in 0 .. n : w[i] = way[i] /\ i \in 0 .. (n + 1)
  OBVIOUS
<1>6. w \in [0 .. (n + 1) -> Entry]
  BY <1>2, <1>3 DEF Walked
<1> HIDE DEF w
<1>7. way[n] = cursor /\ 0 .. n = (0 .. (n - 1)) \cup {n}
  BY <1>2 DEF Walked
<1>8. seen' = {w[i] : i \in 0 .. n}
  BY <1>1, <1>2, <1>5, <1>7 DEF Walked
<1>9. \A i, j \in 0 .. n : w[i] = w[j] => i = j
  <2>1. \A i \in 0 .. (n - 1) : way[i] # cursor
    BY <1>1, <1>2 DEF Walked
  <2>2. \A i, j \in 0 .. n : way[i] = way[j] => i = j
    BY <1>2, <1>7, <2>1 DEF Walked
  <2> QED
    BY <1>5, <2>2
<1>10. ASSUME NEW i \in 0 .. n PROVE w[i + 1] \in Blockers(w[i])
  <2>1. CASE i = n
    BY <1>3, <1>5, <1>7, <2>1
  <2>2. CASE i # n
    <3>1. i \in 0 .. (n - 1) /\ i + 1 \in 0 .. n
      BY <2>2
    <3> QED
      BY <1>2, <1>5, <3>1 DEF Walked
  <2> QED
    BY <2>1, <2>2
<1>11. n + 1 \in Nat /\ (n + 1) - 1 = n
  OBVIOUS
<1>12. Walked(n + 1, w)'
  BY <1>c, <1>4, <1>5, <1>6, <1>8, <1>9, <1>10, <1>11 DEF Walked
<1> QED
  BY <1>11, <1>12 DEF WalkInv

\* Where the walk has come back to an entry it left, the way since then is a cycle,
\* no longer than there are entries.
LEMMA WalkCloses ==
    ASSUME PlanInv, WalkInv, alloc_pc = "walk", cursor \in seen
    PROVE  OnCycle(cursor)
<1>0. PICK n \in Nat : \E way : Walked(n, way)
  BY DEF WalkInv
<1>1. PICK way : Walked(n, way)
  BY <1>0
<1>2. PICK k \in 0 .. (n - 1) : way[k] = cursor
  BY <1>1 DEF Walked
<1> DEFINE len == n - k
           path == [i \in 0 .. len |-> way[k + i]]
           left == [i \in 0 .. (n - 1) |-> way[i]]
<1>3. len \in Nat /\ len >= 1 /\ len <= n /\ k \in Nat /\ k + len = n
  BY <1>2
<1>4. path[0] = cursor /\ path[len] = cursor
  BY <1>1, <1>2, <1>3 DEF Walked
<1>5. path \in [0 .. len -> Entry]
  <2>1. \A i \in 0 .. len : k + i \in 0 .. n
    BY <1>3
  <2> QED
    BY <1>1, <2>1 DEF Walked
<1>6. ASSUME NEW i \in 0 .. (len - 1) PROVE path[i + 1] \in Blockers(path[i])
  <2>1. k + i \in 0 .. (n - 1) /\ i \in 0 .. len /\ i + 1 \in 0 .. len /\ k + (i + 1) = (k + i) + 1
    BY <1>3
  <2>2. path[i] = way[k + i] /\ path[i + 1] = way[(k + i) + 1]
    BY <2>1
  <2> HIDE DEF path
  <2> QED
    BY <1>1, <2>1, <2>2 DEF Walked
<1>7. IsFiniteSet(Entry) /\ Cardinality(Entry) \in Nat
  BY EntryIndexes, FS_Interval, FS_CardinalityType DEF PlanInv
<1>8. n <= Cardinality(Entry)
  <2>1. left \in [0 .. (n - 1) -> Entry]
    BY <1>1 DEF Walked
  <2>2. \A i, j \in 0 .. (n - 1) : left[i] = left[j] => i = j
    BY <1>1 DEF Walked
  <2>3. left \in Injection(0 .. (n - 1), Entry)
    <3> HIDE DEF left
    <3> QED
      BY <2>1, <2>2, Zenon DEF Injection, IsInjective
  <2>4. Cardinality(0 .. (n - 1)) = n
    BY <1>2, FS_Interval
  <2> HIDE DEF left
  <2> QED
    BY <1>7, <2>3, <2>4, FS_Injection
<1>9. len \in 1 .. Cardinality(Entry)
  BY <1>3, <1>7, <1>8
<1> HIDE DEF path, len
<1> QED
  BY <1>4, <1>5, <1>6, <1>9 DEF OnCycle

\* The walk keeps its way through every iteration.
THEOREM PlannerWalk == PlannerSpec => []WalkInv
<1>1. AllocInit => WalkInv
  BY DEF AllocInit, WalkInv
<1>2. ASSUME PlanInv, ChoiceInv, WalkInv, [PlannerNext]_alloc_vars PROVE WalkInv'
  <2>1. ASSUME Plan \/ ClaimMatch \/ ClaimFree \/ OrderReady \/ Relocate \/ OrderDone PROVE alloc_pc' # "walk"
    BY <2>1 DEF Plan, AllocStart, ClaimMatch, ClaimFree, OrderReady, Relocate, OrderDone
  <2>2. ASSUME alloc_pc' # "walk" PROVE WalkInv'
    BY <2>2 DEF WalkInv
  <2>3. ASSUME UNCHANGED alloc_vars PROVE WalkInv'
    <3>1. \A n, way : Walked(n, way)' = Walked(n, way)
      BY <2>3 DEF alloc_vars, Walked, Entry, Blockers, Owner
    <3> QED
      BY <1>2, <2>3, <3>1 DEF WalkInv, alloc_vars
  <2> QED
    BY <1>2, <2>1, <2>2, <2>3, WalkStarts, WalkGoesOn DEF PlannerNext, AllocNext
<1> QED
  BY <1>1, <1>2, PlannerInvariant, PlannerChoices, PTL DEF PlannerSpec

\* vip_alloc_order() relocates only what is on a cycle of blocked entries, for any
\* number of entries and any choice of blockers: every other entry is written to the
\* block it claimed.
THEOREM PlannerRelocates == PlannerSpec => RelocatedOnCycle
<1>1. ASSUME PlanInv, WalkInv, [PlannerNext]_alloc_vars, NEW e \in Entry,
             alloc_pc = "walk", num'[e] # num[e]
      PROVE  OnCycle(e)
  <2>1. Relocate
    BY <1>1 DEF PlannerNext, AllocNext, alloc_vars, Plan, ClaimMatch, ClaimFree, OrderReady,
                OrderStuck, WalkBlocker, OrderDone
  <2>2. cursor \in seen /\ num \in [Entry -> Num \cup {Unset}]
    BY <1>1, <2>1 DEF Relocate, PlanInv, AllocTypeOK
  <2>3. \A f \in Entry : f # cursor => num'[f] = num[f]
    BY <2>1, <2>2 DEF Relocate, Schedule
  <2> QED
    BY <1>1, <2>2, <2>3, WalkCloses
<1>2. PlanInv /\ WalkInv /\ [PlannerNext]_alloc_vars =>
         [\A e \in Entry : alloc_pc = "walk" /\ num'[e] # num[e] => OnCycle(e)]_alloc_vars
  BY <1>1
<1> QED
  BY <1>2, PlannerInvariant, PlannerWalk, PTL DEF PlannerSpec, RelocatedOnCycle
=============================================================================
