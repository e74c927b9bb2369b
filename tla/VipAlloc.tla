------------------------------ MODULE VipAlloc ------------------------------
(***************************************************************************)
(* The planner of marlind/vip_alloc.c.  Given the [[vip]] entries of the    *)
(* wanted configuration and the vip_map rows read back from the kernel      *)
(* (the baseline), it assigns every entry a block of fwd_table (its         *)
(* vip_num) and an order in which the entries may be written so that no     *)
(* block is overwritten while a key of another entry still leads to it.     *)
(*                                                                         *)
(* The C code works on local arrays and is run to completion before any     *)
(* map write.  Here each iteration of its loops is one action, so that its  *)
(* loop invariants are invariants of a specification and can be proved.     *)
(* The module is extended by Reconcile, which runs the planner on the live  *)
(* vip_map and then executes the plan.                                      *)
(*                                                                         *)
(* Keys of vip_map are unique, so the baseline is a partial function from   *)
(* keys to block numbers; refs[] holds one reference per baseline row whose *)
(* key some entry owns, so it is such a function too.  The order in which   *)
(* the kernel hash table was read back is visible to the code only through  *)
(* the choice of a blocker, which is therefore nondeterministic.            *)
(***************************************************************************)
EXTENDS Integers, Sequences, FiniteSets, FiniteSetsExt, Functions

CONSTANTS
    Key,         \* VIP keys: (family, address, port, protocol)
    MaxVips,     \* MAX_VIPS: blocks of fwd_table, rows of vip_map
    EntryLists,  \* the [[vip]] lists considered, each a sequence of entries;
                 \* an entry is the sequence of its keys
    Baselines,   \* the contents of vip_map considered, key -> vip_num
    Unset        \* VIP_ALLOC_NUM_UNSET

Num == 0 .. (MaxVips - 1)

KeysOf(ents, e) == Range(ents[e])

KeyPositions(ents) == UNION {{e} \X DOMAIN ents[e] : e \in DOMAIN ents}

\* conf_check() accepts no list in which a key occurs twice.
UniqueKeys(ents) ==
    \A p, q \in KeyPositions(ents) : ents[p[1]][p[2]] = ents[q[1]][q[2]] => p = q

ASSUME VipAllocAssumption ==
    /\ MaxVips \in Nat \ {0}
    /\ Unset \notin Int
    /\ \A ents \in EntryLists : ents \in Seq(Seq(Key)) /\ UniqueKeys(ents)
    /\ \A base \in Baselines : /\ base \in [DOMAIN base -> Num]
                               /\ DOMAIN base \subseteq Key
                               /\ Cardinality(DOMAIN base) <= MaxVips

VARIABLES
    entries,     \* the argument entries[]
    baseline,    \* the argument baseline[], key -> vip_num
    alloc_pc,    \* where in vip_alloc() control is
    cursor,      \* index of the loops of vip_alloc_claim() and of the walk
    num,         \* entries[i].vip_num
    refs,        \* refs[], key -> the block it will lead to after the writes planned so far
    order,       \* plan->write_order
    seen         \* seen[] of the walk in vip_alloc_order()

alloc_vars == <<entries, baseline, alloc_pc, cursor, num, refs, order, seen>>

Entry == DOMAIN entries

Owned == UNION {KeysOf(entries, e) : e \in Entry}

\* used[]: exactly the numbers entries hold.
Used == {num[e] : e \in Entry} \ {Unset}

Written == Range(order)

(***************************************************************************)
(* The helpers of vip_alloc.c.                                              *)
(***************************************************************************)

\* vip_alloc_owner(): the entry holding a key.
Owner(k) == CHOOSE e \in Entry : k \in KeysOf(entries, e)

\* Mutated form of BlockReady: a block may be written while others refer to it.
BlockReadyAlways(n, e) == TRUE

\* vip_alloc_block_ready(): no entry other than e refers to block n.
BlockReady(n, e) == \A k \in DOMAIN refs : refs[k] = n => k \in KeysOf(entries, e)

\* vip_alloc_block_ready() with no entry excepted.
Unreferenced(n) == \A k \in DOMAIN refs : refs[k] # n

\* vip_alloc_blocker(): the entries that could be found first.
Blockers(e) == {Owner(k) : k \in {j \in DOMAIN refs :
                                     refs[j] = num[e] /\ j \notin KeysOf(entries, e)}}

\* vip_alloc_match(): the block of the first key of e that is in the baseline
\* with a block nobody has claimed.
MatchIndexes(e) == {j \in DOMAIN entries[e] :
                       /\ entries[e][j] \in DOMAIN baseline
                       /\ baseline[entries[e][j]] \notin Used}

Match(e) == IF MatchIndexes(e) = {} THEN Unset
            ELSE baseline[entries[e][Min(MatchIndexes(e))]]

(***************************************************************************)
(* vip_alloc().                                                             *)
(***************************************************************************)

\* Mutated form of AllocStart: entries[i].vip_num is not unset first.
AllocStartNoReset(ents, base) ==
    /\ entries' = ents
    /\ baseline' = base
    /\ refs' = Restrict(base, DOMAIN base \cap UNION {KeysOf(ents, e) : e \in DOMAIN ents})
    /\ order' = <<>>
    /\ seen' = {}
    /\ cursor' = 1
    /\ alloc_pc' = "match"
    /\ UNCHANGED num

\* The argument checks, the unset assignments and refs[].
AllocStart(ents, base) ==
    /\ entries' = ents
    /\ baseline' = base
    /\ num' = [e \in DOMAIN ents |-> Unset]
    /\ refs' = Restrict(base, DOMAIN base \cap UNION {KeysOf(ents, e) : e \in DOMAIN ents})
    /\ order' = <<>>
    /\ seen' = {}
    /\ cursor' = 1
    /\ alloc_pc' = IF /\ Cardinality(KeyPositions(ents)) <= MaxVips
                      /\ \A e \in DOMAIN ents : ents[e] # <<>>
                   THEN "match" ELSE "refused"

\* Mutated form of ClaimMatch: one pass only, so that an entry without a match
\* takes a free number before later entries have claimed theirs.
ClaimMatchGreedy ==
    /\ alloc_pc = "match"
    /\ IF cursor \in Entry
       THEN /\ num' = [num EXCEPT ![cursor] = IF Match(cursor) # Unset THEN Match(cursor)
                                                ELSE Min(Num \ Used)]
            /\ cursor' = cursor + 1
            /\ UNCHANGED alloc_pc
       ELSE /\ alloc_pc' = "free"
            /\ cursor' = 1
            /\ UNCHANGED num
    /\ UNCHANGED <<entries, baseline, refs, order, seen>>

\* First loop of vip_alloc_claim(): prefer a block the entry already holds.
ClaimMatch ==
    /\ alloc_pc = "match"
    /\ IF cursor \in Entry
       THEN /\ num' = [num EXCEPT ![cursor] = Match(cursor)]
            /\ cursor' = cursor + 1
            /\ UNCHANGED alloc_pc
       ELSE /\ alloc_pc' = "free"
            /\ cursor' = 1
            /\ UNCHANGED num
    /\ UNCHANGED <<entries, baseline, refs, order, seen>>

\* Second loop of vip_alloc_claim(): the lowest number nobody has claimed.
ClaimFree ==
    /\ alloc_pc = "free"
    /\ IF cursor \in Entry
       THEN LET free == Num \ Used IN
            /\ num' = IF num[cursor] = Unset /\ free # {}
                      THEN [num EXCEPT ![cursor] = Min(free)] ELSE num
            /\ alloc_pc' = IF num[cursor] = Unset /\ free = {} THEN "failed" ELSE "free"
            /\ cursor' = cursor + 1
       ELSE /\ alloc_pc' = "order"
            /\ UNCHANGED <<num, cursor>>
    /\ UNCHANGED <<entries, baseline, refs, order, seen>>

\* Mutated form of Schedule: the entry is not recorded as written.
ScheduleForgotten(e, n) ==
    /\ num' = [num EXCEPT ![e] = n]
    /\ refs' = [k \in DOMAIN refs |-> IF k \in KeysOf(entries, e) THEN n ELSE refs[k]]
    /\ UNCHANGED order

\* The tail of an iteration of vip_alloc_order(): the entry is the next one to
\* be written, and from then on its keys lead to its block.
Schedule(e, n) ==
    /\ num' = [num EXCEPT ![e] = n]
    /\ order' = Append(order, e)
    /\ refs' = [k \in DOMAIN refs |-> IF k \in KeysOf(entries, e) THEN n ELSE refs[k]]

Ready == {e \in Entry \ Written : BlockReady(num[e], e)}

\* An iteration of vip_alloc_order() that finds an entry it can write in place.
OrderReady ==
    /\ alloc_pc = "order"
    /\ Ready # {}
    /\ Schedule(Min(Ready), num[Min(Ready)])
    /\ UNCHANGED <<entries, baseline, alloc_pc, cursor, seen>>

\* Mutated form of OrderStuck: the first blocked entry is relocated, cycle or not.
OrderStuckNoWalk ==
    /\ alloc_pc = "order"
    /\ Ready = {}
    /\ Entry \ Written # {}
    /\ cursor' = Min(Entry \ Written)
    /\ seen' = {Min(Entry \ Written)}
    /\ alloc_pc' = "walk"
    /\ UNCHANGED <<entries, baseline, num, refs, order>>

\* Every unwritten entry is blocked: start walking at the first of them.
OrderStuck ==
    /\ alloc_pc = "order"
    /\ Ready = {}
    /\ Entry \ Written # {}
    /\ cursor' = Min(Entry \ Written)
    /\ seen' = {}
    /\ alloc_pc' = "walk"
    /\ UNCHANGED <<entries, baseline, num, refs, order>>

\* One step of the walk from a blocked entry to an entry that blocks it.
WalkBlocker ==
    /\ alloc_pc = "walk"
    /\ cursor \notin seen
    /\ seen' = seen \cup {cursor}
    /\ cursor' \in IF Blockers(cursor) = {} THEN {cursor} ELSE Blockers(cursor)
    /\ UNCHANGED <<entries, baseline, alloc_pc, num, refs, order>>

\* Mutated form of Relocate: the search for a spare block starts after the
\* block being given up instead of at 0.
RelocateUpwards ==
    /\ alloc_pc = "walk"
    /\ cursor \in seen
    /\ LET spare == {n \in Num \ Used : Unreferenced(n) /\ n > num[cursor]} IN
       IF spare # {}
       THEN /\ Schedule(cursor, Min(spare))
            /\ alloc_pc' = "order"
       ELSE /\ alloc_pc' = "failed"
            /\ UNCHANGED <<num, refs, order>>
    /\ UNCHANGED <<entries, baseline, cursor, seen>>

\* vip_alloc_relocate() of the repeated entry, which is then written.
Relocate ==
    /\ alloc_pc = "walk"
    /\ cursor \in seen
    /\ LET spare == {n \in Num \ Used : Unreferenced(n)} IN
       IF spare # {}
       THEN /\ Schedule(cursor, Min(spare))
            /\ alloc_pc' = "order"
       ELSE /\ alloc_pc' = "failed"
            /\ UNCHANGED <<num, refs, order>>
    /\ UNCHANGED <<entries, baseline, cursor, seen>>

OrderDone ==
    /\ alloc_pc = "order"
    /\ Entry \ Written = {}
    /\ alloc_pc' = "done"
    /\ UNCHANGED <<entries, baseline, cursor, num, refs, order, seen>>

AllocNext ==
    \/ ClaimMatch \/ ClaimFree
    \/ OrderReady \/ OrderStuck \/ WalkBlocker \/ Relocate \/ OrderDone

\* plan->release: blocks of the baseline no entry was assigned.
Release == Range(baseline) \ Used

(***************************************************************************)
(* The planner on its own, on any list and any baseline.                    *)
(***************************************************************************)

AllocInit ==
    /\ entries = <<>> /\ baseline = <<>> /\ num = <<>> /\ refs = <<>>
    /\ order = <<>> /\ seen = {} /\ cursor = 1 /\ alloc_pc = "idle"

Plan == /\ alloc_pc = "idle"
        /\ \E ents \in EntryLists, base \in Baselines : AllocStart(ents, base)

PlannerNext == Plan \/ AllocNext

PlannerSpec == AllocInit /\ [][PlannerNext]_alloc_vars /\ WF_alloc_vars(AllocNext)

(***************************************************************************)
(* What the planner promises.                                               *)
(***************************************************************************)

\* The planner's variables have the types of their C counterparts; refs[] holds
\* exactly the baseline keys that some entry owns.
AllocTypeOK ==
    /\ entries \in Seq(Seq(Key)) /\ UniqueKeys(entries)
    /\ DOMAIN baseline \subseteq Key /\ Range(baseline) \subseteq Num
    /\ alloc_pc \in {"idle", "refused", "match", "free", "order", "walk", "done", "failed"}
    /\ cursor \in 1 .. (Len(entries) + 1)
    /\ num \in [Entry -> Num \cup {Unset}]
    /\ refs \in [DOMAIN baseline \cap Owned -> Num]
    /\ order \in Seq(Entry)
    /\ seen \subseteq Entry

\* Where key k leads when the entry at position p of the plan is about to be
\* written: its owner's block once the owner was written, its old block before.
Location(k, p) ==
    IF \E q \in 1 .. (p - 1) : order[q] = Owner(k) THEN num[Owner(k)] ELSE baseline[k]

\* vip_alloc.h: following write_order "moves foreign aliases away before their
\* old block is overwritten".  When an entry's block is rewritten, no key of
\* another entry leads to it, whatever was regrouped.
SafePlan ==
    \A p \in DOMAIN order : \A k \in DOMAIN refs :
        k \notin KeysOf(entries, order[p]) => Location(k, p) # num[order[p]]

\* docs/design/31 s.8: breaking a dependency cycle "reserves no permanent spare".
\* A list that passes the argument checks is never refused for want of a block,
\* even when every row of vip_map and every block is in use.
AllocNeverFails == alloc_pc # "failed"

\* docs/design/31 s.8: "ordinary non-conflicting reloads retain the existing
\* assignment preference".  An entry whose live keys share a block with no other
\* entry's keys is assigned that block again, wherever it stands in the file.
StablePreference ==
    alloc_pc = "done" =>
        \A e \in Entry, n \in Num :
            LET mine == KeysOf(entries, e) \cap DOMAIN refs
                there == {k \in DOMAIN refs : baseline[k] = n}
            IN mine # {} /\ mine = there => num[e] = n

\* e is blocked by an entry that is blocked by ... that is blocked by e.
OnCycle(e) ==
    \E len \in 1 .. Cardinality(Entry) : \E path \in [0 .. len -> Entry] :
        /\ path[0] = e /\ path[len] = e
        /\ \A i \in 0 .. (len - 1) : path[i + 1] \in Blockers(path[i])

\* Comment in vip_alloc_order(): relocating the repeated entry "keeps every other
\* entry's block preference".  An entry loses the block it claimed only if it is
\* itself on a cycle of blocked entries.
RelocatedOnCycle ==
    [][\A e \in Entry : alloc_pc = "walk" /\ num'[e] # num[e] => OnCycle(e)]_alloc_vars

\* The loops of vip_alloc_order() end: each round schedules one more entry.
PlannerTerminates == alloc_pc = "match" ~> alloc_pc \in {"done", "failed"}
=============================================================================
