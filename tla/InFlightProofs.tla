--------------------------- MODULE InFlightProofs ---------------------------
(***************************************************************************)
(* Proofs about a packet that looks up its VIP, its row and its backend     *)
(* while configurations are applied around it.                              *)
(***************************************************************************)
EXTENDS InFlight, ReconcileProofs

(***************************************************************************)
(* The inductive invariant.  What is known of the maps from RouteInv is not *)
(* enough in three respects: a slot that a key leads to, and a slot that all *)
(* the configurations involved state, must be as one of them states it, and  *)
(* a VIP that all of them state alike must stay on its block.  The packet    *)
(* adds what it may still meet: it keeps a block number that no key may lead *)
(* to any more, and a connection ID.                                         *)
(***************************************************************************)

\* The slot of id is as some configuration of G states it.
SlotStated(id, G) == \E d \in G : id \in DOMAIN d.backends /\ backends[id] = d.backends[id].slot

MemberIds(c, e) == {c.vips[e].members[i].id : i \in DOMAIN c.vips[e].members}

\* Backend id is a member of a VIP of some configuration of G.
MemberStated(id, G) == \E c \in G : \E e \in DOMAIN c.vips : id \in MemberIds(c, e)

\* RowsPopulated, and by whom.
KeySlots ==
    \A k \in DOMAIN vip_map : \A r \in Row :
        fwd_table[vip_map[k]][r] # NO_BACKEND => SlotStated(fwd_table[vip_map[k]][r], gens)

\* A connection ID can name any slot: those of backends that stay in the file.
SlotsKept ==
    Serving => \A id \in Id : (\A c \in gens : id \in DOMAIN c.backends) => SlotStated(id, gens)

\* The VIP of key k has a block of its own, with its table, and had it when the plan
\* was made.
Steady(k) ==
    \A c \in gens :
        /\ k \in DOMAIN vip_map
        /\ \A l \in Key :
              l \in ServiceOf(c, k).keys <=> l \in DOMAIN vip_map /\ vip_map[l] = vip_map[k]
        /\ fwd_table[vip_map[k]] = ServiceOf(c, k).table
        /\ phase \in Steps => \A l \in Key :
              l \in ServiceOf(c, k).keys <=> l \in DOMAIN baseline /\ baseline[l] = vip_map[k]

SteadyInv == Serving => \A k \in Key : Agree(gens, k) => Steady(k)

\* What a packet that reads id from a row may find under it.
Known(id, G) ==
    id # NO_BACKEND => MemberStated(id, G) /\ (backends[id] = Zeroed \/ SlotStated(id, G))

\* pkt has the locals of marlin_lb_process().
PacketFields ==
    pkt = [pc |-> pkt.pc, dst |-> pkt.dst, key |-> pkt.key, vip_num |-> pkt.vip_num,
           linked |-> pkt.linked, reused |-> pkt.reused, cid |-> pkt.cid, by |-> pkt.by,
           row |-> pkt.row, id |-> pkt.id, verdict |-> pkt.verdict, slot |-> pkt.slot,
           gens |-> pkt.gens]

PacketTypes ==
    /\ pkt.pc \in {"any", "vip", "row", "backend", "done"} /\ pkt.dst \in Key
    /\ pkt.cid \in Id \cup {NO_BACKEND}
    /\ pkt.pc \in {"any", "vip"} => pkt.cid = NO_BACKEND
    /\ pkt.pc \in {"any", "vip", "row"} => pkt.by = "none"
    /\ pkt.pc = "backend" => pkt.by \in {"cid", "row"} /\ pkt.id \in Id

PacketKnown ==
    /\ Holding => pkt.vip_num \in Num /\ \A r \in Row : Known(fwd_table[pkt.vip_num][r], pkt.gens)
    /\ pkt.pc = "backend" /\ pkt.by = "row" => Known(pkt.id, pkt.gens)

\* What became of the packet's connection ID.
PacketCid ==
    pkt.cid # NO_BACKEND /\ AgreeOnSlot(pkt.gens, pkt.cid) =>
        \A c \in pkt.gens :
            IF c.backends[pkt.cid].slot.up THEN pkt.by = "cid" /\ pkt.id = pkt.cid ELSE pkt.by # "cid"

\* Until its element is reused the packet sees the block its VIP stays on.
PacketAt(k) ==
    /\ pkt.pc = "any" => k # pkt.dst
    /\ Holding => pkt.key = k /\ k \in DOMAIN vip_map /\ vip_map[k] = pkt.vip_num
    /\ pkt.pc = "backend" /\ pkt.by = "row" =>
          pkt.row \in Row /\ \A c \in pkt.gens : pkt.id = ServiceOf(c, k).table[pkt.row]

PacketSteady ==
    pkt.pc # "done" /\ ~pkt.reused =>
        \A k \in Addressed(pkt.gens, pkt.dst) : Agree(pkt.gens, k) => PacketAt(k)

PacketInv ==
    pkt # NoPacket =>
        /\ attached /\ PacketFields /\ PacketTypes
        /\ gens \subseteq pkt.gens /\ pkt.gens \subseteq Confs
        /\ PacketKnown /\ PacketCid /\ PacketSteady

FlightInv == PacketInv /\ InFlightKnown /\ InFlightUndisturbed

(***************************************************************************)
(* What configurations state.                                               *)
(***************************************************************************)

\* The VIP of a key in a configuration is that of the one entry holding the key.
LEMMA ServiceFacts ==
    ASSUME NEW c \in Confs, NEW e \in DOMAIN c.vips, NEW k \in Range(c.vips[e].keys)
    PROVE  /\ k \in ConfKeys(c)
           /\ ServiceOf(c, k).keys = Range(c.vips[e].keys)
           /\ ServiceOf(c, k).table = Table(c, e)
           /\ DOMAIN ServiceOf(c, k).slots = MemberIds(c, e)
           /\ \A id \in MemberIds(c, e) : ServiceOf(c, k).slots[id] = c.backends[id].slot
<1> DEFINE ents == EntryKeys(c)
           E == CHOOSE f \in DOMAIN c.vips : k \in Range(c.vips[f].keys)
<1>1. UniqueKeys(ents) /\ DOMAIN ents = DOMAIN c.vips /\ \A f \in DOMAIN ents : ents[f] = c.vips[f].keys
  BY ConfFacts, VipAllocAssumption DEF EntryKeys
<1>2. k \in ConfKeys(c)
  BY DEF ConfKeys
<1>3. E \in DOMAIN c.vips /\ k \in Range(c.vips[E].keys)
  BY Zenon
<1>4. ASSUME NEW f \in DOMAIN c.vips, k \in Range(c.vips[f].keys) PROVE f = e
  <2>1. PICK i \in DOMAIN ents[e] : k = ents[e][i]
    BY <1>1 DEF Range
  <2>2. PICK j \in DOMAIN ents[f] : k = ents[f][j]
    BY <1>1, <1>4 DEF Range
  <2>3. <<e, i>> \in KeyPositions(ents) /\ <<f, j>> \in KeyPositions(ents)
    BY <1>1 DEF KeyPositions
  <2> HIDE DEF ents
  <2> QED
    BY <1>1, <2>1, <2>2, <2>3, Zenon DEF UniqueKeys
<1>5. E = e
  BY <1>3, <1>4
<1>6. ServiceOf(c, k) = [keys |-> Range(c.vips[E].keys), table |-> Table(c, E),
                         slots |-> [id \in MemberIds(c, E) |-> c.backends[id].slot]]
  BY DEF ServiceOf, MemberIds
<1> HIDE DEF E
<1> QED
  BY <1>2, <1>5, <1>6

\* A key of a configuration is stated by one of its entries.
LEMMA EntryOfKey ==
    ASSUME NEW c, NEW k \in ConfKeys(c)
    PROVE  \E e \in DOMAIN c.vips : k \in Range(c.vips[e].keys)
  BY DEF ConfKeys

\* A row of a table of c that is not MARLIN_NO_BACKEND is a member of a VIP of c.
LEMMA TableMember ==
    ASSUME NEW c \in Confs, NEW e \in DOMAIN c.vips, NEW r \in Row, Table(c, e)[r] # NO_BACKEND
    PROVE  /\ Table(c, e)[r] \in MemberIds(c, e) /\ Table(c, e)[r] \in DOMAIN c.backends
           /\ Table(c, e)[r] \in Id
  BY TableRows, ConfFacts DEF MemberIds

\* Fewer configurations agree at least as much.
LEMMA AgreeSubset ==
    ASSUME NEW G, NEW H, H \subseteq G, NEW k, Agree(G, k)
    PROVE  Agree(H, k)
  BY DEF Agree

(***************************************************************************)
(* The map writes of reconcile_apply(), one by one.                         *)
(***************************************************************************)

\* A write to one map within a phase.
LEMMA WriteFixed ==
    ASSUME RouteInv, Stay, phase \in Steps \ {"plan"}
    PROVE  /\ UNCHANGED <<phase, mode, conf, file, gens, attached, index, entries, baseline, num, order>>
           /\ Serving' = Serving /\ Entry' = Entry
           /\ PlanInv /\ ChoiceInv /\ alloc_pc = "done" /\ phase \in Steps
           /\ conf \in Confs /\ conf \in gens /\ Entry = DOMAIN conf.vips
           /\ \A e \in Entry : KeysOf(entries, e) = Range(conf.vips[e].keys)
  BY StayFixed

\* What WriteRow does to the maps: one row of the block being written.
LEMMA WriteRowEffect ==
    ASSUME RouteInv, WriteRow
    PROVE  /\ phase = "vips" /\ index \in DOMAIN order /\ Stay /\ UNCHANGED <<vip_map, backends>>
           /\ \E e \in Entry, r \in Row :
                 /\ e = order[index] /\ num[e] \in Num
                 /\ fwd_table[num[e]][r] # Table(conf, e)[r]
                 /\ fwd_table' = [fwd_table EXCEPT ![num[e]][r] = Table(conf, e)[r]]
<1>1. /\ phase = "vips" /\ index \in DOMAIN order /\ RowsToWrite # {} /\ Stay
      /\ UNCHANGED <<vip_map, backends>> /\ phase \in Steps \ {"plan"}
  BY DEF WriteRow, Steps
<1>2. PICK e \in Entry : e = order[index] /\ num[e] \in Num
  BY <1>1, WriteFixed, PlanComplete
<1>3. RowsToWrite = {s \in Row : fwd_table[num[e]][s] # Table(conf, e)[s]}
  BY <1>2 DEF RowsToWrite, WrongRows, ThisEntry
<1>4. RowsToWrite \subseteq Nat
  BY <1>3, RowTypes
<1>5. Min(RowsToWrite) \in RowsToWrite
  BY <1>1, <1>4, MinIn
<1>6. fwd_table' = [fwd_table EXCEPT ![num[e]][Min(RowsToWrite)] = Table(conf, e)[Min(RowsToWrite)]]
  BY <1>2 DEF WriteRow, ThisEntry
<1> QED
  BY <1>1, <1>2, <1>3, <1>5, <1>6

\* What PublishKey does: one key leads to a block that is complete.
LEMMA PublishEffect ==
    ASSUME RouteInv, PublishKey
    PROVE  /\ phase = "vips" /\ index \in DOMAIN order /\ Stay /\ UNCHANGED <<fwd_table, backends>>
           /\ \E e \in Entry : \E key \in KeysOf(entries, e) :
                 /\ e = order[index] /\ num[e] \in Num /\ fwd_table[num[e]] = Table(conf, e)
                 /\ key \notin DOMAIN vip_map \/ vip_map[key] # num[e]
                 /\ DOMAIN vip_map' = DOMAIN vip_map \cup {key} /\ vip_map'[key] = num[e]
                 /\ \A k \in DOMAIN vip_map : k # key => vip_map'[k] = vip_map[k]
<1>1. /\ phase = "vips" /\ index \in DOMAIN order /\ RowsToWrite = {} /\ KeysToPublish # {} /\ Stay
      /\ UNCHANGED <<fwd_table, backends>> /\ phase \in Steps \ {"plan"}
  BY DEF PublishKey, Steps
<1>2. PICK e \in Entry : e = order[index] /\ num[e] \in Num
  BY <1>1, WriteFixed, PlanComplete
<1>3. fwd_table[num[e]] = Table(conf, e)
  <2>1. fwd_table[num[e]] \in [Row -> Id \cup {NO_BACKEND}]
    BY <1>2 DEF RouteInv, MapTypes
  <2>2. Table(conf, e) \in [Row -> Id \cup {NO_BACKEND}]
    BY <1>1, WriteFixed, TableRows
  <2>3. \A s \in Row : fwd_table[num[e]][s] = Table(conf, e)[s]
    BY <1>1, <1>2 DEF RowsToWrite, WrongRows, ThisEntry
  <2> QED
    BY <2>1, <2>2, <2>3
<1>4. PICK j \in DOMAIN entries[e] :
         /\ j = Min(KeysToPublish)
         /\ entries[e][j] \notin DOMAIN vip_map \/ vip_map[entries[e][j]] # num[e]
  <2>1. KeysToPublish = {i \in DOMAIN entries[e] :
                           entries[e][i] \notin DOMAIN vip_map \/ vip_map[entries[e][i]] # num[e]}
    BY <1>2 DEF KeysToPublish, ThisEntry
  <2>2. entries[e] \in Seq(Key)
    BY <1>1, WriteFixed, EntryIndexes DEF PlanInv
  <2>3. KeysToPublish \subseteq Nat
    BY <2>1, <2>2
  <2>4. Min(KeysToPublish) \in KeysToPublish
    BY <1>1, <2>3, MinIn
  <2> QED
    BY <2>1, <2>4
<1>5. PICK key \in KeysOf(entries, e) : key = entries[e][j]
  BY DEF KeysOf, Range
<1>6. vip_map' = [k \in DOMAIN vip_map \cup {key} |-> IF k = key THEN num[e] ELSE vip_map[k]]
  BY <1>2, <1>4, <1>5 DEF PublishKey, ThisEntry
<1>7. /\ DOMAIN vip_map' = DOMAIN vip_map \cup {key} /\ vip_map'[key] = num[e]
      /\ \A k \in DOMAIN vip_map : k # key => vip_map'[k] = vip_map[k]
  BY <1>6
<1> QED
  BY <1>1, <1>2, <1>3, <1>4, <1>5, <1>7

\* What ZeroRow does: a row that no key leads to is cleared.
LEMMA ZeroRowEffect ==
    ASSUME RouteInv, ZeroRow
    PROVE  /\ phase = "release" /\ Stay /\ UNCHANGED <<vip_map, backends>>
           /\ \A k \in DOMAIN vip_map : fwd_table'[vip_map[k]] = fwd_table[vip_map[k]]
           /\ \A n \in Num, s \in Row : fwd_table'[n][s] \in {fwd_table[n][s], NO_BACKEND}
<1>1. /\ phase = "release" /\ ToZero # {} /\ Stay /\ UNCHANGED <<vip_map, backends>>
      /\ phase \in Steps \ {"plan"} /\ phase \in AfterVips
  BY DEF ZeroRow, Steps, FromVips, AfterVips
<1>2. PICK n \in Num : n = Min(ToZero) /\ n \notin Used /\ WrongRows(n, [s \in Row |-> NO_BACKEND]) # {}
  <2>1. ToZero \subseteq Num
    BY <1>1, WriteFixed DEF ToZero, Release, PlanInv, AllocTypeOK
  <2>2. Min(ToZero) \in ToZero
    BY <1>1, <2>1, RowTypes, MinIn
  <2> QED
    BY <2>1, <2>2 DEF ToZero, Release
<1>3. PICK r \in Row : r = Min(WrongRows(n, [s \in Row |-> NO_BACKEND]))
  <2>1. WrongRows(n, [s \in Row |-> NO_BACKEND]) \subseteq Row
    BY DEF WrongRows
  <2> QED
    BY <1>2, <2>1, RowTypes, MinIn
<1>4. fwd_table' = [fwd_table EXCEPT ![n][r] = NO_BACKEND]
  BY <1>2, <1>3 DEF ZeroRow
<1>5. fwd_table \in [Num -> [Row -> Id \cup {NO_BACKEND}]]
  BY DEF RouteInv, MapTypes
<1>6. /\ \A m \in Num : m # n => fwd_table'[m] = fwd_table[m]
      /\ \A m \in Num, s \in Row : fwd_table'[m][s] \in {fwd_table[m][s], NO_BACKEND}
  BY <1>4, <1>5
<1>7. ASSUME NEW k \in DOMAIN vip_map PROVE fwd_table'[vip_map[k]] = fwd_table[vip_map[k]]
  <2>1. PICK e \in Entry : vip_map[k] = num[e] /\ num[e] \in Num
    BY <1>1, AllWritten
  <2>2. num[e] # n
    BY <1>1, <1>2, WriteFixed, PlanComplete DEF Used
  <2> QED
    BY <1>6, <2>1, <2>2
<1> QED
  BY <1>1, <1>6, <1>7

\* What DeleteStaleKey does: a key that the file does not state is gone.
LEMMA DeleteEffect ==
    ASSUME RouteInv, DeleteStaleKey
    PROVE  /\ phase \in Steps \ {"plan"} /\ Stay /\ UNCHANGED <<fwd_table, backends>>
           /\ \E gone \in DOMAIN vip_map \ ConfKeys(conf) :
                 /\ DOMAIN vip_map' = DOMAIN vip_map \ {gone}
                 /\ \A k \in DOMAIN vip_map' : vip_map'[k] = vip_map[k]
<1>1. PICK gone \in DOMAIN vip_map \ ConfKeys(conf) :
         vip_map' = Restrict(vip_map, DOMAIN vip_map \ {gone})
  BY DEF DeleteStaleKey, StaleKeys
<1>2. /\ DOMAIN vip_map' = DOMAIN vip_map \ {gone}
      /\ \A k \in DOMAIN vip_map' : vip_map'[k] = vip_map[k]
  BY <1>1 DEF Restrict
<1> QED
  BY <1>2 DEF DeleteStaleKey, Steps

\* What a write to the backends map does: one slot.
LEMMA BackendEffect ==
    ASSUME RouteInv, WriteBackend \/ RetireSlot
    PROVE  /\ phase \in Steps \ {"plan"} /\ Stay /\ UNCHANGED <<vip_map, fwd_table>>
           /\ \E id \in Id : \A j \in Id :
                 \/ j # id /\ backends'[j] = backends[j]
                 \/ j = id /\ WriteBackend /\ id \in DOMAIN conf.backends
                    /\ backends'[j] = conf.backends[j].slot
                 \/ j = id /\ RetireSlot /\ id \notin DOMAIN conf.backends /\ backends'[j] = Zeroed
<1>1. /\ phase \in Steps \ {"plan"} /\ Stay /\ UNCHANGED <<vip_map, fwd_table>>
      /\ DOMAIN backends = Id
  BY DEF WriteBackend, RetireSlot, Steps, RouteInv, MapTypes
<1>2. CASE WriteBackend
  <2>1. PICK id \in DOMAIN conf.backends :
           backends' = [backends EXCEPT ![id] = conf.backends[id].slot]
    BY <1>2 DEF WriteBackend
  <2>2. id \in Id
    BY <1>1, WriteFixed, ConfFacts
  <2> QED
    BY <1>1, <1>2, <2>1, <2>2
<1>3. CASE RetireSlot
  <2>1. PICK id \in Id \ DOMAIN conf.backends : backends' = [backends EXCEPT ![id] = Zeroed]
    BY <1>3 DEF RetireSlot, StaleSlots
  <2> QED
    BY <1>1, <1>3, <2>1
<1> QED
  BY <1>2, <1>3

\* The steps that write none of the three maps a packet reads.
Quiet ==
    /\ UNCHANGED <<vip_map, fwd_table, backends>>
    /\ gens \subseteq gens'
    /\ Serving' => Serving
    /\ phase' \in Steps => baseline' = vip_map \/ (phase \in Steps /\ baseline' = baseline)

\* Starts, reloads and ends of the process write none of the three maps.
LEMMA QuietProcess ==
    ASSUME RouteInv,
           \/ \E c \in Confs : Startup(c) \/ Reload(c)
           \/ Attach \/ Stop \/ Kill \/ UNCHANGED vars
    PROVE  Quiet
<1> USE DEF Quiet, Serving
<1>1. ASSUME NEW c \in Confs, Startup(c) \/ Reload(c) PROVE Quiet
  BY <1>1 DEF Startup, Reload, Begin, AllocStart, maps
<1>2. CASE Attach
  BY <1>2 DEF Attach, maps, Steps
<1>3. CASE Stop
  BY <1>3 DEF Stop, maps, Steps
<1>4. CASE Kill
  BY <1>4 DEF Kill, maps, Steps
<1>5. CASE UNCHANGED vars
  BY <1>5 DEF vars, maps, alloc_vars
<1> QED
  BY <1>1, <1>2, <1>3, <1>4, <1>5

\* Nor does a call that fails.
LEMMA QuietFailures ==
    ASSUME RouteInv,
           \/ HostFault \/ AclFull \/ TxPortsFull \/ WriteBackendFails \/ RetireFails
           \/ PlanEnd /\ alloc_pc # "done"
    PROVE  Quiet
<1>1. \E why : Fail(why)
  BY DEF HostFault, AclFull, TxPortsFull, WriteBackendFails, RetireFails, PlanEnd
<1> QED
  BY <1>1 DEF Fail, Quiet, Serving, maps, Steps

\* Nor do the remaining steps of reconcile_apply().
LEMMA QuietSteps ==
    ASSUME RouteInv,
           \/ PlanStep \/ (PlanEnd /\ alloc_pc = "done") \/ StaleKeysDone \/ WriteConfigUnion
           \/ AclInsert \/ AclDelete \/ AclListDone \/ AddTxPort \/ TxPortsAdded
           \/ BackendsWritten \/ VipWritten \/ VipsWritten
           \/ BlocksReleased \/ RetireDone \/ RemoveTxPort \/ TxPortsRemoved \/ Swallowed
    PROVE  Quiet
<1> USE DEF maps
<1>1. /\ UNCHANGED <<vip_map, fwd_table, backends, gens, attached, baseline>>
      /\ phase \in Steps /\ phase' # "attach"
  <2>1. CASE PlanStep
    <3>1. UNCHANGED baseline
      BY <2>1 DEF PlanStep, AllocNext, ClaimMatch, ClaimFree, OrderReady, OrderStuck, WalkBlocker,
                  Relocate, OrderDone
    <3> QED
      BY <2>1, <3>1 DEF PlanStep, Steps
  <2> USE DEF alloc_vars
  <2>2. CASE (PlanEnd /\ alloc_pc = "done") \/ StaleKeysDone
    BY <2>2 DEF PlanEnd, StaleKeysDone, Goto, Steps
  <2>3. CASE WriteConfigUnion \/ WriteConfigBlind \/ AclInsert \/ AclDelete
    BY <2>3 DEF WriteConfigUnion, WriteConfigBlind, write_config, AclInsert, AclDelete, Stay, Steps
  <2>7. CASE AclListDone \/ AclReadCut
    BY <2>7 DEF AclListDone, AclReadCut, NextList, Steps
  <2>4. CASE AddTxPort \/ TxPortsAdded \/ BackendsWritten
    BY <2>4 DEF AddTxPort, TxPortsAdded, BackendsWritten, Goto, Stay, Steps
  <2>5. CASE VipWritten \/ VipsWritten \/ BlocksReleased
    BY <2>5 DEF VipWritten, VipsWritten, BlocksReleased, Goto, Steps
  <2>6. CASE RetireDone \/ RemoveTxPort \/ TxPortsRemoved \/ TxReadCut
    BY <2>6 DEF RetireDone, RemoveTxPort, TxPortsRemoved, TxReadCut, TxPortsLeft, Goto, Stay, Steps
  <2> QED
    BY <2>1, <2>2, <2>3, <2>4, <2>5, <2>6, <2>7 DEF Swallowed
<1> QED
  BY <1>1 DEF Quiet, Serving

\* Every step is quiet, one of the map writes, or the end of an unpin or a success.
LEMMA StepKinds ==
    ASSUME RouteInv, [Next]_vars
    PROVE  \/ Quiet \/ Unpin \/ WriteConfigNarrow
           \/ WriteBackend \/ RetireSlot \/ DeleteStaleKey \/ WriteRow \/ PublishKey \/ ZeroRow
  BY QuietProcess, QuietFailures, QuietSteps DEF Next, ReconcileStep

(***************************************************************************)
(* The slots rows lead to are stated by the configurations involved.        *)
(***************************************************************************)

\* Once the backends are written, a row of the new tables leads to its own slot.
LEMMA SlotsOfTable ==
    ASSUME RouteInv, phase \in FromVips, NEW e \in DOMAIN conf.vips, NEW r \in Row,
           Table(conf, e)[r] # NO_BACKEND
    PROVE  /\ conf \in Confs /\ conf \in gens /\ Table(conf, e)[r] \in MemberIds(conf, e)
           /\ Table(conf, e)[r] \in DOMAIN conf.backends
           /\ backends[Table(conf, e)[r]] = conf.backends[Table(conf, e)[r]].slot
           /\ Table(conf, e)[r] \in Id
<1>1. conf \in Confs /\ conf \in gens
  BY ConfEntries DEF RouteInv, FromVips, Steps
<1> QED
  BY <1>1, TableMember DEF RouteInv, SlotsWritten

\* KeySlots is kept by every step of the reconciler.
LEMMA KeySlotsNext ==
    ASSUME RouteInv, KeySlots, [Next]_vars
    PROVE  KeySlots'
<1> SUFFICES ASSUME NEW k \in DOMAIN vip_map', NEW r \in Row, fwd_table'[vip_map'[k]][r] # NO_BACKEND
             PROVE  \E d \in gens' : /\ fwd_table'[vip_map'[k]][r] \in DOMAIN d.backends
                                     /\ backends'[fwd_table'[vip_map'[k]][r]]
                                          = d.backends[fwd_table'[vip_map'[k]][r]].slot
  BY DEF KeySlots, SlotStated
<1>0. \A l \in DOMAIN vip_map : \A s \in Row :
         fwd_table[vip_map[l]][s] # NO_BACKEND =>
            \E d \in gens : /\ fwd_table[vip_map[l]][s] \in DOMAIN d.backends
                            /\ backends[fwd_table[vip_map[l]][s]] = d.backends[fwd_table[vip_map[l]][s]].slot
  BY DEF KeySlots, SlotStated
<1>1. CASE Quiet
  BY <1>0, <1>1 DEF Quiet
<1>2. CASE Unpin
  BY <1>2 DEF Unpin
<1>3. CASE WriteConfigNarrow
  <2>1. /\ phase \in FromVips /\ phase \in AfterVips /\ gens' = {conf}
        /\ UNCHANGED <<vip_map, fwd_table, backends>>
    BY <1>3 DEF WriteConfigNarrow, write_config, FromVips, AfterVips
  <2>2. PICK e \in Entry : e \in DOMAIN conf.vips /\ fwd_table[vip_map[k]] = Table(conf, e)
    BY <2>1, AllWritten
  <2> QED
    BY <2>1, <2>2, SlotsOfTable
<1>4. CASE WriteBackend \/ RetireSlot
  <2>1. /\ phase \in Steps \ {"plan"} /\ Stay /\ UNCHANGED <<vip_map, fwd_table>>
        /\ UNCHANGED <<gens, conf>> /\ conf \in gens /\ conf \in Confs
    BY <1>4, BackendEffect, WriteFixed
  <2>2. PICK id \in Id : \A j \in Id :
                 \/ j # id /\ backends'[j] = backends[j]
                 \/ j = id /\ WriteBackend /\ id \in DOMAIN conf.backends
                    /\ backends'[j] = conf.backends[j].slot
                 \/ j = id /\ RetireSlot /\ id \notin DOMAIN conf.backends /\ backends'[j] = Zeroed
    BY <1>4, BackendEffect
  <2> DEFINE j == fwd_table[vip_map[k]][r]
  <2>3. j \in Id /\ k \in DOMAIN vip_map /\ j # NO_BACKEND
    BY <2>1 DEF RouteInv, MapTypes
  <2>4. CASE RetireSlot
    <3>1. phase \in FromVips /\ phase \in AfterVips
      BY <2>4 DEF RetireSlot, FromVips, AfterVips
    <3>2. PICK e \in Entry : e \in DOMAIN conf.vips /\ fwd_table[vip_map[k]] = Table(conf, e)
      BY <2>3, <3>1, AllWritten
    <3>3. j \in DOMAIN conf.backends /\ backends[j] = conf.backends[j].slot
      BY <2>3, <3>1, <3>2, SlotsOfTable
    <3>4. backends'[j] = backends[j]
      BY <2>2, <2>3, <3>3, <2>4 DEF WriteBackend, RetireSlot
    <3> QED
      BY <2>1, <3>3, <3>4
  <2>5. CASE ~RetireSlot
    <3>1. backends'[j] = backends[j] \/ (j \in DOMAIN conf.backends /\ backends'[j] = conf.backends[j].slot)
      BY <2>2, <2>3, <2>5
    <3> QED
      BY <1>0, <2>1, <2>3, <3>1
  <2> QED
    BY <2>4, <2>5
<1>5. CASE DeleteStaleKey
  <2>1. UNCHANGED <<fwd_table, backends, gens>>
    BY <1>5, DeleteEffect, WriteFixed
  <2>2. k \in DOMAIN vip_map /\ vip_map'[k] = vip_map[k]
    BY <1>5, DeleteEffect
  <2> QED
    BY <1>0, <2>1, <2>2
<1>6. CASE WriteRow
  <2>1. phase = "vips" /\ Stay /\ UNCHANGED <<vip_map, backends>> /\ phase \in Steps \ {"plan"} /\ phase \in FromVips
    BY <1>6, WriteRowEffect DEF Steps, FromVips
  <2>2. UNCHANGED gens /\ conf \in gens /\ conf \in Confs /\ Entry = DOMAIN conf.vips
    BY <2>1, WriteFixed
  <2>3. PICK e \in Entry, s \in Row :
                 /\ num[e] \in Num
                 /\ fwd_table' = [fwd_table EXCEPT ![num[e]][s] = Table(conf, e)[s]]
    BY <1>6, WriteRowEffect
  <2>4. fwd_table \in [Num -> [Row -> Id \cup {NO_BACKEND}]] /\ vip_map[k] \in Num /\ k \in DOMAIN vip_map
    BY <2>1 DEF RouteInv, MapTypes
  <2>5. CASE fwd_table'[vip_map[k]][r] = fwd_table[vip_map[k]][r]
    BY <1>0, <2>1, <2>2, <2>4, <2>5
  <2>6. CASE fwd_table'[vip_map[k]][r] # fwd_table[vip_map[k]][r]
    <3>1. fwd_table'[vip_map[k]][r] = Table(conf, e)[r]
      BY <2>3, <2>4, <2>6
    <3> QED
      BY <2>1, <2>2, <3>1, SlotsOfTable
  <2> QED
    BY <2>5, <2>6
<1>7. CASE PublishKey
  <2>1. phase = "vips" /\ Stay /\ UNCHANGED <<fwd_table, backends>> /\ phase \in Steps \ {"plan"} /\ phase \in FromVips
    BY <1>7, PublishEffect DEF Steps, FromVips
  <2>2. UNCHANGED gens /\ conf \in gens /\ conf \in Confs /\ Entry = DOMAIN conf.vips
    BY <2>1, WriteFixed
  <2>3. PICK e \in Entry : \E key \in KeysOf(entries, e) :
                 /\ fwd_table[num[e]] = Table(conf, e) /\ vip_map'[key] = num[e]
                 /\ DOMAIN vip_map' = DOMAIN vip_map \cup {key}
                 /\ \A l \in DOMAIN vip_map : l # key => vip_map'[l] = vip_map[l]
    BY <1>7, PublishEffect, Zenon
  <2>4. CASE vip_map'[k] = num[e]
    BY <2>1, <2>2, <2>3, <2>4, SlotsOfTable
  <2>5. CASE vip_map'[k] # num[e]
    <3>1. k \in DOMAIN vip_map /\ vip_map'[k] = vip_map[k]
      BY <2>3, <2>5
    <3> QED
      BY <1>0, <2>1, <2>2, <3>1
  <2> QED
    BY <2>4, <2>5
<1>8. CASE ZeroRow
  <2>1. /\ phase = "release" /\ Stay /\ UNCHANGED <<vip_map, backends>> /\ phase \in Steps \ {"plan"}
        /\ fwd_table'[vip_map[k]] = fwd_table[vip_map[k]]
    BY <1>8, ZeroRowEffect DEF Steps
  <2>2. UNCHANGED gens
    BY <2>1, WriteFixed
  <2> QED
    BY <1>0, <2>1, <2>2
<1> QED
  BY <1>1, <1>2, <1>3, <1>4, <1>5, <1>6, <1>7, <1>8, StepKinds

\* The slot of a backend that stays in the file is as some configuration involved
\* states it, from startup on.
LEMMA SlotsKeptNext ==
    ASSUME RouteInv, SlotsKept, [Next]_vars
    PROVE  SlotsKept'
<1> SUFFICES ASSUME Serving', NEW id \in Id, \A c \in gens' : id \in DOMAIN c.backends
             PROVE  \E d \in gens' : id \in DOMAIN d.backends /\ backends'[id] = d.backends[id].slot
  BY DEF SlotsKept, SlotStated
<1>0. Serving /\ (\A c \in gens : id \in DOMAIN c.backends) =>
         \E d \in gens : id \in DOMAIN d.backends /\ backends[id] = d.backends[id].slot
  BY DEF SlotsKept, SlotStated
<1>1. CASE Quiet
  <2>1. Serving /\ gens \subseteq gens' /\ UNCHANGED backends
    BY <1>1 DEF Quiet
  <2> QED
    BY <1>0, <2>1
<1>2. CASE Unpin
  BY <1>2 DEF Unpin, Serving, RouteInv, Control, Steps
<1>3. CASE WriteConfigNarrow
  <2>1. phase \in FromVips /\ gens' = {conf} /\ UNCHANGED backends
    BY <1>3 DEF WriteConfigNarrow, write_config, FromVips, AfterVips
  <2> QED
    BY <2>1 DEF RouteInv, SlotsWritten
<1>4. CASE WriteBackend \/ RetireSlot
  <2>1. /\ phase \in Steps \ {"plan"} /\ Stay /\ UNCHANGED <<gens, conf>> /\ conf \in gens /\ Serving
    BY <1>4, BackendEffect, WriteFixed
  <2>2. \/ backends'[id] = backends[id]
        \/ id \in DOMAIN conf.backends /\ backends'[id] = conf.backends[id].slot
        \/ id \notin DOMAIN conf.backends
    BY <1>4, BackendEffect
  <2> QED
    BY <1>0, <2>1, <2>2
<1>5. CASE DeleteStaleKey \/ WriteRow \/ PublishKey \/ ZeroRow
  <2>1. phase \in Steps \ {"plan"} /\ Stay /\ UNCHANGED backends
    BY <1>5, DeleteEffect, WriteRowEffect, PublishEffect, ZeroRowEffect DEF Steps
  <2>2. UNCHANGED gens /\ Serving
    BY <2>1, WriteFixed
  <2> QED
    BY <1>0, <2>1, <2>2
<1> QED
  BY <1>1, <1>2, <1>3, <1>4, <1>5, StepKinds

(***************************************************************************)
(* A VIP that all the configurations involved state alike stays where it is.*)
(***************************************************************************)

\* The planner gives it the block it has: no other key is, or was, on that block.
LEMMA SteadyBlock ==
    ASSUME RouteInv, phase \in Steps \ {"plan"}, NEW e \in Entry, NEW k \in KeysOf(entries, e), k \in Key,
           Steady(k)
    PROVE  num[e] = vip_map[k]
<1>1. PlanInv /\ ChoiceInv /\ alloc_pc = "done"
  BY DEF RouteInv, PlanKept
<1>2. conf \in Confs /\ conf \in gens /\ Entry = DOMAIN conf.vips /\ KeysOf(entries, e) = Range(conf.vips[e].keys)
  BY ConfEntries DEF RouteInv
<1>3. ServiceOf(conf, k).keys = KeysOf(entries, e)
  BY <1>2, ServiceFacts
<1>4. /\ k \in DOMAIN vip_map
      /\ \A l \in Key : l \in KeysOf(entries, e) <=> l \in DOMAIN baseline /\ baseline[l] = vip_map[k]
  BY <1>2, <1>3 DEF Steady
<1>5. DOMAIN refs = DOMAIN baseline \cap Owned /\ DOMAIN baseline \subseteq Key /\ KeysOf(entries, e) \subseteq Owned
  BY <1>1 DEF PlanInv, AllocTypeOK, Owned
<1>6. vip_map[k] \in Num
  BY <1>4 DEF RouteInv, MapTypes
<1>7. entries[e] \in Seq(Key)
  BY <1>1, EntryIndexes DEF PlanInv
<1>8. KeysOf(entries, e) \subseteq Key
  BY <1>7 DEF KeysOf, Range
<1>9. Prefers(e, vip_map[k])
  BY <1>4, <1>5, <1>8 DEF Prefers
<1> QED
  BY <1>1, <1>6, <1>9 DEF ChoiceInv, PreferenceKept

\* A step that writes no table leaves a VIP steady.
LEMMA SteadyQuiet ==
    ASSUME RouteInv, SteadyInv, UNCHANGED <<vip_map, fwd_table>>, gens \subseteq gens', Serving, Serving',
           phase' \in Steps => baseline' = vip_map \/ (phase \in Steps /\ baseline' = baseline),
           NEW k \in Key, Agree(gens', k)
    PROVE  Steady(k)'
<1>1. Agree(gens, k)
  BY AgreeSubset
<1>2. Steady(k)
  BY <1>1 DEF SteadyInv
<1>3. PICK d \in gens : TRUE
  BY DEF RouteInv, Control, Serving
<1> SUFFICES ASSUME NEW c \in gens'
             PROVE  /\ k \in DOMAIN vip_map
                    /\ \A l \in Key :
                          l \in ServiceOf(c, k).keys <=> l \in DOMAIN vip_map /\ vip_map[l] = vip_map[k]
                    /\ fwd_table[vip_map[k]] = ServiceOf(c, k).table
                    /\ phase' \in Steps => \A l \in Key :
                          l \in ServiceOf(c, k).keys <=> l \in DOMAIN baseline' /\ baseline'[l] = vip_map[k]
  BY DEF Steady
<1>4. ServiceOf(c, k) = ServiceOf(d, k)
  BY <1>3 DEF Agree
<1>5. /\ k \in DOMAIN vip_map
      /\ \A l \in Key : l \in ServiceOf(d, k).keys <=> l \in DOMAIN vip_map /\ vip_map[l] = vip_map[k]
      /\ fwd_table[vip_map[k]] = ServiceOf(d, k).table
      /\ phase \in Steps => \A l \in Key :
            l \in ServiceOf(d, k).keys <=> l \in DOMAIN baseline /\ baseline[l] = vip_map[k]
  BY <1>2, <1>3 DEF Steady
<1> QED
  BY <1>4, <1>5

\* A VIP is steady when its last reload has succeeded.
LEMMA SteadyDone ==
    ASSUME RouteInv, RouteInv', WriteConfigNarrow, NEW k \in Key, Agree(gens', k)
    PROVE  Steady(k)'
<1>1. phase \in Steps /\ gens' = {conf} /\ file' = conf /\ phase' \in {"attach", "run"}
  BY DEF WriteConfigNarrow, Steps
<1>2. PICK c \in Confs : c = conf
  BY <1>1, ConfEntries DEF RouteInv
<1>3. phase' \notin Steps /\ Serving'
  BY <1>1 DEF Steps, Serving, RouteInv, Control
<1>4. Applied(file)'
  BY <1>1, <1>3 DEF RouteInv, Settled
<1>5. /\ DOMAIN vip_map' = ConfKeys(c)
      /\ \A e \in DOMAIN c.vips : \A l \in Range(c.vips[e].keys) : fwd_table'[vip_map'[l]] = Table(c, e)
      /\ \A e, f \in DOMAIN c.vips :
            \A j \in Range(c.vips[e].keys), l \in Range(c.vips[f].keys) : e = f <=> vip_map'[j] = vip_map'[l]
  BY <1>1, <1>2, <1>4 DEF Applied
<1>6. PICK e \in DOMAIN c.vips : k \in Range(c.vips[e].keys)
  BY <1>1, <1>2, EntryOfKey DEF Agree
<1>7. ServiceOf(c, k).keys = Range(c.vips[e].keys) /\ ServiceOf(c, k).table = Table(c, e) /\ k \in ConfKeys(c)
  BY <1>6, ServiceFacts
<1>8. ASSUME NEW l \in Key
      PROVE  l \in ServiceOf(c, k).keys <=> l \in DOMAIN vip_map' /\ vip_map'[l] = vip_map'[k]
  <2>1. CASE l \in ConfKeys(c)
    <3>1. PICK f \in DOMAIN c.vips : l \in Range(c.vips[f].keys)
      BY <2>1, EntryOfKey
    <3>2. l \in Range(c.vips[e].keys) => vip_map'[l] = vip_map'[k]
      BY <1>5, <1>6
    <3>3. vip_map'[l] = vip_map'[k] => f = e
      BY <1>5, <1>6, <3>1
    <3> QED
      BY <1>5, <1>7, <2>1, <3>1, <3>2, <3>3
  <2>2. CASE l \notin ConfKeys(c)
    <3>1. l \notin Range(c.vips[e].keys)
      BY <2>2 DEF ConfKeys
    <3> QED
      BY <1>5, <1>7, <2>2, <3>1
  <2> QED
    BY <2>1, <2>2
<1>9. k \in DOMAIN vip_map' /\ fwd_table'[vip_map'[k]] = ServiceOf(c, k).table
  BY <1>5, <1>6, <1>7
<1> QED
  BY <1>1, <1>2, <1>3, <1>8, <1>9 DEF Steady

\* The map writes that concern VIPs go around it.
LEMMA SteadyWrites ==
    ASSUME RouteInv, DeleteStaleKey \/ WriteRow \/ PublishKey \/ ZeroRow,
           NEW k \in Key, Agree(gens, k), Steady(k), k \in DOMAIN vip_map,
           \A l \in Key : l \in ServiceOf(conf, k).keys <=> l \in DOMAIN vip_map /\ vip_map[l] = vip_map[k],
           fwd_table[vip_map[k]] = ServiceOf(conf, k).table
    PROVE  /\ k \in DOMAIN vip_map' /\ vip_map'[k] = vip_map[k]
           /\ fwd_table'[vip_map[k]] = fwd_table[vip_map[k]]
           /\ \A l \in Key : (l \in DOMAIN vip_map' /\ vip_map'[l] = vip_map'[k])
                                 <=> (l \in DOMAIN vip_map /\ vip_map[l] = vip_map[k])
<1>0. /\ phase \in Steps \ {"plan"} /\ Stay
  BY DeleteEffect, WriteRowEffect, PublishEffect, ZeroRowEffect DEF Steps
<1>1. /\ conf \in Confs /\ conf \in gens /\ Entry = DOMAIN conf.vips
      /\ \A e \in Entry : KeysOf(entries, e) = Range(conf.vips[e].keys)
  BY <1>0, WriteFixed
<1>2. PICK e \in Entry : k \in KeysOf(entries, e)
  BY <1>1, EntryOfKey DEF Agree
<1>3. ServiceOf(conf, k).keys = KeysOf(entries, e) /\ ServiceOf(conf, k).table = Table(conf, e)
  BY <1>1, <1>2, ServiceFacts
<1>4. MapTypes
  BY DEF RouteInv
<1>5. CASE DeleteStaleKey
  <2>1. UNCHANGED fwd_table
    BY <1>5, DeleteEffect
  <2>2. PICK gone \in DOMAIN vip_map \ ConfKeys(conf) :
                 /\ DOMAIN vip_map' = DOMAIN vip_map \ {gone}
                 /\ \A l \in DOMAIN vip_map' : vip_map'[l] = vip_map[l]
    BY <1>5, DeleteEffect
  <2>3. KeysOf(entries, e) \subseteq ConfKeys(conf)
    BY <1>1 DEF ConfKeys
  <2>4. vip_map[gone] # vip_map[k] /\ gone # k
    BY <1>2, <1>3, <1>4, <2>2, <2>3 DEF MapTypes
  <2> QED
    BY <2>1, <2>2, <2>4
<1>6. CASE WriteRow
  <2>1. phase = "vips" /\ index \in DOMAIN order /\ UNCHANGED vip_map
    BY <1>6, WriteRowEffect
  <2>2. PICK f \in Entry, r \in Row :
                 /\ f = order[index] /\ num[f] \in Num
                 /\ fwd_table[num[f]][r] # Table(conf, f)[r]
                 /\ fwd_table' = [fwd_table EXCEPT ![num[f]][r] = Table(conf, f)[r]]
    BY <1>6, WriteRowEffect
  <2>3. num[f] # vip_map[k]
    <3> SUFFICES ASSUME num[f] = vip_map[k] PROVE FALSE
      OBVIOUS
    <3>1. k \in KeysOf(entries, f)
      BY <2>1, <2>2, RowTarget
    <3>2. ServiceOf(conf, k).table = Table(conf, f)
      BY <1>1, <3>1, ServiceFacts
    <3> QED
      BY <2>2, <3>2
  <2>4. fwd_table'[vip_map[k]] = fwd_table[vip_map[k]]
    BY <1>4, <2>2, <2>3 DEF MapTypes
  <2> QED
    BY <2>1, <2>4
<1>7. CASE PublishKey
  <2>1. phase = "vips" /\ index \in DOMAIN order /\ UNCHANGED fwd_table
    BY <1>7, PublishEffect
  <2>2. PICK f \in Entry : f = order[index] /\ \E key \in KeysOf(entries, f) :
                 /\ key \notin DOMAIN vip_map \/ vip_map[key] # num[f]
                 /\ DOMAIN vip_map' = DOMAIN vip_map \cup {key} /\ vip_map'[key] = num[f]
                 /\ \A l \in DOMAIN vip_map : l # key => vip_map'[l] = vip_map[l]
    BY <1>7, PublishEffect, Zenon
  <2>3. PICK key \in KeysOf(entries, f) :
                 /\ key \notin DOMAIN vip_map \/ vip_map[key] # num[f]
                 /\ DOMAIN vip_map' = DOMAIN vip_map \cup {key} /\ vip_map'[key] = num[f]
                 /\ \A l \in DOMAIN vip_map : l # key => vip_map'[l] = vip_map[l]
    BY <2>2
  <2>4. key \in Key
    <3>1. entries[f] \in Seq(Key)
      BY <1>0, WriteFixed, EntryIndexes DEF PlanInv
    <3> QED
      BY <2>3, <3>1 DEF KeysOf, Range
  <2>5. key \notin KeysOf(entries, e)
    <3> SUFFICES ASSUME key \in KeysOf(entries, e) PROVE FALSE
      OBVIOUS
    <3>1. f = e
      BY <1>0, <2>3, WriteFixed, KeysDisjoint DEF PlanInv
    <3>2. num[e] = vip_map[k]
      BY <1>0, <1>2, SteadyBlock
    <3>3. key \in DOMAIN vip_map /\ vip_map[key] = vip_map[k]
      BY <1>3, <2>4
    <3> QED
      BY <2>3, <3>1, <3>2, <3>3
  <2>6. num[f] # vip_map[k]
    <3> SUFFICES ASSUME num[f] = vip_map[k] PROVE FALSE
      OBVIOUS
    <3>1. k \in KeysOf(entries, f)
      BY <2>1, <2>2, RowTarget
    <3>2. f = e
      BY <1>0, <1>2, <3>1, WriteFixed, KeysDisjoint DEF PlanInv
    <3> QED
      BY <2>3, <2>5, <3>2
  <2>7. key # k /\ ~(key \in DOMAIN vip_map /\ vip_map[key] = vip_map[k])
    BY <1>2, <1>3, <2>4, <2>5
  <2> QED
    BY <2>1, <2>3, <2>6, <2>7
<1>8. CASE ZeroRow
  BY <1>8, ZeroRowEffect
<1> QED
  BY <1>5, <1>6, <1>7, <1>8

\* SteadyInv is kept, and a VIP that the configurations before and after a step
\* state alike has the same block and the same rows after it.
LEMMA SteadyNext ==
    ASSUME RouteInv, RouteInv', SteadyInv, [Next]_vars, Serving', NEW k \in Key, Agree(gens', k)
    PROVE  /\ Steady(k)'
           /\ Serving /\ Agree(gens, k) => /\ k \in DOMAIN vip_map' /\ vip_map'[k] = vip_map[k]
                                           /\ fwd_table'[vip_map[k]] = fwd_table[vip_map[k]]
<1>0. Serving /\ Agree(gens, k) => k \in DOMAIN vip_map
  <2>1. Serving => \E c : c \in gens
    BY DEF RouteInv, Control, Serving
  <2> QED
    BY <2>1 DEF SteadyInv, Steady
<1>1. CASE Quiet
  <2>1. /\ UNCHANGED <<vip_map, fwd_table>> /\ gens \subseteq gens' /\ Serving
        /\ phase' \in Steps => baseline' = vip_map \/ (phase \in Steps /\ baseline' = baseline)
    BY <1>1 DEF Quiet
  <2> QED
    BY <1>0, <2>1, SteadyQuiet
<1>2. CASE Unpin
  BY <1>2 DEF Unpin, Serving, RouteInv, Control, Steps
<1>3. CASE WriteConfigNarrow
  <2>1. UNCHANGED <<vip_map, fwd_table>>
    BY <1>3 DEF WriteConfigNarrow, write_config
  <2> QED
    BY <1>0, <1>3, <2>1, SteadyDone
<1>4. CASE WriteBackend \/ RetireSlot
  <2>1. /\ UNCHANGED <<vip_map, fwd_table, gens, phase, baseline>> /\ Serving
    BY <1>4, BackendEffect, WriteFixed
  <2> QED
    BY <1>0, <2>1, SteadyQuiet
<1>5. CASE DeleteStaleKey \/ WriteRow \/ PublishKey \/ ZeroRow
  <2>1. phase \in Steps \ {"plan"} /\ Stay
    BY <1>5, DeleteEffect, WriteRowEffect, PublishEffect, ZeroRowEffect DEF Steps
  <2>2. UNCHANGED <<gens, phase, baseline, conf>> /\ Serving /\ conf \in gens /\ phase \in Steps
    BY <2>1, WriteFixed
  <2>3. Agree(gens, k) /\ Steady(k)
    BY <2>2 DEF SteadyInv
  <2>4. \A c \in gens : ServiceOf(c, k) = ServiceOf(conf, k)
    BY <2>2, <2>3 DEF Agree
  <2>5. /\ k \in DOMAIN vip_map
        /\ \A l \in Key : l \in ServiceOf(conf, k).keys <=> l \in DOMAIN vip_map /\ vip_map[l] = vip_map[k]
        /\ fwd_table[vip_map[k]] = ServiceOf(conf, k).table
        /\ \A l \in Key :
              l \in ServiceOf(conf, k).keys <=> l \in DOMAIN baseline /\ baseline[l] = vip_map[k]
    BY <2>2, <2>3 DEF Steady
  <2>6. /\ k \in DOMAIN vip_map' /\ vip_map'[k] = vip_map[k]
        /\ fwd_table'[vip_map[k]] = fwd_table[vip_map[k]]
        /\ \A l \in Key : (l \in DOMAIN vip_map' /\ vip_map'[l] = vip_map'[k])
                                 <=> (l \in DOMAIN vip_map /\ vip_map[l] = vip_map[k])
    BY <1>5, <2>3, <2>5, SteadyWrites
  <2>7. Steady(k)'
    BY <2>2, <2>4, <2>5, <2>6 DEF Steady
  <2> QED
    BY <2>6, <2>7
<1> QED
  BY <1>1, <1>2, <1>3, <1>4, <1>5, StepKinds

(***************************************************************************)
(* What a packet may meet.                                                  *)
(***************************************************************************)

\* What any key leads to is known from the configurations involved.
LiveRows == \A k \in DOMAIN vip_map : \A r \in Row : Known(fwd_table[vip_map[k]][r], gens)

\* Every row reached from a key leads to a member, as it is described.
LEMMA LiveRowsKnown == RouteInv /\ KeySlots => LiveRows
<1> SUFFICES ASSUME RouteInv, KeySlots, NEW k \in DOMAIN vip_map, NEW r \in Row,
                    fwd_table[vip_map[k]][r] # NO_BACKEND
             PROVE  /\ MemberStated(fwd_table[vip_map[k]][r], gens)
                    /\ SlotStated(fwd_table[vip_map[k]][r], gens)
  BY DEF LiveRows, Known
<1>1. PICK c \in gens : \E e \in DOMAIN c.vips : fwd_table[vip_map[k]][r] = Table(c, e)[r]
  BY DEF RouteInv, NoMisroute, TablesOf
<1>2. c \in Confs
  BY DEF RouteInv, Control
<1>3. MemberStated(fwd_table[vip_map[k]][r], gens)
  BY <1>1, <1>2, TableMember DEF MemberStated
<1> QED
  BY <1>3 DEF KeySlots

\* A member stated by some configurations is stated by more of them.
LEMMA MoreMembers ==
    ASSUME NEW G, NEW H, G \subseteq H, NEW id, MemberStated(id, G)
    PROVE  MemberStated(id, H)
  BY DEF MemberStated

\* So is its description.
LEMMA MoreKnown ==
    ASSUME NEW G, NEW H, G \subseteq H, NEW id, Known(id, G)
    PROVE  Known(id, H)
  BY DEF Known, MemberStated, SlotStated

\* Known(id, G) after a step.
KnownNext(id, G) ==
    id # NO_BACKEND =>
        /\ MemberStated(id, G)
        /\ \/ backends'[id] = Zeroed
           \/ \E d \in G : id \in DOMAIN d.backends /\ backends'[id] = d.backends[id].slot

\* A slot changes to what a configuration involved states, or is zeroed.
LEMMA SlotKept ==
    ASSUME RouteInv, [Next]_vars, attached', NEW G, NEW id \in Id, Known(id, G)
    PROVE  KnownNext(id, G \cup gens')
<1>0. MemberStated(id, G) => MemberStated(id, G \cup gens')
  BY MoreMembers
<1>1. CASE backends' = backends
  BY <1>0, <1>1 DEF Known, KnownNext, SlotStated
<1>2. CASE WriteBackend \/ RetireSlot
  <2>1. /\ phase \in Steps \ {"plan"} /\ Stay /\ gens' = gens /\ conf \in gens
    BY <1>2, BackendEffect, WriteFixed
  <2>2. \/ backends'[id] = backends[id] \/ backends'[id] = Zeroed
        \/ id \in DOMAIN conf.backends /\ backends'[id] = conf.backends[id].slot
    BY <1>2, BackendEffect
  <2> QED
    BY <1>0, <2>1, <2>2 DEF Known, KnownNext, SlotStated
<1>3. CASE Unpin
  BY <1>3 DEF Unpin, RouteInv, Control, Steps
<1>4. CASE Quiet \/ WriteConfigNarrow \/ DeleteStaleKey \/ WriteRow \/ PublishKey \/ ZeroRow
  BY <1>1, <1>4, DeleteEffect, WriteRowEffect, PublishEffect, ZeroRowEffect
     DEF Quiet, WriteConfigNarrow, write_config
<1> QED
  BY <1>2, <1>3, <1>4, StepKinds

\* A row of any block, reachable or not, is left alone, emptied, or written with a
\* member of the configuration being applied, whose slot is populated.
LEMMA RowKept ==
    ASSUME RouteInv, RouteInv', [Next]_vars, attached', NEW G, NEW n \in Num, NEW r \in Row,
           Known(fwd_table[n][r], G)
    PROVE  KnownNext(fwd_table'[n][r], G \cup gens')
<1>0. fwd_table \in [Num -> [Row -> Id \cup {NO_BACKEND}]]
  BY DEF RouteInv, MapTypes
<1>1. CASE fwd_table'[n][r] = fwd_table[n][r]
  <2>1. CASE fwd_table[n][r] = NO_BACKEND
    BY <1>1, <2>1 DEF KnownNext
  <2>2. CASE fwd_table[n][r] # NO_BACKEND
    <3>1. fwd_table[n][r] \in Id
      BY <1>0, <2>2
    <3> QED
      BY <1>1, <3>1, SlotKept
  <2> QED
    BY <2>1, <2>2
<1>2. CASE WriteRow /\ fwd_table'[n][r] # fwd_table[n][r]
  <2>1. phase = "vips" /\ Stay /\ UNCHANGED backends /\ phase \in Steps \ {"plan"} /\ phase \in FromVips
    BY <1>2, WriteRowEffect DEF Steps, FromVips
  <2>2. UNCHANGED gens /\ conf \in gens /\ Entry = DOMAIN conf.vips
    BY <2>1, WriteFixed
  <2>3. PICK e \in Entry, s \in Row :
                 /\ num[e] \in Num
                 /\ fwd_table' = [fwd_table EXCEPT ![num[e]][s] = Table(conf, e)[s]]
    BY <1>2, WriteRowEffect
  <2>4. fwd_table'[n][r] = Table(conf, e)[r]
    BY <1>0, <1>2, <2>3
  <2> SUFFICES ASSUME Table(conf, e)[r] # NO_BACKEND
               PROVE  /\ MemberStated(Table(conf, e)[r], G \cup gens')
                      /\ \E d \in G \cup gens' : /\ Table(conf, e)[r] \in DOMAIN d.backends
                                                 /\ backends'[Table(conf, e)[r]] = d.backends[Table(conf, e)[r]].slot
    BY <2>4 DEF KnownNext
  <2>5. /\ Table(conf, e)[r] \in MemberIds(conf, e) /\ Table(conf, e)[r] \in DOMAIN conf.backends
        /\ backends[Table(conf, e)[r]] = conf.backends[Table(conf, e)[r]].slot
    BY <2>1, <2>2, SlotsOfTable
  <2>6. MemberStated(Table(conf, e)[r], G \cup gens')
    BY <2>2, <2>5 DEF MemberStated
  <2> QED
    BY <2>1, <2>2, <2>5, <2>6
<1>3. CASE ZeroRow
  <2>1. fwd_table'[n][r] \in {fwd_table[n][r], NO_BACKEND}
    BY <1>3, ZeroRowEffect
  <2> QED
    BY <1>1, <2>1 DEF KnownNext
<1>4. CASE Unpin
  BY <1>4 DEF Unpin, RouteInv, Control, Steps
<1>5. CASE Quiet \/ WriteConfigNarrow \/ WriteBackend \/ RetireSlot \/ DeleteStaleKey \/ PublishKey
  BY <1>1, <1>5, BackendEffect, DeleteEffect, PublishEffect DEF Quiet, WriteConfigNarrow, write_config
<1> QED
  BY <1>1, <1>2, <1>3, <1>4, <1>5, StepKinds

(***************************************************************************)
(* What agreement gives the packet.                                         *)
(***************************************************************************)

\* The keys a packet may belong to are keys, and more configurations leave fewer.
LEMMA AddressedFacts ==
    ASSUME NEW G, NEW H, G \subseteq H, NEW dst \in Key, NEW k \in Addressed(H, dst)
    PROVE  /\ k \in Key /\ k \in Addressed(G, dst)
           /\ k = dst \/ (k = AnyPort[dst] /\ \A c \in G : dst \notin ConfKeys(c))
  BY AnyPortAssumption DEF Addressed

\* A packet in flight was there while a configuration was served.
LEMMA GensServed ==
    ASSUME RouteInv, attached
    PROVE  gens # {} /\ gens \subseteq Confs /\ Serving
  BY DEF RouteInv, Control, Serving

\* A VIP that is stated alike is found, on a block with its table.
LEMMA AgreedBlock ==
    ASSUME RouteInv, SteadyInv, attached, NEW G, gens \subseteq G, NEW k \in Key, Agree(G, k)
    PROVE  k \in DOMAIN vip_map /\ \A c \in G : fwd_table[vip_map[k]] = ServiceOf(c, k).table
<1>1. PICK d \in gens : TRUE
  BY GensServed
<1>2. Agree(gens, k) /\ \A c \in G : ServiceOf(c, k) = ServiceOf(d, k)
  BY <1>1 DEF Agree
<1>3. k \in DOMAIN vip_map /\ fwd_table[vip_map[k]] = ServiceOf(d, k).table
  BY <1>1, <1>2, GensServed DEF SteadyInv, Steady
<1> QED
  BY <1>2, <1>3

\* The slot of a row of such a VIP is as every configuration states it.
LEMMA AgreedSlot ==
    ASSUME RouteInv, KeySlots, SteadyInv, attached, NEW G, gens \subseteq G, G \subseteq Confs,
           NEW k \in Key, Agree(G, k), NEW c \in G, NEW r \in Row,
           NEW id, id = ServiceOf(c, k).table[r], id # NO_BACKEND
    PROVE  backends[id] = c.backends[id].slot
<1>1. k \in DOMAIN vip_map /\ \A b \in G : fwd_table[vip_map[k]] = ServiceOf(b, k).table
  BY AgreedBlock
<1>2. PICK d \in gens : id \in DOMAIN d.backends /\ backends[id] = d.backends[id].slot
  BY <1>1 DEF KeySlots, SlotStated
<1>3. /\ d \in G /\ c \in Confs /\ d \in Confs /\ k \in ConfKeys(c) /\ k \in ConfKeys(d)
      /\ ServiceOf(c, k) = ServiceOf(d, k)
  BY <1>2 DEF Agree
<1>4. PICK e \in DOMAIN d.vips : k \in Range(d.vips[e].keys)
  BY <1>3, EntryOfKey
<1>5. PICK f \in DOMAIN c.vips : k \in Range(c.vips[f].keys)
  BY <1>3, EntryOfKey
<1>6. id = Table(d, e)[r]
  BY <1>3, <1>4, ServiceFacts
<1>7. id \in MemberIds(d, e)
  BY <1>3, <1>6, TableMember
<1>8. ServiceOf(d, k).slots[id] = d.backends[id].slot /\ id \in DOMAIN ServiceOf(d, k).slots
  BY <1>3, <1>4, <1>7, ServiceFacts
<1>9. ServiceOf(c, k).slots[id] = c.backends[id].slot
  BY <1>3, <1>5, <1>8, ServiceFacts
<1> QED
  BY <1>2, <1>3, <1>8, <1>9

\* So is the slot of a backend that is stated alike.
LEMMA AgreedBackend ==
    ASSUME RouteInv, SlotsKept, attached, NEW G, gens \subseteq G, NEW id \in Id, AgreeOnSlot(G, id)
    PROVE  \A c \in G : backends[id] = c.backends[id].slot
<1>1. gens # {} /\ Serving
  BY GensServed
<1>2. \A c \in gens : id \in DOMAIN c.backends
  BY DEF AgreeOnSlot
<1>3. PICK d \in gens : backends[id] = d.backends[id].slot
  BY <1>1, <1>2 DEF SlotsKept, SlotStated
<1> QED
  BY <1>3 DEF AgreeOnSlot

(***************************************************************************)
(* The packet's own steps.                                                  *)
(***************************************************************************)

\* Nothing is asked of a packet that has not ended.
LEMMA FlightOngoing ==
    ASSUME PacketInv', pkt'.pc # "done"
    PROVE  FlightInv'
  BY DEF FlightInv, InFlightKnown, InFlightUndisturbed

\* A packet that was just found to be in flight.
LEMMA FlightFacts ==
    ASSUME FlightInv, InFlight
    PROVE  /\ pkt # NoPacket /\ pkt.pc # "done" /\ attached /\ PacketFields /\ PacketTypes
           /\ gens \subseteq pkt.gens /\ pkt.gens \subseteq Confs
           /\ PacketKnown /\ PacketCid /\ PacketSteady
  BY DEF FlightInv, PacketInv, InFlight

\* The first lookup: the invariant of the packet's flight begins.
LEMMA FlightSelect ==
    ASSUME RouteInv, KeySlots, SteadyInv, SelectVip
    PROVE  FlightInv'
<1>1. UNCHANGED <<vip_map, fwd_table, backends, gens>> /\ attached /\ attached'
  BY DEF SelectVip, vars, maps
<1>2. PICK k \in Key :
          pkt' = [pc |-> IF k \in DOMAIN vip_map THEN "vip" ELSE "any", dst |-> k, key |-> k,
                  vip_num |-> IF k \in DOMAIN vip_map THEN vip_map[k] ELSE Unset,
                  linked |-> k \in DOMAIN vip_map, reused |-> FALSE, cid |-> NO_BACKEND, by |-> "none",
                  row |-> Unset, id |-> NO_BACKEND, verdict |-> "none", slot |-> Zeroed, gens |-> gens]
  BY DEF SelectVip
<1>3. /\ pkt'.pc = (IF k \in DOMAIN vip_map THEN "vip" ELSE "any") /\ pkt'.key = k /\ pkt'.dst = k
      /\ pkt'.vip_num = (IF k \in DOMAIN vip_map THEN vip_map[k] ELSE Unset)
      /\ pkt'.cid = NO_BACKEND /\ pkt'.by = "none" /\ pkt'.gens = gens
      /\ PacketFields'
  BY <1>2 DEF PacketFields
<1>4. LiveRows /\ gens \subseteq Confs /\ MapTypes
  BY LiveRowsKnown DEF RouteInv, Control
<1>5. PacketTypes'
  BY <1>3 DEF PacketTypes
<1>6. PacketKnown'
  <2> SUFFICES ASSUME k \in DOMAIN vip_map
               PROVE  vip_map[k] \in Num /\ \A r \in Row : Known(fwd_table[vip_map[k]][r], gens)'
    BY <1>1, <1>3 DEF PacketKnown, Holding
  <2>1. vip_map[k] \in Num /\ \A r \in Row : Known(fwd_table[vip_map[k]][r], gens)
    BY <1>4 DEF LiveRows, MapTypes
  <2> QED
    BY <1>1, <2>1 DEF Known, SlotStated, MemberStated
<1>7. PacketCid'
  BY <1>3 DEF PacketCid
<1>8. PacketSteady'
  <2> SUFFICES ASSUME NEW l \in Addressed(gens, k), Agree(gens, l)
               PROVE  /\ k \notin DOMAIN vip_map => l # k
                      /\ k \in DOMAIN vip_map => k = l
    BY <1>1, <1>3 DEF PacketSteady, PacketAt, Holding
  <2>1. l \in Key /\ (l = k \/ \A c \in gens : k \notin ConfKeys(c))
    BY AddressedFacts
  <2>2. l \in DOMAIN vip_map
    BY <1>1, <2>1, AgreedBlock
  <2>3. k \in DOMAIN vip_map => \E c \in gens : k \in ConfKeys(c)
    <3> SUFFICES ASSUME k \in DOMAIN vip_map PROVE \E c \in gens : k \in ConfKeys(c)
      OBVIOUS
    <3>1. 0 \in Row
      BY ReconcileAssumption DEF Row
    <3>2. PICK c \in gens : \E e \in DOMAIN c.vips : k \in Range(c.vips[e].keys)
      BY <3>1 DEF RouteInv, NoMisroute, TablesOf
    <3> QED
      BY <3>2 DEF ConfKeys
  <2> QED
    BY <2>1, <2>2, <2>3
<1>9. PacketInv'
  BY <1>1, <1>3, <1>4, <1>5, <1>6, <1>7, <1>8 DEF PacketInv
<1> QED
  BY <1>3, <1>9, FlightOngoing

\* The second lookup: a VIP that is stated alike is not missed.
LEMMA FlightAnyPort ==
    ASSUME RouteInv, KeySlots, SteadyInv, FlightInv, SelectAnyPort
    PROVE  FlightInv'
<1>1. UNCHANGED <<vip_map, fwd_table, backends, gens, attached>> /\ InFlight /\ pkt.pc = "any"
  BY DEF SelectAnyPort, vars, maps
<1>2. /\ pkt # NoPacket /\ attached /\ PacketFields /\ PacketTypes
      /\ gens \subseteq pkt.gens /\ pkt.gens \subseteq Confs /\ PacketSteady
  BY <1>1, FlightFacts
<1>3. PICK k \in Key : k = AnyPort[pkt.dst]
  BY <1>2, AnyPortAssumption DEF PacketTypes
<1>4. ASSUME NEW l \in Addressed(pkt.gens, pkt.dst), Agree(pkt.gens, l), ~pkt.reused
      PROVE  l = k /\ k \in DOMAIN vip_map
  <2>1. l # pkt.dst
    BY <1>1, <1>2, <1>4 DEF PacketSteady, PacketAt
  <2>2. l = k
    BY <1>2, <1>3, <2>1, AddressedFacts DEF PacketTypes
  <2> QED
    BY <1>2, <1>4, <2>2, AgreedBlock
<1>5. CASE k \in DOMAIN vip_map
  <2>1. pkt' = [pkt EXCEPT !.pc = "vip", !.key = k, !.vip_num = vip_map[k], !.linked = TRUE]
    BY <1>3, <1>5 DEF SelectAnyPort
  <2>2. /\ pkt'.pc = "vip" /\ pkt'.dst = pkt.dst /\ pkt'.key = k /\ pkt'.vip_num = vip_map[k]
        /\ pkt'.reused = pkt.reused /\ pkt'.cid = pkt.cid /\ pkt'.by = pkt.by /\ pkt'.id = pkt.id
        /\ pkt'.gens = pkt.gens /\ PacketFields'
    BY <1>2, <2>1 DEF PacketFields
  <2>3. LiveRows /\ MapTypes
    BY LiveRowsKnown DEF RouteInv
  <2>4. PacketTypes'
    BY <1>1, <1>2, <2>2 DEF PacketTypes
  <2>5. PacketKnown'
    <3>1. vip_map[k] \in Num /\ \A r \in Row : Known(fwd_table[vip_map[k]][r], gens)
      BY <1>5, <2>3 DEF LiveRows, MapTypes
    <3>2. \A r \in Row : Known(fwd_table[vip_map[k]][r], pkt.gens)
      BY <1>2, <3>1, MoreKnown
    <3> QED
      BY <1>1, <2>2, <3>1, <3>2 DEF PacketKnown, Holding, Known, SlotStated, MemberStated
  <2>6. PacketCid'
    BY <1>1, <1>2, <2>2 DEF PacketCid, PacketTypes
  <2>7. PacketSteady'
    BY <1>1, <1>4, <2>2 DEF PacketSteady, PacketAt, Holding
  <2>8. PacketInv'
    BY <1>1, <1>2, <2>2, <2>4, <2>5, <2>6, <2>7 DEF PacketInv
  <2> QED
    BY <2>2, <2>8, FlightOngoing
<1>6. CASE k \notin DOMAIN vip_map
  <2>1. pkt' = Ended("pass", Zeroed)
    BY <1>3, <1>6 DEF SelectAnyPort
  <2>2. /\ pkt'.pc = "done" /\ pkt'.dst = pkt.dst /\ pkt'.reused = pkt.reused /\ pkt'.cid = pkt.cid
        /\ pkt'.by = pkt.by /\ pkt'.id = pkt.id /\ pkt'.gens = pkt.gens /\ pkt'.verdict = "pass"
        /\ PacketFields'
    BY <1>2, <2>1 DEF PacketFields, Ended, LetGo
  <2>3. pkt'.cid = NO_BACKEND
    BY <1>1, <1>2, <2>2 DEF PacketTypes
  <2>4. PacketInv'
    BY <1>1, <1>2, <2>2, <2>3 DEF PacketInv, PacketTypes, PacketKnown, PacketCid, PacketSteady, Holding
  <2>5. InFlightKnown'
    BY <2>2 DEF InFlightKnown
  <2>6. InFlightUndisturbed'
    BY <1>4, <1>6, <2>2, <2>3 DEF InFlightUndisturbed, CidHonoured
  <2> QED
    BY <2>4, <2>5, <2>6 DEF FlightInv
<1> QED
  BY <1>5, <1>6

\* The connection ID is followed, or the packet goes on to its row.
LEMMA FlightCid ==
    ASSUME RouteInv, SlotsKept, FlightInv, SelectByCid
    PROVE  FlightInv'
<1>1. UNCHANGED <<vip_map, fwd_table, backends, gens, attached>> /\ InFlight /\ pkt.pc = "vip"
  BY DEF SelectByCid, vars, maps
<1>2. /\ pkt # NoPacket /\ attached /\ PacketFields /\ PacketTypes
      /\ gens \subseteq pkt.gens /\ pkt.gens \subseteq Confs /\ PacketKnown /\ PacketSteady
  BY <1>1, FlightFacts
<1>3. PICK id \in Id \cup {NO_BACKEND} :
          pkt' = IF id # NO_BACKEND /\ backends[id].up
                 THEN LetGo([pkt EXCEPT !.pc = "backend", !.cid = id, !.by = "cid", !.id = id])
                 ELSE [pkt EXCEPT !.pc = "row", !.cid = id]
  BY DEF SelectByCid
<1>4. NO_BACKEND \notin Id
  BY ReconcileAssumption DEF NO_BACKEND
<1>5. /\ pkt'.dst = pkt.dst /\ pkt'.key = pkt.key /\ pkt'.reused = pkt.reused /\ pkt'.cid = id
      /\ pkt'.gens = pkt.gens /\ PacketFields'
      /\ IF id # NO_BACKEND /\ backends[id].up THEN pkt'.pc = "backend" /\ pkt'.by = "cid" /\ pkt'.id = id
         ELSE pkt'.pc = "row" /\ pkt'.by = pkt.by /\ pkt'.vip_num = pkt.vip_num
  <2>1. CASE id # NO_BACKEND /\ backends[id].up
    BY <1>2, <1>3, <2>1 DEF PacketFields, LetGo
  <2>2. CASE ~(id # NO_BACKEND /\ backends[id].up)
    BY <1>2, <1>3, <2>2 DEF PacketFields
  <2> QED
    BY <2>1, <2>2
<1>6. PacketTypes'
  BY <1>1, <1>2, <1>4, <1>5 DEF PacketTypes
<1>7. PacketKnown'
  BY <1>1, <1>2, <1>5 DEF PacketKnown, Holding, Known, SlotStated, MemberStated
<1>8. PacketCid'
  <2> SUFFICES ASSUME id # NO_BACKEND, AgreeOnSlot(pkt.gens, id), NEW c \in pkt.gens
               PROVE  IF c.backends[id].slot.up THEN pkt'.by = "cid" /\ pkt'.id = id ELSE pkt'.by # "cid"
    BY <1>5 DEF PacketCid
  <2>1. backends[id] = c.backends[id].slot
    BY <1>2, AgreedBackend
  <2>2. pkt.by = "none"
    BY <1>1, <1>2 DEF PacketTypes
  <2> QED
    BY <1>5, <2>1, <2>2
<1>9. PacketSteady'
  BY <1>1, <1>2, <1>5 DEF PacketSteady, PacketAt, Holding
<1>10. PacketInv'
  BY <1>1, <1>2, <1>5, <1>6, <1>7, <1>8, <1>9 DEF PacketInv
<1> QED
  BY <1>5, <1>10, FlightOngoing

\* The packet reads its row.
LEMMA FlightRead ==
    ASSUME RouteInv, KeySlots, SteadyInv, FlightInv, ReadRow
    PROVE  FlightInv'
<1>1. UNCHANGED <<vip_map, fwd_table, backends, gens, attached>> /\ InFlight /\ pkt.pc = "row"
  BY DEF ReadRow, vars, maps
<1>2. /\ pkt # NoPacket /\ attached /\ PacketFields /\ PacketTypes
      /\ gens \subseteq pkt.gens /\ pkt.gens \subseteq Confs /\ PacketKnown /\ PacketCid /\ PacketSteady
  BY <1>1, FlightFacts
<1>3. PICK r \in Row :
         pkt' = IF fwd_table[pkt.vip_num][r] = NO_BACKEND
                THEN [Ended("drop", Zeroed) EXCEPT !.by = "row", !.row = r]
                ELSE LetGo([pkt EXCEPT !.pc = "backend", !.by = "row", !.row = r,
                                       !.id = fwd_table[pkt.vip_num][r]])
  BY DEF ReadRow
<1> DEFINE id == fwd_table[pkt.vip_num][r]
<1>4. /\ pkt'.dst = pkt.dst /\ pkt'.reused = pkt.reused /\ pkt'.cid = pkt.cid /\ pkt'.by = "row"
      /\ pkt'.row = r /\ pkt'.gens = pkt.gens /\ PacketFields'
      /\ IF id = NO_BACKEND THEN pkt'.pc = "done" /\ pkt'.verdict = "drop"
         ELSE pkt'.pc = "backend" /\ pkt'.id = id
  <2>1. CASE id = NO_BACKEND
    BY <1>2, <1>3, <2>1 DEF PacketFields, Ended, LetGo
  <2>2. CASE id # NO_BACKEND
    BY <1>2, <1>3, <2>2 DEF PacketFields, LetGo
  <2> QED
    BY <2>1, <2>2
<1>5. pkt.vip_num \in Num /\ Known(id, pkt.gens)
  BY <1>1, <1>2 DEF PacketKnown, Holding
<1>6. id \in Id \cup {NO_BACKEND}
  BY <1>5 DEF RouteInv, MapTypes
<1>7. ASSUME NEW k \in Addressed(pkt.gens, pkt.dst), Agree(pkt.gens, k), ~pkt.reused, NEW c \in pkt.gens
      PROVE  ServiceOf(c, k).table[r] = id
  <2>1. vip_map[k] = pkt.vip_num
    BY <1>1, <1>2, <1>7 DEF PacketSteady, PacketAt, Holding
  <2>2. k \in Key
    BY <1>2, <1>7, AddressedFacts DEF PacketTypes
  <2>3. fwd_table[vip_map[k]] = ServiceOf(c, k).table
    BY <1>2, <1>7, <2>2, AgreedBlock
  <2> QED
    BY <2>1, <2>3
<1> HIDE DEF id
<1>8. PacketTypes'
  BY <1>1, <1>2, <1>4, <1>6 DEF PacketTypes
<1>9. PacketKnown'
  BY <1>1, <1>4, <1>5 DEF PacketKnown, Holding, Known, SlotStated, MemberStated
<1>10. PacketCid'
  <2>1. pkt.by = "none"
    BY <1>1, <1>2 DEF PacketTypes
  <2> QED
    BY <1>2, <1>4, <2>1 DEF PacketCid
<1>11. PacketSteady'
  BY <1>4, <1>7 DEF PacketSteady, PacketAt, Holding
<1>12. PacketInv'
  BY <1>1, <1>2, <1>4, <1>8, <1>9, <1>10, <1>11 DEF PacketInv
<1>13. CASE id = NO_BACKEND
  <2>1. InFlightKnown'
    BY <1>4, <1>13 DEF InFlightKnown
  <2>2. CidHonoured'
    <3>1. pkt.by = "none"
      BY <1>1, <1>2 DEF PacketTypes
    <3> QED
      BY <1>2, <1>4, <3>1 DEF PacketCid, CidHonoured
  <2>3. InFlightUndisturbed'
    BY <1>4, <1>7, <1>13, <2>2 DEF InFlightUndisturbed, RowHonoured
  <2> QED
    BY <1>12, <2>1, <2>3 DEF FlightInv
<1>14. CASE id # NO_BACKEND
  BY <1>4, <1>12, <1>14, FlightOngoing
<1> QED
  BY <1>13, <1>14

\* The packet copies the slot of its backend.
LEMMA FlightLoad ==
    ASSUME RouteInv, KeySlots, SlotsKept, SteadyInv, FlightInv, LoadBackend
    PROVE  FlightInv'
<1>1. UNCHANGED <<vip_map, fwd_table, backends, gens, attached>> /\ InFlight /\ pkt.pc = "backend"
  BY DEF LoadBackend, vars, maps
<1>2. /\ pkt # NoPacket /\ attached /\ PacketFields /\ PacketTypes
      /\ gens \subseteq pkt.gens /\ pkt.gens \subseteq Confs /\ PacketKnown /\ PacketCid /\ PacketSteady
  BY <1>1, FlightFacts
<1>3. pkt' = IF backends[pkt.id].up THEN Ended("tx", backends[pkt.id]) ELSE Ended("drop", backends[pkt.id])
  BY DEF LoadBackend
<1>4. /\ pkt'.dst = pkt.dst /\ pkt'.reused = pkt.reused /\ pkt'.cid = pkt.cid /\ pkt'.by = pkt.by
      /\ pkt'.row = pkt.row /\ pkt'.id = pkt.id /\ pkt'.gens = pkt.gens /\ PacketFields' /\ pkt'.pc = "done"
      /\ pkt'.slot = backends[pkt.id]
      /\ pkt'.verdict = (IF backends[pkt.id].up THEN "tx" ELSE "drop")
  <2>1. CASE backends[pkt.id].up
    BY <1>2, <1>3, <2>1 DEF PacketFields, Ended, LetGo
  <2>2. CASE ~backends[pkt.id].up
    BY <1>2, <1>3, <2>2 DEF PacketFields, Ended, LetGo
  <2> QED
    BY <2>1, <2>2
<1>5. pkt.id \in Id /\ pkt.id # NO_BACKEND /\ pkt.by \in {"cid", "row"}
  BY <1>1, <1>2, ReconcileAssumption DEF PacketTypes, NO_BACKEND
<1>6. PacketInv'
  BY <1>1, <1>2, <1>4 DEF PacketInv, PacketTypes, PacketKnown, PacketCid, PacketSteady, Holding
<1>7. InFlightKnown'
  <2> SUFFICES ASSUME backends[pkt.id].up
               PROVE  /\ pkt.by = "row" =>
                           \E c \in pkt.gens, d \in pkt.gens : \E e \in DOMAIN c.vips :
                              /\ pkt.id \in {c.vips[e].members[i].id : i \in DOMAIN c.vips[e].members}
                              /\ pkt.id \in DOMAIN d.backends /\ backends[pkt.id] = d.backends[pkt.id].slot
                      /\ (\A c \in pkt.gens : pkt.id \in DOMAIN c.backends) =>
                           \E d \in pkt.gens : backends[pkt.id] = d.backends[pkt.id].slot
    BY <1>4 DEF InFlightKnown
  <2>1. backends[pkt.id] # Zeroed
    BY DEF Zeroed
  <2>2. CASE pkt.by = "row"
    <3>1. MemberStated(pkt.id, pkt.gens) /\ SlotStated(pkt.id, pkt.gens)
      BY <1>1, <1>2, <1>5, <2>1, <2>2 DEF PacketKnown, Known
    <3> QED
      BY <3>1 DEF MemberStated, SlotStated, MemberIds
  <2>3. CASE pkt.by = "cid"
    <3>1. (\A c \in gens : pkt.id \in DOMAIN c.backends) => SlotStated(pkt.id, gens)
      BY <1>2, <1>5, GensServed DEF SlotsKept
    <3> QED
      BY <1>2, <2>3, <3>1 DEF SlotStated
  <2> QED
    BY <1>5, <2>2, <2>3
<1>8. CidHonoured'
  <2> SUFFICES ASSUME pkt.cid # NO_BACKEND, AgreeOnSlot(pkt.gens, pkt.cid), NEW c \in pkt.gens
               PROVE  IF c.backends[pkt.cid].slot.up
                      THEN /\ pkt.by = "cid" /\ pkt.id = pkt.cid /\ backends[pkt.id] = c.backends[pkt.cid].slot
                           /\ backends[pkt.id].up
                      ELSE pkt.by # "cid"
    BY <1>4 DEF CidHonoured
  <2>1. IF c.backends[pkt.cid].slot.up THEN pkt.by = "cid" /\ pkt.id = pkt.cid ELSE pkt.by # "cid"
    BY <1>2 DEF PacketCid
  <2>2. pkt.cid \in Id
    BY <1>2 DEF PacketTypes
  <2>3. backends[pkt.cid] = c.backends[pkt.cid].slot
    BY <1>2, <2>2, AgreedBackend
  <2> QED
    BY <2>1, <2>3
<1>9. InFlightUndisturbed'
  <2> SUFFICES ASSUME pkt.by # "cid", ~pkt.reused, NEW k \in Addressed(pkt.gens, pkt.dst),
                      Agree(pkt.gens, k), NEW c \in pkt.gens
               PROVE  /\ pkt.row \in Row /\ pkt.id = ServiceOf(c, k).table[pkt.row]
                      /\ backends[pkt.id] = c.backends[pkt.id].slot
    BY <1>4, <1>8 DEF InFlightUndisturbed, RowHonoured
  <2>1. k \in Key
    BY <1>2, AddressedFacts DEF PacketTypes
  <2>2. pkt.row \in Row /\ pkt.id = ServiceOf(c, k).table[pkt.row]
    BY <1>1, <1>2, <1>5 DEF PacketSteady, PacketAt
  <2> QED
    BY <1>2, <1>5, <2>1, <2>2, AgreedSlot
<1> QED
  BY <1>6, <1>7, <1>9 DEF FlightInv

\* The packet has ended and the next may come.
LEMMA FlightReturn ==
    ASSUME Return
    PROVE  FlightInv'
<1>1. pkt' = NoPacket
  BY DEF Return
<1> QED
  BY <1>1 DEF FlightInv, PacketInv, InFlightKnown, InFlightUndisturbed

\* write_vip() publishing a key again, whose block is complete.
LEMMA FlightRepublish ==
    ASSUME RouteInv, FlightInv, RepublishKey
    PROVE  FlightInv'
<1>1. /\ UNCHANGED <<vip_map, fwd_table, backends, gens, attached>> /\ InFlight /\ Holding
      /\ phase = "vips" /\ index \in DOMAIN order /\ RowsToWrite = {}
      /\ phase \in Steps \ {"plan"} /\ phase \in FromVips
  BY DEF RepublishKey, vars, maps, Steps, FromVips
<1>2. /\ pkt # NoPacket /\ attached /\ PacketFields /\ PacketTypes /\ pkt.pc # "done"
      /\ gens \subseteq pkt.gens /\ pkt.gens \subseteq Confs /\ PacketKnown /\ PacketCid /\ PacketSteady
  BY <1>1, FlightFacts
<1>3. \/ pkt' = [pkt EXCEPT !.linked = FALSE]
      \/ pkt' = [pkt EXCEPT !.vip_num = num[ThisEntry], !.reused = TRUE]
  BY DEF RepublishKey
<1>4. /\ pkt'.pc = pkt.pc /\ pkt'.dst = pkt.dst /\ pkt'.key = pkt.key /\ pkt'.cid = pkt.cid
      /\ pkt'.by = pkt.by /\ pkt'.row = pkt.row /\ pkt'.id = pkt.id
      /\ pkt'.gens = pkt.gens /\ PacketFields'
      /\ \/ pkt'.vip_num = pkt.vip_num /\ pkt'.reused = pkt.reused
         \/ pkt'.vip_num = num[ThisEntry] /\ pkt'.reused = TRUE
  BY <1>2, <1>3 DEF PacketFields
<1>5. num[ThisEntry] \in Num /\ \A r \in Row : Known(fwd_table[num[ThisEntry]][r], pkt.gens)
  <2>1. PlanInv /\ ChoiceInv /\ alloc_pc = "done"
    BY <1>1 DEF RouteInv, PlanKept
  <2>2. /\ conf \in Confs /\ conf \in gens /\ Entry = DOMAIN conf.vips
    BY <1>1, ConfEntries DEF RouteInv
  <2>3. PICK e \in Entry : e = ThisEntry /\ num[e] \in Num
    BY <1>1, <2>1, PlanComplete DEF ThisEntry
  <2>4. ASSUME NEW r \in Row PROVE Known(fwd_table[num[e]][r], pkt.gens)
    <3>1. fwd_table[num[e]][r] = Table(conf, e)[r]
      BY <1>1, <2>3 DEF RowsToWrite, WrongRows
    <3> SUFFICES ASSUME Table(conf, e)[r] # NO_BACKEND
                 PROVE  MemberStated(Table(conf, e)[r], pkt.gens) /\ SlotStated(Table(conf, e)[r], pkt.gens)
      BY <3>1 DEF Known
    <3>2. /\ Table(conf, e)[r] \in MemberIds(conf, e) /\ Table(conf, e)[r] \in DOMAIN conf.backends
          /\ backends[Table(conf, e)[r]] = conf.backends[Table(conf, e)[r]].slot
      BY <1>1, <2>2, SlotsOfTable
    <3> QED
      BY <1>2, <2>2, <3>2 DEF MemberStated, SlotStated
  <2> QED
    BY <2>3, <2>4
<1>6. PacketKnown'
  <2>1. pkt'.vip_num \in Num /\ \A r \in Row : Known(fwd_table[pkt'.vip_num][r], pkt.gens)
    BY <1>1, <1>2, <1>4, <1>5 DEF PacketKnown
  <2> QED
    BY <1>1, <1>2, <1>4, <2>1 DEF PacketKnown, Holding, Known, SlotStated, MemberStated
<1>7. PacketSteady'
  BY <1>1, <1>2, <1>4 DEF PacketSteady, PacketAt, Holding
<1>8. PacketTypes' /\ PacketCid'
  BY <1>2, <1>4 DEF PacketTypes, PacketCid
<1>9. PacketInv'
  BY <1>1, <1>2, <1>4, <1>6, <1>7, <1>8 DEF PacketInv
<1> QED
  BY <1>2, <1>4, <1>9, FlightOngoing

(***************************************************************************)
(* A step of the reconciler or of the process under the packet.             *)
(***************************************************************************)

\* A step of the reconciler under the packet, an element taken for another key included.
LEMMA FlightReconciler ==
    ASSUME RouteInv, RouteInv', KeySlots, KeySlots', SteadyInv, FlightInv, Reconciler
    PROVE  FlightInv'
<1>1. CASE pkt' = NoPacket
  BY <1>1 DEF FlightInv, PacketInv, InFlightKnown, InFlightUndisturbed
<1>2. CASE attached' /\ InFlight /\ (Pass \/ Reuse)
  <2>0. attached' /\ [Next]_vars
    BY <1>2 DEF Reconciler
  <2>1. /\ pkt # NoPacket /\ attached /\ PacketFields /\ PacketTypes /\ pkt.pc # "done"
        /\ gens \subseteq pkt.gens /\ pkt.gens \subseteq Confs /\ PacketKnown /\ PacketCid /\ PacketSteady
    BY <1>2, FlightFacts
  <2>2. /\ pkt'.pc = pkt.pc /\ pkt'.dst = pkt.dst /\ pkt'.key = pkt.key /\ pkt'.cid = pkt.cid
        /\ pkt'.by = pkt.by /\ pkt'.row = pkt.row /\ pkt'.id = pkt.id
        /\ pkt'.gens = pkt.gens \cup gens' /\ PacketFields'
        /\ \/ pkt'.vip_num = pkt.vip_num /\ pkt'.reused = pkt.reused
           \/ pkt'.vip_num \in Stored /\ pkt'.reused = TRUE
    <3>1. CASE Pass
      BY <2>1, <3>1 DEF Pass, PacketFields
    <3>2. CASE Reuse
      <4>1. PICK n \in Stored : pkt' = [pkt EXCEPT !.vip_num = n, !.reused = TRUE, !.gens = @ \cup gens']
        BY <3>2 DEF Reuse
      <4> QED
        BY <2>1, <4>1 DEF PacketFields
    <3> QED
      BY <1>2, <3>1, <3>2
  <2>3. gens' \subseteq Confs /\ MapTypes' /\ LiveRows'
    <3>1. LiveRows'
      BY LiveRowsKnown, PTL
    <3> QED
      BY <3>1 DEF RouteInv, Control
  <2>4. PacketKnown'
    <3>1. ASSUME Holding
          PROVE  pkt'.vip_num \in Num /\ \A r \in Row : KnownNext(fwd_table'[pkt'.vip_num][r], pkt'.gens)
      <4>1. CASE pkt'.vip_num = pkt.vip_num
        <5>1. pkt.vip_num \in Num /\ \A r \in Row : Known(fwd_table[pkt.vip_num][r], pkt.gens)
          BY <2>1, <3>1 DEF PacketKnown
        <5> QED
          BY <2>0, <2>2, <4>1, <5>1, RowKept
      <4>2. CASE pkt'.vip_num \in Stored
        <5>1. PICK k \in DOMAIN vip_map' : pkt'.vip_num = vip_map'[k]
          BY <4>2 DEF Stored
        <5>2. pkt'.vip_num \in Num
          BY <2>3, <5>1 DEF MapTypes
        <5>3. \A r \in Row : Known(fwd_table[vip_map[k]][r], gens)'
          BY <2>3, <5>1 DEF LiveRows
        <5>4. \A r \in Row : KnownNext(fwd_table'[vip_map'[k]][r], gens')
          BY <5>3 DEF Known, KnownNext, SlotStated
        <5>5. \A r \in Row : KnownNext(fwd_table'[vip_map'[k]][r], pkt'.gens)
          BY <2>2, <5>4 DEF KnownNext, MemberStated
        <5> QED
          BY <5>1, <5>2, <5>5
      <4> QED
        BY <2>2, <4>1, <4>2
    <3>2. ASSUME pkt.pc = "backend", pkt.by = "row" PROVE KnownNext(pkt.id, pkt'.gens)
      <4>1. pkt.id \in Id /\ Known(pkt.id, pkt.gens)
        BY <2>1, <3>2 DEF PacketKnown, PacketTypes
      <4> QED
        BY <2>0, <2>2, <4>1, SlotKept
    <3> QED
      BY <2>2, <3>1, <3>2 DEF PacketKnown, Holding, Known, KnownNext, SlotStated, MemberStated
  <2>5. PacketSteady'
    <3> SUFFICES ASSUME ~pkt'.reused, NEW k \in Addressed(pkt'.gens, pkt.dst), Agree(pkt'.gens, k)
                 PROVE  /\ pkt.pc = "any" => k # pkt.dst
                        /\ Holding => pkt.key = k /\ k \in DOMAIN vip_map' /\ vip_map'[k] = pkt.vip_num
                        /\ pkt.pc = "backend" /\ pkt.by = "row" =>
                              pkt.row \in Row /\ \A c \in pkt'.gens : pkt.id = ServiceOf(c, k).table[pkt.row]
      BY <2>2 DEF PacketSteady, PacketAt, Holding
    <3>1. gens \subseteq pkt'.gens /\ gens' \subseteq pkt'.gens /\ pkt.gens \subseteq pkt'.gens
      BY <2>1, <2>2
    <3>2. Agree(gens, k) /\ Agree(gens', k) /\ Agree(pkt.gens, k)
      BY <3>1, AgreeSubset
    <3>3. k \in Key /\ k \in Addressed(pkt.gens, pkt.dst)
      BY <2>1, <3>1, AddressedFacts DEF PacketTypes
    <3>4. PacketAt(k)
      BY <2>1, <2>2, <3>2, <3>3 DEF PacketSteady
    <3>5. Serving /\ Serving'
      BY <2>0, <2>1 DEF Serving
    <3>6. k \in DOMAIN vip_map' /\ (k \in DOMAIN vip_map => vip_map'[k] = vip_map[k])
      BY <2>0, <2>1, <3>2, <3>3, <3>5, SteadyNext
    <3>7. PICK d \in pkt.gens : TRUE
      BY <2>1, GensServed
    <3>8. \A c \in pkt'.gens : ServiceOf(c, k) = ServiceOf(d, k)
      BY <3>1, <3>7 DEF Agree
    <3> QED
      BY <3>4, <3>6, <3>7, <3>8 DEF PacketAt
  <2>6. PacketTypes'
    BY <2>1, <2>2 DEF PacketTypes
  <2>7. PacketCid'
    <3> SUFFICES ASSUME pkt.cid # NO_BACKEND, AgreeOnSlot(pkt'.gens, pkt.cid), NEW c \in pkt'.gens
                 PROVE  IF c.backends[pkt.cid].slot.up THEN pkt.by = "cid" /\ pkt.id = pkt.cid
                        ELSE pkt.by # "cid"
      BY <2>2 DEF PacketCid
    <3>1. PICK d \in pkt.gens : TRUE
      BY <2>1, GensServed
    <3>2. AgreeOnSlot(pkt.gens, pkt.cid) /\ d.backends[pkt.cid].slot = c.backends[pkt.cid].slot
      BY <2>2, <3>1 DEF AgreeOnSlot
    <3> QED
      BY <2>1, <3>1, <3>2 DEF PacketCid
  <2>8. PacketInv'
    BY <2>0, <2>1, <2>2, <2>3, <2>4, <2>5, <2>6, <2>7 DEF PacketInv
  <2> QED
    BY <2>1, <2>2, <2>8, FlightOngoing
<1> QED
  BY <1>1, <1>2 DEF Reconciler

\* Nothing happens.
LEMMA FlightStutter ==
    ASSUME FlightInv, UNCHANGED pkt_vars
    PROVE  FlightInv'
<1>1. UNCHANGED <<vip_map, fwd_table, backends, gens, attached, pkt>>
  BY DEF pkt_vars, vars, maps
<1>2. PacketInv'
  BY <1>1 DEF FlightInv, PacketInv, PacketFields, PacketTypes, PacketKnown, PacketCid, PacketSteady,
              PacketAt, Holding, Known, SlotStated, MemberStated
<1>3. InFlightKnown' /\ InFlightUndisturbed'
  BY <1>1 DEF FlightInv, InFlightKnown, InFlightUndisturbed, CidHonoured, RowHonoured
<1> QED
  BY <1>2, <1>3 DEF FlightInv

(***************************************************************************)
(* Theorems.                                                                *)
(***************************************************************************)

\* The reconciler does not see the packet.
LEMMA PacketsOnlyRead == [InFlightNext]_pkt_vars => [Next]_vars
  BY DEF InFlightNext, SelectVip, SelectAnyPort, SelectByCid, ReadRow, LoadBackend, Return, Reconciler,
         RepublishKey, pkt_vars

\* All that is known of the maps and of the packet reading them.
AllInv == RouteInv /\ AclInv /\ KeySlots /\ SlotsKept /\ SteadyInv /\ FlightInv

\* The invariants hold initially.
LEMMA AllInvInit == InFlightInit => AllInv
<1> SUFFICES ASSUME InFlightInit PROVE AllInv
  OBVIOUS
<1>1. Init /\ pkt = NoPacket
  BY DEF InFlightInit
<1>2. RouteInv /\ AclInv
  BY <1>1, RouteInvInit, AclInvInit
<1>3. KeySlots /\ SlotsKept /\ SteadyInv
  BY <1>1 DEF Init, KeySlots, SlotsKept, SteadyInv, Serving
<1>4. FlightInv
  BY <1>1 DEF FlightInv, PacketInv, InFlightKnown, InFlightUndisturbed
<1> QED
  BY <1>2, <1>3, <1>4 DEF AllInv

\* Together the six are inductive.
LEMMA AllInvNext ==
    ASSUME AllInv, [InFlightNext]_pkt_vars
    PROVE  AllInv'
<1> USE DEF AllInv
<1>1. [Next]_vars
  BY PacketsOnlyRead
<1>2. RouteInv' /\ AclInv'
  BY <1>1, RouteInvNext, AclInvNext
<1>3. KeySlots' /\ SlotsKept'
  BY <1>1, KeySlotsNext, SlotsKeptNext
<1>4. SteadyInv'
  <2> SUFFICES ASSUME Serving', NEW k \in Key, Agree(gens', k) PROVE Steady(k)'
    BY DEF SteadyInv
  <2> QED
    BY <1>1, <1>2, SteadyNext
<1>5. FlightInv'
  BY <1>2, <1>3, FlightSelect, FlightAnyPort, FlightCid, FlightRead, FlightLoad, FlightReturn,
     FlightReconciler, FlightRepublish, FlightStutter DEF InFlightNext
<1> QED
  BY <1>2, <1>3, <1>4, <1>5

\* A packet between any two of its map reads, under any writes: what it holds is
\* accounted for by the configurations of its flight.
THEOREM FlightInvariant == InFlightSpec => []AllInv
  BY AllInvInit, AllInvNext, PTL DEF InFlightSpec

\* marlin_lb_process() against write_backends(), write_vip() and
\* retire_stale_backends(): a packet that is sent got a slot that was up.  If a row
\* led to it, it is a member of a VIP in a configuration of the packet's flight and at
\* the address one of those configurations states, even if the vip_map element the
\* packet points to was reused under it.  If a connection ID led to it and the backend
\* stayed in the file, it is as one of them states.  For any configurations and any
\* number of reloads, failures and writes between two reads.
THEOREM SentOnlyToKnown == InFlightSpec => []InFlightKnown
<1>1. AllInv => InFlightKnown
  BY DEF AllInv, FlightInv
<1> QED
  BY <1>1, FlightInvariant, PTL

\* docs/design/31 s.8, vip_alloc() and write_vip(): a connection ID of a backend that
\* all the configurations of the packet's flight state alike is followed exactly when
\* that backend is up, and the other packets of a VIP that all of them state alike meet
\* the backend of their row, sent when it is up and dropped when it is not, as if no
\* reload took place, unless the element they point to was reused for another key.
THEOREM UndisturbedAlways == InFlightSpec => []InFlightUndisturbed
<1>1. AllInv => InFlightUndisturbed
  BY DEF AllInv, FlightInv
<1> QED
  BY <1>1, FlightInvariant, PTL
=============================================================================
