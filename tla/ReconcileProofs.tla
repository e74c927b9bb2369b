-------------------------- MODULE ReconcileProofs ---------------------------
(***************************************************************************)
(* Proofs about the maps while configurations are applied: through every     *)
(* map write of every startup and reload, every failing call and every kill, *)
(* the datapath never skips an ACL trie that holds rules; a VIP key leads    *)
(* only to rows made for it and to slots that are populated, and what all    *)
(* the configurations involved agree on stays; and every map write is a step *)
(* of Service.                                                              *)
(***************************************************************************)
EXTENDS ReconcileRefines, VipAllocProofs

-----------------------------------------------------------------------------

(***************************************************************************)
(* The ACL tries and the bits that say which of them hold rules.           *)
(***************************************************************************)

(***************************************************************************)
(* AclBitCovers is not inductive: narrowing the bits in the last step is    *)
(* safe only because by then every trie holds what the configuration lists, *)
(* and inserting rules is safe only because the union was written first.    *)
(* Where a read error was swallowed only the first half of this is left: the *)
(* wanted rules are there, and the list is recorded as overlooked.           *)
(***************************************************************************)

AclTypes ==
    /\ acl_trie \in [Lists -> SUBSET Rule]
    /\ config \in [acl_lists : SUBSET Lists, max_frame : BOOLEAN]
    /\ phase \in Working \cup {"down", "run"}
    /\ phase \in Steps => conf \in Confs
    /\ overlooked \subseteq Lists \cup {"tx_ports"}

\* The phases from the first trie write on, and those after the last.
FromAcl == Steps \ {"plan", "stale_keys", "config"}
AfterAcl == FromAcl \ {"acl"}

\* The bits of the new population stay set until the last write.
WantedBitsSet == phase \in FromAcl => acl_lists_bits(conf) \subseteq config.acl_lists

\* List l is reconciled, as far as it was read.
ListDone(l) ==
    /\ conf.acl[l] \subseteq acl_trie[l]
    /\ l \notin overlooked => acl_trie[l] = conf.acl[l]

\* The lists before index are reconciled.
ListsDone ==
    /\ phase = "acl" => /\ index \in DOMAIN AclList
                        /\ \A i \in 1 .. (index - 1) : ListDone(AclList[i])
    /\ phase \in AfterAcl => \A l \in Lists : ListDone(l)

AclInv == AclTypes /\ AclBitCovers /\ WantedBitsSet /\ ListsDone

\* The four tries, each once.
LEMMA ListNames ==
    /\ DOMAIN AclList = 1 .. 4 /\ Len(AclList) = 4
    /\ \A i \in 1 .. 4 : AclList[i] \in Lists
    /\ \A l \in Lists : \E i \in 1 .. 4 : l = AclList[i]
    /\ \A i, j \in 1 .. 4 : AclList[i] = AclList[j] => i = j
    /\ "tx_ports" \notin Lists
  BY DEF Lists, AclList, Range

\* What a configuration wants of them.
LEMMA WantedRules ==
    ASSUME NEW c \in Confs
    PROVE  c.acl \in [Lists -> SUBSET Rule]
  BY ReconcileAssumption DEF ValidConf, ValidAcl

\* The invariant holds initially.
LEMMA AclInvInit == Init => AclInv
<1> SUFFICES ASSUME Init PROVE AclInv
  OBVIOUS
<1> USE DEF Init, EmptyTries, EmptyConfig
<1>1. AclTypes /\ AclBitCovers
  BY DEF AclTypes, AclBitCovers, Working, Steps
<1> QED
  BY <1>1 DEF AclInv, WantedBitsSet, ListsDone, FromAcl, AfterAcl, Steps

\* Steps that leave the tries and the bits alone and stay out of the phases that
\* follow the union write.
LEMMA AclInvElsewhere ==
    ASSUME AclInv, UNCHANGED <<acl_trie, config, overlooked>>,
           phase' \in (Working \ FromAcl) \cup {"down", "run"},
           phase' \in Steps => conf' \in Confs
    PROVE  AclInv'
  BY DEF AclInv, AclTypes, AclBitCovers, WantedBitsSet, ListsDone, FromAcl, AfterAcl, Steps

\* Steps of the same phase, or to a later one after the tries are done.
LEMMA AclInvLater ==
    ASSUME AclInv, UNCHANGED <<acl_trie, config, conf>>, phase \in AfterAcl, phase' \in AfterAcl,
           overlooked' \subseteq Lists \cup {"tx_ports"},
           \A l \in Lists : l \in overlooked' <=> l \in overlooked
    PROVE  AclInv'
<1>1. AclTypes' /\ WantedBitsSet'
  BY DEF AclInv, AclTypes, WantedBitsSet, FromAcl, AfterAcl, Working, Steps, acl_lists_bits
<1>2. AclBitCovers'
  BY DEF AclInv, AclBitCovers
<1>3. ListsDone'
  BY DEF AclInv, ListsDone, ListDone, FromAcl, AfterAcl, Steps
<1> QED
  BY <1>1, <1>2, <1>3 DEF AclInv

\* Such a step that overlooks nothing.
LEMMA AclInvLaterQuiet ==
    ASSUME AclInv, UNCHANGED <<acl_trie, config, conf, overlooked>>, phase \in AfterAcl, phase' \in AfterAcl
    PROVE  AclInv'
  BY AclInvLater DEF AclInv, AclTypes

\* A failed reconcile leaves the maps as they are.
LEMMA AclInvFail ==
    ASSUME AclInv, NEW why, Fail(why)
    PROVE  AclInv'
  BY AclInvElsewhere DEF Fail, maps, Working, FromAcl, Steps

(***************************************************************************)
(* One lemma per group of actions.                                          *)
(***************************************************************************)

\* cmd_attach(), and the steps before the first write_config().
LEMMA AclInvBefore ==
    ASSUME AclInv,
           \/ \E c \in Confs : Startup(c) \/ Reload(c)
           \/ Attach \/ Stop \/ Kill \/ HostFault
           \/ PlanStep \/ PlanEnd \/ DeleteStaleKey \/ StaleKeysDone
    PROVE  AclInv'
<1> USE DEF maps
<1>1. ASSUME NEW c \in Confs, Startup(c) \/ Reload(c) PROVE AclInv'
  BY <1>1, AclInvElsewhere DEF Startup, Reload, Begin, Working, FromAcl, Steps
<1>2. CASE Attach \/ Stop
  BY <1>2, AclInvElsewhere DEF Attach, Stop, Working, FromAcl, Steps
<1>3. CASE Kill
  BY <1>3, AclInvElsewhere DEF Kill, Working, FromAcl, Steps
<1>4. CASE HostFault
  BY <1>4, AclInvFail DEF HostFault
<1>5. CASE PlanStep
  BY <1>5, AclInvElsewhere DEF PlanStep, AclInv, AclTypes, Working, FromAcl, Steps
<1>6. CASE PlanEnd
  <2>1. CASE alloc_pc = "done"
    BY <1>6, <2>1, AclInvElsewhere DEF PlanEnd, Goto, AclInv, AclTypes, Working, FromAcl, Steps
  <2>2. CASE alloc_pc # "done"
    BY <1>6, <2>2, AclInvFail DEF PlanEnd
  <2> QED
    BY <2>1, <2>2
<1>7. CASE DeleteStaleKey
  BY <1>7, AclInvElsewhere DEF DeleteStaleKey, Stay, AclInv, AclTypes, Working, FromAcl, Steps
<1>8. CASE StaleKeysDone
  BY <1>8, AclInvElsewhere DEF StaleKeysDone, Goto, AclInv, AclTypes, Working, FromAcl, Steps
<1> QED
  BY <1>1, <1>2, <1>3, <1>4, <1>5, <1>6, <1>7, <1>8

\* Fresh maps: no rule, no bit.
LEMMA AclInvUnpin ==
    ASSUME AclInv, Unpin
    PROVE  AclInv'
<1>1. acl_trie' = [l \in Lists |-> {}] /\ config' = EmptyConfig /\ phase = "down" /\ phase' = "down"
      /\ overlooked' = {}
  BY DEF Unpin, EmptyTries
<1>2. AclTypes' /\ AclBitCovers'
  BY <1>1 DEF AclTypes, AclBitCovers, Working, Steps, EmptyConfig
<1> QED
  BY <1>1, <1>2 DEF AclInv, WantedBitsSet, ListsDone, FromAcl, AfterAcl, Steps

\* write_config() writes the bits it is given, and max_frame.
LEMMA WriteConfigRecord ==
    ASSUME NEW bits, NEW errors, write_config(bits, errors)
    PROVE  \E derived \in BOOLEAN : config' = [acl_lists |-> bits, max_frame |-> derived]
  BY DEF write_config

\* The first write_config() sets the bits of both populations.
LEMMA AclInvUnion ==
    ASSUME AclInv, WriteConfigUnion
    PROVE  AclInv'
<1> USE DEF AclInv
<1> DEFINE bits == config.acl_lists \cup acl_lists_bits(conf)
<1>1. /\ phase = "config" /\ phase' = "acl" /\ index' = 1
      /\ conf' = conf /\ acl_trie' = acl_trie /\ overlooked' = overlooked
      /\ \E derived \in BOOLEAN : config' = [acl_lists |-> bits, max_frame |-> derived]
  BY WriteConfigRecord DEF WriteConfigUnion, write_config
<1>2. acl_lists_bits(conf) \subseteq Lists /\ acl_lists_bits(conf)' = acl_lists_bits(conf)
  BY <1>1 DEF acl_lists_bits
<1>3. config'.acl_lists = config.acl_lists \cup acl_lists_bits(conf)
  BY <1>1
<1>4. AclTypes'
  BY <1>1, <1>2 DEF AclTypes, Working, Steps
<1>5. AclBitCovers' /\ WantedBitsSet'
  BY <1>1, <1>2, <1>3 DEF AclBitCovers, WantedBitsSet
<1>6. ListsDone'
  BY <1>1, ListNames DEF ListsDone, AfterAcl
<1> QED
  BY <1>4, <1>5, <1>6

\* Without the old bits, the tries they stood for are overlooked.
LEMMA AclInvBlind ==
    ASSUME AclInv, WriteConfigBlind
    PROVE  AclInv'
<1> USE DEF AclInv
<1> DEFINE bits == acl_lists_bits(conf)
<1>1. /\ phase = "config" /\ phase' = "acl" /\ index' = 1
      /\ conf' = conf /\ acl_trie' = acl_trie
      /\ overlooked' = overlooked \cup (config.acl_lists \ bits)
      /\ \E derived \in BOOLEAN : config' = [acl_lists |-> bits, max_frame |-> derived]
  BY WriteConfigRecord DEF WriteConfigBlind, write_config
<1>2. bits \subseteq Lists /\ acl_lists_bits(conf)' = bits /\ config.acl_lists \subseteq Lists
  BY <1>1 DEF acl_lists_bits, AclTypes
<1> HIDE DEF bits
<1>3. config'.acl_lists = bits
  BY <1>1
<1>4. AclTypes'
  BY <1>1, <1>2 DEF AclTypes, Working, Steps
<1>5. AclBitCovers' /\ WantedBitsSet'
  BY <1>1, <1>2, <1>3 DEF AclBitCovers, WantedBitsSet
<1>6. ListsDone'
  BY <1>1, ListNames DEF ListsDone, AfterAcl
<1> QED
  BY <1>4, <1>5, <1>6

\* Inserting and deleting rules of the list at hand.
LEMMA AclInvRule ==
    ASSUME AclInv, AclInsert \/ AclDelete
    PROVE  AclInv'
<1> USE DEF AclInv
<1>1. phase = "acl" /\ phase' = "acl" /\ UNCHANGED <<conf, config, index, overlooked>>
  BY DEF AclInsert, AclDelete, Stay
<1>2. /\ conf \in Confs /\ acl_trie \in [Lists -> SUBSET Rule] /\ conf.acl \in [Lists -> SUBSET Rule]
      /\ index \in 1 .. 4 /\ ThisList \in Lists
  BY <1>1, ListNames, WantedRules DEF AclTypes, ListsDone, ThisList, Steps
<1>3. PICK new \in SUBSET Rule :
         /\ acl_trie' = [acl_trie EXCEPT ![ThisList] = new]
         /\ new # {} /\ ThisList \notin overlooked => ThisList \in config.acl_lists
  <2>1. CASE AclInsert
    <3>1. PICK r \in conf.acl[ThisList] :
             acl_trie' = [acl_trie EXCEPT ![ThisList] = acl_trie[ThisList] \cup {r}]
      BY <2>1 DEF AclInsert
    <3>2. ThisList \in config.acl_lists
      BY <1>1, <1>2, <3>1 DEF WantedBitsSet, acl_lists_bits, FromAcl, Steps
    <3>3. acl_trie[ThisList] \cup {r} \in SUBSET Rule
      BY <1>2, <3>1
    <3> QED
      BY <3>1, <3>2, <3>3
  <2>2. CASE AclDelete
    <3>1. PICK r \in acl_trie[ThisList] :
             acl_trie' = [acl_trie EXCEPT ![ThisList] = acl_trie[ThisList] \ {r}]
      BY <2>2 DEF AclDelete
    <3>2. ThisList \notin overlooked => ThisList \in config.acl_lists
      BY <1>2, <3>1 DEF AclBitCovers
    <3>3. acl_trie[ThisList] \ {r} \in SUBSET Rule
      BY <1>2
    <3> QED
      BY <3>1, <3>2, <3>3
  <2> QED
    BY <2>1, <2>2
<1> HIDE DEF AclInv
<1>4. /\ acl_trie' \in [Lists -> SUBSET Rule]
      /\ \A l \in Lists : acl_trie'[l] = IF l = ThisList THEN new ELSE acl_trie[l]
  BY <1>2, <1>3
<1>5. AclTypes'
  BY <1>1, <1>2, <1>4 DEF AclInv, AclTypes
<1>6. AclBitCovers'
  BY <1>1, <1>2, <1>3, <1>4 DEF AclInv, AclBitCovers
<1>7. WantedBitsSet'
  BY <1>1 DEF AclInv, WantedBitsSet, acl_lists_bits
<1>8. ListsDone'
  <2>1. \A i \in 1 .. (index - 1) : AclList[i] \in Lists /\ AclList[i] # ThisList
    BY <1>2, ListNames DEF ThisList
  <2>2. \A i \in 1 .. (index - 1) : ListDone(AclList[i])'
    BY <1>1, <1>4, <2>1 DEF AclInv, ListsDone, ListDone
  <2> QED
    BY <1>1, <1>2, <2>2, ListNames DEF ListsDone, AfterAcl
<1> QED
  BY <1>5, <1>6, <1>7, <1>8 DEF AclInv

\* A list is reconciled, or was cut short: on to the next, or past the last one.
LEMMA AclInvListDone ==
    ASSUME AclInv, AclListDone \/ AclReadCut
    PROVE  AclInv'
<1> USE DEF AclInv
<1>1. /\ phase = "acl" /\ UNCHANGED <<acl_trie, config, conf>>
      /\ index' = IF index < 4 THEN index + 1 ELSE 1
      /\ phase' = IF index < 4 THEN "acl" ELSE "tx_add"
  BY ListNames DEF AclListDone, AclReadCut, NextList, maps
<1>2. /\ conf.acl[ThisList] \subseteq acl_trie[ThisList]
      /\ \/ acl_trie[ThisList] = conf.acl[ThisList] /\ overlooked' = overlooked \ {ThisList}
         \/ overlooked' = overlooked \cup {ThisList}
  BY DEF AclListDone, AclReadCut
<1>3. /\ conf \in Confs /\ acl_trie \in [Lists -> SUBSET Rule] /\ conf.acl \in [Lists -> SUBSET Rule]
      /\ index \in 1 .. 4 /\ ThisList \in Lists /\ ThisList = AclList[index]
  BY <1>1, ListNames, WantedRules DEF AclTypes, ListsDone, Steps, ThisList
<1>4. \A i \in 1 .. index : ListDone(AclList[i])'
  <2>1. ASSUME NEW i \in 1 .. index, i = index PROVE ListDone(AclList[i])'
    BY <1>1, <1>2, <1>3, <2>1 DEF ListDone
  <2>2. ASSUME NEW i \in 1 .. (index - 1) PROVE ListDone(AclList[i])'
    <3>1. AclList[i] # ThisList
      BY <1>3, ListNames
    <3> QED
      BY <1>1, <1>2, <3>1 DEF ListsDone, ListDone
  <2>3. \A i \in 1 .. index : i = index \/ i \in 1 .. (index - 1)
    BY <1>3
  <2> QED
    BY <1>3, <2>1, <2>2, <2>3
<1>5. AclTypes'
  BY <1>1, <1>2, <1>3 DEF AclTypes, Working, Steps
<1>6. WantedBitsSet'
  BY <1>1 DEF WantedBitsSet, FromAcl, Steps, acl_lists_bits
<1>7. AclBitCovers'
  <2>1. conf.acl[ThisList] # {} => ThisList \in config.acl_lists
    BY <1>1, <1>3 DEF WantedBitsSet, FromAcl, Steps, acl_lists_bits
  <2> QED
    BY <1>1, <1>2, <1>3, <2>1 DEF AclBitCovers
<1>8. ListsDone'
  <2>1. CASE index < 4
    BY <1>1, <1>3, <1>4, <2>1, ListNames DEF ListsDone, AfterAcl
  <2>2. CASE ~(index < 4)
    <3>1. index = 4
      BY <1>3, <2>2
    <3>2. \A l \in Lists : ListDone(l)'
      BY <1>4, <3>1, ListNames
    <3> QED
      BY <1>1, <2>2, <3>2 DEF ListsDone
  <2> QED
    BY <2>1, <2>2
<1> QED
  BY <1>5, <1>6, <1>7, <1>8

\* The last write_config() leaves the bits of the tries that hold rules.
LEMMA AclInvNarrow ==
    ASSUME AclInv, WriteConfigNarrow
    PROVE  AclInv'
<1>1. /\ phase = "narrow" /\ phase' \in {"attach", "run"} /\ acl_trie' = acl_trie
      /\ overlooked' = overlooked
      /\ \E derived \in BOOLEAN : config' = [acl_lists |-> acl_lists_bits(conf), max_frame |-> derived]
  BY WriteConfigRecord DEF WriteConfigNarrow, write_config
<1>2. /\ \A l \in Lists : ListDone(l)
      /\ acl_trie \in [Lists -> SUBSET Rule] /\ overlooked \subseteq Lists \cup {"tx_ports"}
  BY <1>1 DEF AclInv, AclTypes, ListsDone, FromAcl, AfterAcl, Steps
<1>3. /\ config' \in [acl_lists : SUBSET Lists, max_frame : BOOLEAN]
      /\ config'.acl_lists = acl_lists_bits(conf)
  BY <1>1 DEF acl_lists_bits
<1>4. AclTypes'
  BY <1>1, <1>2, <1>3 DEF AclTypes, Working, Steps
<1>5. AclBitCovers'
  BY <1>1, <1>2, <1>3 DEF AclBitCovers, acl_lists_bits, ListDone
<1> QED
  BY <1>1, <1>4, <1>5 DEF AclInv, WantedBitsSet, ListsDone, FromAcl, AfterAcl, Steps

\* Everything after the tries, up to the last write_config().
LEMMA AclInvAfter ==
    ASSUME AclInv,
           \/ AddTxPort \/ TxPortsFull \/ TxPortsAdded
           \/ WriteBackend \/ WriteBackendFails \/ BackendsWritten
           \/ WriteRow \/ PublishKey \/ VipWritten \/ VipsWritten
           \/ ZeroRow \/ BlocksReleased \/ RetireSlot \/ RetireFails \/ RetireDone
           \/ RemoveTxPort \/ TxPortsRemoved \/ TxReadCut
    PROVE  AclInv'
<1> USE DEF maps
<1>1. CASE TxPortsFull \/ WriteBackendFails \/ RetireFails
  BY <1>1, AclInvFail DEF TxPortsFull, WriteBackendFails, RetireFails
<1>2. CASE AddTxPort \/ TxPortsAdded
  BY <1>2, AclInvLaterQuiet DEF AddTxPort, TxPortsAdded, Goto, Stay, AfterAcl, FromAcl, Steps
<1>3. CASE WriteBackend \/ BackendsWritten
  BY <1>3, AclInvLaterQuiet DEF WriteBackend, BackendsWritten, Goto, Stay, AfterAcl, FromAcl, Steps
<1>4. CASE WriteRow \/ PublishKey
  BY <1>4, AclInvLaterQuiet DEF WriteRow, PublishKey, Stay, AfterAcl, FromAcl, Steps
<1>5. CASE VipWritten \/ VipsWritten
  BY <1>5, AclInvLaterQuiet DEF VipWritten, VipsWritten, Goto, AfterAcl, FromAcl, Steps
<1>6. CASE ZeroRow \/ BlocksReleased
  BY <1>6, AclInvLaterQuiet DEF ZeroRow, BlocksReleased, Goto, Stay, AfterAcl, FromAcl, Steps
<1>7. CASE RetireSlot \/ RetireDone
  BY <1>7, AclInvLaterQuiet DEF RetireSlot, RetireDone, Goto, Stay, AfterAcl, FromAcl, Steps
<1>8. CASE RemoveTxPort
  BY <1>8, AclInvLaterQuiet DEF RemoveTxPort, Stay, AfterAcl, FromAcl, Steps
<1>9. CASE TxPortsRemoved \/ TxReadCut
  <2>1. /\ phase = "tx_del" /\ phase' = "narrow" /\ UNCHANGED <<acl_trie, config, conf>>
        /\ overlooked' \in {overlooked \ {"tx_ports"}, overlooked \cup {"tx_ports"}}
    BY <1>9 DEF TxPortsRemoved, TxReadCut, TxPortsLeft
  <2>2. /\ overlooked' \subseteq Lists \cup {"tx_ports"}
        /\ \A l \in Lists : l \in overlooked' <=> l \in overlooked
    BY <2>1, ListNames DEF AclInv, AclTypes
  <2> QED
    BY <2>1, <2>2, AclInvLater DEF AfterAcl, FromAcl, Steps
<1> QED
  BY <1>1, <1>2, <1>3, <1>4, <1>5, <1>6, <1>7, <1>8, <1>9

\* Every step keeps the invariant.
LEMMA AclInvNext ==
    ASSUME AclInv, [Next]_vars
    PROVE  AclInv'
<1>1. CASE Unpin
  BY <1>1, AclInvUnpin
<1>2. CASE WriteConfigUnion \/ WriteConfigNarrow \/ WriteConfigBlind
  BY <1>2, AclInvUnion, AclInvNarrow, AclInvBlind
<1>3. CASE AclInsert \/ AclDelete \/ AclListDone \/ AclReadCut
  BY <1>3, AclInvRule, AclInvListDone
<1>4. CASE AclFull
  BY <1>4, AclInvFail DEF AclFull
<1>5. CASE UNCHANGED vars
  BY <1>5 DEF vars, maps, AclInv, AclTypes, AclBitCovers, WantedBitsSet, ListsDone, ListDone, acl_lists_bits
<1> QED
  BY <1>1, <1>2, <1>3, <1>4, <1>5, AclInvBefore, AclInvAfter DEF Next, ReconcileStep, Swallowed

(***************************************************************************)
(* Theorems.                                                                *)
(***************************************************************************)

\* reconcile_apply() keeps the ACL invariant whatever calls fail and wherever the
\* process is killed.
THEOREM AclInvariant == Spec => []AclInv
<1>1. Init => AclInv
  BY AclInvInit
<1>2. AclInv /\ [Next]_vars => AclInv'
  BY AclInvNext
<1> QED
  BY <1>1, <1>2, PTL DEF Spec

\* The bit of a trie that holds rules is never clear (docs/design/31 s.8), lists a
\* swallowed read error has overlooked apart, until they are next read to the end;
\* for any configurations, any number of rules and any sequence of reloads,
\* failures, kills and restarts.
THEOREM AclAlwaysCovered == Spec => []AclBitCovers
<1>1. AclInv => AclBitCovers
  BY DEF AclInv
<1> QED
  BY <1>1, AclInvariant, PTL

-----------------------------------------------------------------------------

(***************************************************************************)
(* Where packets are sent.                                                 *)
(***************************************************************************)

(***************************************************************************)
(* The inductive invariant.  NoMisroute is not inductive: a row may be       *)
(* overwritten because the plan is safe (SafePlan), which speaks of the      *)
(* vip_map the plan was made from.  So the invariant says how the live       *)
(* vip_map and fwd_table follow the plan: the entries of write_order before  *)
(* the current one are done, the others still stand in the baseline.         *)
(***************************************************************************)

\* The steps of reconcile_apply() from write_vip() on, and those after it.
FromVips == {"vips", "release", "retire", "tx_del", "narrow"}
AfterVips == FromVips \ {"vips"}

\* Where control is in cmd_attach() and what it implies of the process's state.
Control ==
    /\ phase \in Working \cup {"down", "run"}
    /\ mode \in {"none", "startup", "reload"}
    /\ gens \subseteq Confs
    /\ faults \in 0 .. MaxFaults
    /\ phase \in Steps => conf \in gens /\ mode # "none" /\ entries = EntryKeys(conf)
    /\ phase \notin Steps => conf = NoConf /\ AllocInit
    /\ attached \in BOOLEAN
    /\ attached <=> phase = "run" \/ (phase \in Steps /\ mode = "reload")
    /\ IF phase = "down" THEN file = NoConf ELSE file \in Confs
    /\ phase = "attach" => gens = {file}
    /\ attached => file \in gens

\* The plan is complete before the first map is written, and index follows it.
PlanKept ==
    /\ PlanInv /\ ChoiceInv
    /\ phase = "plan" => baseline = vip_map
    /\ phase \in Steps \ {"plan"} => alloc_pc = "done"
    /\ phase = "vips" => index \in 1 .. (Len(order) + 1)
    /\ phase \notin {"vips", "acl"} => index = 1

MapTypes ==
    /\ vip_map \in [DOMAIN vip_map -> Num] /\ DOMAIN vip_map \subseteq Key
    /\ fwd_table \in [Num -> [Row -> Id \cup {NO_BACKEND}]]
    /\ DOMAIN backends = Id
    /\ \A id \in Id : \/ backends[id] = Zeroed
                      \/ \E c \in Confs : id \in DOMAIN c.backends /\ backends[id] = c.backends[id].slot
    /\ tx_ports \subseteq Port

\* How many entries of write_order are written.
Upto == IF phase = "vips" THEN index - 1 ELSE IF phase \in AfterVips THEN Len(order) ELSE 0

Done(e) == \E q \in 1 .. Upto : order[q] = e

\* The entry write_vip() is working on.
Current(e) == phase = "vips" /\ index \in DOMAIN order /\ order[index] = e

\* Where key k of entry e leads: to e's block once e is written; before, to where
\* it led when the plan was made, or to e's block if that holds all its rows.
KeyLeads(e, k) ==
    /\ Done(e) => k \in DOMAIN vip_map /\ vip_map[k] = num[e]
    /\ k \in DOMAIN baseline => k \in DOMAIN vip_map
    /\ k \in DOMAIN vip_map =>
          \/ Done(e)
          \/ k \in DOMAIN baseline /\ vip_map[k] = baseline[k]
          \/ Current(e) /\ vip_map[k] = num[e] /\ fwd_table[num[e]] = Table(conf, e)

KeysLead == phase \in Steps => \A e \in Entry : \A k \in KeysOf(entries, e) : KeyLeads(e, k)

TablesDone == phase \in FromVips => \A e \in Entry : Done(e) => fwd_table[num[e]] = Table(conf, e)

StaleGone == phase \in Steps \ {"plan", "stale_keys"} => DOMAIN vip_map \subseteq Owned

SlotsWritten ==
    phase \in FromVips => \A id \in DOMAIN conf.backends : backends[id] = conf.backends[id].slot

PortsAdded ==
    /\ phase \in FromVips \cup {"backends"} => conf.tx_ports \subseteq tx_ports
    /\ phase = "narrow" /\ "tx_ports" \notin overlooked => tx_ports = conf.tx_ports

\* KeptStays, from the moment reconcile_startup() has returned.
KeptNow ==
    /\ \A k \in Key : (\A c \in gens : k \in ConfKeys(c)) => k \in DOMAIN vip_map
    /\ \A l \in Lists, r \in Rule :
          (\A c \in gens : r \in c.acl[l]) => r \in acl_trie[l] /\ l \in config.acl_lists
    /\ \A p \in Port : (\A c \in gens : p \in c.tx_ports) => p \in tx_ports

Serving == attached \/ phase = "attach"

Kept == Serving => KeptNow

\* The lists and ports of c are in place; what is there besides was overlooked.
AclApplied(c) ==
    \A l \in Lists : c.acl[l] \subseteq acl_trie[l] /\ (l \notin overlooked => acl_trie[l] = c.acl[l])

PortsApplied(c) ==
    c.tx_ports \subseteq tx_ports /\ ("tx_ports" \notin overlooked => tx_ports = c.tx_ports)

\* Configuration c is completely applied, leftovers apart.
Applied(c) ==
    /\ DOMAIN vip_map = ConfKeys(c)
    /\ \A e \in DOMAIN c.vips : \A k \in Range(c.vips[e].keys) :
          fwd_table[vip_map[k]] = Table(c, e)
    /\ \A e, f \in DOMAIN c.vips :
          \A k \in Range(c.vips[e].keys), l \in Range(c.vips[f].keys) :
             e = f <=> vip_map[k] = vip_map[l]
    /\ AclApplied(c)
    /\ config.acl_lists = acl_lists_bits(c)
    /\ any_backend_encapsulates(c) /\ c.max_frame # "zero" => config.max_frame
    /\ PortsApplied(c)
    /\ \A id \in DOMAIN c.backends : backends[id] = c.backends[id].slot

\* The configuration in force is the only one involved: it stays applied, and
\* applying it once more finds its own blocks again and removes leftovers at most.
Settled ==
    Serving /\ gens = {file} => Applied(file) /\ (phase \in Steps => baseline = vip_map)

RouteInv ==
    /\ Control /\ PlanKept /\ MapTypes
    /\ KeysLead /\ TablesDone /\ StaleGone /\ SlotsWritten /\ PortsAdded
    /\ NoMisroute /\ RowsPopulated
    /\ IsFiniteSet(DOMAIN vip_map) /\ VipMapFits
    /\ Kept /\ Settled

(***************************************************************************)
(* What the scan of pick_row_equal_weight() and pick_row_weighted() returns:*)
(* the id of one of the members, whatever the digests and the weights.      *)
(* The scan is a recursive function; that it is defined, and what it        *)
(* returns, is shown by looking at the first index where it would not be.   *)
(***************************************************************************)

\* A set of naturals that is not empty has a lowest element.
LEMMA LowestNat ==
    ASSUME NEW T, T \subseteq Nat, T # {}
    PROVE  \E n \in T : \A m \in T : n <= m
<1> DEFINE R == OpToRel(<, Nat)
<1>1. IsWellFoundedOn(R, Nat)
  BY NatLessThanWellFounded
<1>2. \A x, y \in Nat : <<y, x>> \in R <=> y < x
  BY DEF OpToRel
<1> HIDE DEF R
<1>3. PICK n \in T : \A m \in T : ~(<<m, n>> \in R)
  BY <1>1, WFMin
<1>4. ASSUME NEW m \in T PROVE n <= m
  <2>1. n \in Nat /\ m \in Nat
    OBVIOUS
  <2>2. ~(m < n)
    BY <1>2, <1>3, <2>1, Zenon
  <2> QED
    BY <2>1, <2>2
<1> QED
  BY <1>4

\* The scan after i members, given the best of those before.
ScanStep(members, row, g, i) ==
    IF i = 1 THEN members[1]
    ELSE IF Beats(EqualWeight(members), row, members[i], g[i - 1])
         THEN members[i] ELSE g[i - 1]

\* g is what the scan of the first n members computes.
Scans(members, row, n, g) ==
    /\ g = [i \in 1 .. n |-> g[i]]
    /\ \A i \in 1 .. n : g[i] = ScanStep(members, row, g, i)

\* A scan of fwd_gen_block() over any number of members exists.
LEMMA ScanExists ==
    ASSUME NEW members, NEW row, NEW n \in Nat
    PROVE  \E g : Scans(members, row, n, g)
<1> DEFINE Bad == {m \in Nat : ~\E g : Scans(members, row, m, g)}
<1> SUFFICES ASSUME Bad # {} PROVE FALSE
  BY DEF Bad
<1>1. PICK m \in Bad : \A l \in Bad : m <= l
  BY LowestNat
<1>2. m \in Nat /\ ~\E g : Scans(members, row, m, g)
  BY DEF Bad
<1>3. m # 0
  <2> DEFINE z == [i \in 1 .. 0 |-> 0]
  <2>1. Scans(members, row, 0, z)
    BY DEF Scans
  <2> QED
    BY <1>2, <2>1
<1>4. m - 1 \in Nat /\ m - 1 \notin Bad
  BY <1>1, <1>2, <1>3
<1>5. PICK g : Scans(members, row, m - 1, g)
  BY <1>4 DEF Bad
<1> DEFINE h == [i \in 1 .. m |-> IF i = m THEN ScanStep(members, row, g, m) ELSE g[i]]
<1>6. h = [i \in 1 .. m |-> h[i]]
  OBVIOUS
<1>7. ASSUME NEW i \in 1 .. m PROVE h[i] = ScanStep(members, row, h, i)
  <2>1. i = 1 \/ h[i - 1] = g[i - 1]
    BY <1>2
  <2>2. ScanStep(members, row, h, i) = ScanStep(members, row, g, i)
    BY <2>1 DEF ScanStep
  <2>3. CASE i = m
    BY <2>2, <2>3
  <2>4. CASE i # m
    <3>1. i \in 1 .. (m - 1)
      BY <1>2, <2>4
    <3> QED
      BY <1>5, <2>2, <2>4, <3>1 DEF Scans
  <2> QED
    BY <2>3, <2>4
<1>8. Scans(members, row, m, h)
  BY <1>6, <1>7 DEF Scans
<1> QED
  BY <1>2, <1>8

\* pick_row_*(): best is always the entry of some member.
LEMMA PickRowMember ==
    ASSUME NEW Val, NEW members \in Seq(Val), members # <<>>, NEW row
    PROVE  \E i \in DOMAIN members : PickRow(members, row) = members[i].id
<1> DEFINE n == Len(members)
           best == CHOOSE g : g = [i \in DOMAIN members |-> ScanStep(members, row, g, i)]
<1>1. n \in Nat /\ n >= 1 /\ DOMAIN members = 1 .. n
  OBVIOUS
<1>2. PickRow(members, row) = best[n].id
  BY DEF PickRow, ScanStep
<1>3. PICK g : Scans(members, row, n, g)
  BY <1>1, ScanExists
<1>4. g = [i \in DOMAIN members |-> ScanStep(members, row, g, i)]
  BY <1>1, <1>3 DEF Scans
<1>5. best = [i \in DOMAIN members |-> ScanStep(members, row, best, i)]
  BY <1>4, Zenon
<1> HIDE DEF best
<1> DEFINE Bad == {m \in 1 .. n : \A i \in DOMAIN members : best[m] # members[i]}
<1>6. Bad = {}
  <2> SUFFICES ASSUME Bad # {} PROVE FALSE
    OBVIOUS
  <2>0. Bad \subseteq Nat
    BY <1>1
  <2>1. PICK m \in Bad : \A l \in Bad : m <= l
    <3> HIDE DEF Bad
    <3> QED
      BY <2>0, LowestNat
  <2>2. m \in 1 .. n /\ best[m] = ScanStep(members, row, best, m)
    BY <1>1, <1>5
  <2>3. m # 1
    BY <1>1, <2>2 DEF ScanStep
  <2>4. m - 1 \in 1 .. n /\ m - 1 \notin Bad
    BY <1>1, <2>1, <2>2, <2>3
  <2>5. PICK i \in DOMAIN members : best[m - 1] = members[i]
    BY <2>4
  <2> QED
    BY <1>1, <2>2, <2>3, <2>5 DEF ScanStep
<1>7. PICK i \in DOMAIN members : best[n] = members[i]
  BY <1>1, <1>6
<1> QED
  BY <1>2, <1>7

\* fwd_gen_block(): a row is MARLIN_NO_BACKEND or the id of a member of the VIP.
LEMMA BlockRows ==
    ASSUME NEW Val, NEW members \in Seq(Val), NEW row \in Row
    PROVE  \/ members = <<>> /\ fwd_gen_block(members)[row] = NO_BACKEND
           \/ \E i \in DOMAIN members : fwd_gen_block(members)[row] = members[i].id
<1>1. CASE members = <<>>
  BY <1>1 DEF fwd_gen_block
<1>2. CASE members # <<>>
  <2>1. fwd_gen_block(members)[row] = PickRow(members, row)
    BY <1>2 DEF fwd_gen_block
  <2> QED
    BY <1>2, <2>1, PickRowMember
<1> QED
  BY <1>1, <1>2

(***************************************************************************)
(* Lemmas about configurations, tables and the plan.                        *)
(***************************************************************************)

\* What conf_check() guarantees, in the form the proofs use.
LEMMA ConfFacts ==
    ASSUME NEW c \in Confs
    PROVE  /\ EntryKeys(c) \in EntryLists /\ EntryKeys(c) \in Seq(Seq(Key))
           /\ DOMAIN EntryKeys(c) = DOMAIN c.vips
           /\ \A e \in DOMAIN c.vips : KeysOf(EntryKeys(c), e) = Range(c.vips[e].keys)
           /\ DOMAIN c.backends \subseteq Id
           /\ \A id \in DOMAIN c.backends : c.backends[id].slot # Zeroed
           /\ c.tx_ports \subseteq Port
           /\ Cardinality(ConfKeys(c)) <= MaxVips
           /\ c # NoConf
<1>1. ValidConf(c) /\ c # NoConf
  BY ReconcileAssumption
<1>2. EntryKeys(c) \in EntryLists /\ EntryKeys(c) \in Seq(Seq(Key))
  BY <1>1, VipAllocAssumption DEF ValidConf, ValidVips
<1>3. /\ DOMAIN EntryKeys(c) = DOMAIN c.vips
      /\ \A e \in DOMAIN c.vips : KeysOf(EntryKeys(c), e) = Range(c.vips[e].keys)
  BY DEF EntryKeys, KeysOf
<1> QED
  BY <1>1, <1>2, <1>3 DEF ValidConf, ValidVips, ValidBackends

\* Blocks, rows and ids are numbers; no id is 0.
LEMMA RowTypes == Id \subseteq Nat \ {0} /\ TableSize \in Nat \ {0} /\ Row \subseteq Nat /\ Num \subseteq Nat
  BY ReconcileAssumption, VipAllocAssumption DEF Row, Num

\* fwd_gen_block() of an entry: every row is MARLIN_NO_BACKEND or one of the
\* backends the configuration states.
LEMMA TableRows ==
    ASSUME NEW c \in Confs, NEW e \in DOMAIN c.vips
    PROVE  /\ Table(c, e) \in [Row -> Id \cup {NO_BACKEND}]
           /\ \A r \in Row : Table(c, e)[r] = NO_BACKEND \/ Table(c, e)[r] \in DOMAIN c.backends
           /\ \A r \in Row : \/ Table(c, e)[r] = NO_BACKEND
                            \/ \E i \in DOMAIN c.vips[e].members :
                                  Table(c, e)[r] = c.vips[e].members[i].id
<1> DEFINE ms == Members(c, e)
           given == c.vips[e].members
           Val == {ms[i] : i \in DOMAIN ms}
<1>1. given \in Seq([id : DOMAIN c.backends, weight : Nat \ {0}])
  BY ReconcileAssumption DEF ValidConf, ValidVips
<1>2. /\ DOMAIN ms = DOMAIN given
      /\ \A i \in DOMAIN ms : ms[i].id \in DOMAIN c.backends /\ ms[i].id = given[i].id
  <2> DEFINE Rec == [id : DOMAIN c.backends, weight : Nat \ {0}]
  <2>0. given \in Seq(Rec)
    BY <1>1
  <2> HIDE DEF given, Rec
  <2>1. \A i \in DOMAIN given : given[i] \in Rec
    BY <2>0
  <2>2. \A i \in DOMAIN given : given[i].id \in DOMAIN c.backends
    BY <2>1 DEF Rec
  <2>3. DOMAIN ms = DOMAIN given /\ \A i \in DOMAIN given : ms[i].id = given[i].id
    BY DEF Members, given
  <2> QED
    BY <2>2, <2>3
<1>3. ms \in Seq(Val)
  <2>1. DOMAIN ms = 1 .. Len(given) /\ Len(given) \in Nat
    BY <1>1, <1>2
  <2>2. ms = [i \in 1 .. Len(given) |-> ms[i]]
    BY <2>1 DEF Members
  <2> QED
    BY <2>1, <2>2
<1> HIDE DEF ms, Val
<1>4. ASSUME NEW r \in Row
      PROVE  \/ Table(c, e)[r] = NO_BACKEND
             \/ /\ Table(c, e)[r] \in DOMAIN c.backends
                /\ \E i \in DOMAIN given : Table(c, e)[r] = given[i].id
  BY <1>2, <1>3, BlockRows DEF Table, ms
<1>5. Table(c, e) = [r \in Row |-> Table(c, e)[r]]
  BY DEF Table, fwd_gen_block
<1>6. DOMAIN c.backends \subseteq Id
  BY ConfFacts
<1> QED
  BY <1>4, <1>5, <1>6

\* While reconcile_apply() runs, the planner's entries are the configuration's.
LEMMA ConfEntries ==
    ASSUME Control, phase \in Steps
    PROVE  /\ conf \in Confs /\ conf \in gens
           /\ Entry = DOMAIN conf.vips
           /\ \A e \in Entry : KeysOf(entries, e) = Range(conf.vips[e].keys)
           /\ Owned = ConfKeys(conf)
<1>1. conf \in Confs /\ conf \in gens /\ entries = EntryKeys(conf)
  BY DEF Control
<1>2. Entry = DOMAIN conf.vips /\ \A e \in Entry : KeysOf(entries, e) = Range(conf.vips[e].keys)
  BY <1>1, ConfFacts DEF Entry
<1>3. Owned = ConfKeys(conf)
  BY <1>2 DEF Owned, ConfKeys
<1> QED
  BY <1>1, <1>2, <1>3

\* TablesOf(k) holds the table each configuration involved generates for k.
LEMMA TableOfKey ==
    ASSUME NEW c \in gens, NEW e \in DOMAIN c.vips, NEW k \in Range(c.vips[e].keys)
    PROVE  Table(c, e) \in TablesOf(k)
  BY DEF TablesOf

\* The plan is complete: every entry has a block of its own and a place in
\* write_order, and its keys that are live lead to blocks.
LEMMA PlanComplete ==
    ASSUME PlanInv, ChoiceInv, alloc_pc = "done"
    PROVE  /\ \A e \in Entry : num[e] \in Num /\ num[e] # Unset
           /\ \A e, f \in Entry : num[e] = num[f] => e = f
           /\ order \in Seq(Entry) /\ DOMAIN order = 1 .. Len(order) /\ Len(order) \in Nat
           /\ \A e \in Entry : \E q \in 1 .. Len(order) : order[q] = e
           /\ \A q \in 1 .. Len(order) : order[q] \in Entry
<1>1. /\ num \in [Entry -> Num \cup {Unset}] /\ order \in Seq(Entry)
      /\ \A e \in Entry : num[e] # Unset
      /\ \A e, f \in Entry : num[e] = num[f] /\ num[e] # Unset => e = f
  BY DEF PlanInv, AllocTypeOK, AtControl, NumsDistinct
<1>2. DOMAIN order = 1 .. Len(order) /\ Len(order) \in Nat /\ \A q \in 1 .. Len(order) : order[q] \in Entry
  BY <1>1
<1>3. \A e \in Entry : \E q \in DOMAIN order : order[q] = e
  BY DEF ChoiceInv, WalkStuck, Written, Range
<1> QED
  BY <1>1, <1>2, <1>3

(***************************************************************************)
(* The invariant holds initially.                                           *)
(***************************************************************************)

\* The invariant holds initially.
LEMMA RouteInvInit == Init => RouteInv
<1> SUFFICES ASSUME Init PROVE RouteInv
  OBVIOUS
<1> USE DEF Init
<1>0. DOMAIN vip_map = {} /\ phase = "down" /\ phase \notin Steps /\ ~Serving
  BY DEF Steps, Serving
<1>1. PlanInv /\ ChoiceInv
  BY PlanInvInit, ChoiceInvInit
<1>2. Control /\ PlanKept
  <2>1. phase \notin Steps /\ phase \in Working \cup {"down", "run"} /\ 0 \in 0 .. MaxFaults
    BY ReconcileAssumption DEF Steps, Working
  <2>2. Control
    BY <2>1 DEF Control
  <2> QED
    BY <1>1, <2>1, <2>2 DEF PlanKept, Steps
<1>3. MapTypes
  BY <1>0 DEF MapTypes, EmptyTable, EmptyBackends
<1>4. KeysLead /\ TablesDone /\ StaleGone /\ SlotsWritten /\ PortsAdded
  BY <1>0 DEF KeysLead, TablesDone, StaleGone, SlotsWritten, PortsAdded, FromVips, Steps
<1>5. NoMisroute /\ RowsPopulated
  BY <1>0 DEF NoMisroute, RowsPopulated
<1>6. IsFiniteSet(DOMAIN vip_map) /\ VipMapFits
  BY <1>0, FS_EmptySet, VipAllocAssumption DEF VipMapFits
<1>7. Kept /\ Settled
  BY <1>0 DEF Kept, Settled
<1> QED
  BY <1>2, <1>3, <1>4, <1>5, <1>6, <1>7 DEF RouteInv

(***************************************************************************)
(* Frames: what steps that leave some of the state alone preserve.          *)
(***************************************************************************)

\* Definitions that depend only on the plan, the configurations or one map.
LEMMA SamePlan ==
    ASSUME UNCHANGED alloc_vars
    PROVE  /\ UNCHANGED <<entries, baseline, alloc_pc, cursor, num, refs, order, seen>>
           /\ Entry' = Entry /\ Owned' = Owned
           /\ PlanInv => PlanInv'
           /\ ChoiceInv => ChoiceInv'
  BY PlanInvStutter, ChoiceInvStutter DEF alloc_vars, Entry, Owned

\* The more configurations are involved, the more tables a row may be of.
LEMMA TablesGrow ==
    ASSUME gens \subseteq gens', NEW k
    PROVE  TablesOf(k) \subseteq TablesOf(k)'
  BY DEF TablesOf

\* Consequences of writing no map.
LEMMA SameMaps ==
    ASSUME UNCHANGED maps
    PROVE  /\ UNCHANGED <<vip_map, fwd_table, backends, acl_trie, config, tx_ports>>
           /\ MapTypes => MapTypes'
           /\ RowsPopulated => RowsPopulated'
           /\ IsFiniteSet(DOMAIN vip_map) => IsFiniteSet(DOMAIN vip_map)'
           /\ VipMapFits => VipMapFits'
           /\ overlooked' = overlooked => \A c : Applied(c) => Applied(c)'
           /\ gens \subseteq gens' => (KeptNow => KeptNow')
           /\ gens \subseteq gens' => (NoMisroute => NoMisroute')
<1>1. UNCHANGED <<vip_map, fwd_table, backends, acl_trie, config, tx_ports>>
  BY DEF maps
<1>2. MapTypes => MapTypes'
  BY <1>1 DEF MapTypes
<1>3. RowsPopulated => RowsPopulated'
  BY <1>1 DEF RowsPopulated
<1>4. VipMapFits => VipMapFits'
  BY <1>1 DEF VipMapFits
<1>5. overlooked' = overlooked => \A c : Applied(c) => Applied(c)'
  BY <1>1 DEF Applied, AclApplied, PortsApplied
<1>6. gens \subseteq gens' => (KeptNow => KeptNow')
  BY <1>1 DEF KeptNow
<1>7. gens \subseteq gens' => (NoMisroute => NoMisroute')
  BY <1>1, TablesGrow DEF NoMisroute
<1> QED
  BY <1>1, <1>2, <1>3, <1>4, <1>5, <1>6, <1>7

\* Outside reconcile_apply() only the maps count.
LEMMA RouteOutside ==
    ASSUME RouteInv, Control', AllocInit', index' = 1, UNCHANGED <<maps, gens, overlooked>>,
           phase' \notin Steps, Serving' => Serving /\ file' = file
    PROVE  RouteInv'
<1>1. PlanInv' /\ ChoiceInv'
  BY PlanInvInit, ChoiceInvInit, PTL
<1>2. phase' # "plan" /\ phase' \notin FromVips /\ phase' # "backends"
  BY DEF Steps, FromVips
<1>3. PlanKept'
  BY <1>1, <1>2 DEF PlanKept, FromVips
<1>4. KeysLead' /\ TablesDone' /\ StaleGone' /\ SlotsWritten' /\ PortsAdded'
  BY <1>2 DEF KeysLead, TablesDone, StaleGone, SlotsWritten, PortsAdded, FromVips
<1>5. Kept'
  BY SameMaps DEF RouteInv, Kept
<1>6. Settled'
  BY SameMaps DEF RouteInv, Settled
<1> QED
  BY <1>3, <1>4, <1>5, <1>6, SameMaps DEF RouteInv

\* The steps inside reconcile_apply() that leave vip_map, fwd_table and the plan
\* alone, and where control stays or moves on without an entry becoming done.
Onward ==
    /\ UNCHANGED <<alloc_vars, vip_map, fwd_table, mode, conf, file, attached, gens>>
    /\ faults' \in 0 .. MaxFaults
    /\ phase \in Steps /\ phase' \in Steps \ {"plan"} /\ alloc_pc = "done"
    /\ phase' = "vips" => index' \in 1 .. (Len(order) + 1)
    /\ phase' \notin {"vips", "acl"} => index' = 1
    /\ Upto' = Upto
    /\ \A e : Current(e) => Current(e)'
    /\ phase \in {"plan", "stale_keys"} => phase' = "stale_keys" \/ StaleKeys = {}

\* reconcile_apply() goes on without touching keys or tables.
LEMMA KeysOnward ==
    ASSUME RouteInv, Onward
    PROVE  /\ Control' /\ PlanKept' /\ KeysLead' /\ TablesDone' /\ StaleGone' /\ NoMisroute'
           /\ IsFiniteSet(DOMAIN vip_map)' /\ VipMapFits'
           /\ Serving' = Serving
<1> USE DEF RouteInv, Onward
<1>0. /\ UNCHANGED <<vip_map, fwd_table, mode, conf, file, attached, gens>>
      /\ UNCHANGED <<entries, baseline, alloc_pc, num, order>>
      /\ Entry' = Entry /\ Owned' = Owned /\ PlanInv' /\ ChoiceInv'
      /\ phase' \in Steps /\ phase' # "plan"
  BY SamePlan DEF PlanKept
<1>1. Control'
  BY <1>0 DEF Control, Steps, Working
<1>2. PlanKept'
  BY <1>0 DEF PlanKept
<1>3. \A e : Done(e)' = Done(e)
  BY <1>0 DEF Done
<1>4. KeysLead'
  <2> SUFFICES ASSUME NEW e \in Entry, NEW k \in KeysOf(entries, e) PROVE KeyLeads(e, k)'
    BY <1>0 DEF KeysLead
  <2>1. KeyLeads(e, k)
    BY DEF KeysLead
  <2> QED
    BY <1>0, <1>3, <2>1 DEF KeyLeads, Table
<1>5. TablesDone'
  <2> SUFFICES ASSUME NEW e \in Entry, Done(e) PROVE fwd_table[num[e]] = Table(conf, e)
    BY <1>0, <1>3 DEF TablesDone, Table
  <2>1. phase \in FromVips
    BY DEF Done, Upto, FromVips, AfterVips
  <2> QED
    BY <2>1 DEF TablesDone
<1>6. StaleGone'
  <2>1. CASE phase \in {"plan", "stale_keys"}
    <3>1. phase' = "stale_keys" \/ DOMAIN vip_map \subseteq Owned
      BY <2>1, ConfEntries DEF StaleKeys
    <3> QED
      BY <1>0, <3>1 DEF StaleGone
  <2>2. CASE phase \notin {"plan", "stale_keys"}
    BY <1>0, <2>2 DEF StaleGone
  <2> QED
    BY <2>1, <2>2
<1>7. NoMisroute'
  BY <1>0, TablesGrow DEF NoMisroute
<1>8. IsFiniteSet(DOMAIN vip_map)' /\ VipMapFits'
  BY <1>0 DEF VipMapFits
<1>9. Serving' = Serving
  BY <1>0 DEF Serving, Steps
<1> QED
  BY <1>1, <1>2, <1>4, <1>5, <1>6, <1>7, <1>8, <1>9

\* Reapplying the configuration in force: every write is one of a value that is
\* already there.
LEMMA Reapplying ==
    ASSUME RouteInv, Serving, gens = {file}, phase \in Steps
    PROVE  conf = file /\ Applied(conf) /\ baseline = vip_map
<1>1. conf \in gens
  BY DEF RouteInv, Control
<1> QED
  BY <1>1 DEF RouteInv, Settled

\* Such a step that writes no map at all.
LEMMA RouteGoto ==
    ASSUME RouteInv, Onward, UNCHANGED maps, SlotsWritten', PortsAdded',
           \/ overlooked' = overlooked
           \/ phase \in Steps /\ (Applied(conf) => Applied(conf)')
    PROVE  RouteInv'
<1>1. UNCHANGED <<gens, file, attached, baseline, vip_map>>
  BY SamePlan, SameMaps DEF Onward
<1>2. Kept'
  BY <1>1, SameMaps, KeysOnward DEF RouteInv, Kept
<1>3. Settled'
  <2> SUFFICES ASSUME Serving, gens = {file} PROVE Applied(file)' /\ baseline' = vip_map'
    BY <1>1, KeysOnward DEF Settled
  <2>1. conf = file /\ conf' = file' /\ Applied(conf) /\ baseline = vip_map
    BY <1>1, Reapplying DEF Onward
  <2>2. Applied(conf)'
    BY <1>1, <2>1, SameMaps DEF Onward
  <2> QED
    BY <1>1, <2>1, <2>2
<1> QED
  BY <1>2, <1>3, SameMaps, KeysOnward DEF RouteInv

(***************************************************************************)
(* cmd_attach(): entering and leaving reconcile_apply().                    *)
(***************************************************************************)

\* reconcile_apply() begins: the plan is made from the live vip_map.
LEMMA RouteBegin ==
    ASSUME RouteInv, NEW c \in Confs, NEW m \in {"startup", "reload"}, Begin(c, m),
           UNCHANGED <<maps, attached, faults, overlooked>>, phase \notin Steps,
           file' \in Confs, attached' <=> m = "reload", attached => phase = "run" /\ file' = file
    PROVE  RouteInv'
<1> USE DEF RouteInv
<1>1. /\ AllocStart(EntryKeys(c), vip_map) /\ phase' = "plan" /\ mode' = m /\ conf' = c /\ index' = 1
      /\ gens' = gens \cup {c} /\ entries' = EntryKeys(c) /\ baseline' = vip_map
  BY DEF Begin, AllocStart
<1>2. /\ EntryKeys(c) \in EntryLists /\ vip_map \in [DOMAIN vip_map -> Num]
      /\ DOMAIN vip_map \subseteq Key
  BY ConfFacts DEF MapTypes
<1>3. PlanInv'
  BY <1>1, <1>2, PlanInvStart
<1>4. ChoiceInv'
  BY <1>1, <1>2, ChoiceInvStart
<1>5. UNCHANGED <<vip_map, fwd_table, backends, acl_trie, config, tx_ports>>
  BY SameMaps
<1>6. phase' \in Steps /\ phase' \notin FromVips \cup {"attach", "run", "down", "backends", "vips", "acl"}
  BY <1>1 DEF Steps, FromVips
<1>7. Control'
  BY <1>1, <1>6 DEF Control, Working
<1>8. PlanKept'
  BY <1>1, <1>3, <1>4, <1>5 DEF PlanKept
<1>9. \A e : ~Done(e)'
  BY <1>1 DEF Done, Upto, AfterVips, FromVips
<1>10. KeysLead'
  BY <1>1, <1>5, <1>9 DEF KeysLead, KeyLeads
<1>11. TablesDone' /\ StaleGone' /\ SlotsWritten' /\ PortsAdded'
  BY <1>1, <1>6 DEF TablesDone, StaleGone, SlotsWritten, PortsAdded
<1>12. Kept'
  BY <1>1, <1>6, SameMaps DEF Kept, Serving
<1>13. Settled'
  <2> SUFFICES ASSUME Serving', gens' = {file'} PROVE Applied(file)' /\ baseline' = vip_map'
    BY <1>1, <1>5 DEF Settled
  <2>1. attached /\ file' = file
    BY <1>6 DEF Serving
  <2>2. gens = {file}
    BY <1>1, <2>1 DEF Control
  <2>3. Applied(file)
    BY <2>1, <2>2 DEF Settled, Serving
  <2> QED
    BY <1>1, <1>5, <2>1, <2>3, SameMaps
<1> QED
  BY <1>1, <1>7, <1>8, <1>10, <1>11, <1>12, <1>13, SameMaps

\* load_config() and reconcile_startup(), handle_reload().
LEMMA RouteEnter ==
    ASSUME RouteInv, NEW c \in Confs, Startup(c) \/ Reload(c)
    PROVE  RouteInv'
<1>1. CASE Startup(c)
  <2>1. phase = "down" /\ Begin(c, "startup") /\ file' = c /\ UNCHANGED <<maps, attached, faults, overlooked>>
    BY <1>1 DEF Startup
  <2>2. ~attached /\ phase \notin Steps
    BY <2>1 DEF RouteInv, Control, Steps
  <2> QED
    BY <2>1, <2>2, RouteBegin
<1>2. CASE Reload(c)
  <2>1. phase = "run" /\ Begin(c, "reload") /\ UNCHANGED <<maps, file, attached, faults, overlooked>>
    BY <1>2 DEF Reload
  <2>2. attached /\ phase \notin Steps /\ file \in Confs
    BY <2>1 DEF RouteInv, Control, Steps
  <2> QED
    BY <2>1, <2>2, RouteBegin
<1> QED
  BY <1>1, <1>2

\* reconcile_apply() returns false: the maps stay as they are.
LEMMA RouteFail ==
    ASSUME RouteInv, phase \in Steps, NEW why, Fail(why), faults' \in 0 .. MaxFaults
    PROVE  RouteInv'
<1>1. /\ AllocInit' /\ mode' = "none" /\ conf' = NoConf /\ index' = 1 /\ UNCHANGED <<maps, attached, gens, overlooked>>
      /\ phase' = IF mode = "startup" THEN "down" ELSE "run"
      /\ file' = IF mode = "startup" THEN NoConf ELSE file
  BY DEF Fail, Forget, AllocInit
<1>2. Control /\ (attached <=> mode # "startup") /\ (mode # "startup" => file \in Confs)
  BY DEF RouteInv, Control, Steps
<1>3. Control'
  BY <1>1, <1>2 DEF Control, Steps, Working
<1>4. Serving' => Serving /\ file' = file
  BY <1>1, <1>2 DEF Serving
<1>5. phase' \notin Steps
  BY <1>1 DEF Steps
<1> QED
  BY <1>1, <1>3, <1>4, <1>5, RouteOutside

\* The link comes up, goes down, or the process dies.
LEMMA RouteProcess ==
    ASSUME RouteInv, Attach \/ Stop \/ Kill
    PROVE  RouteInv'
<1>1. CASE Attach
  <2>1. /\ phase = "attach" /\ phase' = "run" /\ attached' = TRUE
        /\ UNCHANGED <<alloc_vars, maps, mode, conf, file, index, faults, gens, overlooked>>
    BY <1>1 DEF Attach
  <2>2. AllocInit /\ AllocInit' /\ index = 1 /\ Serving /\ phase' \notin Steps
    BY <2>1 DEF RouteInv, Control, PlanKept, Steps, Serving, AllocInit, alloc_vars
  <2>3. Control'
    BY <2>1, <2>2 DEF RouteInv, Control, Steps, Working
  <2> QED
    BY <2>1, <2>2, <2>3, RouteOutside
<1>2. CASE Stop
  <2>1. /\ phase = "run" /\ phase' = "down" /\ attached' = FALSE /\ file' = NoConf
        /\ UNCHANGED <<alloc_vars, maps, mode, conf, index, faults, gens, overlooked>>
    BY <1>2 DEF Stop
  <2>2. AllocInit /\ AllocInit' /\ index = 1 /\ ~Serving' /\ phase' \notin Steps
    BY <2>1 DEF RouteInv, Control, PlanKept, Steps, Serving, AllocInit, alloc_vars
  <2>3. Control'
    BY <2>1, <2>2 DEF RouteInv, Control, Steps, Working
  <2> QED
    BY <2>1, <2>2, <2>3, RouteOutside
<1>3. CASE Kill
  <2>1. /\ AllocInit' /\ mode' = "none" /\ conf' = NoConf /\ index' = 1 /\ UNCHANGED <<maps, gens, overlooked>>
        /\ phase' = "down" /\ attached' = FALSE /\ file' = NoConf
        /\ faults < MaxFaults /\ faults' = faults + 1
    BY <1>3 DEF Kill, Forget, AllocInit
  <2>2. ~Serving' /\ phase' \notin Steps
    BY <2>1 DEF Steps, Serving
  <2>3. faults' \in 0 .. MaxFaults
    BY <2>1, ReconcileAssumption DEF RouteInv, Control
  <2>4. Control'
    BY <2>1, <2>2, <2>3 DEF RouteInv, Control, Steps, Working
  <2> QED
    BY <2>1, <2>2, <2>4, RouteOutside
<1> QED
  BY <1>1, <1>2, <1>3

\* --unpin: fresh maps for the next start.
LEMMA RouteUnpin ==
    ASSUME RouteInv, Unpin
    PROVE  RouteInv'
<1>1. /\ phase = "down" /\ phase' = "down" /\ gens' = {} /\ vip_map' = <<>>
      /\ fwd_table' = EmptyTable /\ backends' = EmptyBackends /\ tx_ports' = {}
      /\ UNCHANGED <<alloc_vars, mode, conf, file, index, attached, faults>>
  BY DEF Unpin
<1>2. DOMAIN vip_map' = {} /\ phase' \notin Steps /\ phase' \notin FromVips \cup {"backends"}
  BY <1>1 DEF Steps, FromVips
<1>3. Control'
  BY <1>1, <1>2 DEF RouteInv, Control, AllocInit, alloc_vars, Steps
<1>4. PlanKept'
  BY <1>1, <1>2, SamePlan DEF RouteInv, PlanKept, FromVips, Steps
<1>5. MapTypes'
  BY <1>1, <1>2 DEF MapTypes, EmptyTable, EmptyBackends
<1>6. KeysLead' /\ TablesDone' /\ StaleGone' /\ SlotsWritten' /\ PortsAdded'
  BY <1>2 DEF KeysLead, TablesDone, StaleGone, SlotsWritten, PortsAdded, FromVips
<1>7. NoMisroute' /\ RowsPopulated'
  BY <1>2 DEF NoMisroute, RowsPopulated
<1>8. IsFiniteSet(DOMAIN vip_map)' /\ VipMapFits'
  BY <1>2, FS_EmptySet, VipAllocAssumption DEF VipMapFits
<1>9. ~Serving'
  BY <1>1 DEF RouteInv, Control, Serving, Steps
<1> QED
  BY <1>3, <1>4, <1>5, <1>6, <1>7, <1>8, <1>9 DEF RouteInv, Kept, Settled

(***************************************************************************)
(* reconcile_apply(): steps that write no map.                              *)
(***************************************************************************)

\* The planner works on its own arrays.
LEMMA RoutePlanStep ==
    ASSUME RouteInv, PlanStep
    PROVE  RouteInv'
<1> USE DEF RouteInv
<1>1. /\ phase = "plan" /\ AllocNext
      /\ UNCHANGED <<maps, phase, mode, conf, file, index, attached, faults, gens, overlooked>>
  BY DEF PlanStep
<1>2. UNCHANGED <<entries, baseline>>
  BY <1>1 DEF AllocNext, ClaimMatch, ClaimFree, OrderReady, OrderStuck, WalkBlocker, Relocate, OrderDone
<1>3. PlanInv' /\ ChoiceInv'
  BY <1>1, PlanInvNext, ChoiceInvNext DEF PlanKept
<1>4. phase \in Steps /\ phase' \in Steps /\ phase' \notin FromVips \cup {"backends", "narrow", "vips", "acl"}
  BY <1>1 DEF Steps, FromVips
<1>5. Control'
  BY <1>1, <1>2, <1>4 DEF Control
<1>6. PlanKept'
  BY <1>1, <1>2, <1>3, SameMaps DEF PlanKept
<1>7. \A e : ~Done(e)' /\ ~Done(e) /\ ~Current(e)
  BY <1>1 DEF Done, Upto, AfterVips, FromVips, Current
<1>8. KeysLead'
  <2> SUFFICES ASSUME NEW e \in Entry, NEW k \in KeysOf(entries, e) PROVE KeyLeads(e, k)'
    BY <1>2 DEF KeysLead, Entry
  <2>1. KeyLeads(e, k)
    BY <1>4 DEF KeysLead
  <2> QED
    BY <1>2, <1>7, <2>1, SameMaps, <1>1 DEF KeyLeads
<1>9. TablesDone' /\ StaleGone' /\ SlotsWritten' /\ PortsAdded'
  BY <1>1, <1>4 DEF TablesDone, StaleGone, SlotsWritten, PortsAdded, FromVips
<1>10. Kept' /\ Settled'
  BY <1>1, <1>2, <1>4, SameMaps DEF Kept, Settled, Serving
<1> QED
  BY <1>1, <1>5, <1>6, <1>8, <1>9, <1>10, SameMaps

\* The plan of vip_alloc() becomes the order of the writes, or the reload fails.
LEMMA RoutePlanEnd ==
    ASSUME RouteInv, PlanEnd
    PROVE  RouteInv'
<1>1. phase = "plan" /\ phase \in Steps /\ faults \in 0 .. MaxFaults
  BY DEF PlanEnd, RouteInv, Control, Steps
<1>2. CASE alloc_pc # "done"
  BY <1>1, <1>2, RouteFail DEF PlanEnd
<1>3. CASE alloc_pc = "done"
  <2>1. /\ phase' = "stale_keys" /\ index' = 1 /\ UNCHANGED maps
        /\ UNCHANGED <<alloc_vars, mode, conf, file, attached, faults, gens, overlooked>>
    BY <1>3 DEF PlanEnd, Goto
  <2>2. Upto' = Upto /\ \A e : ~Current(e)
    BY <1>1, <2>1 DEF Upto, AfterVips, FromVips, Current
  <2>3. Onward
    BY <1>1, <1>3, <2>1, <2>2, SameMaps DEF Onward, Steps
  <2>4. SlotsWritten' /\ PortsAdded'
    BY <2>1 DEF SlotsWritten, PortsAdded, FromVips
  <2> QED
    BY <2>1, <2>3, <2>4, RouteGoto
<1> QED
  BY <1>2, <1>3

\* The end of a loop: on to the next phase.
LEMMA RoutePhase ==
    ASSUME RouteInv,
           \/ StaleKeysDone \/ TxPortsAdded \/ BackendsWritten
           \/ VipsWritten \/ BlocksReleased \/ RetireDone
    PROVE  RouteInv'
<1>0. faults \in 0 .. MaxFaults /\ (phase \in Steps \ {"plan"} => alloc_pc = "done")
  BY DEF RouteInv, Control, PlanKept
<1>1. ASSUME NEW p \in Steps \ {"plan"}, NEW q \in Steps \ {"plan"}, phase = p, phase' = q,
             index' = 1 \/ q = "acl", UNCHANGED <<alloc_vars, maps, mode, conf, file, attached, faults, gens, overlooked>>,
             Upto' = Upto, \A e : ~Current(e), p = "stale_keys" => StaleKeys = {},
             SlotsWritten', PortsAdded'
      PROVE  RouteInv'
  <2>1. Len(order) \in Nat
    BY <1>0, <1>1, PlanComplete DEF RouteInv, PlanKept
  <2>2. Onward
    BY <1>0, <1>1, <2>1, SameMaps DEF Onward
  <2> QED
    BY <1>1, <2>2, RouteGoto
<1> USE DEF RouteInv, Goto, Upto, AfterVips, FromVips, Current, Steps, SlotsWritten, PortsAdded
<1>2. CASE StaleKeysDone
  BY <1>1, <1>2 DEF StaleKeysDone
<1>4. CASE TxPortsAdded
  BY <1>1, <1>4, SameMaps DEF TxPortsAdded
<1>5. CASE BackendsWritten
  BY <1>1, <1>5, SameMaps DEF BackendsWritten
<1>6. CASE VipsWritten
  <2>1. /\ phase = "vips" /\ index \notin DOMAIN order /\ phase' = "release" /\ index' = 1
        /\ UNCHANGED <<alloc_vars, maps, mode, conf, file, attached, faults, gens, overlooked>> /\ UNCHANGED order
    BY <1>6 DEF VipsWritten, alloc_vars
  <2>2. index \in 1 .. (Len(order) + 1) /\ DOMAIN order = 1 .. Len(order) /\ Len(order) \in Nat
    BY <1>0, <2>1, PlanComplete DEF PlanKept
  <2>3. index - 1 = Len(order)
    BY <2>1, <2>2
  <2> QED
    BY <1>1, <2>1, <2>3, SameMaps
<1>7. CASE BlocksReleased
  BY <1>1, <1>7, SameMaps DEF BlocksReleased, alloc_vars
<1>8. CASE RetireDone
  BY <1>1, <1>8, SameMaps DEF RetireDone, alloc_vars
<1> QED
  BY <1>2, <1>4, <1>5, <1>6, <1>7, <1>8

\* A list is done, as far as it was read.
LEMMA RouteListDone ==
    ASSUME RouteInv, AclInv, AclListDone \/ AclReadCut
    PROVE  RouteInv'
<1>0. faults \in 0 .. MaxFaults /\ MaxFaults \in Nat /\ (phase \in Steps \ {"plan"} => alloc_pc = "done")
  BY ReconcileAssumption DEF RouteInv, Control, PlanKept
<1>1. /\ phase = "acl" /\ phase' \in {"acl", "tx_add"} /\ (index' = 1 \/ phase' = "acl")
      /\ UNCHANGED <<alloc_vars, maps, mode, conf, file, attached, gens>>
      /\ \/ acl_trie[ThisList] = conf.acl[ThisList] /\ overlooked' = overlooked \ {ThisList}
         \/ overlooked' = overlooked \cup {ThisList}
  BY DEF AclListDone, AclReadCut, NextList
<1>2. faults' \in 0 .. MaxFaults
  BY <1>0 DEF AclListDone, AclReadCut
<1>3. Upto' = Upto /\ \A e : ~Current(e)
  BY <1>1 DEF Upto, AfterVips, FromVips, Current
<1>4. Onward
  BY <1>0, <1>1, <1>2, <1>3, SameMaps DEF Onward, Steps
<1>5. SlotsWritten' /\ PortsAdded'
  BY <1>1 DEF SlotsWritten, PortsAdded, FromVips
<1>6. ThisList \in Lists /\ ThisList # "tx_ports"
  BY <1>1, ListNames DEF AclInv, ListsDone, ThisList
<1>7. ASSUME Applied(conf) PROVE Applied(conf)'
  <2>1. UNCHANGED <<vip_map, fwd_table, backends, acl_trie, config, tx_ports, conf>>
    BY <1>1, SameMaps
  <2>2. AclApplied(conf)'
    BY <1>1, <1>7, <2>1 DEF Applied, AclApplied
  <2>3. PortsApplied(conf)'
    BY <1>1, <1>6, <1>7, <2>1 DEF Applied, PortsApplied
  <2> QED
    BY <1>7, <2>1, <2>2, <2>3 DEF Applied, acl_lists_bits, any_backend_encapsulates, ConfKeys, Table
<1>8. phase \in Steps
  BY <1>1 DEF Steps
<1> QED
  BY <1>1, <1>4, <1>5, <1>7, <1>8, RouteGoto

\* The ports are done, as far as they were read.
LEMMA RoutePortsLeft ==
    ASSUME RouteInv, TxPortsRemoved \/ TxReadCut
    PROVE  RouteInv'
<1>0. faults \in 0 .. MaxFaults /\ MaxFaults \in Nat /\ (phase \in Steps \ {"plan"} => alloc_pc = "done")
  BY ReconcileAssumption DEF RouteInv, Control, PlanKept
<1>1. /\ phase = "tx_del" /\ phase' = "narrow" /\ index' = 1
      /\ UNCHANGED <<alloc_vars, maps, mode, conf, file, attached, gens>> /\ UNCHANGED order
      /\ \/ tx_ports \subseteq conf.tx_ports /\ overlooked' = overlooked \ {"tx_ports"}
         \/ overlooked' = overlooked \cup {"tx_ports"}
  BY DEF TxPortsRemoved, TxReadCut, TxPortsLeft, alloc_vars
<1>2. faults' \in 0 .. MaxFaults
  BY <1>0 DEF TxPortsRemoved, TxReadCut
<1>3. Upto' = Upto /\ \A e : ~Current(e)
  BY <1>1 DEF Upto, AfterVips, FromVips, Current
<1>4. Onward
  BY <1>0, <1>1, <1>2, <1>3, SameMaps DEF Onward, Steps
<1>5. UNCHANGED <<vip_map, fwd_table, backends, acl_trie, config, tx_ports, conf>>
  BY <1>1, SameMaps
<1>6. conf.tx_ports \subseteq tx_ports
  BY <1>1 DEF RouteInv, PortsAdded, FromVips
<1>7. SlotsWritten' /\ PortsAdded'
  BY <1>1, <1>5, <1>6 DEF RouteInv, SlotsWritten, PortsAdded, FromVips
<1>8. ASSUME Applied(conf) PROVE Applied(conf)'
  <2>1. AclApplied(conf)'
    BY <1>1, <1>5, <1>8, ListNames DEF Applied, AclApplied
  <2>2. PortsApplied(conf)'
    BY <1>1, <1>5, <1>6 DEF PortsApplied
  <2> QED
    BY <1>5, <1>8, <2>1, <2>2 DEF Applied, acl_lists_bits, any_backend_encapsulates, ConfKeys, Table
<1>9. phase \in Steps
  BY <1>1 DEF Steps
<1> QED
  BY <1>1, <1>4, <1>7, <1>8, <1>9, RouteGoto

(***************************************************************************)
(* Writes to the other maps: lists, ports, backends, config.                *)
(***************************************************************************)

\* A step of a loop that leaves vip_map and fwd_table alone.
LEMMA StayOnward ==
    ASSUME RouteInv, Stay, UNCHANGED <<vip_map, fwd_table>>, phase \in Steps \ {"plan"}
    PROVE  /\ Onward
           /\ UNCHANGED <<phase, conf, gens, overlooked, file, attached, index, baseline, vip_map, fwd_table>>
           /\ conf \in Confs /\ conf \in gens
<1>1. UNCHANGED <<alloc_vars, phase, mode, conf, file, index, attached, faults, gens, overlooked, order, baseline>>
  BY DEF Stay, alloc_vars
<1>2. /\ faults \in 0 .. MaxFaults /\ alloc_pc = "done"
      /\ phase = "vips" => index \in 1 .. (Len(order) + 1)
      /\ phase \notin {"vips", "acl"} => index = 1
  BY DEF RouteInv, Control, PlanKept
<1>3. Upto' = Upto /\ \A e : Current(e) => Current(e)'
  BY <1>1 DEF Upto, Current
<1>4. Onward
  BY <1>1, <1>2, <1>3 DEF Onward
<1> QED
  BY <1>1, <1>4, ConfEntries DEF RouteInv

\* The rules of one list change towards the configuration's.
LEMMA RouteAclRule ==
    ASSUME RouteInv, AclInv, AclInsert \/ AclDelete
    PROVE  RouteInv'
<1>1. /\ phase = "acl" /\ Stay /\ UNCHANGED <<vip_map, fwd_table, backends, config, tx_ports>>
      /\ phase \in Steps \ {"plan"}
  BY DEF AclInsert, AclDelete, Steps
<1>2. /\ Onward /\ UNCHANGED <<phase, conf, gens, overlooked, file, attached, index, baseline>>
      /\ conf \in Confs /\ conf \in gens
  BY <1>1, StayOnward
<1>3. acl_trie \in [Lists -> SUBSET Rule] /\ ThisList \in Lists
  BY <1>1, ListNames DEF AclInv, AclTypes, ListsDone, ThisList
<1>4. PICK r, new :
         /\ acl_trie' = [acl_trie EXCEPT ![ThisList] = new]
         /\ \/ r \in conf.acl[ThisList] \ acl_trie[ThisList] /\ new = acl_trie[ThisList] \cup {r}
            \/ r \in acl_trie[ThisList] \ conf.acl[ThisList] /\ new = acl_trie[ThisList] \ {r}
  <2>1. CASE AclInsert
    BY <2>1 DEF AclInsert
  <2>2. CASE AclDelete
    BY <2>2 DEF AclDelete
  <2> QED
    BY <2>1, <2>2
<1>5. \A l \in Lists : acl_trie'[l] = IF l = ThisList THEN new ELSE acl_trie[l]
  BY <1>3, <1>4
<1>6. Kept'
  <2> SUFFICES ASSUME Serving PROVE KeptNow'
    BY <1>2, KeysOnward DEF Kept
  <2>1. KeptNow
    BY DEF RouteInv, Kept
  <2>2. ASSUME NEW l \in Lists, NEW s \in Rule, \A c \in gens : s \in c.acl[l]
        PROVE  s \in acl_trie'[l] /\ l \in config.acl_lists
    <3>1. s \in acl_trie[l] /\ l \in config.acl_lists /\ s \in conf.acl[l]
      BY <1>2, <2>1, <2>2 DEF KeptNow
    <3> QED
      BY <1>4, <1>5, <3>1
  <2> QED
    BY <1>1, <1>2, <2>1, <2>2 DEF KeptNow
<1>7. Settled'
  <2> SUFFICES ASSUME Serving, gens = {file} PROVE Applied(file)' /\ baseline' = vip_map'
    BY <1>2, KeysOnward DEF Settled
  <2>1. conf = file /\ Applied(conf) /\ baseline = vip_map
    BY <1>1, Reapplying
  <2>2. AclApplied(conf)'
    BY <1>2, <1>4, <1>5, <2>1 DEF Applied, AclApplied
  <2>3. PortsApplied(conf)'
    BY <1>1, <1>2, <2>1 DEF Applied, PortsApplied
  <2>4. Applied(conf)'
    BY <1>1, <1>2, <2>1, <2>2, <2>3 DEF Applied, acl_lists_bits, any_backend_encapsulates, ConfKeys, Table
  <2> QED
    BY <1>1, <1>2, <2>1, <2>4
<1>8. MapTypes' /\ RowsPopulated'
  BY <1>1 DEF RouteInv, MapTypes, RowsPopulated
<1>9. SlotsWritten' /\ PortsAdded'
  BY <1>1, <1>2 DEF SlotsWritten, PortsAdded, FromVips
<1> QED
  BY <1>2, <1>6, <1>7, <1>8, <1>9, KeysOnward DEF RouteInv

\* Ports are added before the backends are written and removed at the end.
LEMMA RouteTxPort ==
    ASSUME RouteInv, AddTxPort \/ RemoveTxPort
    PROVE  RouteInv'
<1>1. /\ phase \in {"tx_add", "tx_del"} /\ Stay /\ UNCHANGED <<vip_map, fwd_table, backends, acl_trie, config>>
      /\ phase \in Steps \ {"plan"}
  BY DEF AddTxPort, RemoveTxPort, Steps
<1>2. /\ Onward /\ UNCHANGED <<phase, conf, gens, overlooked, file, attached, index, baseline>>
      /\ conf \in Confs /\ conf \in gens
  BY <1>1, StayOnward
<1>3. PICK p : \/ p \in conf.tx_ports \ tx_ports /\ tx_ports' = tx_ports \cup {p} /\ phase = "tx_add"
               \/ p \in tx_ports \ conf.tx_ports /\ tx_ports' = tx_ports \ {p} /\ phase = "tx_del"
  BY DEF AddTxPort, RemoveTxPort
<1>4. Kept'
  <2> SUFFICES ASSUME Serving PROVE KeptNow'
    BY <1>2, KeysOnward DEF Kept
  <2>1. KeptNow
    BY DEF RouteInv, Kept
  <2>2. ASSUME NEW q \in Port, \A c \in gens : q \in c.tx_ports PROVE q \in tx_ports'
    BY <1>2, <1>3, <2>1, <2>2 DEF KeptNow
  <2> QED
    BY <1>1, <1>2, <2>1, <2>2 DEF KeptNow
<1>5. Settled'
  <2> SUFFICES ASSUME Serving, gens = {file} PROVE Applied(file)' /\ baseline' = vip_map'
    BY <1>2, KeysOnward DEF Settled
  <2>1. conf = file /\ Applied(conf) /\ baseline = vip_map
    BY <1>1, Reapplying
  <2>2. PortsApplied(conf)'
    BY <1>2, <1>3, <2>1 DEF Applied, PortsApplied
  <2>3. AclApplied(conf)'
    BY <1>1, <1>2, <2>1 DEF Applied, AclApplied
  <2>4. Applied(conf)'
    BY <1>1, <1>2, <2>1, <2>2, <2>3 DEF Applied, acl_lists_bits, any_backend_encapsulates, ConfKeys, Table
  <2> QED
    BY <1>1, <1>2, <2>1, <2>4
<1>6. conf.tx_ports \subseteq Port
  BY <1>2, ConfFacts
<1>7. MapTypes' /\ RowsPopulated'
  BY <1>1, <1>3, <1>6 DEF RouteInv, MapTypes, RowsPopulated
<1>8. SlotsWritten' /\ PortsAdded'
  BY <1>1, <1>2, <1>3 DEF RouteInv, SlotsWritten, PortsAdded, FromVips
<1> QED
  BY <1>2, <1>4, <1>5, <1>7, <1>8, KeysOnward DEF RouteInv

\* write_config() in the terms of the invariant.
LEMMA WriteConfigEffect ==
    ASSUME RouteInv, NEW bits, NEW errors \in {0, 1}, write_config(bits, errors)
    PROVE  /\ UNCHANGED <<vip_map, fwd_table, backends, acl_trie, tx_ports>> /\ faults' \in 0 .. MaxFaults
           /\ \E mf \in BOOLEAN :
                 /\ any_backend_encapsulates(conf) /\ conf.max_frame # "zero" => mf
                 /\ config' = [acl_lists |-> bits, max_frame |-> mf]
<1>1. PICK works \in BOOLEAN :
         /\ ~works => conf.max_frame = "derived" /\ ~any_backend_encapsulates(conf)
         /\ faults + (errors + (IF works THEN 0 ELSE 1)) <= MaxFaults
         /\ faults' = faults + (errors + (IF works THEN 0 ELSE 1))
         /\ config' = [acl_lists |-> bits, max_frame |-> works /\ conf.max_frame # "zero"]
  BY DEF write_config
<1>2. faults \in 0 .. MaxFaults /\ MaxFaults \in Nat
  BY ReconcileAssumption DEF RouteInv, Control
<1>3. faults' \in 0 .. MaxFaults
  BY <1>1, <1>2
<1>4. UNCHANGED <<vip_map, fwd_table, backends, acl_trie, tx_ports>>
  BY DEF write_config
<1> DEFINE mf == works /\ conf.max_frame # "zero"
<1>5. mf \in BOOLEAN /\ config' = [acl_lists |-> bits, max_frame |-> mf]
  BY <1>1
<1>6. any_backend_encapsulates(conf) /\ conf.max_frame # "zero" => mf
  BY <1>1, Zenon
<1> HIDE DEF mf
<1> QED
  BY <1>3, <1>4, <1>5, <1>6

\* The first write_config(): bits are added, those of the configuration at least.
LEMMA RouteUnion ==
    ASSUME RouteInv, WriteConfigUnion \/ WriteConfigBlind
    PROVE  RouteInv'
<1> DEFINE union == config.acl_lists \cup acl_lists_bits(conf)
           blind == acl_lists_bits(conf)
           lost == config.acl_lists \ acl_lists_bits(conf)
<1>0. \/ write_config(union, 0) /\ overlooked' = overlooked
      \/ write_config(blind, 1) /\ overlooked' = overlooked \cup lost
  BY DEF WriteConfigUnion, WriteConfigBlind
<1>a. PICK bits : \E errors \in {0, 1} :
         /\ write_config(bits, errors)
         /\ \/ bits = union /\ overlooked' = overlooked
            \/ bits = blind /\ overlooked' = overlooked \cup lost
  <2> HIDE DEF union, blind, lost
  <2> QED
    BY <1>0
<1>1. /\ phase = "config" /\ phase \in Steps /\ phase' = "acl" /\ index' = 1
      /\ UNCHANGED <<alloc_vars, mode, conf, file, attached, gens, order, baseline>>
      /\ \/ bits = config.acl_lists \cup acl_lists_bits(conf) /\ overlooked' = overlooked
         \/ /\ bits = acl_lists_bits(conf)
            /\ overlooked' = overlooked \cup (config.acl_lists \ acl_lists_bits(conf))
  BY <1>a DEF WriteConfigUnion, WriteConfigBlind, Steps, alloc_vars
<1> HIDE DEF union, blind, lost
<1>2. PICK mf \in BOOLEAN :
         /\ any_backend_encapsulates(conf) /\ conf.max_frame # "zero" => mf
         /\ config' = [acl_lists |-> bits, max_frame |-> mf]
  BY <1>a, WriteConfigEffect
<1>3. UNCHANGED <<vip_map, fwd_table, backends, acl_trie, tx_ports>> /\ faults' \in 0 .. MaxFaults
  BY <1>a, WriteConfigEffect
<1>4. config'.acl_lists = bits /\ config'.max_frame = mf
  BY <1>2
<1>5. Upto' = Upto /\ \A e : ~Current(e)
  BY <1>1 DEF Upto, AfterVips, FromVips, Current
<1>6. alloc_pc = "done" /\ conf \in Confs
  BY <1>1, ConfEntries DEF RouteInv, PlanKept
<1>7. Onward
  BY <1>1, <1>3, <1>5, <1>6 DEF Onward, Steps
<1>8. Kept'
  <2> SUFFICES ASSUME Serving PROVE KeptNow'
    BY <1>7, KeysOnward DEF Kept
  <2>1. KeptNow /\ conf \in gens
    BY <1>1 DEF RouteInv, Kept, Control
  <2>2. ASSUME NEW l \in Lists, NEW t \in Rule, \A c \in gens : t \in c.acl[l]
        PROVE  t \in acl_trie[l] /\ l \in bits
    BY <1>1, <2>1, <2>2 DEF KeptNow, acl_lists_bits
  <2> QED
    BY <1>1, <1>3, <1>4, <2>1, <2>2 DEF KeptNow
<1>9. Settled'
  <2> SUFFICES ASSUME Serving, gens = {file} PROVE Applied(file)' /\ baseline' = vip_map'
    BY <1>1, <1>7, KeysOnward DEF Settled
  <2>1. conf = file /\ Applied(conf) /\ baseline = vip_map
    BY <1>1, Reapplying
  <2>2. bits = acl_lists_bits(conf) /\ overlooked' = overlooked
    <3>1. PICK X : X = acl_lists_bits(conf)
      OBVIOUS
    <3>2. config.acl_lists = X
      BY <2>1, <3>1 DEF Applied
    <3>3. \/ bits = X \cup X /\ overlooked' = overlooked
          \/ bits = X /\ overlooked' = overlooked \cup (X \ X)
      BY <1>1, <3>1, <3>2
    <3>4. X \cup X = X /\ overlooked \cup (X \ X) = overlooked
      BY Zenon
    <3> QED
      BY <3>1, <3>3, <3>4
  <2>3. AclApplied(conf)' /\ PortsApplied(conf)'
    BY <1>1, <1>3, <2>1, <2>2 DEF Applied, AclApplied, PortsApplied
  <2>4. Applied(conf)'
    BY <1>1, <1>2, <1>3, <1>4, <2>1, <2>2, <2>3
       DEF Applied, acl_lists_bits, any_backend_encapsulates, ConfKeys, Table
  <2> QED
    BY <1>1, <1>3, <2>1, <2>4
<1>10. MapTypes' /\ RowsPopulated'
  BY <1>3 DEF RouteInv, MapTypes, RowsPopulated
<1>11. SlotsWritten' /\ PortsAdded'
  BY <1>1 DEF SlotsWritten, PortsAdded, FromVips
<1> QED
  BY <1>7, <1>8, <1>9, <1>10, <1>11, KeysOnward DEF RouteInv

\* write_backends(): slots are populated, never emptied.
LEMMA RouteBackend ==
    ASSUME RouteInv, WriteBackend
    PROVE  RouteInv'
<1>1. /\ phase = "backends" /\ Stay /\ UNCHANGED <<vip_map, fwd_table, acl_trie, config, tx_ports>>
      /\ phase \in Steps \ {"plan"}
  BY DEF WriteBackend, Steps
<1>2. /\ Onward /\ UNCHANGED <<phase, conf, gens, overlooked, file, attached, index, baseline>>
      /\ conf \in Confs /\ conf \in gens
  BY <1>1, StayOnward
<1>3. PICK id \in DOMAIN conf.backends :
         /\ backends[id] # conf.backends[id].slot
         /\ backends' = [backends EXCEPT ![id] = conf.backends[id].slot]
  BY DEF WriteBackend
<1>4. id \in Id /\ conf.backends[id].slot # Zeroed
  BY <1>2, ConfFacts
<1>5. /\ DOMAIN backends = Id /\ DOMAIN backends' = Id
      /\ \A j \in Id : backends'[j] = IF j = id THEN conf.backends[id].slot ELSE backends[j]
  BY <1>3, <1>4 DEF RouteInv, MapTypes
<1>6. MapTypes'
  BY <1>1, <1>2, <1>5 DEF RouteInv, MapTypes
<1>7. RowsPopulated'
  <2> SUFFICES ASSUME NEW k \in DOMAIN vip_map, NEW r \in Row, fwd_table[vip_map[k]][r] # NO_BACKEND
               PROVE  backends'[fwd_table[vip_map[k]][r]] # Zeroed
    BY <1>1 DEF RowsPopulated
  <2>1. fwd_table[vip_map[k]][r] \in Id
    BY DEF RouteInv, MapTypes
  <2>2. backends[fwd_table[vip_map[k]][r]] # Zeroed
    BY DEF RouteInv, RowsPopulated
  <2> QED
    BY <1>4, <1>5, <2>1, <2>2
<1>8. Kept'
  BY <1>1, <1>2, KeysOnward DEF RouteInv, Kept, KeptNow
<1>9. Settled'
  <2> SUFFICES ASSUME Serving, gens = {file} PROVE FALSE
    BY <1>2, KeysOnward DEF Settled
  <2> QED
    BY <1>1, <1>3, Reapplying DEF Applied
<1>10. SlotsWritten' /\ PortsAdded'
  BY <1>1, <1>2 DEF RouteInv, SlotsWritten, PortsAdded, FromVips
<1> QED
  BY <1>2, <1>6, <1>7, <1>8, <1>9, <1>10, KeysOnward DEF RouteInv

(***************************************************************************)
(* Once write_vip() has been called for every entry.                        *)
(***************************************************************************)

\* Once the loop over the VIPs has ended, keys and tables are as the file says.
LEMMA AllWritten ==
    ASSUME RouteInv, phase \in AfterVips
    PROVE  /\ conf \in Confs /\ conf \in gens /\ DOMAIN vip_map = ConfKeys(conf)
           /\ \A e \in Entry : /\ Done(e) /\ num[e] \in Num /\ e \in DOMAIN conf.vips
                               /\ fwd_table[num[e]] = Table(conf, e)
                               /\ \A k \in Range(conf.vips[e].keys) : vip_map[k] = num[e]
           /\ \A k \in DOMAIN vip_map : \E e \in Entry :
                 /\ k \in KeysOf(entries, e) /\ k \in Range(conf.vips[e].keys)
                 /\ vip_map[k] = num[e] /\ fwd_table[vip_map[k]] = Table(conf, e)
<1> USE DEF RouteInv
<1>1. phase \in Steps \ {"plan", "stale_keys"} /\ phase \in FromVips /\ phase # "vips"
  BY DEF AfterVips, FromVips, Steps
<1>2. PlanInv /\ ChoiceInv /\ alloc_pc = "done"
  BY <1>1 DEF PlanKept
<1>3. /\ conf \in Confs /\ conf \in gens /\ Entry = DOMAIN conf.vips /\ Owned = ConfKeys(conf)
      /\ \A e \in Entry : KeysOf(entries, e) = Range(conf.vips[e].keys)
  BY <1>1, ConfEntries
<1>4. \A e \in Entry : Done(e) /\ num[e] \in Num
  BY <1>1, <1>2, PlanComplete DEF Done, Upto
<1>5. ASSUME NEW e \in Entry
      PROVE  /\ fwd_table[num[e]] = Table(conf, e)
             /\ \A k \in Range(conf.vips[e].keys) : k \in DOMAIN vip_map /\ vip_map[k] = num[e]
  BY <1>1, <1>3, <1>4 DEF TablesDone, KeysLead, KeyLeads
<1>6. DOMAIN vip_map = ConfKeys(conf)
  <2>1. DOMAIN vip_map \subseteq Owned
    BY <1>1 DEF StaleGone
  <2>2. Owned \subseteq DOMAIN vip_map
    BY <1>3, <1>5 DEF Owned
  <2> QED
    BY <1>3, <2>1, <2>2
<1>7. ASSUME NEW k \in DOMAIN vip_map
      PROVE  \E e \in Entry : /\ k \in KeysOf(entries, e) /\ k \in Range(conf.vips[e].keys)
                              /\ vip_map[k] = num[e] /\ fwd_table[vip_map[k]] = Table(conf, e)
  <2>1. PICK e \in Entry : k \in KeysOf(entries, e)
    BY <1>3, <1>6 DEF Owned
  <2> QED
    BY <1>3, <1>5, <2>1
<1> QED
  BY <1>3, <1>4, <1>5, <1>6, <1>7

\* retire_stale_backends(): no row that a key leads to names a retired slot.
LEMMA RouteRetire ==
    ASSUME RouteInv, RetireSlot
    PROVE  RouteInv'
<1>1. /\ phase = "retire" /\ Stay /\ UNCHANGED <<vip_map, fwd_table, acl_trie, config, tx_ports>>
      /\ phase \in Steps \ {"plan"} /\ phase \in AfterVips
  BY DEF RetireSlot, Steps, AfterVips, FromVips
<1>2. /\ Onward /\ UNCHANGED <<phase, conf, gens, overlooked, file, attached, index, baseline>>
      /\ conf \in Confs /\ conf \in gens
  BY <1>1, StayOnward
<1>3. PICK id \in Id \ DOMAIN conf.backends : backends' = [backends EXCEPT ![id] = Zeroed]
  BY DEF RetireSlot, StaleSlots
<1>4. /\ DOMAIN backends = Id /\ DOMAIN backends' = Id
      /\ \A j \in Id : backends'[j] = IF j = id THEN Zeroed ELSE backends[j]
  BY <1>3 DEF RouteInv, MapTypes
<1>5. MapTypes'
  BY <1>1, <1>4 DEF RouteInv, MapTypes
<1>6. RowsPopulated'
  <2> SUFFICES ASSUME NEW k \in DOMAIN vip_map, NEW r \in Row, fwd_table[vip_map[k]][r] # NO_BACKEND
               PROVE  backends'[fwd_table[vip_map[k]][r]] # Zeroed
    BY <1>1 DEF RowsPopulated
  <2>1. PICK e \in Entry : e \in DOMAIN conf.vips /\ fwd_table[vip_map[k]] = Table(conf, e)
    BY <1>1, AllWritten
  <2>2. fwd_table[vip_map[k]][r] \in DOMAIN conf.backends
    BY <1>2, <2>1, TableRows
  <2>3. fwd_table[vip_map[k]][r] \in Id /\ backends[fwd_table[vip_map[k]][r]] # Zeroed
    BY DEF RouteInv, MapTypes, RowsPopulated
  <2> QED
    BY <1>3, <1>4, <2>2, <2>3
<1>7. Kept'
  BY <1>1, <1>2, KeysOnward DEF RouteInv, Kept, KeptNow
<1>8. \A j \in DOMAIN conf.backends : backends'[j] = backends[j]
  BY <1>2, <1>3, <1>4, ConfFacts
<1>9. Settled'
  <2> SUFFICES ASSUME Serving, gens = {file} PROVE Applied(file)' /\ baseline' = vip_map'
    BY <1>2, KeysOnward DEF Settled
  <2>1. conf = file /\ Applied(conf) /\ baseline = vip_map
    BY <1>1, Reapplying
  <2>2. AclApplied(conf)' /\ PortsApplied(conf)'
    BY <1>1, <1>2, <2>1 DEF Applied, AclApplied, PortsApplied
  <2>3. Applied(conf)'
    BY <1>1, <1>2, <1>8, <2>1, <2>2 DEF Applied, acl_lists_bits, any_backend_encapsulates, ConfKeys, Table
  <2> QED
    BY <1>1, <1>2, <2>1, <2>3
<1>10. SlotsWritten' /\ PortsAdded'
  BY <1>1, <1>2, <1>8 DEF RouteInv, SlotsWritten, PortsAdded
<1> QED
  BY <1>2, <1>5, <1>6, <1>7, <1>9, <1>10, KeysOnward DEF RouteInv

(***************************************************************************)
(* Writes to vip_map and fwd_table.                                         *)
(***************************************************************************)

\* What a write within a phase leaves alone.
LEMMA StayFixed ==
    ASSUME RouteInv, Stay, phase \in Steps \ {"plan"}
    PROVE  /\ Control' /\ PlanKept' /\ Serving' = Serving
           /\ UNCHANGED <<phase, mode, conf, file, gens, overlooked, attached, index>>
           /\ UNCHANGED <<entries, baseline, num, order, refs>> /\ Entry' = Entry /\ Owned' = Owned
           /\ \A e : Done(e)' = Done(e) /\ Current(e)' = Current(e)
           /\ PlanInv /\ ChoiceInv /\ alloc_pc = "done"
           /\ conf \in Confs /\ conf \in gens /\ Entry = DOMAIN conf.vips /\ Owned = ConfKeys(conf)
           /\ \A e \in Entry : KeysOf(entries, e) = Range(conf.vips[e].keys)
<1>1. UNCHANGED <<alloc_vars, phase, mode, conf, file, index, attached, faults, gens, overlooked>>
  BY DEF Stay
<1>2. /\ UNCHANGED <<entries, baseline, num, order, refs, alloc_pc>> /\ Entry' = Entry /\ Owned' = Owned
  BY <1>1, SamePlan
<1>3. Control'
  BY <1>1, SamePlan DEF RouteInv, Control
<1>4. PlanInv /\ ChoiceInv /\ alloc_pc = "done"
  BY DEF RouteInv, PlanKept
<1>5. PlanKept'
  BY <1>1, <1>2, SamePlan DEF RouteInv, PlanKept
<1>6. \A e : Done(e)' = Done(e) /\ Current(e)' = Current(e)
  BY <1>1, <1>2 DEF Done, Upto, Current
<1>7. Serving' = Serving
  BY <1>1 DEF Serving
<1> QED
  BY <1>1, <1>2, <1>3, <1>4, <1>5, <1>6, <1>7, ConfEntries DEF RouteInv

\* When an entry's block is written, only keys of that entry lead to it: the
\* safety of the plan, carried over to the live vip_map.
LEMMA RowTarget ==
    ASSUME RouteInv, phase = "vips", index \in DOMAIN order, NEW k \in DOMAIN vip_map,
           vip_map[k] = num[order[index]]
    PROVE  k \in KeysOf(entries, order[index])
<1> USE DEF RouteInv
<1>1. phase \in Steps /\ phase \in Steps \ {"plan", "stale_keys"}
  BY DEF Steps
<1>2. PlanInv /\ ChoiceInv /\ alloc_pc = "done"
  BY <1>1 DEF PlanKept
<1>3. PICK e \in Entry : k \in KeysOf(entries, e)
  BY <1>1 DEF StaleGone, Owned
<1>4. KeyLeads(e, k)
  BY <1>1, <1>3 DEF KeysLead
<1>5. order[index] \in Entry
  BY <1>2, PlanComplete
<1>6. SUFFICES ASSUME e # order[index] PROVE FALSE
  BY <1>3
<1>7. vip_map[k] # num[e]
  BY <1>2, <1>5, <1>6, PlanComplete
<1>8. ~Done(e) /\ k \in DOMAIN baseline /\ vip_map[k] = baseline[k]
  BY <1>4, <1>7 DEF KeyLeads
<1>9. ~\E q \in 1 .. (index - 1) : order[q] = e
  BY <1>8 DEF Done, Upto
<1>10. k \in DOMAIN refs
  BY <1>2, <1>3, <1>8 DEF PlanInv, AllocTypeOK, Owned
<1>11. baseline[k] # num[order[index]]
  BY <1>2, <1>3, <1>6, <1>9, <1>10 DEF PlanInv, SafeWrites
<1> QED
  BY <1>8, <1>11

\* The entry that write_vip() is working on is not done yet.
LEMMA CurrentNotDone ==
    ASSUME RouteInv, phase = "vips", index \in DOMAIN order
    PROVE  ~Done(order[index])
<1>1. OrderOnce /\ index \in 1 .. (Len(order) + 1) /\ alloc_pc = "done" /\ PlanInv /\ ChoiceInv
  BY DEF RouteInv, PlanKept, PlanInv, Steps
<1>2. DOMAIN order = 1 .. Len(order) /\ Len(order) \in Nat
  BY <1>1, PlanComplete
<1> SUFFICES ASSUME NEW q \in 1 .. (index - 1), order[q] = order[index] PROVE FALSE
  BY DEF Done, Upto
<1>3. q \in DOMAIN order /\ q # index
  BY <1>1, <1>2
<1> QED
  BY <1>1, <1>3 DEF OrderOnce

\* Reapplying the configuration in force: the planner gives every entry the block
\* its keys lead to, so there is no row and no key to write.
LEMMA ReappliedBlocks ==
    ASSUME RouteInv, Serving, gens = {file}, phase \in Steps \ {"plan"}, NEW e \in Entry
    PROVE  /\ \A k \in KeysOf(entries, e) : k \in DOMAIN vip_map /\ vip_map[k] = num[e]
           /\ fwd_table[num[e]] = Table(conf, e)
<1>1. conf = file /\ Applied(conf) /\ baseline = vip_map
  BY Reapplying
<1>2. PlanInv /\ ChoiceInv /\ alloc_pc = "done"
  BY DEF RouteInv, PlanKept
<1>3. /\ conf \in Confs /\ Entry = DOMAIN conf.vips /\ Owned = ConfKeys(conf)
      /\ \A f \in Entry : KeysOf(entries, f) = Range(conf.vips[f].keys)
  BY ConfEntries DEF RouteInv
<1>4. DOMAIN vip_map = Owned /\ DOMAIN refs = Owned
  BY <1>1, <1>2, <1>3 DEF Applied, PlanInv, AllocTypeOK
<1>5. PICK k : k \in KeysOf(entries, e)
  <2>1. entries[e] # <<>> /\ entries[e] \in Seq(Key)
    BY <1>2, EntryIndexes DEF ChoiceInv, Accepted, PlanInv
  <2>2. 1 \in DOMAIN entries[e]
    BY <2>1
  <2> QED
    BY <2>2 DEF KeysOf, Range
<1>6. \A f \in Entry : KeysOf(entries, f) \subseteq Owned
  BY DEF Owned
<1>7. vip_map[k] \in Num
  BY <1>4, <1>5, <1>6 DEF RouteInv, MapTypes
<1>8. \A j \in Owned : vip_map[j] = vip_map[k] <=> j \in KeysOf(entries, e)
  <2> SUFFICES ASSUME NEW f \in Entry, NEW j \in KeysOf(entries, f)
               PROVE  vip_map[j] = vip_map[k] <=> j \in KeysOf(entries, e)
    BY DEF Owned
  <2>1. e = f <=> vip_map[k] = vip_map[j]
    BY <1>1, <1>3, <1>5 DEF Applied
  <2>2. j \in KeysOf(entries, e) => f = e
    BY <1>2, KeysDisjoint DEF PlanInv
  <2> QED
    BY <2>1, <2>2
<1>9. Prefers(e, vip_map[k])
  BY <1>1, <1>4, <1>5, <1>6, <1>8 DEF Prefers
<1>10. num[e] = vip_map[k]
  BY <1>2, <1>7, <1>9 DEF ChoiceInv, PreferenceKept
<1>11. fwd_table[vip_map[k]] = Table(conf, e)
  BY <1>1, <1>3, <1>5 DEF Applied
<1> QED
  BY <1>4, <1>6, <1>8, <1>10, <1>11

\* write_fwd_block(): one row of the current entry's block.
LEMMA RouteWriteRow ==
    ASSUME RouteInv, WriteRow
    PROVE  RouteInv'
<1>1. /\ phase = "vips" /\ index \in DOMAIN order /\ RowsToWrite # {} /\ Stay
      /\ UNCHANGED <<vip_map, backends, acl_trie, config, tx_ports>>
      /\ phase \in Steps \ {"plan"} /\ phase \in FromVips
  BY DEF WriteRow, Steps, FromVips
<1>2. /\ Control' /\ PlanKept' /\ Serving' = Serving
      /\ UNCHANGED <<phase, mode, conf, file, gens, overlooked, attached, index>>
      /\ UNCHANGED <<entries, baseline, num, order, refs>> /\ Entry' = Entry /\ Owned' = Owned
      /\ \A e : Done(e)' = Done(e) /\ Current(e)' = Current(e)
      /\ PlanInv /\ ChoiceInv /\ alloc_pc = "done"
      /\ conf \in Confs /\ conf \in gens /\ Entry = DOMAIN conf.vips
      /\ \A e \in Entry : KeysOf(entries, e) = Range(conf.vips[e].keys)
  BY <1>1, StayFixed
<1>3. PICK e \in Entry : e = order[index]
  BY <1>1, <1>2, PlanComplete
<1>4. PICK n \in Num : n = num[e]
  BY <1>2, PlanComplete
<1>5. PICK T \in [Row -> Id \cup {NO_BACKEND}] : T = Table(conf, e)
  BY <1>2, TableRows
<1>6. PICK r \in Row : r = Min(RowsToWrite) /\ fwd_table[n][r] # T[r]
  <2>1. RowsToWrite = {s \in Row : fwd_table[n][s] # T[s]}
    BY <1>3, <1>4, <1>5 DEF RowsToWrite, WrongRows, ThisEntry
  <2>2. RowsToWrite \subseteq Nat
    BY <2>1, RowTypes
  <2>3. Min(RowsToWrite) \in RowsToWrite
    BY <1>1, <2>2, MinIn
  <2> QED
    BY <2>1, <2>3
<1>7. fwd_table' = [fwd_table EXCEPT ![n][r] = T[r]]
  BY <1>3, <1>4, <1>5, <1>6 DEF WriteRow, ThisEntry
<1>8. /\ fwd_table \in [Num -> [Row -> Id \cup {NO_BACKEND}]]
      /\ vip_map \in [DOMAIN vip_map -> Num]
  BY DEF RouteInv, MapTypes
<1>9. /\ fwd_table' \in [Num -> [Row -> Id \cup {NO_BACKEND}]]
      /\ \A m \in Num : m # n => fwd_table'[m] = fwd_table[m]
      /\ \A m \in Num, s \in Row :
            fwd_table'[m][s] = IF m = n /\ s = r THEN T[r] ELSE fwd_table[m][s]
  BY <1>7, <1>8
<1>10. MapTypes'
  BY <1>1, <1>9 DEF RouteInv, MapTypes
<1>11. \A f \in Entry : num[f] \in Num /\ (num[f] = n => f = e)
  BY <1>2, <1>4, PlanComplete
<1>12. KeysLead'
  <2> SUFFICES ASSUME NEW f \in Entry, NEW k \in KeysOf(entries, f) PROVE KeyLeads(f, k)'
    BY <1>2 DEF KeysLead
  <2>1. KeyLeads(f, k)
    BY <1>1 DEF RouteInv, KeysLead
  <2>2. Current(f) => fwd_table[num[f]] # Table(conf, f)
    BY <1>3, <1>4, <1>5, <1>6 DEF Current
  <2> QED
    BY <1>1, <1>2, <2>1, <2>2 DEF KeyLeads
<1>13. TablesDone'
  <2> SUFFICES ASSUME NEW f \in Entry, Done(f) PROVE fwd_table'[num[f]] = Table(conf, f)
    BY <1>2 DEF TablesDone, Table
  <2>1. f # e
    BY <1>1, <1>3, CurrentNotDone
  <2>2. fwd_table[num[f]] = Table(conf, f)
    BY <1>1 DEF RouteInv, TablesDone
  <2> QED
    BY <1>9, <1>11, <2>1, <2>2
<1>14. ASSUME NEW k \in DOMAIN vip_map, vip_map[k] = n PROVE T \in TablesOf(k)'
  <2>1. k \in Range(conf.vips[e].keys)
    BY <1>1, <1>2, <1>3, <1>4, <1>14, RowTarget
  <2>2. Table(conf, e) \in TablesOf(k)
    BY <1>2, <2>1, TableOfKey
  <2> QED
    BY <1>2, <1>5, <2>2, TablesGrow
<1>15. NoMisroute'
  <2> SUFFICES ASSUME NEW k \in DOMAIN vip_map, NEW s \in Row
               PROVE  \E t \in TablesOf(k)' : fwd_table'[vip_map[k]][s] = t[s]
    BY <1>1 DEF NoMisroute
  <2>1. PICK t \in TablesOf(k) : fwd_table[vip_map[k]][s] = t[s]
    BY DEF RouteInv, NoMisroute
  <2>2. t \in TablesOf(k)'
    BY <1>2, TablesGrow
  <2>3. CASE vip_map[k] = n /\ s = r
    BY <1>9, <1>14, <2>3
  <2>4. CASE ~(vip_map[k] = n /\ s = r)
    BY <1>8, <1>9, <2>1, <2>2, <2>4
  <2> QED
    BY <2>3, <2>4
<1>16. RowsPopulated'
  <2>1. T[r] # NO_BACKEND => backends[T[r]] # Zeroed
    <3>1. T[r] = NO_BACKEND \/ T[r] \in DOMAIN conf.backends
      BY <1>2, <1>5, TableRows
    <3>2. \A id \in DOMAIN conf.backends : backends[id] # Zeroed
      BY <1>1, <1>2, ConfFacts DEF RouteInv, SlotsWritten
    <3> QED
      BY <3>1, <3>2
  <2>2. ASSUME NEW k \in DOMAIN vip_map, NEW s \in Row
        PROVE  fwd_table'[vip_map[k]][s] # NO_BACKEND => backends[fwd_table'[vip_map[k]][s]] # Zeroed
    <3>1. fwd_table'[vip_map[k]][s] = T[r] \/ fwd_table'[vip_map[k]][s] = fwd_table[vip_map[k]][s]
      BY <1>8, <1>9
    <3>2. fwd_table[vip_map[k]][s] # NO_BACKEND => backends[fwd_table[vip_map[k]][s]] # Zeroed
      BY DEF RouteInv, RowsPopulated
    <3> QED
      BY <2>1, <3>1, <3>2
  <2> QED
    BY <1>1, <2>2 DEF RowsPopulated
<1>17. StaleGone' /\ SlotsWritten' /\ PortsAdded' /\ IsFiniteSet(DOMAIN vip_map)' /\ VipMapFits'
  BY <1>1, <1>2 DEF RouteInv, StaleGone, SlotsWritten, PortsAdded, VipMapFits
<1>18. Kept'
  BY <1>1, <1>2 DEF RouteInv, Kept, KeptNow
<1>19. Settled'
  <2> SUFFICES ASSUME Serving, gens = {file} PROVE FALSE
    BY <1>2 DEF Settled
  <2> QED
    BY <1>1, <1>4, <1>5, <1>6, ReappliedBlocks
<1> QED
  BY <1>2, <1>10, <1>12, <1>13, <1>15, <1>16, <1>17, <1>18, <1>19 DEF RouteInv

\* A key is published once its block is complete.
LEMMA RoutePublish ==
    ASSUME RouteInv, PublishKey
    PROVE  RouteInv'
<1>1. /\ phase = "vips" /\ index \in DOMAIN order /\ RowsToWrite = {} /\ KeysToPublish # {} /\ Stay
      /\ UNCHANGED <<fwd_table, backends, acl_trie, config, tx_ports>>
      /\ phase \in Steps \ {"plan"} /\ phase \in FromVips /\ phase \in Steps \ {"plan", "stale_keys"}
  BY DEF PublishKey, Steps, FromVips
<1>2. /\ Control' /\ PlanKept' /\ Serving' = Serving
      /\ UNCHANGED <<phase, mode, conf, file, gens, overlooked, attached, index>>
      /\ UNCHANGED <<entries, baseline, num, order, refs>> /\ Entry' = Entry /\ Owned' = Owned
      /\ \A e : Done(e)' = Done(e) /\ Current(e)' = Current(e)
      /\ PlanInv /\ ChoiceInv /\ alloc_pc = "done"
      /\ conf \in Confs /\ conf \in gens /\ Entry = DOMAIN conf.vips /\ Owned = ConfKeys(conf)
      /\ \A e \in Entry : KeysOf(entries, e) = Range(conf.vips[e].keys)
  BY <1>1, StayFixed
<1>3. PICK e \in Entry : e = order[index]
  BY <1>1, <1>2, PlanComplete
<1>4. PICK n \in Num : n = num[e]
  BY <1>2, PlanComplete
<1>5. PICK T \in [Row -> Id \cup {NO_BACKEND}] : T = Table(conf, e)
  BY <1>2, TableRows
<1>6. PICK j \in DOMAIN entries[e] :
         /\ j = Min(KeysToPublish)
         /\ entries[e][j] \notin DOMAIN vip_map \/ vip_map[entries[e][j]] # n
  <2>1. KeysToPublish = {i \in DOMAIN entries[e] :
                           entries[e][i] \notin DOMAIN vip_map \/ vip_map[entries[e][i]] # n}
    BY <1>3, <1>4 DEF KeysToPublish, ThisEntry
  <2>2. entries[e] \in Seq(Key)
    BY <1>2, EntryIndexes DEF PlanInv
  <2>3. KeysToPublish \subseteq Nat
    BY <2>1, <2>2
  <2>4. Min(KeysToPublish) \in KeysToPublish
    BY <1>1, <2>3, MinIn
  <2> QED
    BY <2>1, <2>4
<1>7. PICK key \in KeysOf(entries, e) : key = entries[e][j]
  BY DEF KeysOf, Range
<1>8. vip_map' = [k \in DOMAIN vip_map \cup {key} |-> IF k = key THEN n ELSE vip_map[k]]
  BY <1>3, <1>4, <1>6, <1>7 DEF PublishKey, ThisEntry
<1>9. /\ fwd_table \in [Num -> [Row -> Id \cup {NO_BACKEND}]]
      /\ vip_map \in [DOMAIN vip_map -> Num] /\ DOMAIN vip_map \subseteq Key
  BY DEF RouteInv, MapTypes
<1>10. /\ DOMAIN vip_map' = DOMAIN vip_map \cup {key} /\ vip_map'[key] = n
       /\ \A k \in DOMAIN vip_map : k # key => vip_map'[k] = vip_map[k]
  BY <1>8
<1>11. fwd_table[n] = T
  <2>1. \A s \in Row : fwd_table[n][s] = T[s]
    BY <1>1, <1>3, <1>4, <1>5 DEF RowsToWrite, WrongRows, ThisEntry
  <2> QED
    BY <1>4, <1>9, <2>1
<1>12. key \in Owned /\ key \in Key /\ key \in Range(conf.vips[e].keys)
  <2>1. entries[e] \in Seq(Key)
    BY <1>2, EntryIndexes DEF PlanInv
  <2>2. key \in Key
    BY <1>6, <1>7, <2>1
  <2> QED
    BY <1>2, <1>7, <2>2 DEF Owned
<1>13. MapTypes'
  BY <1>1, <1>8, <1>9, <1>10, <1>12 DEF RouteInv, MapTypes
<1>14. KeysLead'
  <2> SUFFICES ASSUME NEW f \in Entry, NEW k \in KeysOf(entries, f) PROVE KeyLeads(f, k)'
    BY <1>2 DEF KeysLead
  <2>1. KeyLeads(f, k)
    BY <1>1 DEF RouteInv, KeysLead
  <2>2. CASE k = key
    <3>1. f = e
      BY <1>2, <1>7, <2>2, KeysDisjoint DEF PlanInv
    <3>2. Current(f)
      BY <1>1, <1>3, <3>1 DEF Current
    <3> QED
      BY <1>1, <1>2, <1>4, <1>5, <1>10, <1>11, <2>2, <3>1, <3>2 DEF KeyLeads, Table
  <2>3. CASE k # key
    BY <1>1, <1>2, <1>10, <2>1, <2>3 DEF KeyLeads, Table
  <2> QED
    BY <2>2, <2>3
<1>15. TablesDone'
  BY <1>1, <1>2 DEF RouteInv, TablesDone, Table
<1>16. StaleGone'
  BY <1>1, <1>2, <1>10, <1>12 DEF RouteInv, StaleGone
<1>17. NoMisroute'
  <2> SUFFICES ASSUME NEW k \in DOMAIN vip_map \cup {key}, NEW s \in Row
               PROVE  \E t \in TablesOf(k)' : fwd_table[vip_map'[k]][s] = t[s]
    BY <1>1, <1>10 DEF NoMisroute
  <2>1. CASE k = key
    <3>1. Table(conf, e) \in TablesOf(key)
      BY <1>2, <1>12, TableOfKey
    <3>2. T \in TablesOf(key)'
      BY <1>2, <1>5, <3>1, TablesGrow
    <3> QED
      BY <1>10, <1>11, <2>1, <3>2
  <2>2. CASE k # key
    <3>1. PICK t \in TablesOf(k) : fwd_table[vip_map[k]][s] = t[s]
      BY <2>2 DEF RouteInv, NoMisroute
    <3>2. t \in TablesOf(k)'
      BY <1>2, TablesGrow
    <3> QED
      BY <1>10, <2>2, <3>1, <3>2
  <2> QED
    BY <2>1, <2>2
<1>18. RowsPopulated'
  <2> SUFFICES ASSUME NEW k \in DOMAIN vip_map \cup {key}, NEW s \in Row,
                      fwd_table[vip_map'[k]][s] # NO_BACKEND
               PROVE  backends[fwd_table[vip_map'[k]][s]] # Zeroed
    BY <1>1, <1>10 DEF RowsPopulated
  <2>1. CASE k = key
    <3>1. T[s] = NO_BACKEND \/ T[s] \in DOMAIN conf.backends
      BY <1>2, <1>5, TableRows
    <3>2. \A id \in DOMAIN conf.backends : backends[id] # Zeroed
      BY <1>1, <1>2, ConfFacts DEF RouteInv, SlotsWritten
    <3> QED
      BY <1>10, <1>11, <2>1, <3>1, <3>2
  <2>2. CASE k # key
    BY <1>10, <2>2 DEF RouteInv, RowsPopulated
  <2> QED
    BY <2>1, <2>2
<1>19. IsFiniteSet(DOMAIN vip_map)' /\ VipMapFits'
  <2>1. DOMAIN vip_map' \subseteq Owned
    BY <1>1, <1>2, <1>16 DEF StaleGone
  <2>2. IsFiniteSet(Owned) /\ Cardinality(Owned) <= MaxVips /\ Cardinality(Owned) \in Nat
    BY <1>2, OwnedCount, ConfFacts DEF PlanInv
  <2>3. IsFiniteSet(DOMAIN vip_map') /\ Cardinality(DOMAIN vip_map') <= Cardinality(Owned)
    BY <2>1, <2>2, FS_Subset
  <2>4. Cardinality(DOMAIN vip_map') \in Nat
    BY <2>3, FS_CardinalityType
  <2> QED
    BY <2>2, <2>3, <2>4, VipAllocAssumption DEF VipMapFits
<1>20. SlotsWritten' /\ PortsAdded'
  BY <1>1, <1>2 DEF RouteInv, SlotsWritten, PortsAdded
<1>21. Kept'
  BY <1>1, <1>2, <1>10 DEF RouteInv, Kept, KeptNow
<1>22. Settled'
  <2> SUFFICES ASSUME Serving, gens = {file} PROVE FALSE
    BY <1>2 DEF Settled
  <2> QED
    BY <1>1, <1>4, <1>6, <1>7, ReappliedBlocks
<1> QED
  BY <1>2, <1>13, <1>14, <1>15, <1>16, <1>17, <1>18, <1>19, <1>20, <1>21, <1>22 DEF RouteInv

\* The current entry's block and keys are all written: it is done.
LEMMA RouteVipWritten ==
    ASSUME RouteInv, VipWritten
    PROVE  RouteInv'
<1>1. /\ phase = "vips" /\ index \in DOMAIN order /\ RowsToWrite = {} /\ KeysToPublish = {}
      /\ index' = index + 1 /\ phase' = phase
      /\ UNCHANGED <<alloc_vars, maps, mode, conf, file, attached, faults, gens, overlooked>>
      /\ phase \in Steps \ {"plan"} /\ phase \in FromVips
  BY DEF VipWritten, Steps, FromVips
<1>2. /\ UNCHANGED <<entries, baseline, alloc_pc, num, order>> /\ Entry' = Entry /\ Owned' = Owned
  BY <1>1, SamePlan
<1>3. UNCHANGED <<vip_map, fwd_table, backends, acl_trie, config, tx_ports>>
  BY <1>1, SameMaps
<1>4. PlanInv /\ ChoiceInv /\ alloc_pc = "done" /\ index \in 1 .. (Len(order) + 1)
  BY <1>1 DEF RouteInv, PlanKept
<1>5. DOMAIN order = 1 .. Len(order) /\ Len(order) \in Nat
  BY <1>4, PlanComplete
<1>6. PICK e \in Entry : e = order[index]
  BY <1>1, <1>4, PlanComplete
<1>7. conf \in Confs /\ Entry = DOMAIN conf.vips
  BY <1>1, ConfEntries DEF RouteInv
<1>8. fwd_table[num[e]] = Table(conf, e)
  <2>1. num[e] \in Num /\ fwd_table \in [Num -> [Row -> Id \cup {NO_BACKEND}]]
    BY <1>4, PlanComplete DEF RouteInv, MapTypes
  <2>2. Table(conf, e) \in [Row -> Id \cup {NO_BACKEND}]
    BY <1>7, TableRows
  <2>3. \A s \in Row : fwd_table[num[e]][s] = Table(conf, e)[s]
    BY <1>1, <1>6 DEF RowsToWrite, WrongRows, ThisEntry
  <2> QED
    BY <2>1, <2>2, <2>3
<1>9. \A k \in KeysOf(entries, e) : k \in DOMAIN vip_map /\ vip_map[k] = num[e]
  BY <1>1, <1>6 DEF KeysToPublish, ThisEntry, KeysOf, Range
<1>10. \A f : Done(f)' <=> Done(f) \/ f = e
  <2>1. Upto = index - 1 /\ Upto' = index
    BY <1>1, <1>4 DEF Upto
  <2>2. \A q : q \in 1 .. index <=> q \in 1 .. (index - 1) \/ q = index
    BY <1>1, <1>5
  <2> QED
    BY <1>2, <1>6, <2>1, <2>2 DEF Done
<1>11. Control'
  BY <1>1, SamePlan DEF RouteInv, Control, AllocInit
<1>12. PlanKept'
  <2>1. index' \in 1 .. (Len(order) + 1)
    BY <1>1, <1>5
  <2> QED
    BY <1>1, <1>2, <1>4, <2>1, SamePlan DEF PlanKept
<1>13. KeysLead'
  <2> SUFFICES ASSUME NEW f \in Entry, NEW k \in KeysOf(entries, f) PROVE KeyLeads(f, k)'
    BY <1>2 DEF KeysLead
  <2>1. KeyLeads(f, k)
    BY <1>1 DEF RouteInv, KeysLead
  <2>2. Current(f) => f = e
    BY <1>6 DEF Current
  <2> QED
    BY <1>2, <1>3, <1>9, <1>10, <2>1, <2>2 DEF KeyLeads
<1>14. TablesDone'
  <2> SUFFICES ASSUME NEW f \in Entry, Done(f) \/ f = e PROVE fwd_table[num[f]] = Table(conf, f)
    BY <1>1, <1>2, <1>3, <1>10 DEF TablesDone, Table
  <2> QED
    BY <1>1, <1>8 DEF RouteInv, TablesDone
<1>15. StaleGone' /\ SlotsWritten' /\ PortsAdded'
  BY <1>1, <1>2, <1>3 DEF RouteInv, StaleGone, SlotsWritten, PortsAdded
<1>16. Kept' /\ Settled'
  BY <1>1, <1>2, <1>3, SameMaps DEF RouteInv, Kept, Settled, Serving
<1> QED
  BY <1>1, <1>11, <1>12, <1>13, <1>14, <1>15, <1>16, SameMaps DEF RouteInv

\* release_stale_vip_blocks(): no key leads to a released block any more.
LEMMA RouteZeroRow ==
    ASSUME RouteInv, ZeroRow
    PROVE  RouteInv'
<1>1. /\ phase = "release" /\ ToZero # {} /\ Stay
      /\ UNCHANGED <<vip_map, backends, acl_trie, config, tx_ports>>
      /\ phase \in Steps \ {"plan"} /\ phase \in FromVips /\ phase \in AfterVips
  BY DEF ZeroRow, Steps, FromVips, AfterVips
<1>2. /\ Control' /\ PlanKept' /\ Serving' = Serving
      /\ UNCHANGED <<phase, mode, conf, file, gens, overlooked, attached, index>>
      /\ UNCHANGED <<entries, baseline, num, order, refs>> /\ Entry' = Entry /\ Owned' = Owned
      /\ \A e : Done(e)' = Done(e) /\ Current(e)' = Current(e)
      /\ PlanInv /\ ChoiceInv /\ alloc_pc = "done" /\ conf \in Confs
  BY <1>1, StayFixed
<1>3. PICK n \in Num : n = Min(ToZero) /\ n \notin Used /\ WrongRows(n, [s \in Row |-> NO_BACKEND]) # {}
  <2>1. ToZero \subseteq Num
    BY <1>2 DEF ToZero, Release, PlanInv, AllocTypeOK
  <2>2. Min(ToZero) \in ToZero
    BY <1>1, <2>1, RowTypes, MinIn
  <2> QED
    BY <2>1, <2>2 DEF ToZero, Release
<1>4. PICK r \in Row : r = Min(WrongRows(n, [s \in Row |-> NO_BACKEND]))
  <2>1. WrongRows(n, [s \in Row |-> NO_BACKEND]) \subseteq Row
    BY DEF WrongRows
  <2> QED
    BY <1>3, <2>1, RowTypes, MinIn
<1>5. fwd_table' = [fwd_table EXCEPT ![n][r] = NO_BACKEND]
  BY <1>3, <1>4 DEF ZeroRow
<1>6. fwd_table \in [Num -> [Row -> Id \cup {NO_BACKEND}]]
  BY DEF RouteInv, MapTypes
<1>7. /\ fwd_table' \in [Num -> [Row -> Id \cup {NO_BACKEND}]]
      /\ \A m \in Num : m # n => fwd_table'[m] = fwd_table[m]
  BY <1>5, <1>6
<1>8. \A e \in Entry : fwd_table'[num[e]] = fwd_table[num[e]]
  <2> SUFFICES ASSUME NEW e \in Entry PROVE num[e] # n /\ num[e] \in Num
    BY <1>7
  <2> QED
    BY <1>2, <1>3, PlanComplete DEF Used
<1>9. \A k \in DOMAIN vip_map : fwd_table'[vip_map[k]] = fwd_table[vip_map[k]]
  <2> SUFFICES ASSUME NEW k \in DOMAIN vip_map PROVE fwd_table'[vip_map[k]] = fwd_table[vip_map[k]]
    OBVIOUS
  <2>1. PICK e \in Entry : vip_map[k] = num[e]
    BY <1>1, AllWritten
  <2> QED
    BY <1>8, <2>1
<1>10. MapTypes'
  BY <1>1, <1>7 DEF RouteInv, MapTypes
<1>11. KeysLead'
  <2> SUFFICES ASSUME NEW f \in Entry, NEW k \in KeysOf(entries, f) PROVE KeyLeads(f, k)'
    BY <1>2 DEF KeysLead
  <2>1. KeyLeads(f, k)
    BY <1>1 DEF RouteInv, KeysLead
  <2>2. ~Current(f)
    BY <1>1 DEF Current
  <2> QED
    BY <1>1, <1>2, <2>1, <2>2 DEF KeyLeads
<1>12. TablesDone'
  BY <1>1, <1>2, <1>8 DEF RouteInv, TablesDone, Table
<1>13. NoMisroute'
  <2> SUFFICES ASSUME NEW k \in DOMAIN vip_map, NEW s \in Row
               PROVE  \E t \in TablesOf(k)' : fwd_table'[vip_map[k]][s] = t[s]
    BY <1>1 DEF NoMisroute
  <2>1. PICK t \in TablesOf(k) : fwd_table[vip_map[k]][s] = t[s]
    BY DEF RouteInv, NoMisroute
  <2>2. t \in TablesOf(k)'
    BY <1>2, TablesGrow
  <2> QED
    BY <1>9, <2>1, <2>2
<1>14. RowsPopulated'
  BY <1>1, <1>9 DEF RouteInv, RowsPopulated
<1>15. StaleGone' /\ SlotsWritten' /\ PortsAdded' /\ IsFiniteSet(DOMAIN vip_map)' /\ VipMapFits'
  BY <1>1, <1>2 DEF RouteInv, StaleGone, SlotsWritten, PortsAdded, VipMapFits
<1>16. Kept'
  BY <1>1, <1>2 DEF RouteInv, Kept, KeptNow
<1>17. Settled'
  <2> SUFFICES ASSUME Serving, gens = {file} PROVE Applied(file)' /\ baseline' = vip_map'
    BY <1>2 DEF Settled
  <2>1. conf = file /\ Applied(conf) /\ baseline = vip_map
    BY <1>1, Reapplying
  <2>2. \A e \in DOMAIN conf.vips : \A k \in Range(conf.vips[e].keys) :
           fwd_table'[vip_map[k]] = Table(conf, e)
    BY <1>9, <2>1 DEF Applied, ConfKeys
  <2>3. AclApplied(conf)' /\ PortsApplied(conf)'
    BY <1>1, <1>2, <2>1 DEF Applied, AclApplied, PortsApplied
  <2>4. Applied(conf)'
    BY <1>1, <1>2, <2>1, <2>2, <2>3 DEF Applied, acl_lists_bits, any_backend_encapsulates, ConfKeys, Table
  <2> QED
    BY <1>1, <1>2, <2>1, <2>4
<1> QED
  BY <1>2, <1>10, <1>11, <1>12, <1>13, <1>14, <1>15, <1>16, <1>17 DEF RouteInv

\* remove_stale_vip_keys(): only keys the new configuration does not have.
LEMMA RouteDeleteKey ==
    ASSUME RouteInv, DeleteStaleKey
    PROVE  RouteInv'
<1>1. /\ phase = "stale_keys" /\ Stay /\ UNCHANGED <<fwd_table, backends, acl_trie, config, tx_ports>>
      /\ phase \in Steps \ {"plan"} /\ phase \notin FromVips \cup {"backends"}
  BY DEF DeleteStaleKey, Steps, FromVips
<1>2. /\ Control' /\ PlanKept' /\ Serving' = Serving
      /\ UNCHANGED <<phase, mode, conf, file, gens, overlooked, attached, index>>
      /\ UNCHANGED <<entries, baseline, num, order, refs>> /\ Entry' = Entry /\ Owned' = Owned
      /\ \A e : Done(e)' = Done(e) /\ Current(e)' = Current(e)
      /\ conf \in Confs /\ conf \in gens /\ Owned = ConfKeys(conf)
  BY <1>1, StayFixed
<1>3. PICK gone \in DOMAIN vip_map \ ConfKeys(conf) :
         vip_map' = Restrict(vip_map, DOMAIN vip_map \ {gone})
  BY DEF DeleteStaleKey, StaleKeys
<1>4. /\ DOMAIN vip_map' = DOMAIN vip_map \ {gone}
      /\ \A k \in DOMAIN vip_map' : vip_map'[k] = vip_map[k]
      /\ vip_map' = [k \in DOMAIN vip_map' |-> vip_map[k]]
  BY <1>3 DEF Restrict
<1>5. MapTypes'
  BY <1>1, <1>4 DEF RouteInv, MapTypes
<1>6. KeysLead'
  <2> SUFFICES ASSUME NEW f \in Entry, NEW k \in KeysOf(entries, f) PROVE KeyLeads(f, k)'
    BY <1>2 DEF KeysLead
  <2>1. KeyLeads(f, k)
    BY <1>1 DEF RouteInv, KeysLead
  <2>2. k # gone
    BY <1>2, <1>3 DEF Owned
  <2> QED
    BY <1>1, <1>2, <1>4, <2>1, <2>2 DEF KeyLeads, Table
<1>7. TablesDone' /\ StaleGone' /\ SlotsWritten' /\ PortsAdded'
  BY <1>1, <1>2 DEF TablesDone, StaleGone, SlotsWritten, PortsAdded, FromVips
<1>8. NoMisroute' /\ RowsPopulated'
  BY <1>1, <1>2, <1>4, TablesGrow DEF RouteInv, NoMisroute, RowsPopulated
<1>9. IsFiniteSet(DOMAIN vip_map)' /\ VipMapFits'
  <2>1. IsFiniteSet(DOMAIN vip_map) /\ Cardinality(DOMAIN vip_map) <= MaxVips
    BY DEF RouteInv, VipMapFits
  <2>2. IsFiniteSet(DOMAIN vip_map') /\ Cardinality(DOMAIN vip_map') <= Cardinality(DOMAIN vip_map)
    BY <1>4, <2>1, FS_Subset
  <2>3. Cardinality(DOMAIN vip_map') \in Nat /\ Cardinality(DOMAIN vip_map) \in Nat
    BY <2>1, <2>2, FS_CardinalityType
  <2> QED
    BY <2>1, <2>2, <2>3, VipAllocAssumption DEF VipMapFits
<1>10. Kept'
  <2> SUFFICES ASSUME Serving, NEW k \in Key, \A c \in gens : k \in ConfKeys(c) PROVE k \in DOMAIN vip_map'
    BY <1>1, <1>2 DEF RouteInv, Kept, KeptNow
  <2> QED
    BY <1>2, <1>3, <1>4 DEF RouteInv, Kept, KeptNow
<1>11. Settled'
  <2> SUFFICES ASSUME Serving, gens = {file} PROVE FALSE
    BY <1>2 DEF Settled
  <2> QED
    BY <1>1, <1>3, Reapplying DEF Applied
<1> QED
  BY <1>2, <1>5, <1>6, <1>7, <1>8, <1>9, <1>10, <1>11 DEF RouteInv

\* The last write_config(): reconcile_apply() returns with the configuration
\* completely applied.
LEMMA RouteNarrow ==
    ASSUME RouteInv, AclInv, WriteConfigNarrow
    PROVE  RouteInv'
<1>1. /\ phase = "narrow" /\ phase \in Steps /\ phase \in FromVips /\ phase \in AfterVips
      /\ AllocInit' /\ mode' = "none" /\ conf' = NoConf /\ index' = 1 /\ attached' = attached
      /\ phase' = IF mode = "startup" THEN "attach" ELSE "run"
      /\ file' = conf /\ gens' = {conf} /\ write_config(acl_lists_bits(conf), 0)
      /\ overlooked' = overlooked
  BY DEF WriteConfigNarrow, Forget, AllocInit, Steps, FromVips, AfterVips
<1>2. PICK mf \in BOOLEAN :
         /\ any_backend_encapsulates(conf) /\ conf.max_frame # "zero" => mf
         /\ config' = [acl_lists |-> acl_lists_bits(conf), max_frame |-> mf]
  BY <1>1, WriteConfigEffect
<1>3. UNCHANGED <<vip_map, fwd_table, backends, acl_trie, tx_ports>> /\ faults' \in 0 .. MaxFaults
  BY <1>1, WriteConfigEffect
<1>4. config'.acl_lists = acl_lists_bits(conf) /\ config'.max_frame = mf
  BY <1>2
<1>5. conf \in Confs /\ Control /\ PlanInv /\ ChoiceInv /\ alloc_pc = "done"
  BY <1>1, ConfEntries DEF RouteInv, PlanKept
<1>6. PICK c \in Confs : c = conf
  BY <1>5
<1>7. Control'
  <2>1. phase' \notin Steps /\ phase' \in Working \cup {"run"}
    BY <1>1 DEF Working, Steps
  <2>2. attached <=> mode # "startup"
    BY <1>1, <1>5 DEF Control, Steps
  <2> QED
    BY <1>1, <1>3, <1>5, <2>1, <2>2 DEF Control
<1>8. phase' \notin Steps /\ phase' \notin FromVips \cup {"plan", "vips", "acl", "backends"}
  BY <1>1 DEF Steps, FromVips
<1>9. PlanKept'
  <2>1. PlanInv' /\ ChoiceInv'
    BY <1>1, PlanInvInit, ChoiceInvInit, PTL
  <2> QED
    BY <1>1, <1>8, <2>1 DEF PlanKept
<1>10. Applied(c)'
  <2>1. DOMAIN vip_map = ConfKeys(c) /\ Entry = DOMAIN c.vips
    BY <1>1, <1>5, <1>6, AllWritten, ConfEntries
  <2>2. \A e \in DOMAIN c.vips : \A k \in Range(c.vips[e].keys) :
           vip_map[k] = num[e] /\ fwd_table[vip_map[k]] = Table(c, e)
    BY <1>1, <1>6, <2>1, AllWritten
  <2>3. \A e, f \in DOMAIN c.vips :
           \A k \in Range(c.vips[e].keys), l \in Range(c.vips[f].keys) : e = f <=> vip_map[k] = vip_map[l]
    BY <1>5, <2>1, <2>2, PlanComplete
  <2>4. AclApplied(c)'
    BY <1>1, <1>3, <1>6 DEF AclInv, ListsDone, ListDone, AfterAcl, FromAcl, Steps, AclApplied
  <2>5. PortsApplied(c)' /\ \A id \in DOMAIN c.backends : backends[id] = c.backends[id].slot
    BY <1>1, <1>3, <1>6 DEF RouteInv, PortsAdded, SlotsWritten, PortsApplied
  <2> QED
    BY <1>2, <1>3, <1>4, <1>6, <2>1, <2>2, <2>3, <2>4, <2>5
       DEF Applied, Table, ConfKeys, acl_lists_bits, any_backend_encapsulates
<1>11. Settled'
  BY <1>1, <1>6, <1>8, <1>10 DEF Settled
<1>12. Kept'
  <2>1. gens' = {c}
    BY <1>1, <1>6
  <2>2. \A k \in Key : k \in ConfKeys(c) => k \in DOMAIN vip_map'
    BY <1>10 DEF Applied
  <2>3. \A l \in Lists, r \in Rule : r \in c.acl[l] => r \in acl_trie'[l] /\ l \in config'.acl_lists
    BY <1>10 DEF Applied, AclApplied, acl_lists_bits
  <2>4. \A p \in Port : p \in c.tx_ports => p \in tx_ports'
    BY <1>10 DEF Applied, PortsApplied
  <2> QED
    BY <2>1, <2>2, <2>3, <2>4 DEF Kept, KeptNow
<1>13. NoMisroute'
  <2> SUFFICES ASSUME NEW k \in DOMAIN vip_map, NEW s \in Row
               PROVE  \E t \in TablesOf(k)' : fwd_table[vip_map[k]][s] = t[s]
    BY <1>3 DEF NoMisroute
  <2>1. PICK e \in Entry : e \in DOMAIN c.vips /\ k \in Range(c.vips[e].keys)
                           /\ fwd_table[vip_map[k]] = Table(c, e)
    BY <1>1, <1>6, AllWritten
  <2>2. Table(c, e) \in TablesOf(k)'
    BY <1>1, <1>6, <2>1 DEF TablesOf, Table
  <2> QED
    BY <2>1, <2>2
<1>14. MapTypes' /\ RowsPopulated' /\ IsFiniteSet(DOMAIN vip_map)' /\ VipMapFits'
  BY <1>3 DEF RouteInv, MapTypes, RowsPopulated, VipMapFits
<1>15. KeysLead' /\ TablesDone' /\ StaleGone' /\ SlotsWritten' /\ PortsAdded'
  BY <1>8 DEF KeysLead, TablesDone, StaleGone, SlotsWritten, PortsAdded, FromVips
<1> QED
  BY <1>7, <1>9, <1>11, <1>12, <1>13, <1>14, <1>15 DEF RouteInv

\* A failing system call, a map that is full, a slot that is missed.
LEMMA RouteFailures ==
    ASSUME RouteInv,
           HostFault \/ AclFull \/ TxPortsFull \/ WriteBackendFails \/ RetireFails
    PROVE  RouteInv'
<1>1. faults \in 0 .. MaxFaults /\ MaxFaults \in Nat
  BY ReconcileAssumption DEF RouteInv, Control
<1>2. CASE HostFault
  <2>1. phase \in Steps /\ Fail("host") /\ faults' \in 0 .. MaxFaults
    BY <1>1, <1>2 DEF HostFault
  <2> QED
    BY <2>1, RouteFail
<1>3. CASE AclFull \/ TxPortsFull \/ WriteBackendFails \/ RetireFails
  <2>1. phase \in Steps /\ faults' \in 0 .. MaxFaults
    BY <1>1, <1>3 DEF AclFull, TxPortsFull, WriteBackendFails, RetireFails, Steps
  <2>2. \E why : Fail(why)
    BY <1>3 DEF AclFull, TxPortsFull, WriteBackendFails, RetireFails
  <2> QED
    BY <2>1, <2>2, RouteFail
<1> QED
  BY <1>2, <1>3

\* Nothing happens.
LEMMA RouteStutter ==
    ASSUME RouteInv, UNCHANGED vars
    PROVE  RouteInv'
<1>1. /\ UNCHANGED <<alloc_vars, maps, phase, mode, conf, file, index, attached, faults, gens, overlooked>>
  BY DEF vars
<1>2. UNCHANGED <<entries, baseline, alloc_pc, cursor, num, refs, order, seen>> /\ Entry' = Entry /\ Owned' = Owned
  BY <1>1, SamePlan
<1>3. \A e : Done(e)' = Done(e) /\ Current(e)' = Current(e)
  BY <1>1, <1>2 DEF Done, Upto, Current
<1>4. Control' /\ PlanKept'
  BY <1>1, <1>2, SamePlan, SameMaps DEF RouteInv, Control, PlanKept, AllocInit
<1>5. KeysLead'
  BY <1>1, <1>2, <1>3, SameMaps DEF RouteInv, KeysLead, KeyLeads, Table
<1>6. TablesDone' /\ StaleGone' /\ SlotsWritten' /\ PortsAdded'
  BY <1>1, <1>2, <1>3, SameMaps DEF RouteInv, TablesDone, StaleGone, SlotsWritten, PortsAdded, Table
<1>7. Kept' /\ Settled'
  BY <1>1, <1>2, SameMaps DEF RouteInv, Kept, Settled, Serving
<1> QED
  BY <1>1, <1>4, <1>5, <1>6, <1>7, SameMaps DEF RouteInv

\* The invariant is kept by every step.
LEMMA RouteInvNext ==
    ASSUME RouteInv, AclInv, [Next]_vars
    PROVE  RouteInv'
<1>1. CASE UNCHANGED vars
  BY <1>1, RouteStutter
<1>2. CASE \E c \in Confs : Startup(c) \/ Reload(c)
  BY <1>2, RouteEnter
<1>3. CASE Attach \/ Stop \/ Kill
  BY <1>3, RouteProcess
<1>4. CASE Unpin
  BY <1>4, RouteUnpin
<1>5. CASE HostFault \/ AclFull \/ TxPortsFull \/ WriteBackendFails \/ RetireFails
  BY <1>5, RouteFailures
<1>6. CASE PlanStep \/ PlanEnd
  BY <1>6, RoutePlanStep, RoutePlanEnd
<1>7. CASE \/ StaleKeysDone \/ TxPortsAdded \/ BackendsWritten
           \/ VipsWritten \/ BlocksReleased \/ RetireDone
  BY <1>7, RoutePhase
<1>12. CASE AclListDone \/ AclReadCut \/ TxPortsRemoved \/ TxReadCut
  BY <1>12, RouteListDone, RoutePortsLeft
<1>8. CASE AclInsert \/ AclDelete \/ AddTxPort \/ RemoveTxPort
  BY <1>8, RouteAclRule, RouteTxPort
<1>9. CASE WriteConfigUnion \/ WriteConfigBlind \/ WriteConfigNarrow
  BY <1>9, RouteUnion, RouteNarrow
<1>10. CASE WriteBackend \/ RetireSlot
  BY <1>10, RouteBackend, RouteRetire
<1>11. CASE DeleteStaleKey \/ WriteRow \/ PublishKey \/ VipWritten \/ ZeroRow
  BY <1>11, RouteDeleteKey, RouteWriteRow, RoutePublish, RouteVipWritten, RouteZeroRow
<1> QED
  BY <1>1, <1>2, <1>3, <1>4, <1>5, <1>6, <1>7, <1>8, <1>9, <1>10, <1>11, <1>12 DEF Next, ReconcileStep, Swallowed

(***************************************************************************)
(* Theorems.                                                                *)
(***************************************************************************)

\* Through every startup, reload, failing call and kill, the live maps follow the
\* plan that was made from them.
THEOREM RoutingInvariant == Spec => []RouteInv
<1>1. Init => RouteInv
  BY RouteInvInit
<1>2. RouteInv /\ AclInv /\ [Next]_vars => RouteInv'
  BY RouteInvNext
<1> QED
  BY <1>1, <1>2, AclInvariant, PTL DEF Spec

\* docs/design/31 s.8, write_vip() in write_order: a row reached from a VIP key is
\* always that row of a table generated for that very key by a configuration
\* applied since the last complete one, for any configurations, any number of
\* blocks and rows and any sequence of reloads, failed calls and kills.
THEOREM NeverMisrouted == Spec => []NoMisroute
<1>1. RouteInv => NoMisroute
  BY DEF RouteInv
<1> QED
  BY <1>1, RoutingInvariant, PTL

\* docs/design/12, write ordering of write_backends(), write_vip() and
\* retire_stale_backends(): no row that a key leads to names an empty slot.
THEOREM RowsAlwaysPopulated == Spec => []RowsPopulated
<1>1. RouteInv => RowsPopulated
  BY DEF RouteInv
<1> QED
  BY <1>1, RoutingInvariant, PTL

\* remove_stale_vip_keys() before write_vip(): vip_map never needs more than its
\* MAX_VIPS rows, whatever the configurations before and after.
THEOREM VipMapAlwaysFits == Spec => []VipMapFits
<1>1. RouteInv => VipMapFits
  BY DEF RouteInv
<1> QED
  BY <1>1, RoutingInvariant, PTL

\* What the configurations involved agree on, keys, ACL rules and their bits, and
\* ports, is never taken away from running traffic, not even by a reload that
\* fails half-way and is followed by others.
THEOREM KeptAlwaysStays == Spec => []KeptStays
<1>1. RouteInv => KeptStays
  BY DEF RouteInv, Kept, Serving, KeptNow, KeptStays
<1> QED
  BY <1>1, RoutingInvariant, PTL

\* A reload that reports success has applied its configuration completely, from
\* whatever mix of others it began, and reloading the same file keeps it so.
THEOREM AlwaysConverged == Spec => []Converged
<1>1. RouteInv => Converged
  BY DEF RouteInv, Settled, Serving, Applied, AclApplied, PortsApplied, Converged
<1> QED
  BY <1>1, RoutingInvariant, PTL

\* write_order has at most as many entries as there are blocks.
LEMMA OrderShort ==
    ASSUME PlanInv, ChoiceInv, alloc_pc = "done"
    PROVE  Len(order) <= MaxVips
<1> DEFINE at == [q \in 1 .. Len(order) |-> <<order[q], 1>>]
<1>1. /\ \A q \in 1 .. Len(order) : order[q] \in Entry
      /\ DOMAIN order = 1 .. Len(order) /\ Len(order) \in Nat
  BY PlanComplete
<1>2. ASSUME NEW q \in 1 .. Len(order) PROVE <<order[q], 1>> \in KeyPositions(entries)
  <2>1. PICK e \in DOMAIN entries : e = order[q]
    BY <1>1 DEF Entry
  <2>2. entries[e] # <<>> /\ entries[e] \in Seq(Key)
    BY EntryIndexes DEF ChoiceInv, Accepted, PlanInv, Entry
  <2>3. 1 \in DOMAIN entries[e]
    BY <2>2
  <2> QED
    BY <2>1, <2>3 DEF KeyPositions
<1>3. \A p, q \in 1 .. Len(order) : at[p] = at[q] => p = q
  BY <1>1 DEF PlanInv, OrderOnce
<1>4. at \in [1 .. Len(order) -> KeyPositions(entries)]
  BY <1>2
<1>5. at \in Injection(1 .. Len(order), KeyPositions(entries))
  BY <1>3, <1>4, Zenon DEF Injection, IsInjective
<1>6. /\ IsFiniteSet(KeyPositions(entries)) /\ Cardinality(KeyPositions(entries)) \in Nat
      /\ Cardinality(KeyPositions(entries)) <= MaxVips
  BY OwnedCount DEF PlanInv, ChoiceInv, Accepted
<1> HIDE DEF at
<1>7. Cardinality(1 .. Len(order)) <= Cardinality(KeyPositions(entries))
  BY <1>5, <1>6, FS_Injection
<1>8. Cardinality(1 .. Len(order)) = Len(order)
  BY <1>1, FS_Interval
<1> QED
  BY <1>1, <1>6, <1>7, <1>8, VipAllocAssumption

\* Every map holds values its kernel definition and marlind's writes allow, for any
\* configurations: blocks that exist, rows that are ids or MARLIN_NO_BACKEND, slots
\* some configuration states.
THEOREM RoutingTypeOK == Spec => []TypeOK
<1>1. RouteInv /\ AclInv => TypeOK
  <2> SUFFICES ASSUME RouteInv, AclInv PROVE TypeOK
    OBVIOUS
  <2>1. /\ vip_map \in [DOMAIN vip_map -> Num] /\ DOMAIN vip_map \subseteq Key
        /\ fwd_table \in [Num -> [Row -> Id \cup {NO_BACKEND}]]
        /\ tx_ports \subseteq Port
    BY DEF RouteInv, MapTypes
  <2>2. \A id \in Id : backends[id] \in {Zeroed} \cup
           {c.backends[id].slot : c \in {d \in Confs : id \in DOMAIN d.backends}}
    BY DEF RouteInv, MapTypes
  <2>3. /\ acl_trie \in [Lists -> SUBSET Rule]
        /\ config.acl_lists \subseteq Lists /\ config.max_frame \in BOOLEAN
        /\ overlooked \subseteq Lists \cup {"tx_ports"}
    BY DEF AclInv, AclTypes
  <2>4. conf \in Confs \cup {NoConf} /\ file \in Confs \cup {NoConf} /\ gens \subseteq Confs
    BY DEF RouteInv, Control
  <2>5. index \in 1 .. (MaxVips + Len(AclList) + 1)
    <3>0. MaxVips \in Nat /\ Len(AclList) = 4
      BY ListNames, VipAllocAssumption
    <3>1. CASE phase = "vips"
      <4>1. PlanInv /\ ChoiceInv /\ alloc_pc = "done" /\ index \in 1 .. (Len(order) + 1)
        BY <3>1 DEF RouteInv, PlanKept, Steps
      <4>2. Len(order) \in Nat /\ Len(order) <= MaxVips
        BY <4>1, OrderShort, PlanComplete
      <4> QED
        BY <3>0, <4>1, <4>2
    <3>2. CASE phase = "acl"
      <4>1. index \in 1 .. 4
        BY <3>2, ListNames DEF AclInv, ListsDone
      <4> QED
        BY <3>0, <4>1
    <3>3. CASE phase \notin {"vips", "acl"}
      BY <3>0, <3>3 DEF RouteInv, PlanKept
    <3> QED
      BY <3>1, <3>2, <3>3
  <2> QED
    BY <2>1, <2>2, <2>3, <2>4, <2>5 DEF RouteInv, Control, TypeOK
<1> QED
  BY <1>1, RoutingInvariant, AclInvariant, PTL

-----------------------------------------------------------------------------

(***************************************************************************)
(* Reconcile implements Service: every map write moves the answers of the  *)
(* keys it touches towards the configuration being applied, and touches no *)
(* others.                                                                 *)
(***************************************************************************)

(***************************************************************************)
(* The answers a configuration wants.                                       *)
(***************************************************************************)

\* A configuration has one entry per key, so the answer it wants for a key is the
\* table of that entry.
LEMMA WantedOfEntry ==
    ASSUME NEW c \in Confs, NEW e \in DOMAIN c.vips, NEW k \in Range(c.vips[e].keys)
    PROVE  /\ WantedTable(c, k) = Table(c, e) /\ WantedTable(c, k) # Missing
           /\ k \in ConfKeys(c)
<1> DEFINE ents == EntryKeys(c)
<1>1. UniqueKeys(ents) /\ DOMAIN ents = DOMAIN c.vips /\ \A f \in DOMAIN ents : ents[f] = c.vips[f].keys
  BY ConfFacts, VipAllocAssumption DEF EntryKeys
<1>2. k \in ConfKeys(c)
  BY DEF ConfKeys
<1>3. EntryOf(c, k) \in DOMAIN c.vips /\ k \in Range(c.vips[EntryOf(c, k)].keys)
  BY Zenon DEF EntryOf
<1>4. ASSUME NEW f \in DOMAIN c.vips, k \in Range(c.vips[f].keys) PROVE f = e
  <2>1. PICK i \in DOMAIN ents[e] : k = ents[e][i]
    BY <1>1 DEF Range
  <2>2. PICK j \in DOMAIN ents[f] : k = ents[f][j]
    BY <1>1, <1>4 DEF Range
  <2>3. <<e, i>> \in KeyPositions(ents) /\ <<f, j>> \in KeyPositions(ents)
    BY <1>1 DEF KeyPositions
  <2> HIDE DEF ents
  <2> QED
    BY <1>1, <2>1, <2>2, <2>3, Zenon DEF UniqueKeys
<1>5. EntryOf(c, k) = e
  BY <1>3, <1>4
<1>6. Table(c, e) # Missing
  BY TableRows, MissingAssumption
<1> QED
  BY <1>2, <1>5, <1>6 DEF WantedTable

\* A key that is not stated is to be missing.
LEMMA WantedNowhere ==
    ASSUME NEW c, NEW k, k \notin ConfKeys(c)
    PROVE  WantedTable(c, k) = Missing
  BY DEF WantedTable

\* A configuration that is completely applied gives the answers it wants.
LEMMA AppliedAnswers ==
    ASSUME NEW c \in Confs, DOMAIN vip_map = ConfKeys(c),
           \A e \in DOMAIN c.vips : \A k \in Range(c.vips[e].keys) : fwd_table[vip_map[k]] = Table(c, e),
           NEW k \in Key
    PROVE  Answer[k] = WantedTable(c, k)
<1>1. CASE k \in ConfKeys(c)
  <2>1. PICK e \in DOMAIN c.vips : k \in Range(c.vips[e].keys)
    BY <1>1 DEF ConfKeys
  <2> QED
    BY <1>1, <2>1, WantedOfEntry DEF Answer
<1>2. CASE k \notin ConfKeys(c)
  BY <1>2, WantedNowhere DEF Answer
<1> QED
  BY <1>1, <1>2

(***************************************************************************)
(* Steps that leave the answers alone.                                      *)
(***************************************************************************)

\* A step that writes neither vip_map nor fwd_table changes no answer.
LEMMA SameAnswers ==
    ASSUME UNCHANGED <<vip_map, fwd_table>>
    PROVE  Answer' = Answer
  BY DEF Answer

\* One case per operation of cmd_attach().
LEMMA ProcessRefines ==
    ASSUME RouteInv,
           \/ \E c \in Confs : Startup(c) \/ Reload(c)
           \/ Attach \/ Stop \/ Kill \/ Unpin
    PROVE  [S!ServiceNext]_(S!service_vars)
<1> USE DEF S!service_vars, S!ServiceNext
<1>0. Control
  BY DEF RouteInv
<1>1. ASSUME NEW c \in Confs, Startup(c) \/ Reload(c) PROVE S!Attempt(c)
  <2>1. phase \in {"down", "run"} /\ conf' = c /\ gens' = gens \cup {c} /\ UNCHANGED <<maps, attached>>
    BY <1>1 DEF Startup, Reload, Begin
  <2>2. conf = NoConf
    BY <1>0, <2>1 DEF Control, Steps
  <2>3. Answer' = Answer
    BY <2>1, SameMaps, SameAnswers
  <2> QED
    BY <2>1, <2>2, <2>3 DEF S!Attempt
<1>2. CASE Attach
  <2>1. phase = "attach" /\ attached' = TRUE /\ UNCHANGED <<maps, conf, gens>>
    BY <1>2 DEF Attach
  <2>2. conf = NoConf /\ ~attached /\ gens = {file} /\ file \in Confs
    BY <1>0, <2>1 DEF Control, Steps
  <2>3. Applied(file)
    BY <2>1, <2>2 DEF RouteInv, Settled, Serving
  <2>4. \A k \in Key : Answer[k] = WantedTable(file, k)
    BY <2>2, <2>3, AppliedAnswers DEF Applied
  <2>5. Answer' = Answer
    BY <2>1, SameMaps, SameAnswers
  <2>6. S!Serve
    BY <2>1, <2>2, <2>4, <2>5 DEF S!Serve
  <2> QED
    BY <2>6
<1>3. CASE Stop
  <2>1. phase = "run" /\ attached' = FALSE /\ UNCHANGED <<maps, conf, gens>>
    BY <1>3 DEF Stop
  <2>2. conf = NoConf /\ attached
    BY <1>0, <2>1 DEF Control, Steps
  <2>3. Answer' = Answer
    BY <2>1, SameMaps, SameAnswers
  <2>4. S!Cease
    BY <2>1, <2>2, <2>3 DEF S!Cease
  <2> QED
    BY <2>4
<1>4. CASE Kill
  <2>1. attached' = FALSE /\ conf' = NoConf /\ UNCHANGED <<maps, gens>>
    BY <1>4 DEF Kill, Forget
  <2>2. Answer' = Answer
    BY <2>1, SameMaps, SameAnswers
  <2>3. CASE phase \in Steps
    <3>1. conf # NoConf
      BY <1>0, <2>3, ConfEntries, ConfFacts
    <3>2. S!Abandon
      BY <2>1, <2>2, <3>1 DEF S!Abandon
    <3> QED
      BY <3>2
  <2>4. CASE phase \notin Steps
    <3>1. conf = NoConf /\ attached \in BOOLEAN
      BY <1>0, <2>4 DEF Control
    <3>2. CASE attached
      <4>1. S!Cease
        BY <2>1, <2>2, <3>1, <3>2 DEF S!Cease
      <4> QED
        BY <4>1
    <3>3. CASE ~attached
      BY <2>1, <2>2, <3>1, <3>3
    <3> QED
      BY <3>2, <3>3
  <2> QED
    BY <2>3, <2>4
<1>5. CASE Unpin
  <2>1. phase = "down" /\ vip_map' = <<>> /\ gens' = {} /\ UNCHANGED <<conf, attached>>
    BY <1>5 DEF Unpin
  <2>2. conf = NoConf /\ ~attached
    BY <1>0, <2>1 DEF Control, Steps
  <2>3. Answer' = [k \in Key |-> Missing]
    BY <2>1 DEF Answer
  <2>4. S!Clear
    BY <2>1, <2>2, <2>3 DEF S!Clear
  <2> QED
    BY <2>4
<1> QED
  BY <1>1, <1>2, <1>3, <1>4, <1>5

\* A reconcile_apply() that returns false abandons what it was applying.
LEMMA FailRefines ==
    ASSUME RouteInv, phase \in Steps, NEW why, Fail(why)
    PROVE  S!Abandon
<1>1. conf' = NoConf /\ UNCHANGED <<maps, attached, gens>>
  BY DEF Fail, Forget
<1>2. conf # NoConf
  BY ConfEntries, ConfFacts DEF RouteInv
<1>3. Answer' = Answer
  BY <1>1, SameMaps, SameAnswers
<1> QED
  BY <1>1, <1>2, <1>3 DEF S!Abandon

\* A call that fails abandons the attempt, with the answers given so far.
LEMMA FailuresRefine ==
    ASSUME RouteInv,
           \/ HostFault \/ AclFull \/ TxPortsFull \/ WriteBackendFails \/ RetireFails
           \/ PlanEnd /\ alloc_pc # "done"
    PROVE  S!Abandon
<1>1. phase \in Steps
  BY DEF HostFault, AclFull, TxPortsFull, WriteBackendFails, RetireFails, PlanEnd, Steps
<1>2. \E why : Fail(why)
  BY DEF HostFault, AclFull, TxPortsFull, WriteBackendFails, RetireFails, PlanEnd
<1> QED
  BY <1>1, <1>2, FailRefines

\* Steps of reconcile_apply() that touch neither vip_map nor fwd_table.
LEMMA QuietRefines ==
    ASSUME \/ PlanStep \/ (PlanEnd /\ alloc_pc = "done") \/ StaleKeysDone
           \/ WriteConfigUnion \/ WriteConfigBlind
           \/ AclInsert \/ AclDelete \/ AclListDone \/ AclReadCut \/ AddTxPort \/ TxPortsAdded
           \/ WriteBackend \/ BackendsWritten \/ VipWritten \/ VipsWritten
           \/ BlocksReleased \/ RetireSlot \/ RetireDone \/ RemoveTxPort \/ TxPortsRemoved
           \/ TxReadCut \/ UNCHANGED vars
    PROVE  UNCHANGED S!service_vars
<1> USE DEF maps
<1>1. UNCHANGED <<vip_map, fwd_table, conf, gens, attached>>
  <2>1. CASE PlanStep \/ (PlanEnd /\ alloc_pc = "done") \/ StaleKeysDone
    BY <2>1 DEF PlanStep, PlanEnd, StaleKeysDone, Goto
  <2>2. CASE WriteConfigUnion \/ WriteConfigBlind \/ AclInsert \/ AclDelete \/ AclListDone \/ AclReadCut
    BY <2>2 DEF WriteConfigUnion, WriteConfigBlind, write_config, AclInsert, AclDelete, AclListDone,
                AclReadCut, NextList, Stay
  <2>3. CASE AddTxPort \/ TxPortsAdded \/ WriteBackend \/ BackendsWritten
    BY <2>3 DEF AddTxPort, TxPortsAdded, WriteBackend, BackendsWritten, Goto, Stay
  <2>4. CASE VipWritten \/ VipsWritten \/ BlocksReleased
    BY <2>4 DEF VipWritten, VipsWritten, BlocksReleased, Goto
  <2>5. CASE RetireSlot \/ RetireDone \/ RemoveTxPort \/ TxPortsRemoved \/ TxReadCut
    BY <2>5 DEF RetireSlot, RetireDone, RemoveTxPort, TxPortsRemoved, TxReadCut, TxPortsLeft, Goto, Stay
  <2>6. CASE UNCHANGED vars
    BY <2>6 DEF vars
  <2> QED
    BY <2>1, <2>2, <2>3, <2>4, <2>5, <2>6
<1> QED
  BY <1>1, SameAnswers DEF S!service_vars

(***************************************************************************)
(* Map writes.                                                              *)
(***************************************************************************)

\* Within reconcile_apply() an advance is a matter of the answers only.
LEMMA AdvanceIf ==
    ASSUME RouteInv, Stay, phase \in Steps, \A k \in Key : S!Towards(conf, k)
    PROVE  S!Advance
<1>1. UNCHANGED <<conf, gens, attached>>
  BY DEF Stay
<1>2. conf # NoConf
  BY ConfEntries, ConfFacts DEF RouteInv
<1> QED
  BY <1>1, <1>2 DEF S!Advance

\* remove_stale_vip_keys() removes an answer the configuration does not want.
LEMMA DeleteRefines ==
    ASSUME RouteInv, DeleteStaleKey
    PROVE  S!Advance
<1>1. phase \in Steps /\ Stay /\ UNCHANGED fwd_table
  BY DEF DeleteStaleKey, Steps
<1>2. PICK gone \in DOMAIN vip_map \ ConfKeys(conf) :
         vip_map' = Restrict(vip_map, DOMAIN vip_map \ {gone})
  BY DEF DeleteStaleKey, StaleKeys
<1>3. /\ DOMAIN vip_map' = DOMAIN vip_map \ {gone}
      /\ \A k \in DOMAIN vip_map' : vip_map'[k] = vip_map[k]
  BY <1>2 DEF Restrict
<1>4. ASSUME NEW k \in Key PROVE S!Towards(conf, k)
  <2>1. CASE k = gone
    BY <1>2, <1>3, <2>1, WantedNowhere DEF Answer, S!Towards
  <2>2. CASE k # gone
    BY <1>1, <1>3, <2>2 DEF Answer, S!Towards
  <2> QED
    BY <2>1, <2>2
<1> QED
  BY <1>1, <1>4, AdvanceIf

\* write_fwd_block() replaces a row of the keys it belongs to, and of no others.
LEMMA WriteRowRefines ==
    ASSUME RouteInv, WriteRow
    PROVE  S!Advance
<1>1. /\ phase = "vips" /\ index \in DOMAIN order /\ RowsToWrite # {} /\ Stay
      /\ UNCHANGED vip_map /\ phase \in Steps \ {"plan"}
  BY DEF WriteRow, Steps
<1>2. /\ PlanInv /\ ChoiceInv /\ alloc_pc = "done"
      /\ conf \in Confs /\ Entry = DOMAIN conf.vips
      /\ \A e \in Entry : KeysOf(entries, e) = Range(conf.vips[e].keys)
  BY <1>1, StayFixed
<1>3. PICK e \in Entry : e = order[index]
  BY <1>1, <1>2, PlanComplete
<1>4. PICK n \in Num : n = num[e]
  BY <1>2, PlanComplete
<1>5. PICK T \in [Row -> Id \cup {NO_BACKEND}] : T = Table(conf, e)
  BY <1>2, TableRows
<1>6. PICK r : fwd_table' = [fwd_table EXCEPT ![n][r] = T[r]]
  BY <1>3, <1>4, <1>5 DEF WriteRow, ThisEntry
<1>7. /\ fwd_table \in [Num -> [Row -> Id \cup {NO_BACKEND}]]
      /\ vip_map \in [DOMAIN vip_map -> Num] /\ DOMAIN vip_map \subseteq Key
  BY DEF RouteInv, MapTypes
<1>8. /\ \A m \in Num : m # n => fwd_table'[m] = fwd_table[m]
      /\ \A s \in Row : fwd_table'[n][s] = IF s = r THEN T[s] ELSE fwd_table[n][s]
      /\ DOMAIN fwd_table'[n] = Row /\ DOMAIN fwd_table[n] = Row
  BY <1>6, <1>7
<1>9. fwd_table'[n] # Missing /\ fwd_table[n] # Missing
  <2>1. fwd_table[n] \in [Row -> Id \cup {NO_BACKEND}]
    BY <1>7
  <2>2. fwd_table'[n] = [fwd_table[n] EXCEPT ![r] = T[r]]
    BY <1>6, <1>7
  <2>3. fwd_table'[n] \in [Row -> Id \cup {NO_BACKEND}]
    BY <1>8, <2>1, <2>2
  <2> QED
    BY <2>1, <2>3, MissingAssumption
<1>10. ASSUME NEW k \in Key PROVE S!Towards(conf, k)
  <2>1. CASE k \in DOMAIN vip_map /\ vip_map[k] = n
    <3>1. k \in Range(conf.vips[e].keys)
      BY <1>1, <1>2, <1>3, <1>4, <2>1, RowTarget
    <3>2. WantedTable(conf, k) = T /\ WantedTable(conf, k) # Missing
      BY <1>2, <1>5, <3>1, WantedOfEntry
    <3>3. Answer[k] = fwd_table[n] /\ Answer'[k] = fwd_table'[n]
      BY <1>1, <2>1 DEF Answer
    <3>4. \A s \in Row : fwd_table'[n][s] \in {fwd_table[n][s], T[s]}
      BY <1>8
    <3> QED
      BY <1>9, <3>2, <3>3, <3>4 DEF S!Towards
  <2>2. CASE ~(k \in DOMAIN vip_map /\ vip_map[k] = n)
    BY <1>1, <1>7, <1>8, <2>2 DEF Answer, S!Towards
  <2> QED
    BY <2>1, <2>2
<1> QED
  BY <1>1, <1>10, AdvanceIf

\* write_vip() publishes a key with its whole table.
LEMMA PublishRefines ==
    ASSUME RouteInv, PublishKey
    PROVE  S!Advance
<1>1. /\ phase = "vips" /\ index \in DOMAIN order /\ RowsToWrite = {} /\ KeysToPublish # {} /\ Stay
      /\ UNCHANGED fwd_table /\ phase \in Steps \ {"plan"}
  BY DEF PublishKey, Steps
<1>2. /\ PlanInv /\ ChoiceInv /\ alloc_pc = "done"
      /\ conf \in Confs /\ Entry = DOMAIN conf.vips
      /\ \A e \in Entry : KeysOf(entries, e) = Range(conf.vips[e].keys)
  BY <1>1, StayFixed
<1>3. PICK e \in Entry : e = order[index]
  BY <1>1, <1>2, PlanComplete
<1>4. PICK n \in Num : n = num[e]
  BY <1>2, PlanComplete
<1>5. fwd_table[n] = Table(conf, e)
  <2>1. fwd_table \in [Num -> [Row -> Id \cup {NO_BACKEND}]]
    BY DEF RouteInv, MapTypes
  <2>2. Table(conf, e) \in [Row -> Id \cup {NO_BACKEND}]
    BY <1>2, TableRows
  <2>3. \A s \in Row : fwd_table[n][s] = Table(conf, e)[s]
    BY <1>1, <1>3, <1>4 DEF RowsToWrite, WrongRows, ThisEntry
  <2> QED
    BY <2>1, <2>2, <2>3
<1>6. Min(KeysToPublish) \in DOMAIN entries[e]
  <2>1. KeysToPublish \subseteq DOMAIN entries[e] /\ entries[e] \in Seq(Key)
    BY <1>2, <1>3, EntryIndexes DEF KeysToPublish, ThisEntry, PlanInv
  <2>2. KeysToPublish \subseteq Nat
    BY <2>1
  <2> QED
    BY <1>1, <2>1, <2>2, MinIn
<1>7. PICK key \in KeysOf(entries, e) : key = entries[e][Min(KeysToPublish)]
  BY <1>6 DEF KeysOf, Range
<1>8. vip_map' = [k \in DOMAIN vip_map \cup {key} |-> IF k = key THEN n ELSE vip_map[k]]
  BY <1>3, <1>4, <1>7 DEF PublishKey, ThisEntry
<1>9. ASSUME NEW k \in Key PROVE S!Towards(conf, k)
  <2>1. CASE k = key
    <3>1. WantedTable(conf, k) = Table(conf, e)
      BY <1>2, <1>7, <2>1, WantedOfEntry
    <3> QED
      BY <1>1, <1>5, <1>8, <2>1, <3>1 DEF Answer, S!Towards
  <2>2. CASE k # key
    BY <1>1, <1>8, <2>2 DEF Answer, S!Towards
  <2> QED
    BY <2>1, <2>2
<1> QED
  BY <1>1, <1>9, AdvanceIf

\* release_stale_vip_blocks() zeroes rows that are nobody's answer.
LEMMA ZeroRowRefines ==
    ASSUME RouteInv, ZeroRow
    PROVE  S!Advance
<1>1. /\ phase = "release" /\ ToZero # {} /\ Stay /\ UNCHANGED vip_map
      /\ phase \in Steps \ {"plan"} /\ phase \in AfterVips
  BY DEF ZeroRow, Steps, FromVips, AfterVips
<1>2. PlanInv /\ ChoiceInv /\ alloc_pc = "done"
  BY <1>1, StayFixed
<1>3. PICK n \in Num : n = Min(ToZero) /\ n \notin Used
  <2>1. ToZero \subseteq Num
    BY <1>2 DEF ToZero, Release, PlanInv, AllocTypeOK
  <2>2. Min(ToZero) \in ToZero
    BY <1>1, <2>1, RowTypes, MinIn
  <2> QED
    BY <2>1, <2>2 DEF ToZero, Release
<1>4. \E r : fwd_table' = [fwd_table EXCEPT ![n][r] = NO_BACKEND]
  BY <1>3 DEF ZeroRow
<1>5. \A m \in Num : m # n => fwd_table'[m] = fwd_table[m]
  BY <1>4 DEF RouteInv, MapTypes
<1>6. ASSUME NEW k \in Key PROVE S!Towards(conf, k)
  <2>1. CASE k \in DOMAIN vip_map
    <3>1. PICK e \in Entry : vip_map[k] = num[e]
      BY <1>1, <2>1, AllWritten
    <3>2. num[e] \in Num /\ num[e] # n
      BY <1>2, <1>3, PlanComplete DEF Used
    <3> QED
      BY <1>1, <1>5, <3>1, <3>2 DEF Answer, S!Towards
  <2>2. CASE k \notin DOMAIN vip_map
    BY <1>1, <2>2 DEF Answer, S!Towards
  <2> QED
    BY <2>1, <2>2
<1> QED
  BY <1>1, <1>6, AdvanceIf

\* reconcile_apply() returns true: every answer is the wanted one.
LEMMA NarrowRefines ==
    ASSUME RouteInv, WriteConfigNarrow
    PROVE  S!Complete
<1>1. /\ phase = "narrow" /\ phase \in Steps /\ phase \in AfterVips
      /\ conf' = NoConf /\ gens' = {conf} /\ UNCHANGED <<vip_map, fwd_table, attached>>
  BY DEF WriteConfigNarrow, write_config, Forget, Steps, AfterVips, FromVips
<1>2. PICK c \in Confs : c = conf
  BY <1>1, AllWritten
<1>3. c # NoConf /\ DOMAIN vip_map = ConfKeys(c) /\ Entry = DOMAIN c.vips
  BY <1>1, <1>2, AllWritten, ConfEntries, ConfFacts DEF RouteInv
<1>4. \A e \in DOMAIN c.vips : \A k \in Range(c.vips[e].keys) : fwd_table[vip_map[k]] = Table(c, e)
  BY <1>1, <1>2, <1>3, AllWritten
<1>5. \A k \in Key : Answer[k] = WantedTable(c, k)
  BY <1>3, <1>4, AppliedAnswers
<1>6. Answer' = Answer
  BY <1>1, SameAnswers
<1> QED
  BY <1>1, <1>2, <1>3, <1>5, <1>6 DEF S!Complete

(***************************************************************************)
(* The theorem.                                                             *)
(***************************************************************************)

\* Every step of Reconcile is a step of Service or changes nothing of it.
LEMMA StepRefines ==
    ASSUME RouteInv, [Next]_vars
    PROVE  [S!ServiceNext]_(S!service_vars)
<1>1. CASE \/ \E c \in Confs : Startup(c) \/ Reload(c)
           \/ Attach \/ Stop \/ Kill \/ Unpin
  BY <1>1, ProcessRefines
<1>2. CASE \/ HostFault \/ AclFull \/ TxPortsFull \/ WriteBackendFails \/ RetireFails
           \/ PlanEnd /\ alloc_pc # "done"
  BY <1>2, FailuresRefine DEF S!ServiceNext
<1>3. CASE \/ PlanStep \/ (PlanEnd /\ alloc_pc = "done") \/ StaleKeysDone
           \/ WriteConfigUnion \/ WriteConfigBlind
           \/ AclInsert \/ AclDelete \/ AclListDone \/ AclReadCut \/ AddTxPort \/ TxPortsAdded
           \/ WriteBackend \/ BackendsWritten \/ VipWritten \/ VipsWritten
           \/ BlocksReleased \/ RetireSlot \/ RetireDone \/ RemoveTxPort \/ TxPortsRemoved
           \/ TxReadCut \/ UNCHANGED vars
  BY <1>3, QuietRefines
<1>4. CASE DeleteStaleKey \/ WriteRow \/ PublishKey \/ ZeroRow
  BY <1>4, DeleteRefines, WriteRowRefines, PublishRefines, ZeroRowRefines DEF S!ServiceNext
<1>5. CASE WriteConfigNarrow
  BY <1>5, NarrowRefines DEF S!ServiceNext
<1> QED
  BY <1>1, <1>2, <1>3, <1>4, <1>5 DEF Next, ReconcileStep, Swallowed

\* reconcile.c, vip_alloc.c and cmd_attach.c implement Service: while a
\* configuration is applied every key's table only moves towards the one it wants,
\* success is reported only when all have arrived, and packets are let in only
\* after that; for any configurations, blocks, rows, failures and kills.
THEOREM ReconcileImplementsService == Spec => ImplementsService
<1>1. Init => S!ServiceInit
  BY DEF Init, S!ServiceInit, Answer
<1>2. RouteInv /\ [Next]_vars => [S!ServiceNext]_(S!service_vars)
  BY StepRefines
<1> QED
  BY <1>1, <1>2, RoutingInvariant, PTL DEF Spec, ImplementsService, S!ServiceSpec
=============================================================================
