----------------------------- MODULE Reconcile ------------------------------
(***************************************************************************)
(* File-managed configuration: marlind applying a configuration to the      *)
(* pinned BPF maps (marlind/reconcile.c) at startup and on SIGHUP           *)
(* (marlind/cmd_attach.c), while the datapath reads those maps.             *)
(*                                                                         *)
(* reconcile_apply() is a sequence of map system calls, none of them atomic *)
(* with the next: every intermediate state is visible to packets, any call  *)
(* can fail, and the process can be killed between any two of them, leaving *)
(* the maps a mix of several configurations for the next reload or the next *)
(* process to start from.  So every map write is an action of its own.      *)
(*                                                                         *)
(* A write that stores the value already there changes nothing and is left  *)
(* out.  The loops over backends, ACL rules and ports follow the order of   *)
(* the file or of the kernel's key iteration; here they take any order.     *)
(***************************************************************************)
EXTENDS VipAlloc, FwdGen

CONSTANTS
    Confs,        \* configurations conf_load() accepts
    Id,           \* backend ids, 1 .. MAX_BACKENDS - 1
    Rule,         \* ACL prefixes
    Port,         \* interfaces of tx_ports
    MaxAcl,       \* MAX_ACL_ENTRIES: capacity of one ACL trie
    MaxTxPorts,   \* MAX_TX_PORTS: capacity of tx_ports
    MaxFaults,    \* bound: failing system calls and kills in one behaviour
    NoConf        \* cfg->file of a process that is not running

\* The four tries in the order reconcile_apply() takes them.
AclList == <<"allow_v4", "block_v4", "allow_v6", "block_v6">>

Lists == Range(AclList)

\* A backend slot: identity stands for addr, mode, encap_dport, vni, inner_mac, and
\* up for the state bit MARLIN_BE_F_STATE.
Slots == [ident : Nat, mac : Nat, encap : BOOLEAN, up : BOOLEAN]

Zeroed == [ident |-> 0, mac |-> 0, encap |-> FALSE, up |-> FALSE]

\* instance.max_frame: not stated, stated as 0 or stated as something else.
MaxFrames == {"derived", "zero", "nonzero"}

EntryKeys(c) == [e \in DOMAIN c.vips |-> c.vips[e].keys]

ConfKeys(c) == UNION {Range(c.vips[e].keys) : e \in DOMAIN c.vips}

(***************************************************************************)
(* What conf_check() guarantees of a configuration (marlind/conf_check.c).  *)
(***************************************************************************)
ValidBackends(c) ==
    /\ DOMAIN c.backends \subseteq Id
    /\ \A id \in DOMAIN c.backends :
          /\ c.backends[id].slot \in Slots /\ c.backends[id].slot # Zeroed
          /\ c.backends[id].egress \in BOOLEAN

\* Keys are unique and fit vip_map, members are backends of the file.
ValidVips(c) ==
    /\ EntryKeys(c) \in EntryLists
    /\ Cardinality(ConfKeys(c)) <= MaxVips
    /\ \A e \in DOMAIN c.vips :
          /\ c.vips[e].keys # <<>>
          /\ c.vips[e].members \in Seq([id : DOMAIN c.backends, weight : Nat \ {0}])

ValidAcl(c) ==
    c.acl \in [Lists -> SUBSET Rule] /\ \A l \in Lists : Cardinality(c.acl[l]) <= MaxAcl

ValidConf(c) ==
    /\ ValidBackends(c) /\ ValidVips(c) /\ ValidAcl(c)
    /\ c.tx_ports \subseteq Port /\ Cardinality(c.tx_ports) <= MaxTxPorts
    /\ c.max_frame \in MaxFrames

ASSUME ReconcileAssumption ==
    /\ \A c \in Confs : ValidConf(c)
    /\ Id \subseteq Nat \ {0}
    /\ MaxAcl \in Nat /\ MaxTxPorts \in Nat /\ MaxFaults \in Nat
    /\ TableSize \in Nat \ {0}
    /\ NoConf \notin Confs

VARIABLES
    vip_map,      \* key -> vip_num
    fwd_table,    \* vip_num -> row -> backend id
    backends,     \* id -> slot
    acl_trie,     \* list -> rules present
    config,       \* config[0]: acl_lists, and whether max_frame is non-zero
    tx_ports,     \* ports present
    phase,        \* where the process is in cmd_attach() and reconcile_apply()
    mode,         \* "startup" or "reload": who called reconcile_apply()
    conf,         \* its argument
    file,         \* cfg->file, the configuration reloads are compared with
    index,        \* the ACL list or the position in write_order being worked on
    attached,     \* the XDP link is up: packets read the maps
    diag,         \* what the last failed reconcile_apply() reported
    faults,       \* failing calls and kills so far
    gens,         \* history: configurations the maps may be a mix of
    overlooked    \* history: ACL lists, or "tx_ports", whose reconciliation an
                  \* unreported read error cut short

maps == <<vip_map, fwd_table, backends, acl_trie, config, tx_ports>>

vars == <<alloc_vars, maps, phase, mode, conf, file, index, attached, diag, faults, gens, overlooked>>

Steps == {"plan", "stale_keys", "config", "acl", "tx_add", "backends", "vips",
          "release", "retire", "tx_del", "narrow"}

Working == Steps \cup {"attach"}

(***************************************************************************)
(* Values derived from a configuration.                                     *)
(***************************************************************************)

\* write_vip(): the members of an entry with the identities of its backends.
Members(c, e) ==
    [i \in DOMAIN c.vips[e].members |->
        [id     |-> c.vips[e].members[i].id,
         weight |-> c.vips[e].members[i].weight,
         ident  |-> c.backends[c.vips[e].members[i].id].slot.ident]]

Table(c, e) == fwd_gen_block(Members(c, e))

\* acl_lists_bits().
acl_lists_bits(c) == {l \in Lists : c.acl[l] # {}}

any_backend_encapsulates(c) == \E id \in DOMAIN c.backends : c.backends[id].slot.encap

\* conf_check_against_previous(): no backend changes identity under its id.
\* The restart-only keys (interface, object, pin_dir) are the same in all Confs.
conf_check_against_previous(c, prev) ==
    \A id \in DOMAIN c.backends \cap DOMAIN prev.backends :
        /\ c.backends[id].slot.ident = prev.backends[id].slot.ident
        /\ c.backends[id].slot.encap = prev.backends[id].slot.encap

(***************************************************************************)
(* Starting and leaving reconcile_apply().                                  *)
(***************************************************************************)

\* reconcile_apply(c) is entered: maps are opened, vip_map is read back and
\* vip_alloc() starts on it.
Begin(c, m) ==
    /\ AllocStart(EntryKeys(c), vip_map)
    /\ phase' = "plan"
    /\ mode' = m
    /\ conf' = c
    /\ index' = 1
    /\ gens' = gens \cup {c}

\* The locals of reconcile_apply() are gone.
Forget ==
    /\ entries' = <<>> /\ baseline' = <<>> /\ num' = <<>> /\ refs' = <<>>
    /\ order' = <<>> /\ seen' = {} /\ cursor' = 1 /\ alloc_pc' = "idle"
    /\ mode' = "none" /\ conf' = NoConf /\ index' = 1

\* reconcile_apply() returns false.  At startup the process exits; a reload
\* keeps the datapath attached, the maps as they are and cfg->file unchanged.
Fail(why) ==
    /\ Forget
    /\ diag' = why
    /\ phase' = IF mode = "startup" THEN "down" ELSE "run"
    /\ file' = IF mode = "startup" THEN NoConf ELSE file
    /\ UNCHANGED <<maps, attached, gens, overlooked>>

Goto(p) ==
    /\ phase' = p
    /\ index' = 1
    /\ UNCHANGED <<alloc_vars, mode, conf, file, attached, diag, faults, gens, overlooked>>

\* A step of the current loop: control stays where it is.
Stay == UNCHANGED <<alloc_vars, phase, mode, conf, file, index, attached, diag, faults, gens, overlooked>>

(***************************************************************************)
(* cmd_attach(): startup, reload, stop; kills; --unpin.                     *)
(***************************************************************************)

\* load_config() and reconcile_startup() on whatever the pinned maps hold.
Startup(c) ==
    /\ phase = "down"
    /\ Begin(c, "startup")
    /\ file' = c
    /\ UNCHANGED <<maps, attached, diag, faults, overlooked>>

\* handle_reload(): a file that fails a check changes nothing.
Reload(c) ==
    /\ phase = "run"
    /\ conf_check_against_previous(c, file)
    /\ Begin(c, "reload")
    /\ UNCHANGED <<maps, file, attached, diag, faults, overlooked>>

\* pin_program() and attach_link() after a successful reconcile_startup().
Attach ==
    /\ phase = "attach"
    /\ phase' = "run"
    /\ attached' = TRUE
    /\ UNCHANGED <<alloc_vars, maps, mode, conf, file, index, diag, faults, gens, overlooked>>

\* SIGTERM, taken by the event loop only: the link is closed, the pins stay.
Stop ==
    /\ phase = "run"
    /\ phase' = "down"
    /\ attached' = FALSE
    /\ file' = NoConf
    /\ UNCHANGED <<alloc_vars, maps, mode, conf, index, diag, faults, gens, overlooked>>

\* The process is killed at any point, or dies of a failed pin_program() or
\* attach_link(); the kernel closes its link.
Kill ==
    /\ phase # "down"
    /\ faults < MaxFaults
    /\ faults' = faults + 1
    /\ Forget
    /\ phase' = "down"
    /\ attached' = FALSE
    /\ file' = NoConf
    /\ UNCHANGED <<maps, diag, gens, overlooked>>

\* Freshly created maps.
EmptyTable == [n \in Num |-> [r \in Row |-> NO_BACKEND]]
EmptyBackends == [id \in Id |-> Zeroed]
EmptyTries == [l \in Lists |-> {}]
EmptyConfig == [acl_lists |-> {}, max_frame |-> FALSE]

\* --unpin of an instance that is not attached: the next start has fresh maps.
Unpin ==
    /\ phase = "down"
    /\ vip_map' = <<>> /\ fwd_table' = EmptyTable /\ backends' = EmptyBackends
    /\ acl_trie' = EmptyTries /\ config' = EmptyConfig /\ tx_ports' = {}
    /\ gens' = {} /\ overlooked' = {}
    /\ UNCHANGED <<alloc_vars, phase, mode, conf, file, index, attached, diag, faults>>

\* A map call, allocation or ioctl of reconcile_apply() fails and is reported.
HostFault ==
    /\ phase \in Steps
    /\ faults < MaxFaults
    /\ faults' = faults + 1
    /\ Fail("host")

(***************************************************************************)
(* reconcile_apply(), step by step.                                         *)
(***************************************************************************)

\* allocate_vip_nums(): vip_alloc() runs; its failure precedes any write.
PlanStep ==
    /\ phase = "plan"
    /\ AllocNext
    /\ UNCHANGED <<maps, phase, mode, conf, file, index, attached, diag, faults, gens, overlooked>>

PlanEnd ==
    /\ phase = "plan"
    /\ alloc_pc \in {"done", "failed", "refused"}
    /\ IF alloc_pc = "done"
       THEN Goto("stale_keys") /\ UNCHANGED maps
       ELSE Fail("plan") /\ UNCHANGED faults

\* remove_stale_vip_keys().
StaleKeys == DOMAIN vip_map \ ConfKeys(conf)

DeleteStaleKey ==
    /\ phase = "stale_keys"
    /\ \E k \in StaleKeys : vip_map' = Restrict(vip_map, DOMAIN vip_map \ {k})
    /\ UNCHANGED <<fwd_table, backends, acl_trie, config, tx_ports>>
    /\ Stay

\* Mutated form of StaleKeysDone: stale keys are left for later.
StaleKeysSkipped ==
    /\ phase = "stale_keys"
    /\ Goto("config")
    /\ UNCHANGED maps

StaleKeysDone ==
    /\ phase = "stale_keys"
    /\ StaleKeys = {}
    /\ Goto("config")
    /\ UNCHANGED maps

\* write_config(): max_frame is stated in the file, 0 included, or derived from the
\* MTU; a failing derivation writes 0 unless some backend encapsulates.
\* errors counts the read errors that went before.
write_config(lists, errors) ==
    /\ \E works \in BOOLEAN :
          LET cost == errors + (IF works THEN 0 ELSE 1) IN
          /\ ~works => conf.max_frame = "derived" /\ ~any_backend_encapsulates(conf)
          /\ faults + cost <= MaxFaults
          /\ faults' = faults + cost
          /\ config' = [acl_lists |-> lists, max_frame |-> works /\ conf.max_frame # "zero"]
    /\ UNCHANGED <<vip_map, fwd_table, backends, acl_trie, tx_ports>>

\* Mutated form of WriteConfigUnion: only the new population's bits.
WriteConfigFinal ==
    /\ phase = "config"
    /\ write_config(acl_lists_bits(conf), 0)
    /\ phase' = "acl"
    /\ index' = 1
    /\ UNCHANGED <<alloc_vars, mode, conf, file, attached, diag, gens, overlooked>>

\* The bits of both populations, before any trie is touched.
WriteConfigUnion ==
    /\ phase = "config"
    /\ write_config(config.acl_lists \cup acl_lists_bits(conf), 0)
    /\ phase' = "acl"
    /\ index' = 1
    /\ UNCHANGED <<alloc_vars, mode, conf, file, attached, diag, gens, overlooked>>

\* The same when read_old_acl_lists() fails: its error is discarded and the old
\* population's bits are taken as none, which uncovers its tries.
WriteConfigBlind ==
    /\ phase = "config"
    /\ write_config(acl_lists_bits(conf), 1)
    /\ overlooked' = overlooked \cup (config.acl_lists \ acl_lists_bits(conf))
    /\ phase' = "acl"
    /\ index' = 1
    /\ UNCHANGED <<alloc_vars, mode, conf, file, attached, diag, gens>>

\* reconcile_acl_v4() and reconcile_acl_v6(): insert what is wanted, then
\* delete what is not.
ThisList == AclList[index]

AclInsert ==
    /\ phase = "acl"
    /\ Cardinality(acl_trie[ThisList]) < MaxAcl
    /\ \E r \in conf.acl[ThisList] \ acl_trie[ThisList] :
          acl_trie' = [acl_trie EXCEPT ![ThisList] = @ \cup {r}]
    /\ UNCHANGED <<vip_map, fwd_table, backends, config, tx_ports>>
    /\ Stay

\* The trie is full of old rules and new ones at once.
AclFull ==
    /\ phase = "acl"
    /\ conf.acl[ThisList] \ acl_trie[ThisList] # {}
    /\ Cardinality(acl_trie[ThisList]) >= MaxAcl
    /\ Fail("acl_full")
    /\ UNCHANGED faults

\* Mutated form of AclDelete: the trie is emptied before it is filled.
AclDeleteFirst ==
    /\ phase = "acl"
    /\ acl_trie[ThisList] # conf.acl[ThisList]
    /\ \E r \in acl_trie[ThisList] : acl_trie' = [acl_trie EXCEPT ![ThisList] = @ \ {r}]
    /\ UNCHANGED <<vip_map, fwd_table, backends, config, tx_ports>>
    /\ Stay

AclDelete ==
    /\ phase = "acl"
    /\ conf.acl[ThisList] \subseteq acl_trie[ThisList]
    /\ \E r \in acl_trie[ThisList] \ conf.acl[ThisList] :
          acl_trie' = [acl_trie EXCEPT ![ThisList] = @ \ {r}]
    /\ UNCHANGED <<vip_map, fwd_table, backends, config, tx_ports>>
    /\ Stay

\* The next of the four lists, or the next step after the last.
NextList ==
    /\ index' = IF index < Len(AclList) THEN index + 1 ELSE 1
    /\ phase' = IF index < Len(AclList) THEN "acl" ELSE "tx_add"
    /\ UNCHANGED <<alloc_vars, maps, mode, conf, file, attached, diag, gens>>

\* Mutated form of AclListDone: unwanted rules may stay.
AclListDoneEarly ==
    /\ phase = "acl"
    /\ conf.acl[ThisList] \subseteq acl_trie[ThisList]
    /\ NextList
    /\ overlooked' = overlooked \ {ThisList}
    /\ UNCHANGED faults

\* Mutated form of AclListDone: the lists are gone through again and again.
AclListsForEver ==
    /\ phase = "acl"
    /\ acl_trie[ThisList] = conf.acl[ThisList]
    /\ index' = IF index < Len(AclList) THEN index + 1 ELSE 1
    /\ overlooked' = overlooked \ {ThisList}
    /\ UNCHANGED <<alloc_vars, maps, phase, mode, conf, file, attached, diag, faults, gens>>

AclListDone ==
    /\ phase = "acl"
    /\ acl_trie[ThisList] = conf.acl[ThisList]
    /\ NextList
    /\ overlooked' = overlooked \ {ThisList}
    /\ UNCHANGED faults

\* Any error of bpf_map_get_next_key() is taken for the end of the trie: rules that
\* were not read are not deleted, and the list counts as done.
AclReadCut ==
    /\ phase = "acl"
    /\ faults < MaxFaults
    /\ faults' = faults + 1
    /\ conf.acl[ThisList] \subseteq acl_trie[ThisList]
    /\ acl_trie[ThisList] # conf.acl[ThisList]
    /\ NextList
    /\ overlooked' = overlooked \cup {ThisList}

\* add_tx_ports(), the interfaces having been resolved.
AddTxPort ==
    /\ phase = "tx_add"
    /\ Cardinality(tx_ports) < MaxTxPorts
    /\ \E p \in conf.tx_ports \ tx_ports : tx_ports' = tx_ports \cup {p}
    /\ UNCHANGED <<vip_map, fwd_table, backends, acl_trie, config>>
    /\ Stay

TxPortsFull ==
    /\ phase = "tx_add"
    /\ conf.tx_ports \ tx_ports # {}
    /\ Cardinality(tx_ports) >= MaxTxPorts
    /\ Fail("tx_full")
    /\ UNCHANGED faults

TxPortsAdded ==
    /\ phase = "tx_add"
    /\ conf.tx_ports \subseteq tx_ports
    /\ Goto("backends")
    /\ UNCHANGED maps

\* write_backends(): the key argument is the address of the 16-bit id, but the
\* map's key is 32 bits wide and the next field is the egress name, so the slot
\* of a backend that states an egress is never found.
KeyReadsAsId(id) == ~conf.backends[id].egress

WriteBackend ==
    /\ phase = "backends"
    /\ \E id \in DOMAIN conf.backends :
          /\ KeyReadsAsId(id)
          /\ backends[id] # conf.backends[id].slot
          /\ backends' = [backends EXCEPT ![id] = conf.backends[id].slot]
    /\ UNCHANGED <<vip_map, fwd_table, acl_trie, config, tx_ports>>
    /\ Stay

WriteBackendFails ==
    /\ phase = "backends"
    /\ \E id \in DOMAIN conf.backends : ~KeyReadsAsId(id)
    /\ Fail("backends")
    /\ UNCHANGED faults

\* Mutated form of BackendsWritten: tables may be written before the slots.
BackendsNotAwaited ==
    /\ phase = "backends"
    /\ Goto("vips")
    /\ UNCHANGED maps

BackendsWritten ==
    /\ phase = "backends"
    /\ \A id \in DOMAIN conf.backends : KeyReadsAsId(id) /\ backends[id] = conf.backends[id].slot
    /\ Goto("vips")
    /\ UNCHANGED maps

\* write_vip() of the entry at this position of write_order: the rows of its
\* block one by one, then its keys one by one.
ThisEntry == order[index]

WrongRows(n, table) == {r \in Row : fwd_table[n][r] # table[r]}

RowsToWrite == WrongRows(num[ThisEntry], Table(conf, ThisEntry))

KeysToPublish ==
    {j \in DOMAIN entries[ThisEntry] :
        LET k == entries[ThisEntry][j] IN k \notin DOMAIN vip_map \/ vip_map[k] # num[ThisEntry]}

WriteRow ==
    /\ phase = "vips" /\ index \in DOMAIN order
    /\ RowsToWrite # {}
    /\ LET r == Min(RowsToWrite) IN
       fwd_table' = [fwd_table EXCEPT ![num[ThisEntry]][r] = Table(conf, ThisEntry)[r]]
    /\ UNCHANGED <<vip_map, backends, acl_trie, config, tx_ports>>
    /\ Stay

\* Mutated form of PublishKey: keys may lead to a block that is not yet written.
PublishKeyEarly ==
    /\ phase = "vips" /\ index \in DOMAIN order
    /\ KeysToPublish # {}
    /\ LET key == entries[ThisEntry][Min(KeysToPublish)] IN
       vip_map' = [k \in DOMAIN vip_map \cup {key} |->
                      IF k = key THEN num[ThisEntry] ELSE vip_map[k]]
    /\ UNCHANGED <<fwd_table, backends, acl_trie, config, tx_ports>>
    /\ Stay

PublishKey ==
    /\ phase = "vips" /\ index \in DOMAIN order
    /\ RowsToWrite = {}
    /\ KeysToPublish # {}
    /\ LET key == entries[ThisEntry][Min(KeysToPublish)] IN
       vip_map' = [k \in DOMAIN vip_map \cup {key} |->
                      IF k = key THEN num[ThisEntry] ELSE vip_map[k]]
    /\ UNCHANGED <<fwd_table, backends, acl_trie, config, tx_ports>>
    /\ Stay

VipWritten ==
    /\ phase = "vips" /\ index \in DOMAIN order
    /\ RowsToWrite = {} /\ KeysToPublish = {}
    /\ index' = index + 1
    /\ UNCHANGED <<alloc_vars, maps, phase, mode, conf, file, attached, diag, faults, gens, overlooked>>

VipsWritten ==
    /\ phase = "vips" /\ index \notin DOMAIN order
    /\ Goto("release")
    /\ UNCHANGED maps

\* release_stale_vip_blocks(): zero_fwd_block() of every released block.
ToZero == {n \in Release : WrongRows(n, [r \in Row |-> NO_BACKEND]) # {}}

\* Mutated form of ZeroRow: released rows are filled with ones instead of zeros.
FillRow ==
    /\ phase = "release"
    /\ ToZero # {}
    /\ LET n == Min(ToZero)
           r == Min(WrongRows(n, [s \in Row |-> NO_BACKEND]))
       IN fwd_table' = [fwd_table EXCEPT ![n][r] = 65535]
    /\ UNCHANGED <<vip_map, backends, acl_trie, config, tx_ports>>
    /\ Stay

ZeroRow ==
    /\ phase = "release"
    /\ ToZero # {}
    /\ LET n == Min(ToZero)
           r == Min(WrongRows(n, [s \in Row |-> NO_BACKEND]))
       IN fwd_table' = [fwd_table EXCEPT ![n][r] = NO_BACKEND]
    /\ UNCHANGED <<vip_map, backends, acl_trie, config, tx_ports>>
    /\ Stay

BlocksReleased ==
    /\ phase = "release"
    /\ ToZero = {}
    /\ Goto("retire")
    /\ UNCHANGED maps

\* retire_stale_backends() passes the address of a 16-bit local as a 32-bit key:
\* the upper half is whatever the stack holds next to it at each call.  A slot
\* is found and zeroed, or not found and skipped, or found by the lookup and
\* then missed by the update, which fails the reconcile.
StaleSlots == {id \in Id \ DOMAIN conf.backends : backends[id] # Zeroed}

RetireSlot ==
    /\ phase = "retire"
    /\ \E id \in StaleSlots : backends' = [backends EXCEPT ![id] = Zeroed]
    /\ UNCHANGED <<vip_map, fwd_table, acl_trie, config, tx_ports>>
    /\ Stay

RetireFails ==
    /\ phase = "retire"
    /\ StaleSlots # {}
    /\ Fail("retire")
    /\ UNCHANGED faults

RetireDone ==
    /\ phase = "retire"
    /\ Goto("tx_del")
    /\ UNCHANGED maps

\* remove_stale_tx_ports().
RemoveTxPort ==
    /\ phase = "tx_del"
    /\ \E p \in tx_ports \ conf.tx_ports : tx_ports' = tx_ports \ {p}
    /\ UNCHANGED <<vip_map, fwd_table, backends, acl_trie, config>>
    /\ Stay

TxPortsLeft ==
    /\ phase' = "narrow"
    /\ index' = 1
    /\ UNCHANGED <<alloc_vars, maps, mode, conf, file, attached, diag, gens>>

TxPortsRemoved ==
    /\ phase = "tx_del"
    /\ tx_ports \subseteq conf.tx_ports
    /\ TxPortsLeft
    /\ overlooked' = overlooked \ {"tx_ports"}
    /\ UNCHANGED faults

\* The error of bpf_map_get_next_key() is taken for the end of tx_ports.
TxReadCut ==
    /\ phase = "tx_del"
    /\ faults < MaxFaults
    /\ faults' = faults + 1
    /\ ~(tx_ports \subseteq conf.tx_ports)
    /\ TxPortsLeft
    /\ overlooked' = overlooked \cup {"tx_ports"}

\* The last write_config(), and the return to the caller: a startup goes on to
\* attach, a reload makes the new configuration cfg->file.
WriteConfigNarrow ==
    /\ phase = "narrow"
    /\ write_config(acl_lists_bits(conf), 0)
    /\ Forget
    /\ phase' = IF mode = "startup" THEN "attach" ELSE "run"
    /\ file' = conf
    /\ gens' = {conf}
    /\ diag' = "none"
    /\ UNCHANGED <<attached, overlooked>>

ReconcileStep ==
    \/ PlanStep \/ PlanEnd \/ DeleteStaleKey \/ StaleKeysDone \/ WriteConfigUnion
    \/ AclInsert \/ AclFull \/ AclDelete \/ AclListDone
    \/ AddTxPort \/ TxPortsFull \/ TxPortsAdded
    \/ WriteBackend \/ WriteBackendFails \/ BackendsWritten
    \/ WriteRow \/ PublishKey \/ VipWritten \/ VipsWritten
    \/ ZeroRow \/ BlocksReleased \/ RetireSlot \/ RetireFails \/ RetireDone
    \/ RemoveTxPort \/ TxPortsRemoved \/ WriteConfigNarrow

Init ==
    /\ AllocInit
    /\ vip_map = <<>> /\ fwd_table = EmptyTable /\ backends = EmptyBackends
    /\ acl_trie = EmptyTries /\ config = EmptyConfig /\ tx_ports = {}
    /\ phase = "down" /\ mode = "none" /\ conf = NoConf /\ file = NoConf /\ index = 1
    /\ attached = FALSE /\ diag = "none" /\ faults = 0 /\ gens = {} /\ overlooked = {}

\* Read errors reconcile_apply() goes on after.
Swallowed == WriteConfigBlind \/ AclReadCut \/ TxReadCut

Next ==
    \/ \E c \in Confs : Startup(c) \/ Reload(c)
    \/ Attach \/ Stop \/ Kill \/ Unpin \/ HostFault
    \/ ReconcileStep \/ Swallowed

\* A process inside reconcile_apply() keeps running unless it is killed.
Spec == Init /\ [][Next]_vars /\ WF_vars(ReconcileStep) /\ WF_vars(Attach)

(***************************************************************************)
(* Properties.                                                              *)
(***************************************************************************)

\* Every map holds values its kernel definition and marlind's writes allow: blocks
\* that exist, rows that are ids or NO_BACKEND, slots some configuration states.
TypeOK ==
    /\ vip_map \in [DOMAIN vip_map -> Num] /\ DOMAIN vip_map \subseteq Key
    /\ fwd_table \in [Num -> [Row -> Id \cup {NO_BACKEND}]]
    /\ \A id \in Id : backends[id] \in {Zeroed} \cup {c.backends[id].slot : c \in {d \in Confs : id \in DOMAIN d.backends}}
    /\ acl_trie \in [Lists -> SUBSET Rule]
    /\ config.acl_lists \subseteq Lists /\ config.max_frame \in BOOLEAN
    /\ tx_ports \subseteq Port
    /\ phase \in Working \cup {"down", "run"}
    /\ mode \in {"none", "startup", "reload"}
    /\ conf \in Confs \cup {NoConf} /\ file \in Confs \cup {NoConf}
    /\ index \in 1 .. (MaxVips + Len(AclList) + 1)
    /\ attached \in BOOLEAN
    /\ faults \in 0 .. MaxFaults
    /\ gens \subseteq Confs
    /\ overlooked \subseteq Lists \cup {"tx_ports"}

\* The tables key k has in the configurations the maps may be a mix of.
TablesOf(k) ==
    UNION {{Table(c, e) : e \in {f \in DOMAIN c.vips : k \in Range(c.vips[f].keys)}} : c \in gens}

\* docs/design/31 s.8: without the write order "a VIP moved between blocks forwards
\* into another VIP's member set".  Whatever a reload, a failed call or a kill has
\* left in the maps, a row reached from a key is that row of a table generated for
\* that very key by a configuration applied since the last complete one; in
\* particular it is never a released (zero) row.
NoMisroute ==
    \A k \in DOMAIN vip_map : \A r \in Row :
        \E t \in TablesOf(k) : fwd_table[vip_map[k]][r] = t[r]

\* docs/design/12, write ordering: a backend slot is populated before a row refers
\* to it and zeroed only after no row does.  No packet is steered by a row to a
\* slot that was never written or already retired.
RowsPopulated ==
    \A k \in DOMAIN vip_map : \A r \in Row :
        LET id == fwd_table[vip_map[k]][r] IN id # NO_BACKEND => backends[id] # Zeroed

\* docs/design/31 s.8: "a bit is never clear while its trie is non-empty".  A clear
\* bit makes the datapath skip the trie, so a rule that is present is enforced
\* through every step of every reload, failed, killed or retried.  The code keeps
\* this except where it took a failing read for an empty bit field or for the end of
\* a trie; such a list is back under the rule as soon as one reconciliation of it
\* reads its trie to the end, whatever happened in between.
AclBitCovers == \A l \in Lists \ overlooked : acl_trie[l] # {} => l \in config.acl_lists

\* Stale keys are deleted before new ones are published, so vip_map (a hash of
\* MAX_VIPS rows) never has to hold two configurations at once.
VipMapFits == Cardinality(DOMAIN vip_map) <= MaxVips

\* What every configuration involved agrees on is not disturbed: while packets are
\* being forwarded, a key, an ACL rule or a port that the last complete
\* configuration and every one attempted since all contain stays in place.
KeptStays ==
    attached =>
        /\ \A k \in Key : (\A c \in gens : k \in ConfKeys(c)) => k \in DOMAIN vip_map
        /\ \A l \in Lists, r \in Rule :
              (\A c \in gens : r \in c.acl[l]) => r \in acl_trie[l] /\ l \in config.acl_lists
        /\ \A p \in Port : (\A c \in gens : p \in c.tx_ports) => p \in tx_ports

\* A reload that succeeds has applied its configuration completely, however mixed
\* the maps were when it began ("a retry plans from the actual maps", docs/design/31
\* s.8).  Three things may be left of earlier configurations: slots of removed
\* backends, which retire_stale_backends() may miss, and rules and ports beyond a
\* swallowed read error.  The egress-MTU check is on beside an encapsulating backend
\* unless the file itself states 0.
Converged ==
    attached /\ phase = "run" /\ gens = {file} =>
        /\ DOMAIN vip_map = ConfKeys(file)
        /\ \A e \in DOMAIN file.vips : \A k \in Range(file.vips[e].keys) :
              fwd_table[vip_map[k]] = Table(file, e)
        /\ \A e, f \in DOMAIN file.vips :
              \A k \in Range(file.vips[e].keys), l \in Range(file.vips[f].keys) :
                 e = f <=> vip_map[k] = vip_map[l]
        /\ \A l \in Lists : /\ file.acl[l] \subseteq acl_trie[l]
                            /\ l \notin overlooked => acl_trie[l] = file.acl[l]
        /\ config.acl_lists = acl_lists_bits(file)
        /\ any_backend_encapsulates(file) /\ file.max_frame # "zero" => config.max_frame
        /\ file.tx_ports \subseteq tx_ports
        /\ "tx_ports" \notin overlooked => tx_ports = file.tx_ports
        /\ \A id \in DOMAIN file.backends : backends[id] = file.backends[id].slot

\* reconcile_apply() always returns, whatever it finds in the maps: a reload cannot
\* leave the event loop waiting for ever.
ReconcileReturns == phase \in Steps ~> phase \in {"attach", "run", "down"}

(***************************************************************************)
(* What the repository says and the code does not keep.                     *)
(***************************************************************************)

\* deploy/marlin.conf.example:48 and docs/design/31 s.4 offer egress on a backend:
\* a configuration that passed validation is not refused by the backends map.
BackendsAccepted == diag # "backends"

\* The slots packets are steered to by rows.
Reached == UNION {Range(fwd_table[vip_map[k]]) : k \in DOMAIN vip_map}

\* docs/design/17: addr, mac, encap_dport, vni, inner_mac and the mode bits "are
\* never modified in place": while attached, a populated slot that rows lead to is
\* not overwritten with another backend's.
IdentityKept ==
    [][attached /\ attached' =>
          \A id \in Reached \cap Id : backends[id] # Zeroed /\ backends'[id] # Zeroed
                            => \A part \in {"ident", "mac", "encap"} : backends'[id][part] = backends[id][part]]_vars
=============================================================================
