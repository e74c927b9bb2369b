-------------------------- MODULE ReconcileRefines --------------------------
(***************************************************************************)
(* Reconcile implements Service: the blocks of fwd_table and the numbers in  *)
(* vip_map are how the answers are stored.                                  *)
(***************************************************************************)
EXTENDS Reconcile

CONSTANT Missing     \* no table

ASSUME MissingAssumption == Missing \notin [Row -> Id \cup {NO_BACKEND}]

\* What lb_core.c finds for a key.
Answer == [k \in Key |-> IF k \in DOMAIN vip_map THEN fwd_table[vip_map[k]] ELSE Missing]

EntryOf(cf, k) == CHOOSE e \in DOMAIN cf.vips : k \in Range(cf.vips[e].keys)

WantedTable(cf, k) == IF k \in ConfKeys(cf) THEN Table(cf, EntryOf(cf, k)) ELSE Missing

S == INSTANCE Service WITH
        answer <- Answer, applying <- conf, involved <- gens, serving <- attached,
        Wanted <- WantedTable

\* marlind/reconcile.c behind docs/design/31 s.8: through every map write of every
\* reload, failed, killed or retried, and whatever blocks are exchanged for it, each
\* key's table only moves towards that of the configuration being applied, success
\* is reported only when all have arrived, and packets are first let in after that.
ImplementsService == S!ServiceSpec
=============================================================================
