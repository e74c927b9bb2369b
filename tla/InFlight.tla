------------------------------ MODULE InFlight ------------------------------
(***************************************************************************)
(* A packet of the datapath (bpf/lb_core.c) and the reconciler at work on    *)
(* the same maps.  The packet takes a pointer to the vip_map element of its  *)
(* destination, by its port or by port 0; if it is of QUIC and carries a     *)
(* connection ID of this instance, it looks at the slot the ID names;        *)
(* otherwise it reads vip_num through the pointer, then a row of fwd_table;  *)
(* and last it copies the slot.  Any number of map writes fall between two   *)
(* of these accesses.                                                        *)
(*                                                                         *)
(* vip_map is a preallocated hash of the kernel (external).  Updating a key  *)
(* replaces its element, also when the value is the same; an element that    *)
(* was replaced or deleted keeps its value under the packet's pointer until  *)
(* a later update takes it for whatever key it writes.                       *)
(*                                                                         *)
(* Packets change none of these maps, so one at a time stands for all of     *)
(* them.  It is over long before another process can start.                  *)
(***************************************************************************)
EXTENDS Reconcile

CONSTANTS
    NoPacket,
    AnyPort       \* key -> the key of the same address and protocol with port 0

ASSUME AnyPortAssumption == AnyPort \in [Key -> Key]

VARIABLE pkt    \* the packet: its locals, and what happened to it

pkt_vars == <<vars, pkt>>

InFlight == pkt # NoPacket /\ pkt.pc # "done"

\* The packet does not read through its pointer again.
LetGo(p) == [p EXCEPT !.linked = FALSE, !.vip_num = Unset]

Ended(verdict, slot) == LetGo([pkt EXCEPT !.pc = "done", !.verdict = verdict, !.slot = slot])

\* The steps of these phases write no map the packet reads: its accesses during one
\* of them are the same accesses before or after it.
Apart == {"plan", "config", "acl", "tx_add", "tx_del", "narrow"}

Interleaved == phase \notin Apart

(***************************************************************************)
(* marlin_lb_process().                                                     *)
(***************************************************************************)

\* marlin_lb_select_vip(), the first lookup: a pointer to the element of the
\* destination's own port, or a miss.
SelectVip ==
    /\ attached /\ Interleaved
    /\ pkt = NoPacket
    /\ \E k \in Key :
          LET hit == k \in DOMAIN vip_map IN
          pkt' = [pc |-> IF hit THEN "vip" ELSE "any", dst |-> k, key |-> k,
                  vip_num |-> IF hit THEN vip_map[k] ELSE Unset,   \* what the pointer shows
                  linked |-> hit, reused |-> FALSE, cid |-> NO_BACKEND, by |-> "none",
                  row |-> Unset, id |-> NO_BACKEND, verdict |-> "none", slot |-> Zeroed,
                  gens |-> gens]
    /\ UNCHANGED vars

\* The second lookup, with port 0.  A packet without a VIP goes to the host.
SelectAnyPort ==
    /\ InFlight /\ Interleaved /\ pkt.pc = "any"
    /\ LET k == AnyPort[pkt.dst] IN
       pkt' = IF k \in DOMAIN vip_map
              THEN [pkt EXCEPT !.pc = "vip", !.key = k, !.vip_num = vip_map[k], !.linked = TRUE]
              ELSE Ended("pass", Zeroed)
    /\ UNCHANGED vars

\* marlin_lb_select_backend_quic(): the connection ID of a QUIC packet can name any
\* slot, and is followed if that is up.  NO_BACKEND: the VIP or the packet is not of
\* QUIC, or the ID does not check or names nothing.
SelectByCid ==
    /\ InFlight /\ Interleaved /\ pkt.pc = "vip"
    /\ \E id \in Id \cup {NO_BACKEND} :
          pkt' = IF id # NO_BACKEND /\ backends[id].up
                 THEN LetGo([pkt EXCEPT !.pc = "backend", !.cid = id, !.by = "cid", !.id = id])
                 ELSE [pkt EXCEPT !.pc = "row", !.cid = id]
    /\ UNCHANGED vars

\* marlin_lb_select_backend_by_hash(): vip_num is read through the pointer and the
\* row is the packet's hash under the VIP's key; any row can be.
ReadRow ==
    /\ InFlight /\ Interleaved /\ pkt.pc = "row"
    /\ \E r \in Row :
          LET id == fwd_table[pkt.vip_num][r] IN
          pkt' = IF id = NO_BACKEND THEN [Ended("drop", Zeroed) EXCEPT !.by = "row", !.row = r]
                 ELSE LetGo([pkt EXCEPT !.pc = "backend", !.by = "row", !.row = r, !.id = id])
    /\ UNCHANGED vars

\* Mutated form of LoadBackend: the state bit is not looked at again.
LoadBackendBlind ==
    /\ InFlight /\ Interleaved /\ pkt.pc = "backend"
    /\ pkt' = Ended("tx", backends[pkt.id])
    /\ UNCHANGED vars

\* marlin_lb_load_backend(): the slot is copied, and the copy's state bit decides.
LoadBackend ==
    /\ InFlight /\ Interleaved /\ pkt.pc = "backend"
    /\ LET slot == backends[pkt.id] IN
       pkt' = IF slot.up THEN Ended("tx", slot) ELSE Ended("drop", slot)
    /\ UNCHANGED vars

\* The verdict is returned; nothing of the packet is left.
Return ==
    /\ pkt # NoPacket /\ ~InFlight
    /\ pkt' = NoPacket
    /\ UNCHANGED vars

(***************************************************************************)
(* The packet while a map call of the reconciler goes by.                   *)
(***************************************************************************)

\* The value an update just stored in vip_map, if the call was one.
Stored == {vip_map'[k] : k \in {l \in DOMAIN vip_map' :
                                   l \notin DOMAIN vip_map \/ vip_map'[l] # vip_map[l]}}

\* The packet's element stays in the table only while its key is left alone.
Spared == /\ pkt.linked
          /\ pkt.key \in DOMAIN vip_map' /\ vip_map'[pkt.key] = vip_map[pkt.key]

\* It will read through its pointer again.
Holding == pkt.pc \in {"vip", "row"}

Pass == pkt' = [pkt EXCEPT !.linked = Spared, !.gens = @ \cup gens']

\* The update takes the element the packet points to.
Reuse ==
    /\ Holding /\ ~pkt.linked
    /\ \E n \in Stored :
          pkt' = [pkt EXCEPT !.vip_num = n, !.reused = TRUE, !.gens = @ \cup gens']

\* A packet may meet a reload, from its start to its end, but not two: it takes a
\* microsecond.
Brief == phase = "run" /\ phase' = "plan" => pkt.gens = gens

Reconciler ==
    /\ Next
    /\ pkt = NoPacket \/ (InFlight /\ Brief)
    /\ \/ ~attached' /\ pkt' = NoPacket
       \/ attached' /\ pkt = NoPacket /\ UNCHANGED pkt
       \/ attached' /\ InFlight /\ (Pass \/ Reuse)

\* write_vip() publishes a key that leads to this block already.
RepublishKey ==
    /\ InFlight /\ Holding
    /\ phase = "vips" /\ index \in DOMAIN order
    /\ RowsToWrite = {}
    /\ \E j \in DOMAIN entries[ThisEntry] \ KeysToPublish :
          IF entries[ThisEntry][j] = pkt.key
          THEN pkt' = [pkt EXCEPT !.linked = FALSE]
          ELSE ~pkt.linked /\ pkt' = [pkt EXCEPT !.vip_num = num[ThisEntry], !.reused = TRUE]
    /\ UNCHANGED vars

InFlightInit == Init /\ pkt = NoPacket

InFlightNext ==
    \/ SelectVip \/ SelectAnyPort \/ SelectByCid \/ ReadRow \/ LoadBackend \/ Return
    \/ Reconciler \/ RepublishKey

InFlightSpec == InFlightInit /\ [][InFlightNext]_pkt_vars

(***************************************************************************)
(* Properties.                                                              *)
(***************************************************************************)

\* lb_core.c holds vip_meta by pointer for the whole packet and docs/design/31 s.8
\* gives "no new guarantee for packets already holding a previous map value".  What
\* is left of the guarantees for them, through whatever writes and whatever the
\* element is reused for.  A packet that is sent got a slot that was up.  If a row
\* sent it, the backend is a member of a VIP in one configuration that was in the
\* maps during its flight, and described as one of them describes it, perhaps
\* another.  If a connection ID sent it, the backend can be one that no row leads to,
\* even one that is gone from the file and that retire_stale_backends() missed; but
\* one that stayed in the file is as one of the configurations describes it.
InFlightKnown ==
    pkt # NoPacket /\ pkt.pc = "done" /\ pkt.verdict = "tx" =>
        /\ pkt.slot.up
        /\ pkt.by = "row" =>
              \E c \in pkt.gens, d \in pkt.gens : \E e \in DOMAIN c.vips :
                 /\ pkt.id \in {c.vips[e].members[i].id : i \in DOMAIN c.vips[e].members}
                 /\ pkt.id \in DOMAIN d.backends /\ pkt.slot = d.backends[pkt.id].slot
        /\ pkt.by = "cid" /\ (\A c \in pkt.gens : pkt.id \in DOMAIN c.backends) =>
              \E d \in pkt.gens : pkt.slot = d.backends[pkt.id].slot

\* The entry of key k in c: its addresses, its table and the slots of its members.
ServiceOf(c, k) ==
    LET e == CHOOSE f \in DOMAIN c.vips : k \in Range(c.vips[f].keys) IN
    [keys |-> Range(c.vips[e].keys), table |-> Table(c, e),
     slots |-> [id \in {c.vips[e].members[i].id : i \in DOMAIN c.vips[e].members} |->
                   c.backends[id].slot]]

\* The configurations of G state the VIP of key k, or backend id, in the same way.
Agree(G, k) == \A c, d \in G : k \in ConfKeys(c) /\ ServiceOf(c, k) = ServiceOf(d, k)

AgreeOnSlot(G, id) ==
    \A c, d \in G : id \in DOMAIN c.backends /\ id \in DOMAIN d.backends
                    /\ c.backends[id].slot = d.backends[id].slot

\* The VIP a packet to dst belongs to, as far as the configurations of G say: that of
\* its port, or that of port 0 when none of them has one for its port.
Addressed(G, dst) ==
    {dst} \cup {k \in {AnyPort[dst]} : \A c \in G : dst \notin ConfKeys(c)}

\* The packet went where its connection ID says, if that names a backend all the
\* configurations of its flight state as up, and did not if they state it as down.
CidHonoured ==
    pkt.cid # NO_BACKEND /\ AgreeOnSlot(pkt.gens, pkt.cid) =>
        \A c \in pkt.gens :
            LET slot == c.backends[pkt.cid].slot IN
            IF slot.up THEN pkt.by = "cid" /\ pkt.id = pkt.cid /\ pkt.slot = slot /\ pkt.verdict = "tx"
            ELSE pkt.by # "cid"

\* The packet met the backend of its row, sent if that is up and dropped if not.
RowHonoured(k) ==
    \A c \in pkt.gens :
        LET id == ServiceOf(c, k).table[pkt.row] IN
        /\ pkt.row \in Row
        /\ id # NO_BACKEND =>
              /\ pkt.id = id /\ pkt.slot = c.backends[id].slot
              /\ pkt.verdict = IF pkt.slot.up THEN "tx" ELSE "drop"

\* docs/design/31 s.8: "ordinary non-conflicting reloads retain the existing
\* assignment".  For what every configuration of a packet's flight states in the same
\* way, reloads of the rest, failed ones too, do not happen: a connection ID is
\* followed to its backend exactly when that is up; and a packet that is not sent by
\* one is found in its VIP, by port before port 0, and meets exactly the backend of
\* its row, unless the element it points to was taken for another key.
InFlightUndisturbed ==
    pkt # NoPacket /\ pkt.pc = "done" =>
        /\ CidHonoured
        /\ pkt.by # "cid" /\ ~pkt.reused =>
              \A k \in Addressed(pkt.gens, pkt.dst) : Agree(pkt.gens, k) => RowHonoured(k)
=============================================================================
