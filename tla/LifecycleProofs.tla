-------------------------- MODULE LifecycleProofs ---------------------------
(***************************************************************************)
(* Proofs about Lifecycle: while one process uses the pin directory, what    *)
(* it serves and what is pinned are its own, for any number of restarts,     *)
(* interfaces, edits and objects.                                           *)
(***************************************************************************)
EXTENDS Lifecycle, TLAPS

\* A single process uses the directory, again and again.
OneProcess == \A p, q \in Proc : p = q

\* The stages of cmd_attach() from which on something is certain.
Attaching == {"loaded", "versioned", "reconciled", "pinned"}
Holding == Attaching \cup Loop
Versioned == Holding \ {"loaded"}
Reconciled == {"reconciled", "pinned"} \cup Loop

Pinned == Load \cup {None}

Running ==
    [pc : {"configured", "checked", "watching"} \cup Holding,
     ifindex : Nat, file : BOOLEAN, conf : Nat, watch : BOOLEAN, dellink : BOOLEAN,
     hup : BOOLEAN, ready : SUBSET {"sig", "nl"},
     load : Pinned, maps : Pinned, version : BOOLEAN, raced : BOOLEAN]

(***************************************************************************)
(* The inductive invariant.                                                 *)
(***************************************************************************)

LifeTypeOK ==
    /\ proc \in [Proc -> {Gone} \cup Running]
    /\ netdev \in Nat \cup {None} /\ ifs \in Nat /\ edits \in Nat
    /\ map_pins \in Pinned /\ version_pin \in Pinned /\ prog_pin \in Pinned
    /\ writer \in [Load -> Pinned]
    /\ loads \in 0 .. MaxLoads
    /\ unpin \in {"idle", "probe", "prog", "maps"}

\* A link is that of a process in its event loop, on the interface.
LinkOwned ==
    link # None =>
        /\ netdev # None
        /\ link.owner \in Proc
        /\ proc[link.owner].pc \in Loop
        /\ link.prog = proc[link.owner].load

\* From the load on a process has its program and maps, and once they are
\* reconciled nobody else writes them.
MapsOwned ==
    \A p \in Proc :
        /\ proc[p].pc \in Holding => proc[p].load \in Load /\ proc[p].maps \in Load
        /\ proc[p].pc \in Reconciled /\ proc[p].file => writer[proc[p].maps] = proc[p].load

\* The version pinned is that of the process, or removed, if it has one.
VersionOwned ==
    \A p \in Proc : proc[p].pc \in Versioned /\ proc[p].version => version_pin \in {proc[p].load, None}

\* An --unpin that has begun has read the pin of the program that is attached.
SeenAttached == unpin = "probe" /\ probe.ifindex = netdev /\ probe.pinned = link.prog

\* On its way to attach, and as long as it is attached, a process that no --unpin
\* overlapped with finds its pins where it put them;
\* once it is attached, an --unpin that begins sees that it is.
PinsOwned ==
    \A p \in Proc :
        /\ proc[p].pc \in Attaching /\ ~proc[p].raced =>
              /\ map_pins = proc[p].maps
              /\ proc[p].pc # "loaded" /\ proc[p].version => version_pin = proc[p].load
              /\ proc[p].pc = "pinned" => prog_pin = proc[p].load
        /\ proc[p].pc \in Loop /\ link # None /\ ~proc[p].raced =>
              /\ map_pins = proc[p].maps
              /\ proc[p].version => version_pin = proc[p].load
              /\ prog_pin = proc[p].load
              /\ unpin = "idle" \/ SeenAttached

LifeInv == LifeTypeOK /\ LinkOwned /\ MapsOwned /\ VersionOwned /\ PinsOwned

(***************************************************************************)
(* Lemmas.                                                                  *)
(***************************************************************************)

\* The process ends, at whatever stage.
LEMMA LifeExit ==
    ASSUME LifeInv, OneProcess, NEW p \in Proc, Exit(p),
           writer' \in [Load -> Pinned], UNCHANGED <<pins, loads, unpinning, disk>>
    PROVE  LifeInv'
<1>1. \A q \in Proc : q = p
  BY DEF OneProcess
<1>2. proc'[p] = Gone /\ proc' \in [Proc -> {Gone} \cup Running]
  BY DEF LifeInv, LifeTypeOK, Exit
<1>3. link' = None
  BY <1>1 DEF LifeInv, LinkOwned, Exit
<1>4. LifeTypeOK'
  BY <1>2 DEF LifeInv, LifeTypeOK, Exit, pins, disk, unpinning
<1>5. \A q \in Proc : proc'[q].pc = "down"
  BY <1>1, <1>2 DEF Gone
<1> QED
  BY <1>3, <1>4, <1>5 DEF LifeInv, LinkOwned, MapsOwned, VersionOwned, PinsOwned, Holding, Attaching,
     Versioned, Reconciled, Loop

\* The process goes from one stage before the load to the next.
LEMMA LifeEarly ==
    ASSUME LifeInv, OneProcess, NEW p \in Proc,
           LoadConfig(p) \/ Preflight(p) \/ OpenMonitor(p)
    PROVE  LifeInv'
<1>1. \A q \in Proc : q = p
  BY DEF OneProcess
<1>2. /\ proc'[p] \in Running
      /\ proc'[p].pc \in {"configured", "checked", "watching"}
      /\ proc' \in [Proc -> {Gone} \cup Running]
      /\ proc[p].pc \in {"down", "configured", "checked"}
  <2>1. CASE LoadConfig(p)
    BY <2>1 DEF LoadConfig, LifeInv, LifeTypeOK, Running, Pinned
  <2>2. CASE Preflight(p)
    BY <2>2 DEF Preflight, Goto, LifeInv, LifeTypeOK, Running, Gone
  <2>3. CASE OpenMonitor(p)
    <3>1. proc' = [proc EXCEPT ![p] = [proc[p] EXCEPT !.pc = "watching", !.watch = TRUE]]
      BY <2>3 DEF OpenMonitor, LifeInv, LifeTypeOK
    <3> QED
      BY <2>3, <3>1 DEF OpenMonitor, LifeInv, LifeTypeOK, Running, Gone
  <2> QED
    BY <2>1, <2>2, <2>3
<1>3. UNCHANGED <<kernel, pins, writer, loads, unpinning, disk>>
  BY DEF LoadConfig, Preflight, OpenMonitor
<1>4. LifeTypeOK'
  BY <1>2, <1>3 DEF LifeInv, LifeTypeOK, kernel, pins, disk, unpinning
<1>5. link' = None
  BY <1>1, <1>2, <1>3 DEF LifeInv, LinkOwned, Loop, kernel
<1> QED
  BY <1>1, <1>2, <1>4, <1>5 DEF LifeInv, LinkOwned, MapsOwned, VersionOwned, PinsOwned, Holding,
     Attaching, Versioned, Reconciled, Loop

\* Before it attaches the process has no link.
LEMMA Unlinked ==
    ASSUME LifeInv, OneProcess, NEW p \in Proc, proc[p].pc \notin Loop
    PROVE  link = None
BY DEF LifeInv, LinkOwned, OneProcess

\* The object is loaded and its maps are pinned, reused or new.
LEMMA LifeLoad ==
    ASSUME LifeInv, OneProcess, NEW p \in Proc, LoadAndPinMaps(p)
    PROVE  LifeInv'
<1>1. \A q \in Proc : q = p
  BY DEF OneProcess
<1>2. loads' \in Load /\ loads' \in 0 .. MaxLoads /\ map_pins' \in Load /\ None \notin Load
  BY LifecycleAssumption DEF LoadAndPinMaps, LifeInv, LifeTypeOK, Load, Pinned
<1>3. proc' = [proc EXCEPT ![p] = [proc[p] EXCEPT !.pc = "loaded", !.load = loads', !.maps = map_pins',
                                          !.version = (object # "NO_VERSION")]]
  BY DEF LoadAndPinMaps, LifeInv, LifeTypeOK
<1>4. /\ proc'[p] \in Running /\ proc' \in [Proc -> {Gone} \cup Running]
      /\ proc'[p].pc = "loaded" /\ proc'[p].load = loads' /\ proc'[p].maps = map_pins'
  BY <1>2, <1>3 DEF LoadAndPinMaps, LifeInv, LifeTypeOK, Running, Gone, Holding, Attaching, Pinned
<1>5. link = None /\ link' = None
  BY Unlinked DEF LoadAndPinMaps, Loop, kernel
<1>6. LifeTypeOK'
  BY <1>2, <1>4 DEF LoadAndPinMaps, LifeInv, LifeTypeOK, kernel, disk, unpinning, Pinned
<1> QED
  BY <1>1, <1>2, <1>4, <1>5, <1>6 DEF LifeInv, LinkOwned, MapsOwned, VersionOwned, PinsOwned, Holding,
     Attaching, Versioned, Reconciled, Loop

\* pin_version(), reconcile_startup() and pin_program() of the process.
LEMMA LifePin ==
    ASSUME LifeInv, OneProcess, NEW p \in Proc,
           PinVersion(p) \/ ReconcileStartup(p) \/ PinProgram(p)
    PROVE  LifeInv'
<1>1. \A q \in Proc : q = p
  BY DEF OneProcess
<1>2. PICK pc \in {"versioned", "reconciled", "pinned"} : Goto(p, pc)
  BY DEF PinVersion, ReconcileStartup, PinProgram
<1>3. proc[p] \in Running /\ proc[p].pc \in {"loaded", "versioned", "reconciled"}
  BY DEF PinVersion, ReconcileStartup, PinProgram, LifeInv, LifeTypeOK, Gone
<1>4. /\ proc'[p] \in Running /\ proc' \in [Proc -> {Gone} \cup Running]
      /\ proc'[p].pc = pc /\ proc'[p].load = proc[p].load /\ proc'[p].maps = proc[p].maps
      /\ proc'[p].raced = proc[p].raced /\ proc'[p].file = proc[p].file
      /\ proc'[p].version = proc[p].version
  BY <1>2, <1>3 DEF Goto, LifeInv, LifeTypeOK, Running, Holding, Attaching
<1>5. proc[p].load \in Load /\ proc[p].maps \in Load
  BY <1>3 DEF LifeInv, MapsOwned, Holding, Attaching
<1>6. link = None /\ link' = None
  BY <1>3, Unlinked DEF PinVersion, ReconcileStartup, PinProgram, Loop, kernel
<1> USE DEF Holding, Attaching, Versioned, Reconciled, Loop
<1>7. CASE PinVersion(p)
  <2>1. pc = "versioned"
    BY <1>2, <1>3, <1>4, <1>7 DEF PinVersion, Goto, LifeInv, LifeTypeOK, Running
  <2>2. LifeTypeOK'
    BY <1>4, <1>5, <1>7 DEF PinVersion, LifeInv, LifeTypeOK, kernel, disk, unpinning, Pinned
  <2> QED
    BY <1>1, <1>4, <1>5, <1>6, <1>7, <2>1, <2>2
    DEF PinVersion, LifeInv, LinkOwned, MapsOwned, VersionOwned, PinsOwned
<1>8. CASE ReconcileStartup(p)
  <2>1. pc = "reconciled" /\ proc[p].pc = "versioned"
    BY <1>2, <1>3, <1>4, <1>8 DEF ReconcileStartup, Goto, LifeInv, LifeTypeOK, Running
  <2>2. writer' \in [Load -> Pinned] /\ (proc[p].file => writer'[proc[p].maps] = proc[p].load)
    BY <1>5, <1>8 DEF ReconcileStartup, LifeInv, LifeTypeOK, Pinned
  <2>3. LifeTypeOK'
    BY <1>4, <1>5, <1>8, <2>2 DEF ReconcileStartup, LifeInv, LifeTypeOK, kernel, pins, disk, unpinning
  <2> QED
    BY <1>1, <1>4, <1>5, <1>6, <1>8, <2>1, <2>2, <2>3
    DEF ReconcileStartup, LifeInv, LinkOwned, MapsOwned, VersionOwned, PinsOwned, pins
<1>9. CASE PinProgram(p)
  <2>1. pc = "pinned" /\ proc[p].pc = "reconciled"
    BY <1>2, <1>3, <1>4, <1>9 DEF PinProgram, Goto, LifeInv, LifeTypeOK, Running
  <2>2. LifeTypeOK'
    BY <1>4, <1>5, <1>9 DEF PinProgram, LifeInv, LifeTypeOK, kernel, disk, unpinning, Pinned
  <2> QED
    BY <1>1, <1>4, <1>5, <1>6, <1>9, <2>1, <2>2
    DEF PinProgram, LifeInv, LinkOwned, MapsOwned, VersionOwned, PinsOwned
<1> QED
  BY <1>7, <1>8, <1>9

\* The link is made.
LEMMA LifeAttach ==
    ASSUME LifeInv, OneProcess, NEW p \in Proc, AttachLink(p)
    PROVE  LifeInv'
<1>1. \A q \in Proc : q = p
  BY DEF OneProcess
<1>2. proc[p] \in Running /\ proc[p].pc = "pinned"
  BY DEF AttachLink, LifeInv, LifeTypeOK, Gone
<1>3. proc' = [proc EXCEPT ![p] = [proc[p] EXCEPT !.pc = "run", !.raced = proc[p].raced \/ unpin # "idle"]]
  BY DEF AttachLink, LifeInv, LifeTypeOK
<1>4. /\ proc'[p] \in Running /\ proc' \in [Proc -> {Gone} \cup Running]
      /\ proc'[p].pc = "run" /\ proc'[p].load = proc[p].load /\ proc'[p].maps = proc[p].maps
      /\ proc'[p].file = proc[p].file /\ proc'[p].version = proc[p].version
      /\ ~proc'[p].raced => ~proc[p].raced /\ unpin = "idle"
  BY <1>2, <1>3 DEF LifeInv, LifeTypeOK, Running, Holding, Loop
<1>5. LifeTypeOK'
  BY <1>4 DEF AttachLink, LifeInv, LifeTypeOK, pins, disk, unpinning
<1>6. link'.owner = p /\ link'.prog = proc[p].load
  BY DEF AttachLink
<1>10. netdev' # None
  BY <1>2, LifecycleAssumption DEF AttachLink, Running
<1> USE DEF Holding, Attaching, Versioned, Reconciled, Loop
<1>7. LinkOwned'
  BY <1>4, <1>6, <1>10 DEF LinkOwned
<1>8. MapsOwned'
  BY <1>1, <1>2, <1>4 DEF LifeInv, MapsOwned, AttachLink
<1>9. VersionOwned' /\ PinsOwned'
  BY <1>1, <1>2, <1>4 DEF LifeInv, VersionOwned, PinsOwned, AttachLink, pins, unpinning
<1> QED
  BY <1>5, <1>7, <1>8, <1>9 DEF LifeInv

\* A step of the process that leaves it attached or on its way, with its program,
\* maps and pins, and that writes no maps unless they are its own.
LEMMA LifeServe ==
    ASSUME LifeInv, OneProcess, NEW p \in Proc, proc[p] \in Running, NEW r \in Running,
           proc' = [proc EXCEPT ![p] = r],
           r.load = proc[p].load, r.maps = proc[p].maps, r.file = proc[p].file, r.raced = proc[p].raced,
           r.version = proc[p].version,
           r.pc = proc[p].pc \/ (r.pc \in Loop /\ proc[p].pc \in Loop),
           \/ writer' = writer
           \/ proc[p].pc \in Loop /\ writer' = [writer EXCEPT ![proc[p].maps] = proc[p].load],
           UNCHANGED <<kernel, pins, loads, unpinning, disk>>
    PROVE  LifeInv'
<1>1. \A q \in Proc : q = p
  BY DEF OneProcess
<1>2. proc'[p] = r /\ proc' \in [Proc -> {Gone} \cup Running]
  BY DEF LifeInv, LifeTypeOK
<1>3. proc[p].pc \in Loop => proc[p].load \in Load /\ proc[p].maps \in Load
  BY DEF LifeInv, MapsOwned, Holding
<1>4. writer' \in [Load -> Pinned]
  BY <1>3 DEF LifeInv, LifeTypeOK, Pinned
<1>5. LifeTypeOK'
  BY <1>2, <1>4 DEF LifeInv, LifeTypeOK, kernel, pins, disk, unpinning
<1>6. LinkOwned'
  BY <1>1, <1>2 DEF LifeInv, LinkOwned, kernel
<1>7. writer' = writer \/ (proc[p].pc \in Loop /\ writer'[proc[p].maps] = proc[p].load)
  BY <1>3 DEF LifeInv, LifeTypeOK
<1> USE DEF Holding, Attaching, Versioned, Reconciled, Loop
<1>8. MapsOwned'
  BY <1>1, <1>2, <1>7 DEF LifeInv, MapsOwned
<1>9. VersionOwned' /\ PinsOwned'
  BY <1>1, <1>2 DEF LifeInv, VersionOwned, PinsOwned, SeenAttached, kernel, pins, unpinning
<1> QED
  BY <1>5, <1>6, <1>8, <1>9 DEF LifeInv

\* One turn of the event loop, a reload included.
LEMMA LifeLoop ==
    ASSUME LifeInv, OneProcess, NEW p \in Proc,
           EpollWait(p) \/ TakeHup(p) \/ ReadConf(p) \/ HandleReload(p)
    PROVE  LifeInv'
<1>1. proc[p] \in Running /\ proc[p].pc \in Loop
  BY DEF EpollWait, TakeHup, ReadConf, HandleReload, LifeInv, LifeTypeOK, Gone, Loop
<1>2. /\ proc = [q \in Proc |-> proc[q]]
      /\ edits \in Nat
  BY DEF LifeInv, LifeTypeOK
<1>3. CASE EpollWait(p)
  <2> DEFINE fds == {fd \in {"sig", "nl"} : IF fd = "sig" THEN proc[p].hup ELSE proc[p].dellink}
             r == [proc[p] EXCEPT !.ready = fds]
  <2>1. proc' = [proc EXCEPT ![p] = r]
    BY <1>2, <1>3 DEF EpollWait
  <2>2. /\ r \in Running /\ r.load = proc[p].load /\ r.maps = proc[p].maps /\ r.file = proc[p].file
        /\ r.raced = proc[p].raced /\ r.version = proc[p].version /\ r.pc = proc[p].pc
    <3>1. fds \in SUBSET {"sig", "nl"}
      OBVIOUS
    <3> HIDE DEF fds
    <3> QED
      BY <1>1, <3>1 DEF Running
  <2> HIDE DEF r
  <2> QED
    BY <1>1, <1>3, <2>1, <2>2, LifeServe DEF EpollWait
<1>4. CASE TakeHup(p)
  <2> DEFINE pc == IF proc[p].file THEN "reload" ELSE "run"
             r == [proc[p] EXCEPT !.hup = FALSE, !.ready = proc[p].ready \ {"sig"}, !.pc = pc]
  <2>1. proc' = [proc EXCEPT ![p] = r]
    BY <1>2, <1>4 DEF TakeHup
  <2>2. /\ r \in Running /\ r.load = proc[p].load /\ r.maps = proc[p].maps /\ r.file = proc[p].file
        /\ r.raced = proc[p].raced /\ r.version = proc[p].version /\ r.pc \in Loop
    <3>1. pc \in Loop
      BY DEF Loop
    <3> HIDE DEF pc
    <3> QED
      BY <1>1, <3>1 DEF Running, Holding
  <2> HIDE DEF r
  <2> QED
    BY <1>1, <1>4, <2>1, <2>2, LifeServe DEF TakeHup
<1>5. CASE ReadConf(p)
  <2> DEFINE r == [proc[p] EXCEPT !.pc = "apply", !.conf = edits]
  <2>1. proc' = [proc EXCEPT ![p] = r]
    BY <1>2, <1>5 DEF ReadConf
  <2>2. /\ r \in Running /\ r.load = proc[p].load /\ r.maps = proc[p].maps /\ r.file = proc[p].file
        /\ r.raced = proc[p].raced /\ r.version = proc[p].version /\ r.pc \in Loop
    BY <1>1, <1>2 DEF Running, Holding, Loop
  <2> HIDE DEF r
  <2> QED
    BY <1>1, <1>5, <2>1, <2>2, LifeServe DEF ReadConf
<1>6. CASE HandleReload(p)
  <2> DEFINE r == [proc[p] EXCEPT !.pc = "run"]
  <2>1. proc' = [proc EXCEPT ![p] = r]
    BY <1>2, <1>6 DEF HandleReload, Goto
  <2>2. /\ r \in Running /\ r.load = proc[p].load /\ r.maps = proc[p].maps /\ r.file = proc[p].file
        /\ r.raced = proc[p].raced /\ r.version = proc[p].version /\ r.pc \in Loop
    BY <1>1 DEF Running, Holding, Loop
  <2> HIDE DEF r
  <2> QED
    BY <1>1, <1>6, <2>1, <2>2, LifeServe DEF HandleReload
<1> QED
  BY <1>3, <1>4, <1>5, <1>6

\* A SIGHUP that is blocked.
LEMMA LifeHup ==
    ASSUME LifeInv, OneProcess, NEW p \in Proc, Hup(p)
    PROVE  LifeInv'
<1>1. proc[p] \in Running /\ proc = [q \in Proc |-> proc[q]]
  BY DEF Hup, LifeInv, LifeTypeOK, Gone
<1>2. CASE proc[p].watch
  <2> DEFINE r == [proc[p] EXCEPT !.hup = TRUE]
  <2>1. proc' = [proc EXCEPT ![p] = r]
    BY <1>1, <1>2 DEF Hup
  <2>2. /\ r \in Running /\ r.load = proc[p].load /\ r.maps = proc[p].maps /\ r.file = proc[p].file
        /\ r.raced = proc[p].raced /\ r.version = proc[p].version /\ r.pc = proc[p].pc
    BY <1>1 DEF Running
  <2> HIDE DEF r
  <2> QED
    BY <1>1, <1>2, <2>1, <2>2, LifeServe DEF Hup, kernel
<1>3. CASE ~proc[p].watch
  <2>1. Exit(p) /\ UNCHANGED <<writer, pins, loads, unpinning, disk>>
    BY <1>3 DEF Hup
  <2> QED
    BY <2>1, LifeExit DEF LifeInv, LifeTypeOK
<1> QED
  BY <1>2, <1>3

\* The interface goes away, and the link with it.
LEMMA LifeRemove ==
    ASSUME LifeInv, RemoveNetdev
    PROVE  LifeInv'
<1>1. /\ proc' \in [Proc -> {Gone} \cup Running]
      /\ \A p \in Proc :
            \/ proc'[p] = proc[p]
            \/ proc[p] \in Running /\ proc'[p] = [proc[p] EXCEPT !.dellink = TRUE]
  <2>1. PICK full \in SUBSET {p \in Proc : proc[p].pc # "down" /\ proc[p].watch} :
           proc' = [p \in Proc |->
                         IF /\ proc[p].pc # "down" /\ proc[p].watch
                            /\ proc[p].ifindex = netdev /\ p \notin full
                         THEN [proc[p] EXCEPT !.dellink = TRUE] ELSE proc[p]]
    BY DEF RemoveNetdev
  <2>2. \A r \in Running : [r EXCEPT !.dellink = TRUE] \in Running
    BY DEF Running
  <2>3. \A p \in Proc : proc[p].pc # "down" => proc[p] \in Running
    BY DEF LifeInv, LifeTypeOK, Gone
  <2> QED
    BY <2>1, <2>2, <2>3 DEF LifeInv, LifeTypeOK
<1>2. \A p \in Proc : /\ proc'[p].pc = proc[p].pc
                      /\ proc[p] \in Running =>
                            /\ proc'[p].load = proc[p].load /\ proc'[p].maps = proc[p].maps
                            /\ proc'[p].file = proc[p].file /\ proc'[p].raced = proc[p].raced
                            /\ proc'[p].version = proc[p].version
  BY <1>1 DEF Running
<1>3. \A p \in Proc : proc[p].pc \in Holding => proc[p] \in Running
  BY DEF LifeInv, LifeTypeOK, Gone, Holding, Attaching, Loop
<1>4. /\ link' = None /\ netdev' = None
      /\ UNCHANGED <<ifs, pins, writer, loads, unpinning, disk>>
  BY DEF RemoveNetdev
<1>5. LifeTypeOK'
  BY <1>1, <1>4 DEF LifeInv, LifeTypeOK, pins, disk, unpinning
<1>6. MapsOwned'
  BY <1>2, <1>3, <1>4 DEF LifeInv, MapsOwned, Holding, Reconciled, Attaching
<1>7. VersionOwned' /\ PinsOwned'
  BY <1>2, <1>3, <1>4 DEF LifeInv, VersionOwned, PinsOwned, Holding, Versioned, pins
<1> QED
  BY <1>4, <1>5, <1>6, <1>7 DEF LifeInv, LinkOwned

\* A step that none of this depends on.
LEMMA LifeElsewhere ==
    ASSUME LifeInv, UNCHANGED <<proc, link, pins, writer, loads, unpinning>>,
           netdev' \in Nat \cup {None}, ifs' \in Nat, edits' \in Nat,
           netdev' = netdev \/ netdev = None
    PROVE  LifeInv'
BY DEF LifeInv, LifeTypeOK, LinkOwned, MapsOwned, VersionOwned, PinsOwned, SeenAttached, pins, unpinning

\* --unpin reads the program pin and passes its probe, or ends: no process that was
\* attached when it began has its pins unseen.
LEMMA LifeProbe ==
    ASSUME LifeInv, OneProcess, UnpinReadPin \/ UnpinProbe \/ UnpinEnds
    PROVE  LifeInv'
<1>1. UNCHANGED <<proc, kernel, pins, writer, loads, disk>> /\ unpin' \in {"idle", "probe", "prog"}
  BY DEF UnpinReadPin, UnpinProbe, UnpinEnds
<1>2. ASSUME NEW p \in Proc, proc[p].pc \in Loop, link # None, ~proc[p].raced
      PROVE  unpin' = "idle" \/ SeenAttached'
  <2>1. /\ link.prog = proc[p].load /\ prog_pin = proc[p].load
        /\ unpin = "idle" \/ SeenAttached
    BY <1>2 DEF LifeInv, LinkOwned, PinsOwned, OneProcess
  <2>2. CASE UnpinReadPin
    <3>1. unpin' = "probe" /\ probe'.ifindex = netdev /\ probe'.pinned = prog_pin
      BY <2>2 DEF UnpinReadPin
    <3> QED
      BY <1>1, <2>1, <3>1 DEF SeenAttached, kernel
  <2>3. CASE UnpinProbe
    BY <1>2, <2>1, <2>3 DEF UnpinProbe, attach_probe, SeenAttached
  <2>4. CASE UnpinEnds
    BY <2>4 DEF UnpinEnds
  <2> QED
    BY <2>2, <2>3, <2>4
<1>3. LifeTypeOK'
  BY <1>1 DEF LifeInv, LifeTypeOK, kernel, pins, disk
<1>4. LinkOwned' /\ MapsOwned' /\ VersionOwned'
  BY <1>1 DEF LifeInv, LinkOwned, MapsOwned, VersionOwned, kernel, pins
<1>5. PinsOwned'
  BY <1>1, <1>2 DEF LifeInv, PinsOwned, kernel, pins
<1> QED
  BY <1>3, <1>4, <1>5 DEF LifeInv

\* --unpin removes pins: the processes on their way are overtaken.
LEMMA LifeUnpin ==
    ASSUME LifeInv, UnpinProg \/ UnpinMaps
    PROVE  LifeInv'
<1>1. /\ Overtaken /\ UNCHANGED <<kernel, writer, loads, disk>>
      /\ unpin \in {"prog", "maps"} /\ unpin' \in {"idle", "maps"}
      /\ map_pins' \in {map_pins, None} /\ version_pin' \in {version_pin, None} /\ prog_pin' = None
  BY DEF UnpinProg, UnpinMaps
<1>2. \A r \in Running : [r EXCEPT !.raced = TRUE] \in Running
  BY DEF Running
<1>3. /\ proc' \in [Proc -> {Gone} \cup Running]
      /\ \A p \in Proc :
            \/ proc[p].pc \in {"down"} \cup Loop /\ proc'[p] = proc[p]
            \/ /\ proc[p].pc \notin Loop /\ proc[p] \in Running
               /\ proc'[p] = [proc[p] EXCEPT !.raced = TRUE]
  BY <1>1, <1>2 DEF Overtaken, LifeInv, LifeTypeOK, Gone
<1>4. \A p \in Proc : /\ proc'[p].pc = proc[p].pc
                      /\ proc[p] \in Running =>
                            /\ proc'[p].load = proc[p].load /\ proc'[p].maps = proc[p].maps
                            /\ proc'[p].file = proc[p].file /\ proc'[p].version = proc[p].version
                            /\ proc[p].pc \in Attaching => proc'[p].raced
                            /\ proc[p].pc \in Loop => proc'[p].raced = proc[p].raced
  BY <1>3 DEF Running, Attaching, Loop
<1>5. \A p \in Proc : proc[p].pc \in Holding => proc[p] \in Running
  BY DEF LifeInv, LifeTypeOK, Gone, Holding, Attaching, Loop
<1>6. LifeTypeOK'
  BY <1>1, <1>3 DEF LifeInv, LifeTypeOK, kernel, disk, unpinning, Pinned
<1>7. LinkOwned'
  BY <1>1, <1>4, <1>5 DEF LifeInv, LinkOwned, Holding, kernel
<1>8. MapsOwned'
  BY <1>1, <1>4, <1>5 DEF LifeInv, MapsOwned, Holding, Reconciled, Attaching
<1>9. VersionOwned'
  BY <1>1, <1>4, <1>5 DEF LifeInv, VersionOwned, Holding, Versioned
<1>10. PinsOwned'
  BY <1>1, <1>4, <1>5 DEF LifeInv, PinsOwned, SeenAttached, Holding, kernel
<1> QED
  BY <1>6, <1>7, <1>8, <1>9, <1>10 DEF LifeInv

\* The invariant holds initially.
LEMMA LifeInit == Init => LifeInv
<1> SUFFICES ASSUME Init PROVE LifeInv
  OBVIOUS
<1>1. LifeTypeOK
  BY LifecycleAssumption DEF Init, LifeTypeOK, Pinned
<1>2. \A p \in Proc : proc[p].pc = "down"
  BY DEF Init, Gone
<1> QED
  BY <1>1, <1>2 DEF Init, LifeInv, LinkOwned, MapsOwned, VersionOwned, PinsOwned, Holding, Attaching,
     Versioned, Reconciled, Loop

\* The invariant is kept by every step.
LEMMA LifeStep ==
    ASSUME LifeInv, OneProcess, [Next]_vars
    PROVE  LifeInv'
<1>1. ASSUME NEW p \in Proc, Step(p) PROVE LifeInv'
  <2>1. CASE PreflightRefused(p) \/ AttachRefused(p) \/ SawDellink(p)
    BY <2>1, LifeExit DEF PreflightRefused, AttachRefused, SawDellink, LifeInv, LifeTypeOK
  <2>2. CASE ReconcileRefused(p)
    <3>1. proc[p].load \in Load /\ proc[p].maps \in Load
      BY <2>2 DEF ReconcileRefused, LifeInv, MapsOwned, Holding, Attaching
    <3>2. writer' \in [Load -> Pinned]
      BY <2>2, <3>1 DEF ReconcileRefused, LifeInv, LifeTypeOK, Pinned
    <3> QED
      BY <2>2, <3>2, LifeExit DEF ReconcileRefused
  <2> QED
    BY <1>1, <2>1, <2>2, LifeEarly, LifeLoad, LifePin, LifeAttach, LifeLoop DEF Step
<1>2. ASSUME NEW p \in Proc, Stop(p) PROVE LifeInv'
  BY <1>2, LifeExit DEF Stop, LifeInv, LifeTypeOK
<1>3. CASE AddNetdev \/ EditConf \/ ReplaceObject \/ UNCHANGED vars
  <2>1. /\ UNCHANGED <<proc, link, pins, writer, loads, unpinning>>
        /\ netdev' \in Nat \cup {None} /\ ifs' \in Nat /\ edits' \in Nat
        /\ netdev' = netdev \/ netdev = None
    BY <1>3 DEF AddNetdev, EditConf, ReplaceObject, vars, kernel, pins, disk, unpinning, LifeInv, LifeTypeOK
  <2> QED
    BY <2>1, LifeElsewhere
<1> QED
  BY <1>1, <1>2, <1>3, LifeEarly, LifeHup, LifeRemove, LifeProbe, LifeUnpin DEF Next

(***************************************************************************)
(* Theorems.                                                                *)
(***************************************************************************)

\* The invariant is inductive: whatever restarts, kills, reloads, failed starts and
\* --unpin commands there are, a single process keeps its program, maps and pins.
THEOREM LifeInvariant == OneProcess /\ Spec => []LifeInv
<1>1. CASE OneProcess
  <2>1. LifeInv /\ [Next]_vars => LifeInv'
    BY <1>1, LifeStep
  <2> QED
    BY <2>1, LifeInit, PTL DEF Spec
<1>2. CASE ~OneProcess
  BY <1>2
<1> QED
  BY <1>1, <1>2

\* cmd_attach() attaches after reconcile_startup(): packets are forwarded only under
\* maps the process reconciled itself, for any number of earlier starts.
THEOREM AlwaysServesOwnConfig == OneProcess /\ Spec => []ServesOwnConfig
<1>1. LifeInv => ServesOwnConfig
  BY DEF LifeInv, LinkOwned, MapsOwned, ServesOwnConfig, Reconciled
<1> QED
  BY <1>1, LifeInvariant, PTL

\* The program and map pins an attached datapath is found by are its own, and so is
\* the version pin if its program carries a version; --unpin between the two reads of
\* its probe and its removals takes none of another's.
THEOREM PinsAlwaysItsOwn == OneProcess /\ Spec => []PinsAreItsOwn
<1>1. LifeInv => PinsAreItsOwn
  <2> SUFFICES ASSUME LifeInv, link # None
               PROVE  /\ ~proc[link.owner].raced =>
                           /\ prog_pin = link.prog /\ map_pins = proc[link.owner].maps
                           /\ proc[link.owner].version => version_pin = link.prog
                      /\ proc[link.owner].version => version_pin \in {link.prog, None}
    BY DEF PinsAreItsOwn, attach_probe
  <2>1. link.owner \in Proc /\ proc[link.owner].pc \in Loop /\ link.prog = proc[link.owner].load
    BY DEF LifeInv, LinkOwned
  <2>2. proc[link.owner].version => version_pin \in {proc[link.owner].load, None}
    BY <2>1 DEF LifeInv, VersionOwned, Versioned, Holding, Loop
  <2> QED
    BY <2>1, <2>2 DEF LifeInv, PinsOwned
<1> QED
  BY <1>1, LifeInvariant, PTL
=============================================================================
