----------------------------- MODULE Lifecycle ------------------------------
(***************************************************************************)
(* The life of a marlind instance on one interface and one pin directory:   *)
(* --attach (marlind/cmd_attach.c, config.c, preflight.c, bpf_load.c), the  *)
(* probe behind --status (cmd_status.c) and --unpin (cmd_unpin.c), with a   *)
(* configuration file or the environment to configure it.                   *)
(*                                                                         *)
(* Processes share the pin directory in bpffs and the kernel's XDP hook and *)
(* nothing keeps two commands apart: each system call is a step, and any    *)
(* process may be killed between two of them.  The interface can disappear  *)
(* and come back under a new index; the process learns of it by netlink.    *)
(* The operator edits the configuration file, sends SIGHUP and installs     *)
(* other BPF objects at any moment.                                         *)
(*                                                                         *)
(* What reconcile_apply() does to the maps is module Reconcile; here a set  *)
(* of maps only remembers which load wrote it last.                         *)
(***************************************************************************)
EXTENDS Integers, FiniteSets

CONSTANTS
    Proc,       \* processes that may run --attach
    None,       \* no link, no pin, no interface
    MaxLoads,   \* bound: loads of the object (each makes a program, perhaps maps)
    MaxIfs,     \* bound: indexes the interface has in turn
    MaxLost,    \* bound: netlink messages dropped because the socket was full
    MaxEdits,   \* bound: versions of the configuration file
    MaxObjects  \* bound: times the object file is replaced

ASSUME LifecycleAssumption ==
    /\ MaxLoads \in Nat /\ MaxIfs \in Nat \ {0} /\ MaxLost \in Nat
    /\ MaxEdits \in Nat /\ MaxObjects \in Nat
    /\ None \notin Nat

VARIABLES
    proc,         \* process -> its locals in cmd_attach()
    link,         \* the XDP link: [owner, prog], or None
    netdev,       \* index of the interface, or None
    map_pins,     \* the set of maps pinned under pin_dir, or None
    version_pin,  \* the load whose version is pinned, or None
    prog_pin,     \* the program pinned, or None
    writer,       \* set of maps -> the load that last reconciled it
    loads,        \* loads so far; each is named by its number, as are map sets
    ifs,          \* indexes given out so far
    lost,         \* netlink messages lost so far
    unpin,        \* where the process running --unpin is
    probe,        \* its cfg->ifindex and what attach_probe() read of the program pin, or None
    object,       \* the object file: what check_object_version() says of it
    objects,      \* times it was replaced
    edits         \* the version of the configuration file

vars == <<proc, link, netdev, map_pins, version_pin, prog_pin, writer, loads, ifs, lost, unpin, probe,
          object, objects, edits>>

kernel == <<link, netdev, ifs, lost>>
pins == <<map_pins, version_pin, prog_pin>>
disk == <<object, objects, edits>>
unpinning == <<unpin, probe>>

Load == 1 .. MaxLoads

\* Where the event loop is: waiting or handling, loading a file, applying it.
Loop == {"run", "reload", "apply"}

Gone == [pc |-> "down"]

\* The process ends; its file descriptors are closed, and with them its link.
Exit(p) ==
    /\ proc' = [proc EXCEPT ![p] = Gone]
    /\ link' = IF link # None /\ link.owner = p THEN None ELSE link
    /\ UNCHANGED <<netdev, ifs, lost>>

Goto(p, pc) == proc' = [proc EXCEPT ![p].pc = pc]

(***************************************************************************)
(* cmd_attach().                                                            *)
(***************************************************************************)

\* load_config(): the interface's index is looked up once.  With --config the file
\* is read and what is in the environment is ignored; without it there is no file.
LoadConfig(p) ==
    /\ proc[p].pc = "down"
    /\ netdev # None
    /\ \E managed \in BOOLEAN :
          proc' = [proc EXCEPT ![p] =
                      [pc |-> "configured", ifindex |-> netdev, file |-> managed,
                       conf |-> IF managed THEN edits ELSE 0, watch |-> FALSE, dellink |-> FALSE, hup |-> FALSE, ready |-> {},
                       load |-> None, maps |-> None, version |-> FALSE, raced |-> FALSE]]
    /\ UNCHANGED <<kernel, pins, writer, loads, unpinning, disk>>

\* preflight(): one step for all its checks, of which the model keeps that of the
\* object's version; the object is opened here for that alone.
Preflight(p) ==
    /\ proc[p].pc = "configured"
    /\ object = "OK"
    /\ Goto(p, "checked")
    /\ UNCHANGED <<kernel, pins, writer, loads, unpinning, disk>>

\* One of the checks ends the process.
PreflightRefused(p) ==
    /\ proc[p].pc = "configured"
    /\ Exit(p)
    /\ UNCHANGED <<pins, writer, loads, unpinning, disk>>

\* open_signal_fd(), open_link_monitor() and open_event_loop().
OpenMonitor(p) ==
    /\ proc[p].pc = "checked"
    /\ proc' = [proc EXCEPT ![p].pc = "watching", ![p].watch = TRUE]
    /\ UNCHANGED <<kernel, pins, writer, loads, unpinning, disk>>

\* load_and_pin_maps() opens the object again, as it is now: pinned maps are reused,
\* missing ones created and pinned.
LoadAndPinMaps(p) ==
    /\ proc[p].pc = "watching"
    /\ object # "NO_OBJECT"
    /\ loads < MaxLoads
    /\ loads' = loads + 1
    /\ map_pins' = IF map_pins = None THEN loads + 1 ELSE map_pins
    /\ proc' = [proc EXCEPT ![p].pc = "loaded", ![p].load = loads + 1, ![p].maps = map_pins',
                            ![p].version = (object # "NO_VERSION")]
    /\ UNCHANGED <<kernel, version_pin, prog_pin, writer, unpinning, disk>>

\* pin_version() replaces the pin, whosever it was; it returns at once, and leaves the
\* pin of an earlier load, when the object carries no build version.
PinVersion(p) ==
    /\ proc[p].pc = "loaded"
    /\ version_pin' = IF proc[p].version THEN proc[p].load ELSE version_pin
    /\ Goto(p, "versioned")
    /\ UNCHANGED <<kernel, map_pins, prog_pin, writer, loads, unpinning, disk>>

\* Mutated form of ReconcileStartup: maps that hold a configuration are kept.
ReconcileOnlyFresh(p) ==
    /\ proc[p].pc = "versioned"
    /\ writer' = IF writer[proc[p].maps] = None
                 THEN [writer EXCEPT ![proc[p].maps] = proc[p].load] ELSE writer
    /\ Goto(p, "reconciled")
    /\ UNCHANGED <<kernel, pins, loads, unpinning, disk>>

\* reconcile_startup(): the maps are brought to the file, reused or not, and are
\* left as they are where there is no file ...
ReconcileStartup(p) ==
    /\ proc[p].pc = "versioned"
    /\ writer' = IF proc[p].file THEN [writer EXCEPT ![proc[p].maps] = proc[p].load] ELSE writer
    /\ Goto(p, "reconciled")
    /\ UNCHANGED <<kernel, pins, loads, unpinning, disk>>

\* ... or some of the way, and the process gives up.
ReconcileRefused(p) ==
    /\ proc[p].pc = "versioned"
    /\ proc[p].file
    /\ writer' = [writer EXCEPT ![proc[p].maps] = proc[p].load]
    /\ Exit(p)
    /\ UNCHANGED <<pins, loads, unpinning, disk>>

\* pin_program() replaces the pin, whosever it was.
PinProgram(p) ==
    /\ proc[p].pc = "reconciled"
    /\ prog_pin' = proc[p].load
    /\ Goto(p, "pinned")
    /\ UNCHANGED <<kernel, map_pins, version_pin, writer, loads, unpinning, disk>>

\* attach_link().
AttachLink(p) ==
    /\ proc[p].pc = "pinned"
    /\ link = None /\ netdev = proc[p].ifindex
    /\ link' = [owner |-> p, prog |-> proc[p].load]
    /\ proc' = [proc EXCEPT ![p].pc = "run", ![p].raced = @ \/ unpin # "idle"]
    /\ UNCHANGED <<netdev, ifs, lost, pins, writer, loads, unpinning, disk>>

\* EBUSY or ENODEV: nothing is undone.
AttachRefused(p) ==
    /\ proc[p].pc = "pinned"
    /\ link # None \/ netdev # proc[p].ifindex
    /\ Exit(p)
    /\ UNCHANGED <<pins, writer, loads, unpinning, disk>>

\* A SIGHUP.  Until open_signal_fd() has blocked it, it kills; after that it is
\* pending, once however often it is sent.
Hup(p) ==
    /\ proc[p].pc # "down"
    /\ IF proc[p].watch THEN proc' = [proc EXCEPT ![p].hup = TRUE] /\ UNCHANGED link
       ELSE Exit(p)
    /\ UNCHANGED <<netdev, ifs, lost, pins, writer, loads, unpinning, disk>>

\* Mutated form of EpollWait: the netlink socket waits until no signal is pending.
EpollWaitSignalFirst(p) ==
    /\ proc[p].pc = "run" /\ proc[p].ready = {}
    /\ proc[p].hup \/ proc[p].dellink
    /\ proc' = [proc EXCEPT ![p].ready = IF proc[p].hup THEN {"sig"} ELSE {"nl"}]
    /\ UNCHANGED <<kernel, pins, writer, loads, unpinning, disk>>

\* epoll_wait() returns what is readable, one of the two descriptors or both.
EpollWait(p) ==
    /\ proc[p].pc = "run" /\ proc[p].ready = {}
    /\ proc[p].hup \/ proc[p].dellink
    /\ proc' = [proc EXCEPT ![p].ready = {fd \in {"sig", "nl"} :
                                             IF fd = "sig" THEN proc[p].hup ELSE proc[p].dellink}]
    /\ UNCHANGED <<kernel, pins, writer, loads, unpinning, disk>>

\* read_signal() takes the signal, then handle_reload() begins ...
TakeHup(p) ==
    /\ proc[p].pc = "run"
    /\ "sig" \in proc[p].ready
    /\ proc' = [proc EXCEPT ![p].hup = FALSE, ![p].ready = @ \ {"sig"}, ![p].pc = IF proc[p].file THEN "reload" ELSE "run"]
    /\ UNCHANGED <<kernel, pins, writer, loads, unpinning, disk>>

\* Mutated form of HandleReload: the signal is read once the file is applied.
HandleReloadThenRead(p) ==
    /\ proc[p].pc = "apply"
    /\ writer' \in {writer, [writer EXCEPT ![proc[p].maps] = proc[p].load]}
    /\ proc' = [proc EXCEPT ![p].pc = "run", ![p].hup = FALSE]
    /\ UNCHANGED <<kernel, pins, loads, unpinning, disk>>

\* ... conf_load() reads the file as it is now ...
ReadConf(p) ==
    /\ proc[p].pc = "reload"
    /\ proc' = [proc EXCEPT ![p].pc = "apply", ![p].conf = edits]
    /\ UNCHANGED <<kernel, pins, writer, loads, unpinning, disk>>

\* ... and it is rejected, or applied to the same maps, wholly or in part.
HandleReload(p) ==
    /\ proc[p].pc = "apply"
    /\ writer' \in {writer, [writer EXCEPT ![proc[p].maps] = proc[p].load]}
    /\ Goto(p, "run")
    /\ UNCHANGED <<kernel, pins, loads, unpinning, disk>>

\* SIGTERM or SIGINT in the event loop; a kill or a failed call anywhere.
Stop(p) ==
    /\ proc[p].pc # "down"
    /\ Exit(p)
    /\ UNCHANGED <<pins, writer, loads, unpinning, disk>>

\* The event loop finds an RTM_DELLINK for its interface.
SawDellink(p) ==
    /\ proc[p].pc = "run"
    /\ "nl" \in proc[p].ready
    /\ Exit(p)
    /\ UNCHANGED <<pins, writer, loads, unpinning, disk>>

(***************************************************************************)
(* The interface.                                                           *)
(***************************************************************************)

\* It goes away: the kernel tears down the link and queues a message to every
\* socket that joined RTNLGRP_LINK, unless the socket's buffer is full.
RemoveNetdev ==
    /\ netdev # None
    /\ \E full \in SUBSET {p \in Proc : proc[p].pc # "down" /\ proc[p].watch} :
          /\ lost + Cardinality(full) <= MaxLost
          /\ lost' = lost + Cardinality(full)
          /\ proc' = [p \in Proc |->
                         IF /\ proc[p].pc # "down" /\ proc[p].watch
                            /\ proc[p].ifindex = netdev /\ p \notin full
                         THEN [proc[p] EXCEPT !.dellink = TRUE] ELSE proc[p]]
    /\ link' = None
    /\ netdev' = None
    /\ UNCHANGED <<ifs, pins, writer, loads, unpinning, disk>>

AddNetdev ==
    /\ netdev = None
    /\ ifs < MaxIfs
    /\ ifs' = ifs + 1
    /\ netdev' = ifs + 1
    /\ UNCHANGED <<proc, link, lost, pins, writer, loads, unpinning, disk>>

(***************************************************************************)
(* The operator's files.                                                    *)
(***************************************************************************)

EditConf ==
    /\ edits < MaxEdits
    /\ edits' = edits + 1
    /\ UNCHANGED <<proc, kernel, pins, writer, loads, unpinning, object, objects>>

\* Another object is installed, perhaps one below the floor or without a version, or
\* it is taken away, while there is a load left to see it.
ReplaceObject ==
    /\ objects < MaxObjects /\ loads < MaxLoads
    /\ objects' = objects + 1
    /\ object' \in {"OK", "TOO_OLD", "NO_VERSION", "NO_OBJECT"} \ {object}
    /\ UNCHANGED <<proc, kernel, pins, writer, loads, unpinning, edits>>

(***************************************************************************)
(* attach_probe() and cmd_unpin().                                          *)
(***************************************************************************)

\* attach_probe(): the XDP link of interface i against the program pin read before it.
attach_probe(i, pinned) ==
    IF link = None \/ netdev # i THEN "NOT_ATTACHED"
    ELSE IF link.prog = pinned THEN "ATTACHED" ELSE "FOREIGN"

\* load_config() needs the interface; attach_probe() reads the program pin ...
UnpinReadPin ==
    /\ unpin = "idle"
    /\ netdev # None
    /\ unpin' = "probe"
    /\ probe' = [ifindex |-> netdev, pinned |-> prog_pin]
    /\ UNCHANGED <<proc, kernel, pins, writer, loads, disk>>

\* Mutated form of UnpinProbe: only a program that is not ours stops it.
UnpinProbeForeign ==
    /\ unpin = "probe"
    /\ attach_probe(probe.ifindex, probe.pinned) # "FOREIGN"
    /\ unpin' = "prog" /\ probe' = None
    /\ UNCHANGED <<proc, kernel, pins, writer, loads, disk>>

\* ... and goes through the links.  Pins are removed unless our program is attached.
UnpinProbe ==
    /\ unpin = "probe"
    /\ attach_probe(probe.ifindex, probe.pinned) # "ATTACHED"
    /\ unpin' = "prog" /\ probe' = None
    /\ UNCHANGED <<proc, kernel, pins, writer, loads, disk>>

\* The command refuses, or dies at any point.
UnpinEnds ==
    /\ unpin # "idle"
    /\ unpin' = "idle" /\ probe' = None
    /\ UNCHANGED <<proc, kernel, pins, writer, loads, disk>>

\* History: the pins go while these processes are on their way to attach.
Overtaken == proc' = [p \in Proc |-> IF proc[p].pc \in {"down"} \cup Loop THEN proc[p]
                                    ELSE [proc[p] EXCEPT !.raced = TRUE]]

UnpinProg ==
    /\ unpin = "prog"
    /\ prog_pin' = None
    /\ unpin' = "maps"
    /\ Overtaken
    /\ UNCHANGED <<kernel, map_pins, version_pin, writer, loads, probe, disk>>

\* The rest of the directory, the program pin too if it is there again.
UnpinMaps ==
    /\ unpin = "maps"
    /\ map_pins' = None /\ version_pin' = None /\ prog_pin' = None
    /\ unpin' = "idle"
    /\ Overtaken
    /\ UNCHANGED <<kernel, writer, loads, probe, disk>>

Init ==
    /\ proc = [p \in Proc |-> Gone]
    /\ link = None /\ netdev = 1 /\ ifs = 1 /\ lost = 0
    /\ map_pins = None /\ version_pin = None /\ prog_pin = None
    /\ writer = [m \in Load |-> None]
    /\ loads = 0
    /\ unpin = "idle" /\ probe = None
    /\ object = "OK" /\ objects = 0 /\ edits = 0

\* What a process does by itself.
Step(p) ==
    \/ Preflight(p) \/ PreflightRefused(p) \/ OpenMonitor(p) \/ LoadAndPinMaps(p) \/ PinVersion(p)
    \/ ReconcileStartup(p) \/ ReconcileRefused(p) \/ PinProgram(p)
    \/ AttachLink(p) \/ AttachRefused(p) \/ SawDellink(p)
    \/ EpollWait(p) \/ TakeHup(p) \/ ReadConf(p) \/ HandleReload(p)

Next ==
    \/ \E p \in Proc : LoadConfig(p) \/ Step(p) \/ Hup(p) \/ Stop(p)
    \/ RemoveNetdev \/ AddNetdev \/ EditConf \/ ReplaceObject
    \/ UnpinReadPin \/ UnpinProbe \/ UnpinProg \/ UnpinMaps \/ UnpinEnds

\* The event loop is entered again after every event.
Spec == Init /\ [][Next]_vars /\ \A p \in Proc : WF_vars(Step(p))

(***************************************************************************)
(* Properties.                                                              *)
(***************************************************************************)

\* cmd_attach.c, reconcile_startup(): attaching before reconciling "would forward
\* under stale configuration".  While a single process uses the directory, packets
\* are only ever forwarded under maps it reconciled itself, whatever restarts,
\* failed starts, kills and --unpin came before.
ServesOwnConfig ==
    link # None /\ proc[link.owner].file => writer[proc[link.owner].maps] = link.prog

\* cmd_attach.c, open_link_monitor(): a process whose interface was removed, at any
\* moment from before the attach on, does not go on as if it were attached, however
\* many reloads keep the event loop busy, as long as the kernel dropped none of its
\* netlink messages.
NoticesRemoval ==
    \A p \in Proc :
        (lost = 0 /\ proc[p].pc \in Loop /\ (link = None \/ link.owner # p))
            ~> (lost > 0 \/ proc[p].pc = "down")

\* cmd_attach.c, read_signal(): signals that arrive during a reload coalesce into
\* one pending signal.  No edit is lost by that: a file-managed process with a
\* SIGHUP pending goes on to read the file at least as new as it is now.
HupHeard ==
    \A p \in Proc, n \in 0 .. MaxEdits :
        (proc[p].pc \in Loop /\ proc[p].file /\ proc[p].hup /\ edits = n)
            ~> (proc[p].pc = "down" \/ proc[p].conf >= n)

\* main.c: "--unpin  remove the pins; refuses while attached", and docs/DEPLOYMENT.md
\* s.1.2: when attached, the status line "includes the running datapath's version".
\* While a single process uses the directory, the program and map pins of an attached
\* datapath are in place and its own, after any number of restarts, kills, reused pins
\* and other objects; so is the version pin of a program that carries a version.  The
\* two reads of --unpin's probe and its removals are separate calls: where they
\* overlapped with the start itself pins may be missing, but the version pin, if there
\* is one, is still that of the program packets run.
\* (A program whose object lost its version after preflight() leaves the pin of an
\* earlier one, and two processes do not keep any of this: README s.6.)
PinsAreItsOwn ==
    /\ link # None /\ ~proc[link.owner].raced =>
          /\ prog_pin = link.prog /\ map_pins = proc[link.owner].maps
          /\ proc[link.owner].version => version_pin = link.prog
    /\ attach_probe(netdev, prog_pin) = "ATTACHED" /\ proc[link.owner].version =>
          version_pin \in {link.prog, None}
=============================================================================
