# TLA+ models of Marlin

Marlin is a layer-4 load balancer: an XDP program (`data-plane/bpf`) that steers packets of virtual
IPs to backends by a precomputed hash table, and a daemon (`data-plane/marlind`) that loads it and
keeps its BPF maps equal to a configuration file. The two share nothing but maps. `marlind` has no
transaction over them: a reload is a sequence of system calls, packets read every intermediate
state, any call can fail and the process can die between any two. That, and what several CPUs do to
one rate-limit bucket, is what these modules are about.

The rest of this file is: the inventory of the system, the modules and what they stand for, the
runs, the proofs, what was found, and what is left to do.

## 1. Inventory

| component | state | operations | hard because |
|---|---|---|---|
| VIP block planner, `vip_alloc.c` | `vip_num[]`, `refs[]`, `write_order[]` of one call | claim a kept block, claim a free one, order the writes, break a cycle by moving one entry, list what to release | addresses can be regrouped in rings; all blocks may be in use |
| table generator, `fwd_gen.c` | none | one block of `fwd_table` from members and weights | two comparisons (digest, weighted score) that must agree; minimal disruption relates blocks of different reloads |
| reconciler, `reconcile.c` | the maps: `vip_map`, `fwd_table`, `backends`, four ACL tries, `config`, `tx_ports` | `reconcile_apply()`: plan, delete stale keys, widen `acl_lists`, ACL tries, ports, backends, VIPs in plan order, release blocks, retire slots, narrow `acl_lists` | order of some twenty kinds of writes, partial failure, kill, capacity, start from maps that mix configurations |
| attach and reload, `cmd_attach.c`, `bpf_load.c` | pins in bpffs, the XDP link, netlink and signal descriptors, `cfg->file` | `--attach`, SIGHUP, SIGTERM, interface removal | restarts reuse pinned maps; nothing locks the pin directory |
| status and unpin, `cmd_status.c`, `cmd_unpin.c` | the same pins | probe, unlink | probe and unlink are separate calls |
| configuration, `conf.c`, `conf_value.c`, `conf_check.c`, `config.c`, `cmd_check.c` | `struct marlin_conf` and `struct conf_diag` of one call, `cfg->file`, what `cfg` borrows from it | open, parse, validate, compare with the previous file, for five commands | errors are detected by counting diagnostics that are capped; the file and the host change under the reader; the identity rule compares with a file, not with the maps |
| preflight, `preflight.c` | none | probes of the host and of the object's version | the object is opened again to be loaded |
| parser, `parser.c` | `marlin_ctx` of one packet | Ethernet, IPv4/IPv6, extension headers, fragments, ports, ICMP errors, QUIC | pieces of one flow arrive in very different shapes |
| ACL, `acl.c` | reads tries and a copy of `acl_lists` | allow, block, enforce per VIP | tries change between its lookups |
| limiter, `ratelimit.c` | one packed word per source in an LRU hash | refill and spend by compare-and-swap | CPUs race, the clock goes round, elements are reused under a pointer |
| load balancing, `lb_core.c` | reads `vip_map`, `fwd_table`, `backends` | VIP lookup, fragment rule, connection ID or hash, validation | state bit changes between check and use |
| encapsulation and next hop, `ipip.c`, `gue.c`, `vxlan.c`, `nexthop.c`, `mtu.h` | the frame | grow, FIB lookup, transmit or redirect | multi-buffer frames, FIB answers nobody expects |
| statistics, logging, hashes, checksums, tools, TOML library, packaging | – | – | not modelled, section 7 |

How they interact: `cmd_attach()` calls the reconciler at startup and on SIGHUP; the reconciler
calls the planner once, then the generator once per VIP, and writes maps; the packet path reads
those maps on every CPU; `--status` and `--unpin` look at the pins and the kernel's link from other
processes; the kernel tells `marlind` by netlink that the interface is gone.

What makes each part correct is stated as the properties of section 4. What is hard to test about it
is listed, with the line where it bites, under `hazards` in `PROJECT.json`.

## 2. Modules

| module | models | checked / proved with |
|---|---|---|
| `VipAlloc` | `vip_alloc()`, one action per iteration of its loops | `MCVipAlloc`, `VipAllocProofs` |
| `FwdGen` | `fwd_gen_block()` as an operator, both comparisons | `MCFwdMembers`, `FwdMembersProofs`, `ReconcileProofs` |
| `FwdMembers` | one VIP's block over a series of member lists | `MCFwdMembers`, `FwdMembersProofs` |
| `Reconcile` | `reconcile_apply()`, `handle_reload()`, startup, kill, unpin; EXTENDS `VipAlloc` and `FwdGen` and so composes the three | `MCReconcile`, `ReconcileProofs` |
| `Service` | abstract: what applying a configuration promises of every VIP key | `ReconcileProofs` |
| `ReconcileRefines` | the mapping under which `Reconcile` implements `Service` | `MCReconcile`, `ReconcileProofs` |
| `InFlight` | one packet's map accesses among the writes of `Reconcile`, which it EXTENDS | `MCInFlight`, `InFlightProofs` |
| `RateLimit` | `marlin_ratelimit()`, one action per access to shared memory or to the clock | `MCRateLimit`, `RateLimitProofs` |
| `TokenBucket` | abstract: buckets charged one packet after the other | `RateLimitProofs` |
| `RateLimitRefines` | the mapping under which `RateLimit` implements `TokenBucket` | `MCRateLimit`, `RateLimitProofs` |
| `Lifecycle` | `cmd_attach()` with `preflight()` and its event loop, `attach_probe()`, `cmd_unpin()`, the interface, the operator | `MCLifecycle`, `LifecycleProofs` |
| `ConfFile` | the parsers of `conf.c` and `conf_value.c` as operators | `MCConf`, `ConfProofs` |
| `ConfCheck` | the rules of `conf_check.c` as operators; EXTENDS `ConfFile` | `MCConf`, `ConfProofs` |
| `ConfLoad` | `conf_load()` in the daemon and in the operator's commands; EXTENDS `ConfCheck` | `MCConf`, `ConfProofs` |
| `Parser` | `marlin_parse()` as an operator on frames | `MCDatapath`, `DatapathProofs` |
| `Datapath` | `xdp_main()` to the verdict, one action per map lookup, with the control plane's writes in between; EXTENDS `Parser` | `MCDatapath`, `DatapathProofs` |

Names follow the source: variables are the maps and locals, actions the functions or their steps,
each with a comment naming the function. `PROJECT.json` gives for each definition the lines it
stands for.

**VipAlloc.** `entries` and `baseline` are the arguments (the keys of each `[[vip]]` and what
`vip_map` held); `num`, `refs`, `order`, `seen` and `cursor` the locals, `alloc_pc` the place.
`ClaimMatch` and `ClaimFree` are the two passes of `vip_alloc_claim()`; `OrderReady`, `OrderStuck`,
`WalkBlocker` and `Relocate` are `vip_alloc_order()`, where `refs` is updated as if the planned
writes had happened.

**FwdGen, FwdMembers.** SipHash is a constant operator, and so is `Score(n, weight)`, the double
that `log(n / 2^53) / weight` is rounded to. `ScoreAssumption` says of it only what is true of IEEE
doubles with a monotone `log()`: a larger `n` or weight does not give a lower score; two different
ones may give the same. `Normalise` keeps what `normalise()` keeps, the digest without its low bits
(`Coarse` of them collapse into one). A reload gives the VIP any list in which a backend of the list
before has kept its identity (`SameIdentities`, which is what `conf_check_against_previous()`
demands; that it compares with the last file applied completely is the matter of **readdress**,
section 6).

**Reconcile.** Six maps, and the process: `phase` is the place in `reconcile_apply()`, `conf` its
argument, `file` is `cfg->file`. A backend slot is an identity (address, mode, tunnel parameters), a
MAC, whether it encapsulates and its state bit (`up`). A write that stores what is already there is
not a step. Loops over sets (backends, rules, ports) go in any order; the VIPs go in the planner's
order. `HostFault` fails a call that is checked, `Kill` ends the process anywhere, and `Swallowed`
has the reads whose errors the code discards (`WriteConfigBlind`, `AclReadCut`, `TxReadCut`), after
which `reconcile_apply()` goes on; all of them happen at most `MaxFaults` times together.
`overlooked` is history: the lists, or `tx_ports`, of which such an error hid something. `max_frame`
of a file is omitted, stated as 0 or stated otherwise. Two reads of the wrong width in the code are
modelled by their outcomes: `KeyReadsAsId` (a 16-bit id followed by the egress name is passed as a
32-bit key) and the free choice among `RetireSlot`, `RetireFails` and `RetireDone` (a 16-bit local
is passed as one). `gens` is history: the configurations the maps may be a mix of, which is the last
one applied completely and all attempted since.

**RateLimit.** A CPU's locals are a record whose fields exist while the code has them. Time is
counted in full and seen by the code modulo `Wrap`. The map is the kernel's: `Insert` may take any
element, one that another CPU still points to included. `account`, `exhausted` and `others` are
history. `Tick` does not let a packet be under way for a whole turn of the clock (52 days): then a
compare-and-swap could succeed on a word that is equal by accident.

**Lifecycle.** A load of the object is a number that names its program, its version and the maps it
created; `writer` remembers which load last reconciled a set of maps. Every system call is a step,
`Stop` is a signal, a kill or a failed call anywhere. The event loop is `EpollWait` (which takes
what is readable, in a set), then `TakeHup` and `SawDellink` for what it found; a reload is
`TakeHup`, `ReadConf` and `HandleReload`, so that signals, edits and the removal of the interface
fall between. `object` is what `marlind_bpf_object_supported()` says of the file at that moment,
once in `Preflight` and once in `LoadAndPinMaps`, which loads whatever is there: an object without a
build version too, and then `PinVersion` leaves the pin that is there. `Preflight` is one step, its
checks other than that of the version being one outcome, `PreflightRefused`. `attach_probe()` is two
steps in `--unpin`: the program pin is read (`UnpinReadPin`), then the links (`UnpinProbe`). `raced`
is history (an `--unpin` overlapped with this start).

**InFlight.** `pkt` holds a packet's locals. It is looked up by its port and then by port 0
(`AnyPort`), two steps. If VIP and packet are of QUIC its connection ID may name any slot, which is
followed if it is up (`SelectByCid`); otherwise a row gives the slot (`ReadRow`); the state bit of
the copied slot decides last (`LoadBackend`). That the VIP and the packet are of QUIC is a free
choice. The packet points to an element of `vip_map`, not to a key: `linked` says that the element
is still in the table. Updating a key replaces its element, and a replaced or deleted element may be
taken by any later update (`Reuse`), which changes what the packet sees until it has no more use for
the pointer (`LetGo`). `RepublishKey` is the write of an equal value, which `Reconcile` leaves out
and which matters to a pointer. One packet stands for all, as packets write none of these maps;
`Brief` lets it meet one reload, not two. In phases that write no map the packet reads (`Apart`) it
does not move, which loses no order of accesses.

**ConfFile, ConfCheck.** A TOML table is a function of the keys it states, and every value that is
mistyped, too long or unreadable is `Wrong`. Operators have the names of the functions and return
what they wrote with the number of diagnostics. Addresses and prefixes are bytes of `ByteBits` bits,
so that the mask arithmetic of `conf_cidr_host_bits_set()` and `prefix_covers()` is there; VIP flags
are the integer of the ABI, packed and unpacked by division. The number of diagnostics of a loop is
the number of pairs of an element and one of its mistakes (`Total`). `IsToml` is what
`toml_parse_file()` returns: booleans where a boolean is accepted, arrays where arrays are, and
rules that are bytes; nothing bounds how many of each.

**ConfLoad.** `proc` has the daemon and one other command of the operator, each with its diagnostics
and what it read; opening, parsing and checking are steps. `iface` is what `cfg->iface` points into.
`Reconcile` and `Lifecycle` say what becomes of a configuration that was loaded.

**Parser, Datapath.** A frame is a record of what its headers say, not bytes. `Setups` are hosts:
VIPs, tables, backends, FIB answers, frames that can arrive. The verdict of the limiter is a free
choice here. The row of `config` has the two enable bits, `acl_lists` and `max_frame`, and
`WriteConfig` writes any of the host's rows at any time, one that turns the ACL off or clears the
bit of a list with rules included. `blocked`, `allowed` and `cid_slot` of a packet are history:
whether its client was blocked or allowed by the rules under the row the packet copied, or its slot
up or down, all the time since the packet arrived, whatever becomes of the packet. `SetupAssumption`
says what a host is: frames that can be on a wire (`IsFrame`), answers `bpf_fib_lookup()` can give,
backends within `MAX_BACKENDS`, and that a MAC a backend states is its own; nothing bounds the
number of hosts, frames, VIPs or rules.

Operators with the comment "Mutated form of" are deliberate faults, used one at a time in place of
the definition that follows them, to see that a property notices. They are part of no specification.

## 3. Fairness

- `Reconcile`: weak fairness of the steps of `reconcile_apply()` and of the attach that follows. The
  function is a straight sequence of bounded loops in a running process that waits for nobody; a
  kill ends the obligation by ending the process.
- `VipAlloc`: weak fairness of the planner's steps, for the same reason.
- `Lifecycle`: weak fairness of what each process does by itself. The event loop blocks in
  `epoll_wait()` and is woken by whatever is pending; signals, reloads and the interface are not
  assumed to happen. A signal stays pending until it is read, which is what `HupHeard` rests on.
- `RateLimit`, `Datapath`, `InFlight`, `ConfLoad`, `FwdMembers`, `Service` and `TokenBucket` state
  safety only.

## 4. Runs

Each takes between ten seconds and three minutes with two workers.

**planner** (`MCVipAlloc`, 572,273 states). Every cut of up to five keys into entries against every
placement of five (or four of the five) live keys on four of five blocks. Five keys are the fewest
with which an entry can be blocked by a ring it is not part of, and with five blocks every block can
be claimed. It shows that no block is scheduled to be rewritten while a foreign key leads to it
(`SafePlan`), that a valid list is never refused for want of a block (`AllocNeverFails`), that
uncontested blocks are kept (`StablePreference`), that only entries on a dependency cycle are
relocated (`RelocatedOnCycle`) and that the planner ends (`PlannerTerminates`). Deadlock is off: a
finished planner has nothing to do.

**members** (`MCFwdMembers`, 145 states). All ordered lists of up to three backends with weights 1
and 2, after every other list, one backend sometimes with another's address; the 216 rows contain
every combination of six digests for three backends, so collisions and all crossings between the two
comparisons occur. The score of a number and a weight is its rank among all of them, decided by
integer powers. `MinimalDisruption`: a row moves only away from a backend that left or lost weight,
or to one that joined or gained.

**regroup** (`MCReconcile`, 1.1 million states). Four keys in two groups, the groups crossed (a
cycle), and merged, backends coming and going, in any order of starts, reloads, stops, unpins, with
two faults, reported or swallowed, anywhere. `NoMisroute`: a row reached from a key is that row of a
table made for that key. `RowsPopulated`: no row leads to an empty slot. `ImplementsService`: with
each key's answer read through `vip_map` and `fwd_table`, every map write of every attempt is a step
of `Service`, in which answers move only towards those of the configuration being applied, row by
row, and success and the first packet wait for all of them.

**acl** (`MCReconcile`, 974,840 states). Tries of two rules, two ports and one VIP row, each full,
with configurations that replace their contents, one of which states an egress (and is refused by
the backends map) and one `max_frame = 0`. `AclBitCovers`: a trie with rules has its bit set, unless
a swallowed read error hid its bit or its rules, and again as soon as the list was read to its end.
`VipMapFits`: two populations of `vip_map` never overlap. `KeptStays`: what all configurations
involved contain is never missing while attached. `Converged`: after a successful reload the maps
equal the file, however mixed they were; a list or `tx_ports` that an error cut short holds what the
file says and may hold more. `ReconcileReturns`: `reconcile_apply()` always returns.

**limiter** (`MCRateLimit`, 3.1 million states). Three CPUs, two sources, two LRU elements, two
attempts per packet, a burst of two and a half tokens, half a token per tick, a clock that goes
round every three ticks, up to five packets. Three CPUs are needed for a packet that loses to two
others. `WithinBudget`: what is spent from a bucket is bounded by burst, refill and one burst per
turn of the clock. `NoLockout`: a drop is always due to real poverty. `ExhaustionPaid`: each packet
admitted for want of retries was preceded by `RL_CAS_RETRIES` writes of others.
`ImplementsTokenBucket`: a successful compare-and-swap is one charge to the bucket at a moment not
before the last charge, and nothing else changes a bucket. CPUs are interchangeable (symmetry; no
liveness).

**lifecycle** (`MCLifecycle`, 843,774 states). One process at a time, with or without a file, two
loads, two interface indexes, one lost netlink message, one edit, one replaced object, any number of
SIGHUPs and a concurrent `--unpin`. `ServesOwnConfig`: packets are forwarded only under maps the
attached process reconciled. `PinsAreItsOwn`: the map and program pins of an attached datapath are
its own and all there, and so is the version pin if the object that was loaded carries a version,
unless an `--unpin` overlapped with the start; even then the version pin of such a program, if there
is one, is its own. Of an object without a version nothing is said: section 6. `NoticesRemoval`: a
process whose interface went away leaves its event loop, however many reloads are asked of it,
unless its message was dropped. `HupHeard`: after a SIGHUP the file is read at least as new as it
was, signals that coalesce included. Two loads are a start on fresh and one on reused pins; what
precedes them only matters through pins and maps. Deadlock is off: with its bounds spent and no
interface nothing is left to happen.

**inflight** (`MCInFlight`, 5.4 million states). Three keys, two of them a port and port 0 of one
address, three backends, one of them down throughout and one that goes down and away, three
configurations that state one VIP alike while its neighbours are split, moved and removed, one
fault, a packet of any key, with any connection ID or none, at any point. `InFlightKnown`: a packet
is sent only to a slot that was up when it was copied. One that a row sent goes to a member of a VIP
in a configuration of its flight, as that or another of them describes it. Of one that a connection
ID sent this holds for backends that stayed in the file, and nothing for others: the ID may name a
slot that no row leads to. `InFlightUndisturbed`: a connection ID is followed exactly when the
backend it names, stated alike by all of them, is up; and in the VIP that all of them state alike a
packet that no ID sent meets the backend of its row and is sent, or dropped if that is down, as if
there were no reload, unless its element was taken for another key under its pointer. That exception
is real and `docs/design/31` s.8 leaves room for it.

**conf** (`MCConf`, 77,000 states). 173 files: a good one, three variants that bring other rules
into reach (QUIC, a group hashed by address, VXLAN), and each with one key absent, mistyped, at a
boundary or past it, or a section missing; arrays at their limits; a report of two diagnostics (64
in the code), so that it overflows. The files of `Revisions` are also edited, chmodded and met with
interfaces missing, once, between any two steps of the daemon and of a command. `AcceptedServes`:
what is accepted can be served and metered. `AsStated`: flags, ports, fib and state are those of the
file or the documented default. `GroupTogether`: the addresses of an SCTP group hash alike.
`NoRuleLost`: rules written differently match differently. `SilentMeansFine`: no dead rule,
memberless VIP or idle limiter without a warning. `CheckAgrees`: of one text `--check` and the
daemon say the same. `IdentityStable`: across refused, failed and accepted reloads, a backend keeps
its identity under its id.

**packets** (`MCDatapath`, 1,020,875 states). Three families of hosts. *Steering*: two packets of a
flow in any shapes (whole, fragments, extension-header chains, ICMP errors about it, QUIC) under
every hashing mode, with one change of a backend's state. *Filtering*: one packet, two writes to
rules or to the config row between its lookups, with rules whose bit is clear and the ACL on or off.
*Sending*: every kind of backend, every FIB answer, frame lengths at the boundary of `max_frame`.
Two packets suffice as the properties relate two; nothing in the path depends on a third.
`FlowAffinity`: what the hash forwards of one connection goes to one backend. `HalvesTogether`:
fragments of a datagram are not split between a backend and the host. `QuicHonoured`: a connection
ID is followed while its slot is up and ignored while it is down. `FilterHolds`: a client blocked
ever since the packet copied config is neither forwarded by an enforcing VIP nor passed on for want
of a VIP, one allowed is neither blocked nor metered; it does not cover what the parser passes to
the host ahead of the ACL (section 6). `DirectDelivery`: layer-2 frames go to the backend's own MAC.
`FrameFits`: encapsulated frames fit `max_frame`.

Three runs state what the repository says and the code does not do; section 6.

## 5. Proofs

Every theorem is for every value of the constants: any number of VIPs, keys, blocks, backends, CPUs,
sources, frames, restarts and faults, from the assumptions named in the modules. All but a few
invariants of section 4 needed a strengthening, which is defined in the proof module and explained
there; the parts of each are named, and each action has a lemma or a step of its own.

**The planner, `VipAllocProofs`.** Assumption: the lists are sequences of keys without repetition,
the baselines map keys to blocks.

- `PlannerTypeOK` and `PlannerSafe` (`SafePlan`). `SafePlan` talks about the finished part of a plan
  and is not inductive. `PlanInv` adds that `refs` is exactly the effect of the writes planned so
  far (`RefsTrack`), that no two entries hold the same block (`NumsDistinct`), that an entry is
  written once (`OrderOnce`), what holds at each place of control (`AtControl`: in particular a
  relocated entry is one the plan has not mentioned yet, so that nothing said about earlier
  positions changes), and `SafeWrites`, which is `SafePlan` with the owner of each key named.
- `PlannerNeverFails` (`AllocNeverFails`) is counting. An accepted list has no more keys than there
  are blocks (`Accepted`). If the second pass found no block, each block would be the number of an
  entry other than the present one, hence have a key of its own, and one key would be left over. If
  a relocation found none, each block would have a live key leading to it or an entry without live
  keys; but where every unwritten entry is blocked (`WalkStuck`) two live keys lead to one block
  (`SharedBlock`), so that again there would be a key too many. That they do needs the order of the
  claims: of two entries in each other's way one has a block of its own keys (`ClaimsInOrder`).
- `PlannerStable` (`StablePreference`), from `PreferenceKept`: a block that only one entry's keys
  lead to is not taken by the others in the first pass, is taken already in the second, and its
  owner is never blocked, hence never relocated.
- `PlannerRelocates` (`RelocatedOnCycle`). Where the walk stands does not tell that it is on a
  cycle; `WalkInv` keeps the way it came, an enumeration of `seen` without repetition in which each
  entry is blocked by the next. Coming back to one of them closes a cycle, and as the way is
  injective the cycle is no longer than there are entries.

**The generator, `FwdMembersProofs`.** Assumptions: `MemberListsAssumption`, what `conf_check()` and
`parse_vip_member()` let through, and `ScoreAssumption` above. `BlockInvariant`: the block is that
of the present list and of nothing else. `MinimalDisruptionTheorem` (`MinimalDisruption`): the scan
ends at a member no member beats (`PickRowBest`, by looking at the first index where it would not,
since both comparisons order members by a number and then by id). If a row went from *a* to *b*
although *a* lost no weight and *b* gained none, both are in both lists, and in each of the four
combinations of comparisons before and after, *a* not behind *b* before and *b* not behind *a* after
contradict each other (`NotOvertaken`), except where digests differ and scores do not (`Collides`).

**The reconciler, `ReconcileProofs`.** Assumption: `ValidConf`, what `conf_check()` guarantees of a
file that is accepted.

- `AclAlwaysCovered` (`AclBitCovers`). `AclInv` adds that from the union write on the bits of the
  new population are set, and that the lists before `index` that are not `overlooked` are already as
  the file says, so that the last write clears bits of empty tries only, or of overlooked ones. It
  survives failures and kills because nothing in it is required outside `reconcile_apply()`.
- `RouteInv` is the invariant behind `NeverMisrouted` (`NoMisroute`), `RowsAlwaysPopulated`,
  `VipMapAlwaysFits`, `KeptAlwaysStays`, `AlwaysConverged` and `RoutingTypeOK`. A row may be
  overwritten because the plan is safe, and `SafePlan` speaks of the `vip_map` the plan was made
  from; so `RouteInv` says how the live maps follow the plan: keys of entries before `index` lead to
  their new, complete blocks, those of later entries where they led (`KeysLead`, `TablesDone`), keys
  of nobody are gone before the first new one appears (`StaleGone`), and slots and ports are written
  before rows lead to them (`SlotsWritten`, `PortsAdded`). It contains `PlanInv` and `ChoiceInv`,
  which the planner keeps while it is called from here. `Settled` adds that a file applied once more
  finds its own blocks.
- The rows themselves: the scan of `fwd_gen_block()` is a recursive function of the members. That it
  exists and returns one of them is shown without induction, by looking at the lowest index at which
  it would not (`LowestNat`, from the well-foundedness of the naturals).

**Refinement, also in `ReconcileProofs`.** `ReconcileImplementsService`: under the mapping of
`ReconcileRefines` (a key's answer is its block's table, or `Missing`; rows change one at a time)
the initial states map to initial states and every step maps to a step of `Service` or to none:
`RouteInv` shows that a row written is a row of a key that wants it, and of no key that is served
otherwise. Assumption: `Missing` is not a table.

**A packet in flight, `InFlightProofs`.** `SentOnlyToKnown` (`InFlightKnown`) and
`UndisturbedAlways` (`InFlightUndisturbed`). The invariant is `RouteInv` with `AclInv` and four more
parts. `SlotsKept`: the slot of a backend that all configurations involved contain is as one of them
states it, which is what a connection ID can rely on (`PacketCid`). `KeySlots` strengthens
`RowsPopulated`: the slot a key leads to is as one of the configurations involved states it.
`SteadyInv`: a VIP that all of them state alike has its block to itself, with its table, now and in
the baseline of the plan, whence by `PreferenceKept` the plan leaves it there. `FlightInv` follows
the packet, which holds a block number no key may lead to any more: what it may find there is known
from the configurations of its flight, or zeroed, and it is sent only if the copied slot is up.

**The limiter, `RateLimitProofs`.** Assumption: `RateLimitAssumption`, the ranges of the parameters;
a burst is at least one token, which `conf_check()` demands.

- `ExhaustionIsPaid` (`ExhaustionPaid`). `PaidInv` charges one write of another CPU to every attempt
  lost so far and to the present one if it is already bound to be lost.
- `LimiterTypeOK`, `NeverOverspent` (`WithinBudget`), `NeverLockedOut` (`NoLockout`). `HandInv` says
  of each CPU in the middle of an attempt that the word it holds was a charged bucket, not newer
  than the time it read, and that time is now or less than a turn of the clock has passed since that
  bucket. Hence a word that compares equal is the bucket as it is, and within a turn the difference
  of two readings modulo `Wrap` is the time passed or negative (`TurnsInOrder`).
- `LimiterRefines` (`ImplementsTokenBucket`): a successful compare-and-swap is `Charge`, an
  insertion `Open`, every other step leaves the buckets alone.

**The life cycle, `LifecycleProofs`.** `AlwaysServesOwnConfig` (`ServesOwnConfig`) and
`PinsAlwaysItsOwn` (`PinsAreItsOwn`), for any number of loads, interfaces, edits and faults, under
`OneProcess`: at most one `--attach` runs over the pin directory at a time. Nothing in the code
enforces that (no lock), and without it the second is false (section 6); `--unpin` and the operator
remain concurrent. `LifeInv` says that a link is of a process in its loop, which maps a process
holds and who wrote them last, which pins are its own from the moment they are made unless an
`--unpin` overlapped, and that an `--unpin` that begins while a process is attached has read that
process's program pin, so that its second step refuses (`SeenAttached`).

**The packet path, `DatapathProofs`.** `PathInv` relates the packet's locals to its frame and to its
history: while the history says blocked, or allowed, the rules say so under the copied row, and the
tuple's source is the client of the frame's connection, so the lookup sees it (`RulesSeen`,
`AclMatch`, `AclSeen`); what was parsed, admitted and chosen is a function of the frame and the host
(`Admitted`, `Chosen`). From it follow `FilterAlwaysHolds`, `AlwaysDirect`, `FrameAlwaysFits` and
`QuicAlwaysHonoured`, and for two packets `FlowAlwaysTogether` and `HalvesAlwaysTogether`, which
rest on lemmas about `marlin_parse()`: for extension-header chains of any length the tuple shows the
connection (`TupleShows`), and the two halves of a datagram are walked to the same protocol or
refused.

**The configuration, `ConfProofs`.** Assumptions: every file is absent, not TOML, or a TOML document
(`IsToml`); the limits are numbers and a report holds at least one diagnostic. Any number of files,
edits, sections, entries and rules, any width of a byte and of an address.

- Bottom up, each parser and each rule has a lemma that says: the number of diagnostics is a natural
  number, and if it is 0, what was written is what the file states (`...Of`) or satisfies the rule
  (`...Fine`). Totals are cardinalities, so that a total of 0 means 0 everywhere (section *Counting*
  of the module).
- The masks. That `conf_cidr_host_bits_set()` finds every bit behind the prefix, and that
  `prefix_covers()` compares exactly the bits before it, is arithmetic on quotients by powers of two
  (`PowerNext`, the bits of a byte), from which `NoRuleLostTheorem` and `SilentMeansFineTheorem`
  follow. That the flags, the connection-ID length and the DSCP packed into one word are read back
  is the same for `AsStatedTheorem`.
- `LoadInv` is the inductive invariant. No property of a loaded configuration is inductive, since
  errors are detected by comparing counts; `ProcInv` says that between the steps of `conf_load()` no
  diagnostic has been counted, that what a process holds is `Read` of the text it read, whatever the
  file is by now, and that `out` is what the text deserves (`Accepts`, a function of the text alone:
  hence `CheckAgreesTheorem`). `DaemonInv` adds that what is about to be applied was compared with
  what is in force, and that ids are unique in both, whence `IdentityStableTheorem`.
  `AcceptedServesTheorem` and `GroupTogetherTheorem` follow from `ConfFine` of what was accepted.
- `HandleReload` resets the diagnostics, without which `ProcInv` fails at the cap: that is the
  hazard of `conf.c:42`, and the mutant of `AcceptedServes`.

Checked and not proved: the liveness properties (`PlannerTerminates`, `ReconcileReturns`,
`NoticesRemoval`, `HupHeard`), as fairness and ENABLED are outside the prover's reach. Every
invariant and every action property of a passing run is proved. The runs whose property is violated
have nothing to prove.

## 6. Where code and documentation differ

Checked, each by a run whose property is the documented statement:

1. **egress** – `write_backends()` passes the address of the 16-bit `conf_backend.id` as a 32-bit
   map key; with an egress stated the bytes after it are not zero and the backends map refuses a
   configuration that validation accepted (`reconcile.c:506`). `retire_stale_backends()` passes a
   16-bit local the same way (`reconcile.c:532`): the slot of a removed backend can be missed and
   stays populated after a reload that succeeds, against `docs/design/10-map-invariants.md:11`. No
   row leads to it; a QUIC connection ID still does (`lb_core.c:280`), so that packets can go to a
   backend that is gone from the file.
2. **readdress** – a reload is compared with the last file that was applied completely
   (`cmd_attach.c:168`). After one that failed half-way the next may change the address of a slot
   rows lead to, against `docs/design/17-reconfiguration.md:45`. `mac`, in the same list, is not
   compared at all (`conf_check.c:415`).
3. **stale_iface** – `cfg->iface` is borrowed from `cfg->file` (`config.c:95`), which a successful
   reload frees (`cmd_attach.c:177`); the status line of that reload and the messages at the end
   read the freed name (`cmd_attach.c:188`, 295, 302), against `marlind.h:65`.

Seen while modelling, without a run of their own:

- Any error of `bpf_map_get_next_key()` is taken for the end of an ACL trie (`reconcile.c:213`, 274)
  or of `tx_ports` (477), while `read_vip_baseline()` tests for ENOENT (139). The reload then
  succeeds with rules or ports of an earlier file left in place, and the last `write_config()`
  clears the bit over such rules, against "a bit is never clear while its trie is non-empty"
  (`docs/design/31:445`). The error of reading the old `acl_lists` is discarded (429), which
  uncovers tries until they are emptied. `AclBitCovers` and `Converged` say what is kept: the damage
  is confined to what was hidden, and the next reconciliation that reads the list to its end repairs
  it.
- A source that is blocked "still cannot reach the Marlin host itself" (`docs/design/11`:89-91).
  What `marlin_parse()` ends is passed to the host before `marlin_acl_check()` (`main.c:93`): echo
  requests, other ICMP and its later fragments, protocols without ports, frames that are not IP
  (`parser.c:219`, 306, 421). `FilterHolds` is about what comes behind the parser.
- `pin_version()` says that `check_object_version()` "already refuses to reach here" without a build
  version (`bpf_load.c:115`). The object is opened again to be loaded, and one installed in between
  may have none; the pin of an earlier load then stays, and `--status` prints its version as the
  running datapath's (`docs/DEPLOYMENT.md:143`).
- Packets admitted through exhausted retries are bounded by the number of CPUs that contend, not by
  the burst (`docs/design/28-rate-limiting.md:104`); `ExhaustionPaid` is what does hold.
- With two processes in `Proc`, a second `--attach` replaces the pins before it is refused:
  `--status` shows its version and not the running one (`docs/DEPLOYMENT.md:142`), and no longer
  takes the attached program for its own, so that `--unpin` goes ahead.
- `max_frame = 0` stated beside an encapsulating backend is accepted (`conf.c:217`) and written
  (`reconcile.c:389`), where `docs/design/20:16` and `docs/design/31:246` say it is rejected;
  `Converged` excepts it. `docs/design/20` promises warnings for `VIP_ACL` while the ACL is disabled
  and for a DSCP without a tunnel; `conf_check.c` has neither. Its warning about broad prefixes is
  given for block rules too.
- `--check` prints how many errors were dropped from the report, not how many warnings.
- `--unpin` "refuses while the datapath is attached" (`docs/DEPLOYMENT.md:173`), by a probe that an
  `--attach` can overtake (`cmd_unpin.c:34`). The datapath goes on forwarding on maps without pins;
  `ServesOwnConfig` holds in that state.
- A netlink receive error, ENOBUFS after an overflow included, is taken for "no message"
  (`cmd_attach.c:69`): the process can stay in its loop without a link. `NoticesRemoval` is stated
  for undisturbed delivery.
- `normalise()` drops the low bits of a digest, so that two digests can tie in one comparison and
  not in the other (`fwd_gen.c:46`); a change between equal and unequal weights can move such a row
  between members it does not concern. With 53 bits left this is of no practical weight;
  `MinimalDisruption` excepts these rows (`Collides`).
- `tx_ports` and ACL tries have room for the larger of two populations only when they overlap
  enough, since new entries go in before old ones leave; `AclFull` and `TxPortsFull` refuse such a
  reload, and `KeptStays` holds through the refusal.

## 7. What is not modelled

Bytes: header layouts, checksums, SipHash, entropy of outer ports, the arithmetic of connection IDs.
They are pinned by test vectors in `data-plane/tests`. The characters of the configuration:
addresses, MACs and hex keys are read or not; so is a TOML file. The comparison of versions
(`compat.h`) and the other checks of `preflight.c` (root, file mode, bpffs, offloads by ethtool) are
outcomes of one step; they change nothing. Statistics are never read back. Of `log()` in double
precision only its monotonicity is used. `vip_meta` flags, rate-limit parameters and `tunnel_src`
travel with writes that are modelled and add no ordering. The environment-managed mode loads and
attaches without reconciling. The control-plane directory has no code at this commit. Vendored TOML
parser, packaging, tools and test rigs are left out.

## 8. Plan

Built in this order, the most important behaviour first: planner, generator, reconciler (which
composes them), limiter, parser and packet path, life cycle; then the refinements, the packet in
flight, the event loop, and the configuration; then the proofs, in the order of section 5. What is
left is outside of what these tools prove: the four liveness properties stay with TLC. Worth adding
when the code grows: the control plane, once it exists, as a second writer of configurations beside
the file; and a lock over the pin directory, with which `OneProcess` would be a theorem and not a
hypothesis.
