------------------------------ MODULE ConfLoad ------------------------------
(***************************************************************************)
(* Loading a configuration file: open_conf_file() and conf_load() of        *)
(* marlind/conf.c as the commands use them.  The daemon loads the file in   *)
(* --attach and again on every SIGHUP (config.c, cmd_attach.c); beside it   *)
(* the operator runs --check (cmd_check.c), --status or --unpin, which read *)
(* [instance] alone, and --version, and edits the file, its permissions and *)
(* the host's interfaces at any moment.                                     *)
(*                                                                         *)
(* The file is opened and read in one step each; what is made of it is      *)
(* local to the process (modules ConfFile and ConfCheck).                   *)
(***************************************************************************)
EXTENDS ConfCheck

CONSTANTS
    Files,       \* what the file may hold when the operator begins
    Revisions,   \* what it may be edited to
    NoFile,      \* the file does not exist
    NoConf,      \* NULL
    Host,        \* interfaces the host may have
    DiagMax,     \* MARLIN_CONF_DIAG_MAX
    MaxChanges   \* bound: changes the operator makes

ASSUME ConfLoadAssumption ==
    /\ DiagMax \in Nat \ {0} /\ MaxChanges \in Nat
    /\ \A f \in Files \cup Revisions : f \in {NoFile, Wrong} \/ IsToml(f)

VARIABLES
    text,     \* the file on disk
    perms,    \* of its mode bits: "writable" (group or world), "readable" (world)
    host,     \* interfaces that exist
    changes,  \* changes so far
    proc,     \* the daemon and the operator's other command
    file,     \* cfg->file of the daemon
    iface     \* what cfg->iface of the daemon points into: "file", cfg->file, or "freed"

vars == <<text, perms, host, changes, proc, file, iface>>

disk == <<text, perms, host, changes>>

Proc == {"daemon", "tool"}

Diag == [count |-> 0, dropped |-> 0, warn_count |-> 0, warn_dropped |-> 0]

\* A process: its command, where it is in it, its diagnostics and how many there
\* were when conf_load() began, the table it read and the configuration it makes
\* of it; out is how its last conf_load() ended.
Idle == [cmd |-> "none", phase |-> "idle", diag |-> Diag, before |-> 0, top |-> NoConf,
         conf |-> NoConf, out |-> "none"]

\* diag_append(), errs and warns times.
diag_append(diag, errs, warns) ==
    [count |-> Min({diag.count + errs, DiagMax}),
     dropped |-> diag.dropped + Max({0, diag.count + errs - DiagMax}),
     warn_count |-> Min({diag.warn_count + warns, DiagMax}),
     warn_dropped |-> diag.warn_dropped + Max({0, diag.warn_count + warns - DiagMax})]

\* --check is for anybody and --version prints what it can; the others refuse a
\* file that others may write.
enforce_perms(cmd) == cmd \in {"attach", "reload", "status"}

\* CONF_LOAD_INSTANCE_ONLY.
instance_only(cmd) == cmd \in {"status", "version"}

Set(p, r) == proc' = [proc EXCEPT ![p] = r]

(***************************************************************************)
(* conf_load().                                                             *)
(***************************************************************************)

\* It returns NULL: out says why.  --attach, --status and --check exit, --version
\* falls back on the default object, the daemon goes on as it was.
Refuse(p, diag, top, out) ==
    Set(p, [proc[p] EXCEPT !.phase = IF proc[p].cmd = "reload" THEN "run" ELSE "idle",
                           !.diag = diag, !.top = top, !.conf = NoConf, !.out = out])

\* main() and load_config(), cmd_check() or config_obj_path().
Start(p, cmd) ==
    /\ proc[p].phase = "idle"
    /\ Set(p, [Idle EXCEPT !.cmd = cmd, !.phase = "open"])
    /\ UNCHANGED <<disk, file, iface>>

\* Mutated form of HandleReload: diag keeps what earlier reloads reported.
HandleReloadNoReset ==
    /\ proc["daemon"].phase = "run"
    /\ Set("daemon", [proc["daemon"] EXCEPT !.cmd = "reload", !.phase = "open",
                                            !.before = proc["daemon"].diag.count, !.out = "none"])
    /\ UNCHANGED <<disk, file, iface>>

\* SIGHUP: handle_reload() begins with empty diagnostics.
HandleReload ==
    /\ proc["daemon"].phase = "run"
    /\ Set("daemon", [Idle EXCEPT !.cmd = "reload", !.phase = "open"])
    /\ UNCHANGED <<disk, file, iface>>

\* open_conf_file(): the permissions are those of the file that was opened.
OpenConfFile(p) ==
    /\ proc[p].phase = "open"
    /\ IF text = NoFile \/ (enforce_perms(proc[p].cmd) /\ "writable" \in perms)
       THEN Refuse(p, diag_append(proc[p].diag, 1, 0), NoConf, "denied")
       ELSE Set(p, [proc[p] EXCEPT !.phase = "parse", !.top = text,
                                   !.diag = diag_append(@, 0, Cardinality(perms))])
    /\ UNCHANGED <<disk, file, iface>>

\* The sections of the file; with CONF_LOAD_INSTANCE_ONLY the first alone.
ParseSections(top, only) ==
    LET inst == parse_instance(top)
        acl == parse_acl(top)
        rl == parse_ratelimit(top)
        bes == parse_backends(top)
        vips == parse_vips(top)
    IN IF only THEN [val |-> [instance |-> inst.val], errs |-> inst.errs]
       ELSE [val |-> [instance |-> inst.val, acl |-> acl.val, ratelimit |-> rl.val,
                      backends |-> bes.val, vips |-> vips.val],
             errs |-> inst.errs + acl.errs + rl.errs + bes.errs + vips.errs]

\* toml_parse_file() and the parsers.  The descriptor reads the file that was opened,
\* and what was written to it since; a file moved into its place it does not see.
\* Files that are not TOML are Wrong.
Parse(p) ==
    \E top \in {proc[p].top, text} \ {NoFile} :
        LET only == instance_only(proc[p].cmd)
            parsed == ParseSections(top, only)
            diag == diag_append(proc[p].diag, IF top = Wrong THEN 1 ELSE parsed.errs, 0)
        IN /\ proc[p].phase = "parse"
           /\ IF top = Wrong \/ diag.count # proc[p].before
              THEN Refuse(p, diag, top, "refused")
              ELSE Set(p, [proc[p] EXCEPT !.phase = IF only THEN "loaded" ELSE "check",
                                          !.diag = diag, !.top = top, !.conf = parsed.val,
                                          !.out = IF only THEN "loaded" ELSE "none"])
           /\ UNCHANGED <<disk, file, iface>>

\* An allocation fails on the way: one diagnostic, and no configuration.
OutOfMemory(p) ==
    /\ proc[p].phase = "parse"
    /\ Refuse(p, diag_append(proc[p].diag, 1, 0), NoConf, "denied")
    /\ UNCHANGED <<disk, file, iface>>

\* conf_check(); the interfaces are looked up now.
ConfCheck(p) ==
    LET checked == conf_check(proc[p].conf, host)
        diag == diag_append(proc[p].diag, checked.errs, checked.warns)
    IN /\ proc[p].phase = "check"
       /\ IF diag.count # proc[p].diag.count THEN Refuse(p, diag, proc[p].top, "refused")
          ELSE Set(p, [proc[p] EXCEPT !.phase = "loaded", !.diag = diag, !.conf = checked.val,
                                      !.out = "loaded"])
       /\ UNCHANGED <<disk, file, iface>>

(***************************************************************************)
(* What the commands do with a configuration.                               *)
(***************************************************************************)

\* --check and --version print and free it; --status and --unpin go on to their
\* own work (module Lifecycle), whether or not the interface is there.
Finish(p) ==
    /\ proc[p].phase = "loaded" /\ proc[p].cmd \in {"check", "version", "status"}
    /\ Set(p, [proc[p] EXCEPT !.phase = "idle", !.conf = NoConf])
    /\ UNCHANGED <<disk, file, iface>>

\* load_config_file(): cfg->iface is borrowed from cfg->file.  reconcile_startup()
\* then succeeds and the daemon runs ...
Attach ==
    /\ proc["daemon"].phase = "loaded" /\ proc["daemon"].cmd = "attach"
    /\ proc["daemon"].conf.instance.iface \in host
    /\ file' = proc["daemon"].conf
    /\ iface' = "file"
    /\ Set("daemon", [proc["daemon"] EXCEPT !.phase = "run", !.conf = NoConf])
    /\ UNCHANGED disk

\* ... or there is no such interface, or preflight() or the reconcile refuses.
AttachFails ==
    /\ proc["daemon"].phase = "loaded" /\ proc["daemon"].cmd = "attach"
    /\ Set("daemon", [proc["daemon"] EXCEPT !.phase = "idle", !.conf = NoConf])
    /\ UNCHANGED <<disk, file, iface>>

\* conf_check_against_previous().
CheckAgainst ==
    LET errs == conf_check_against_previous(proc["daemon"].conf, file)
        diag == diag_append(proc["daemon"].diag, errs, 0)
    IN /\ proc["daemon"].phase = "loaded" /\ proc["daemon"].cmd = "reload"
       /\ Set("daemon", IF diag.count # proc["daemon"].diag.count
                        THEN [proc["daemon"] EXCEPT !.phase = "run", !.diag = diag, !.conf = NoConf]
                        ELSE [proc["daemon"] EXCEPT !.phase = "apply", !.diag = diag])
       /\ UNCHANGED <<disk, file, iface>>

\* reconcile_apply() succeeds: cfg->file is freed and replaced, cfg->iface is not.
Apply ==
    /\ proc["daemon"].phase = "apply"
    /\ file' = proc["daemon"].conf
    /\ iface' = "freed"
    /\ Set("daemon", [proc["daemon"] EXCEPT !.phase = "run", !.conf = NoConf])
    /\ UNCHANGED disk

\* It fails somewhere; cfg->file stays.
ApplyFails ==
    /\ proc["daemon"].phase = "apply"
    /\ Set("daemon", [proc["daemon"] EXCEPT !.phase = "run", !.conf = NoConf])
    /\ UNCHANGED <<disk, file, iface>>

\* SIGTERM: free_config().
Stop ==
    /\ proc["daemon"].phase = "run"
    /\ file' = NoConf /\ iface' = "file"
    /\ Set("daemon", Idle)
    /\ UNCHANGED disk

(***************************************************************************)
(* The operator.                                                            *)
(***************************************************************************)

\* A bound: the operator changes things only where the file is one of Revisions, so
\* that TLC reads each of the many Files once and not under every change.
Change ==
    /\ changes < MaxChanges /\ text \in Revisions
    /\ changes' = changes + 1
    /\ UNCHANGED <<proc, file, iface>>

Edit == Change /\ text' \in Revisions \ {text} /\ UNCHANGED <<perms, host>>

Chmod == Change /\ perms' \in SUBSET {"writable", "readable"} \ {perms} /\ UNCHANGED <<text, host>>

Link == Change /\ host' \in SUBSET Host \ {host} /\ UNCHANGED <<text, perms>>

Init ==
    /\ text \in Files /\ perms = {} /\ host = Host /\ changes = 0
    /\ proc = [p \in Proc |-> Idle]
    /\ file = NoConf /\ iface = "file"

Next ==
    \/ Start("daemon", "attach") \/ HandleReload
    \/ \E cmd \in {"check", "status", "version"} : Start("tool", cmd)
    \/ \E p \in Proc : OpenConfFile(p) \/ Parse(p) \/ OutOfMemory(p) \/ ConfCheck(p) \/ Finish(p)
    \/ Attach \/ AttachFails \/ CheckAgainst \/ Apply \/ ApplyFails \/ Stop
    \/ Edit \/ Chmod \/ Link

Spec == Init /\ [][Next]_vars

(***************************************************************************)
(* Properties.                                                              *)
(***************************************************************************)

\* A whole file has just been loaded.
Loaded(p) == proc[p].phase = "loaded" /\ ~instance_only(proc[p].cmd)

\* Configurations conf_load() has just returned; cfg->file is always one that was.
Accepted == {proc[p].conf : p \in {q \in Proc : Loaded(q)}}

\* A metered VIP's bucket refills, holds at least a packet and does not overflow,
\* and what the ACL allows is exempt from it.
Meterable(c) ==
    \A e \in DOMAIN c.vips :
        Flag(c.vips[e].flags, "ratelimit") =>
            /\ Flag(c.vips[e].flags, "acl")
            /\ c.ratelimit.enabled =>
                  /\ c.acl.enabled
                  /\ c.ratelimit.burst_packets \in 1 .. 2^24 - 1
                  /\ marlind_scale_refill(c.ratelimit.tokens_per_sec) > 0

Serves(c) ==
    LET backend(m) == {b \in Range(c.backends) : b.id = m.backend_id}
    IN /\ Count(KeyPlaces(c)) <= MaxVips
       /\ \A at, by \in KeyPlaces(c) : KeyAt(c, at) = KeyAt(c, by) => at = by
       /\ \A at \in KeyPlaces(c) : KeyAt(c, at).family \in {4, 6} /\ KeyAt(c, at).proto # "none"
       /\ {b.id : b \in Range(c.backends)} \subseteq 1 .. MaxBackends - 1
       /\ \A e \in DOMAIN c.vips :
             /\ DOMAIN c.vips[e].keys # {}
             /\ \A m \in Range(c.vips[e].members) :
                   {b.name : b \in backend(m)} = {m.backend_name} /\ m.weight > 0
       /\ \A b \in Range(c.backends) :
             /\ b.addr # 0
             /\ b.mode # "l2dsr" => c.instance.tunnel_src_set
             /\ b.mode = "vxlan" <=> b.vni \in 1 .. 2^24 - 1 /\ b.inner_mac # 0
       /\ Meterable(c)

\* docs/design/20-configuration-validation.md.  However many mistakes were reported
\* before and dropped from the report, a configuration that is returned can be
\* served: its addresses are distinct, complete and fit vip_map, its backends have
\* a slot each, every member is a backend of the file, every tunnel has what its
\* headers need, and what is metered can be.
AcceptedServes == \A c \in Accepted : Serves(c)

\* What a file says, read without the code: a key that is absent has its default.
Says(tab, key, default) == IF key \in DOMAIN tab THEN tab[key] ELSE default

Stated(c, top) ==
    /\ \A e \in DOMAIN c.vips :
          /\ \A key \in FlagKeys :
                Flag(c.vips[e].flags, key) = Says(top.vip[e], key, FALSE)
          /\ VIP_QUIC_CID_LEN(c.vips[e].flags) = Says(top.vip[e], "quic_cid_len", 0)
          /\ VIP_DSCP(c.vips[e].flags) = Says(top.vip[e], "dscp", 0)
          /\ \A k \in DOMAIN c.vips[e].keys :
                c.vips[e].keys[k].port = Says(top.vip[e], "port", 0)
    /\ \A i \in DOMAIN c.backends :
          /\ c.backends[i].fib = Says(top.backend[i], "fib", "mac" \in DOMAIN top.backend[i])
          /\ c.backends[i].up = (Says(top.backend[i], "state", "up") = "up")

\* conf.c, get_bool(): a variable that was not written "once produced flags leaking
\* from one key to the next".  What was loaded is what the file says, flag by flag,
\* with the defaults of docs/design/31-file-configuration.md for what it does not say.
AsStated == \A p \in Proc : Loaded(p) => Stated(proc[p].conf, proc[p].top)

\* What is hashed (lb_core.c) of a packet to one of the addresses of a VIP.
HashInput(v, key) ==
    IF Flag(v.flags, "hash_5tuple") THEN <<"tuple", key.addr>>
    ELSE IF Flag(v.flags, "hash_ports") THEN <<"ports", 0>>
    ELSE <<"source", key.family>>

\* docs/design/32-sctp.md: the addresses of an SCTP group lead to one row for one
\* association.  What is hashed does not depend on which of them, of which family, a
\* packet is sent to.
GroupTogether ==
    \A c \in Accepted : \A e \in DOMAIN c.vips : \A k, m \in Range(c.vips[e].keys) :
        k.proto = "sctp" => HashInput(c.vips[e], k) = HashInput(c.vips[e], m)

\* The bits of an address a prefix fixes, from the first.
Bits(rule) ==
    [n \in 1 .. rule.prefixlen |->
        (rule.addr[(n - 1) \div ByteBits + 1] \div 2^((ByteBits - 1) - ((n - 1) % ByteBits))) % 2]

\* conf_value.c: with host bits set two rules "would otherwise become the same trie
\* key with no sign a rule was lost".  Rules that are written differently match
\* different addresses, and no allow rule matches all of them.
NoRuleLost ==
    \A c \in Accepted : \A l \in Lists : \A i, j \in DOMAIN c.acl.list[l] :
        LET rules == c.acl.list[l]
        IN /\ Bits(rules[i]) = Bits(rules[j]) => rules[i] = rules[j]
           /\ IsAllow(l) => Bits(rules[i]) # <<>>

Fine(c) ==
    /\ \A a, b \in Lists : IsAllow(a) /\ ~IsAllow(b) /\ IsV6(a) = IsV6(b) =>
          \A i \in DOMAIN c.acl.list[a], j \in DOMAIN c.acl.list[b] :
              ~IsPrefix(Bits(c.acl.list[a][i]), Bits(c.acl.list[b][j]))
    /\ \A e \in DOMAIN c.vips : \E i \in DOMAIN c.vips[e].members, b \in Range(c.backends) :
          b.id = c.vips[e].members[i].backend_id /\ b.up
    /\ c.ratelimit.enabled => \E e \in DOMAIN c.vips : Flag(c.vips[e].flags, "ratelimit")

\* docs/design/20, "accepted with a warning": a file that is loaded in silence has no
\* block rule an allow rule makes dead, no VIP without a backend that is up, and no
\* limiter that meters nothing.
SilentMeansFine ==
    \A p \in Proc : Loaded(p) /\ proc[p].diag.warn_count = 0 => Fine(proc[p].conf)

\* cmd_check.c: "lets CI validate an integrator's file before it is installed".  Of
\* one text --check and the daemon say the same, on whatever host, whatever was
\* refused before, and whoever edits the file meanwhile.
CheckAgrees ==
    /\ proc["tool"].cmd = "check" /\ proc["tool"].out \in {"refused", "loaded"}
    /\ proc["daemon"].out \in {"refused", "loaded"}
    /\ proc["tool"].top = proc["daemon"].top
    => proc["tool"].out = proc["daemon"].out

\* docs/design/17-reconfiguration.md and 31 s.7: from one configuration in force to
\* the next, whatever lay between, the daemon keeps its interface, object and pin
\* directory, and a backend that is in both keeps its identity under its id.
IdentityStable ==
    [][file # NoConf /\ file' # NoConf =>
         /\ \A key \in {"iface", "object", "pin_dir"} : file'.instance[key] = file.instance[key]
         /\ \A b \in Range(file.backends), n \in Range(file'.backends) :
               b.id = n.id => Identity(b) = Identity(n)]_vars

(***************************************************************************)
(* What the repository says and the code does not keep.                     *)
(***************************************************************************)

\* marlind.h: "With --config, [instance] is the only source of iface/obj_path/pin_dir".
\* cfg->iface, which the daemon prints in its status after every reload and when it
\* stops, is the [instance] of the configuration in force.
NamesItsInterface == proc["daemon"].phase = "run" => iface = "file"
=============================================================================
