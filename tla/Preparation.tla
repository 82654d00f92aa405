---------------------------- MODULE Preparation ----------------------------
(***************************************************************************)
(* How a managed supervisor comes to the configuration that its core runs: *)
(* _snapshot and _prepare (mihomo_supervisor.py) with everything they call *)
(* (v2rayn_source.py, proxy_endpoint.py, dns_resolver.py,                  *)
(* network_monitor.py, mihomo_prepare.py), file by file, beside a v2rayN   *)
(* that the user works with, and a DNS that lies while the TUN is up.      *)
(*                                                                         *)
(* Supervisor has the same steps as one action each, and in return all the *)
(* rest: the watchdog, the ports, the other files.  Here a core starts and *)
(* stops in one step, and dies with its supervisor.                        *)
(***************************************************************************)
EXTENDS Integers, FiniteSets

CONSTANTS
    Profile,        \* v2rayN's profiles; all of them have the same remote port
    Server,         \* the IPv4 addresses of each profile's server
    Site,           \* addresses that v2rayN's core reaches directly, on that port
    Fake,           \* addresses of 198.18.0.0/15
    Picked,         \* the profile given with --profile-id, or None
    MaxChange,      \* how often v2rayN's data change (bound)
    MaxStart,       \* how often a supervisor is started (bound)
    Faults,         \* the kinds of failure that may happen ...
    MaxFailure,     \* ... and how often one does (bound)
    None

FaultKinds == {
    "source",       \* v2rayN's files cannot be read
    "route",        \* there is no physical default route
    "asset",        \* the core or its geodata cannot be copied
    "disk",         \* a temporary file cannot be written
    "busy",         \* a temporary file cannot be moved into place
    "reject",       \* mihomo -t rejects a configuration
    "core",         \* the core does not come up
    "crash"}        \* the supervisor is killed

ASSUME PreparationAssumption ==
    /\ Server \in [Profile -> SUBSET Nat] /\ Site \subseteq Nat /\ Fake \subseteq Nat
    /\ Picked \in Profile \cup {None}
    /\ MaxChange \in Nat /\ MaxStart \in Nat /\ MaxFailure \in Nat
    /\ Faults \subseteq FaultKinds
    /\ None \notin Profile /\ None \notin Nat

VARIABLES
    index,          \* the profile v2rayN has selected, in its files
    stamp,          \* the modification time of its files
    v2rayN,         \* the profile that v2rayN's core runs, or None
    failures,       \* how many failures there have been
    starts,         \* how many supervisors there have been
    temp,           \* which of the three temporary files exist
    dest,           \* the three configurations
    core,           \* the configuration that the core runs, or None
    cached,         \* Windows may have fake addresses in its DNS cache
    pc, purpose,    \* where the supervisor is, and what it takes a snapshot for
    snap,           \* the snapshot
    profile,        \* the profile loaded by _prepare
    mode,           \* which of the three configurations is being made
    written,        \* which of them are in place
    prepared,       \* how many preparations have begun, and ...
    complete,       \* ... whether the last one has come to its end
    current, pending, count     \* of _monitor

sourceVars  == <<index, stamp, v2rayN>>
fileVars    == <<temp, dest>>
coreVars    == <<core, cached>>
prepareVars == <<profile, mode, written, prepared, complete>>
monitorVars == <<current, pending, count>>
vars == <<sourceVars, failures, starts, fileVars, coreVars, pc, purpose, snap,
          prepareVars, monitorVars>>

Modes == 1..3       \* mixed-only, single-address-tun, full-ipv4-tun
Full  == 3
Snapshots == [profile : Profile, stamp : 0..MaxChange, proxy : SUBSET Nat]
Config    == [prepare : Nat, profile : Profile, server : Nat]

Working == {"load", "route", "resolve", "prepare", "assets", "write", "replace",
            "validate", "handover", "startCore", "monitor", "compare", "restart",
            "stopping", "failing"}
Ended   == {"none", "stopped", "failed", "crashed"}

TypeOK ==
    /\ index \in Profile /\ stamp \in 0..MaxChange /\ v2rayN \in Profile \cup {None}
    /\ failures \in 0..MaxFailure /\ starts \in 0..MaxStart
    /\ temp \in [Modes -> BOOLEAN] /\ dest \in [Modes -> Config \cup {None}]
    /\ core \in Config \cup {None} /\ cached \in BOOLEAN
    /\ pc \in Working \cup Ended
    /\ purpose \in {"start", "restart", "baseline", "observe"}
    /\ snap \in Snapshots \cup {None} /\ profile \in Profile \cup {None}
    /\ mode \in Modes /\ written \subseteq Modes
    /\ prepared \in Nat /\ complete \in BOOLEAN
    /\ current \in Snapshots \cup {None} /\ pending \in Snapshots \cup {None}
    /\ count \in 0..2

Init ==
    /\ index \in Profile /\ stamp = 0 /\ v2rayN \in Profile \cup {None}
    /\ failures = 0 /\ starts = 0
    /\ temp = [m \in Modes |-> FALSE] /\ dest = [m \in Modes |-> None]
    /\ core = None /\ cached = FALSE
    /\ pc = "none" /\ purpose = "start" /\ snap = None
    /\ profile = None /\ mode = 1 /\ written = {} /\ prepared = 0 /\ complete = FALSE
    /\ current = None /\ pending = None /\ count = 0

Fails(fault) == fault \in Faults /\ failures < MaxFailure /\ failures' = failures + 1

Go(from, to) == pc = from /\ pc' = to

(* An exception: run() goes on to stop the core and to delete the files;   *)
(* the monitor's own snapshot only forgets what it was about to follow.    *)
Raise(from) ==
    /\ Go(from, "failing")
    /\ UNCHANGED <<sourceVars, starts, coreVars, purpose, snap, profile, mode, written,
                   prepared, complete, monitorVars>>

Unseen(from) ==
    /\ purpose = "observe" /\ Go(from, "monitor")
    /\ pending' = None /\ count' = 0
    /\ UNCHANGED <<sourceVars, starts, fileVars, coreVars, purpose, snap, prepareVars, current>>

SnapshotFails(from) ==
    \/ Unseen(from)
    \/ purpose # "observe" /\ Raise(from) /\ UNCHANGED fileVars

-----------------------------------------------------------------------------
(* _snapshot.                                                              *)

(* The profile asked for, or else the one that v2rayN has selected.        *)
Chosen == IF Picked # None THEN Picked ELSE index

(* load_v2rayn_config, up to the times of the files ...                    *)
Load ==
    \/ /\ Go("load", "route")
       /\ snap' = [profile |-> Chosen, stamp |-> 0, proxy |-> {}]
       /\ UNCHANGED <<sourceVars, failures, starts, fileVars, coreVars, purpose, prepareVars,
                      monitorVars>>
    \/ Fails("source") /\ SnapshotFails("load")

(* ... which are looked at only now; read_windows_physical_default_route.  *)
Route ==
    \/ /\ Go("route", "resolve")
       /\ snap' = [snap EXCEPT !.stamp = stamp]
       /\ UNCHANGED <<sourceVars, failures, starts, fileVars, coreVars, purpose, prepareVars,
                      monitorVars>>
    \/ Fails("route") /\ SnapshotFails("route")

(* What a query finds of the peers of the core behind port 1081: while the *)
(* Bridge has that port, none.                                             *)
Peers == IF v2rayN = None \/ core # None THEN {} ELSE Server[v2rayN] \cup Site

(* What DNS may say of the server of a profile.                            *)
Answers(p) ==
    (IF core = None THEN SUBSET Server[p] ELSE {})
        \cup (IF core # None \/ cached THEN SUBSET Fake ELSE {})

(* _usable_ipv4.                                                           *)
Usable(addresses) == addresses \ Fake

(* resolve_proxy_server_ipv4: peers that are seen, at the first query or   *)
(* after the warm-up, go before DNS.                                       *)
Resolved(p, seen, answer) == IF Usable(seen) # {} THEN Usable(seen) ELSE Usable(answer)

AfterSnapshot ==
    [start |-> "prepare", restart |-> "prepare", baseline |-> "monitor", observe |-> "compare"]

(* detect_network_signature, with the addresses found.                     *)
Detect(proxy) ==
    IF proxy = {} THEN SnapshotFails("resolve") /\ UNCHANGED failures
    ELSE /\ Go("resolve", AfterSnapshot[purpose])
         /\ snap' = [snap EXCEPT !.proxy = proxy]
         /\ IF purpose = "baseline"
            THEN current' = snap' /\ pending' = None /\ count' = 0
            ELSE UNCHANGED monitorVars
         /\ UNCHANGED <<sourceVars, failures, starts, fileVars, coreVars, purpose, prepareVars>>

(* Mutant: the monitor resolves afresh at every look.                      *)
ResolveAfresh ==
    /\ pc = "resolve"
    /\ IF purpose = "baseline" THEN Detect(current.proxy)
       ELSE \E seen \in SUBSET Peers, answer \in Answers(snap.profile) :
               Detect(Resolved(snap.profile, seen, answer))

(* As soon as the core is up its snapshots keep to the addresses that it   *)
(* was configured with.                                                    *)
Resolve ==
    /\ pc = "resolve"
    /\ IF purpose \in {"baseline", "observe"} THEN Detect(current.proxy)
       ELSE \E seen \in SUBSET Peers, answer \in Answers(snap.profile) :
               Detect(Resolved(snap.profile, seen, answer))

-----------------------------------------------------------------------------
(* prepare_mihomo_configs.                                                 *)

(* v2rayN's files are read once more.                                      *)
LoadAgain ==
    \/ /\ Go("prepare", "assets")
       /\ profile' = Chosen /\ mode' = 1 /\ written' = {}
       /\ prepared' = prepared + 1 /\ complete' = FALSE
       /\ UNCHANGED <<sourceVars, failures, starts, fileVars, coreVars, purpose, snap, monitorVars>>
    \/ Fails("source") /\ Raise("prepare") /\ UNCHANGED fileVars

(* _copy_verified, four times.                                             *)
CopyAssets ==
    \/ /\ Go("assets", "write")
       /\ UNCHANGED <<sourceVars, failures, starts, fileVars, coreVars, purpose, snap, prepareVars,
                      monitorVars>>
    \/ Fails("asset") /\ Raise("assets") /\ UNCHANGED fileVars

(* The first of the sorted addresses.                                      *)
Pinned(addresses) == CHOOSE a \in addresses : \A b \in addresses : a <= b

(* build_mihomo_config.  It refuses a fake address itself, which Usable    *)
(* does not let come so far.                                               *)
Built == [prepare |-> prepared, profile |-> profile, server |-> Pinned(snap.proxy)]

(* The except clause: what has been moved into place is removed.           *)
GiveUp(from) ==
    /\ Raise(from)
    /\ dest' = [m \in Modes |-> IF m \in written THEN None ELSE dest[m]]

WriteTemporary ==
    \/ /\ Go("write", "replace")
       /\ temp' = [temp EXCEPT ![mode] = TRUE]
       /\ UNCHANGED <<sourceVars, failures, starts, dest, coreVars, purpose, snap, prepareVars,
                      monitorVars>>
    \/ /\ Fails("disk") /\ GiveUp("write")
       /\ \E exists \in {temp[mode], TRUE} : temp' = [temp EXCEPT ![mode] = exists]

(* Mutant: a file that is in use is left as it is.                         *)
ReplaceOrKeep ==
    /\ Go("replace", "validate")
    /\ \/ /\ dest' = [dest EXCEPT ![mode] = Built] /\ temp' = [temp EXCEPT ![mode] = FALSE]
          /\ UNCHANGED failures
       \/ Fails("busy") /\ UNCHANGED fileVars
    /\ written' = written \cup {mode}
    /\ UNCHANGED <<sourceVars, starts, coreVars, purpose, snap, profile, mode, prepared,
                   complete, monitorVars>>

Replace ==
    \/ /\ Go("replace", "validate")
       /\ dest' = [dest EXCEPT ![mode] = Built] /\ temp' = [temp EXCEPT ![mode] = FALSE]
       /\ written' = written \cup {mode}
       /\ UNCHANGED <<sourceVars, failures, starts, coreVars, purpose, snap, profile, mode,
                      prepared, complete, monitorVars>>
    \/ Fails("busy") /\ GiveUp("replace") /\ UNCHANGED temp

(* Mutant: one mode too many.                                              *)
ValidateOneMore ==
    /\ IF mode > Full THEN Go("validate", "handover") /\ complete' = TRUE /\ UNCHANGED mode
       ELSE Go("validate", "write") /\ mode' = mode + 1 /\ UNCHANGED complete
    /\ UNCHANGED <<sourceVars, failures, starts, fileVars, coreVars, purpose, snap, profile,
                   written, prepared, monitorVars>>

(* _validate: mihomo -t.                                                   *)
Validate ==
    \/ /\ IF mode = Full THEN Go("validate", "handover") /\ complete' = TRUE /\ UNCHANGED mode
          ELSE Go("validate", "write") /\ mode' = mode + 1 /\ UNCHANGED complete
       /\ UNCHANGED <<sourceVars, failures, starts, fileVars, coreVars, purpose, snap, profile,
                      written, prepared, monitorVars>>
    \/ Fails("reject") /\ GiveUp("validate") /\ UNCHANGED temp

-----------------------------------------------------------------------------
(* The supervisor around it.                                               *)

Launch ==
    /\ pc \in Ended /\ starts < MaxStart
    /\ pc' = "load" /\ purpose' = "start" /\ starts' = starts + 1
    /\ snap' = None /\ current' = None /\ pending' = None /\ count' = 0 /\ complete' = FALSE
    /\ UNCHANGED <<sourceVars, failures, fileVars, coreVars, profile, mode, written, prepared>>

(* _stop_v2rayn.                                                           *)
Handover ==
    /\ Go("handover", "startCore")
    /\ v2rayN' = None
    /\ UNCHANGED <<index, stamp, failures, starts, fileVars, coreVars, purpose, snap, prepareVars,
                   monitorVars>>

(* _start_core; from now on DNS is Mihomo's.                               *)
StartCore ==
    \/ /\ Go("startCore", "load")
       /\ core' = dest[Full] /\ cached' = TRUE
       /\ purpose' = "baseline" /\ current' = snap
       /\ UNCHANGED <<sourceVars, failures, starts, fileVars, snap, prepareVars, pending, count>>
    \/ Fails("core") /\ Raise("startCore") /\ UNCHANGED fileVars

Observe ==
    /\ Go("monitor", "load")
    /\ purpose' = "observe"
    /\ UNCHANGED <<sourceVars, failures, starts, fileVars, coreVars, snap, prepareVars, monitorVars>>

(* A difference that is seen twice in a row is followed.                   *)
Compare ==
    /\ \/ snap = current /\ pending' = None /\ count' = 0
       \/ snap \notin {current, pending} /\ pending' = snap /\ count' = 1
       \/ snap # current /\ snap = pending /\ pending' = snap /\ count' = 2
    /\ Go("compare", IF count' = 2 THEN "restart" ELSE "monitor")
    /\ UNCHANGED <<sourceVars, failures, starts, fileVars, coreVars, purpose, snap, prepareVars,
                   current>>

(* _restart_guarded stops the core and begins with a snapshot of its own.  *)
Restart ==
    /\ Go("restart", "load")
    /\ purpose' = "restart" /\ core' = None
    /\ pending' = None /\ count' = 0
    /\ UNCHANGED <<sourceVars, failures, starts, fileVars, cached, snap, prepareVars, current>>

Stop ==
    /\ Go("monitor", "stopping")
    /\ UNCHANGED <<sourceVars, failures, starts, fileVars, coreVars, purpose, snap, prepareVars,
                   monitorVars>>

(* Mutant: only the configuration of the core is deleted.                  *)
EndWithFull ==
    /\ \/ Go("stopping", "stopped")
       \/ Go("failing", "failed")
    /\ core' = None /\ dest' = [dest EXCEPT ![Full] = None]
    /\ UNCHANGED <<sourceVars, failures, starts, temp, cached, purpose, snap, prepareVars,
                   monitorVars>>

(* _stop_core and _delete_sensitive_files.                                 *)
End ==
    /\ \/ Go("stopping", "stopped")
       \/ Go("failing", "failed")
    /\ core' = None /\ dest' = [m \in Modes |-> None]
    /\ UNCHANGED <<sourceVars, failures, starts, temp, cached, purpose, snap, prepareVars,
                   monitorVars>>

Crash ==
    /\ pc \notin Ended /\ Fails("crash")
    /\ pc' = "crashed" /\ core' = None
    /\ UNCHANGED <<sourceVars, starts, fileVars, cached, purpose, snap, prepareVars, monitorVars>>

-----------------------------------------------------------------------------
(* v2rayN and its user.                                                    *)

others == <<failures, starts, fileVars, coreVars, pc, purpose, snap, prepareVars, monitorVars>>

(* Select a profile, or edit a route.                                      *)
Change ==
    /\ stamp < MaxChange /\ stamp' = stamp + 1
    /\ index' \in Profile
    /\ v2rayN' = IF v2rayN = None THEN None ELSE index'
    /\ UNCHANGED others

Toggle ==
    /\ v2rayN' = IF v2rayN = None THEN index ELSE None
    /\ UNCHANGED <<index, stamp, others>>

-----------------------------------------------------------------------------
Work ==
    \/ Load \/ Route \/ Resolve \/ LoadAgain \/ CopyAssets \/ WriteTemporary \/ Replace
    \/ Validate \/ Handover \/ StartCore \/ Observe \/ Compare \/ Restart \/ End

Next == Work \/ Launch \/ Stop \/ Crash \/ Change \/ Toggle

Spec == Init /\ [][Next]_vars

(* The supervisor is scheduled; its monitor comes round every 3 s.         *)
FairSpec == Spec /\ WF_vars(Work)

-----------------------------------------------------------------------------
(* Properties.                                                             *)

(* A core runs what the last preparation has made and validated as a       *)
(* whole, not what an earlier one or a broken-off one has left behind; and *)
(* the address that its traffic goes to, and that the TUN leaves out, is   *)
(* the one that the monitor holds on to.                                   *)
RunsPrepared ==
    core # None =>
        /\ complete /\ core.prepare = prepared
        /\ core.server = Pinned(current.proxy)

(* When a supervisor whose last preparation came to its end has ended, no  *)
(* credentials are on the disk, whatever those before it have left.        *)
CleanAfterService ==
    pc \in {"stopped", "failed"} /\ complete => \A m \in Modes : ~temp[m] /\ dest[m] = None

(* The same of every supervisor that has come to its end in order.         *)
CleanAlways ==
    pc \in {"stopped", "failed"} => \A m \in Modes : ~temp[m] /\ dest[m] = None

(* What the core takes for the address of the selected server is one.      *)
EndpointOfProfile == core # None => core.server \in Server[core.profile]

(* A change that comes while the monitor watches reaches the core, or the  *)
(* user gets the control back; the TUN's own answers do not hide it.       *)
ChangeFollowed ==
    \A n \in 1..MaxChange :
        pc = "monitor" /\ stamp = n /\ current.stamp # n
            ~> \/ pc \in Ended
               \/ stamp # n
               \/ core # None /\ current.stamp = n /\ core.profile = Chosen

(* A core does not for ever serve a profile that is no longer selected.    *)
ProfileFollowed ==
    pc = "monitor" /\ core.profile # Chosen
        ~> \/ pc \in Ended
           \/ core # None /\ core.profile = Chosen
=============================================================================
