----------------------------- MODULE Supervisor -----------------------------
(***************************************************************************)
(* The guarded Mihomo runtime: supervisor processes                        *)
(* (mihomo_supervisor.py), the watchdog that each of them starts beside    *)
(* its core (tun-watchdog.ps1), the cores, and the two things they share:  *)
(* the files of the runtime directory and the machine's network resources. *)
(*                                                                         *)
(* Every process moves on its own; the files are the only messages between *)
(* them.  A supervisor is a program counter that walks through run,        *)
(* _start_core, _monitor, _restart_guarded and _stop_core.  The age of the *)
(* heartbeat file is reduced to "fresh" or "lost": WatchdogTimer is the    *)
(* model of when the watchdog may and must take it for lost.               *)
(***************************************************************************)
EXTENDS Integers, FiniteSets

CONSTANTS
    Sup,            \* the supervisor processes that may be launched
    Manual,         \* those launched with --manual-v2rayn
    MaxCore,        \* how many cores are started at most (bound)
    Version,        \* versions of the v2rayN data and of the physical network
    MaxChange,      \* how often these change at most (bound)
    Faults,         \* the failures that may happen, a subset of FaultKinds
    Xray,           \* v2rayN's own core, as an owner of port 1081
    None            \* Python's None, a missing file, a free resource

FaultKinds == {
    "crash",        \* a supervisor process is killed
    "overlap",      \* one is launched while another is at work
    "coreExit",     \* a core ends by itself
    "kill",         \* terminate() and kill() leave the core alive
    "forcedStop",   \* the watchdog's Stop-Process leaves the core alive
    "spawn",        \* Popen of the core raises
    "snapshot",     \* _snapshot raises
    "prepare",      \* _prepare raises
    "checks",       \* a connectivity check raises
    "stateWrite",   \* _write_atomic_json gives up on the state file
    "rotate",       \* _rotate_log gives up on the watchdog's report
    "cancelWrite",  \* the cancel file cannot be written
    "slowStart",    \* the watchdog gives up before the state file is written
    "slowWatchdog", \* the watchdog outlives the 12 s of watchdog.wait
    "deadline",     \* the watchdog's own deadline comes
    "v2rayN"}       \* the user starts v2rayN at any time

ASSUME RuntimeAssumption ==
    /\ Manual \subseteq Sup
    /\ MaxCore \in Nat /\ MaxChange \in Nat
    /\ Faults \subseteq FaultKinds
    /\ None \notin Sup /\ None \notin Version /\ None \notin 1..MaxCore
    /\ Xray \notin 1..MaxCore /\ Xray # None

Core == 1..MaxCore              \* a core and its watchdog share a number
Source == [network : Version, data : Version]
Config == [by : Sup, network : Version, data : Version]
MixedPort(s) == IF s \in Manual THEN 1082 ELSE 1081
Ports == {1081, 1082}

VARIABLES
    file,           \* the files of the runtime directory, see Files
    source,         \* the v2rayN data and the physical network
    changes,        \* how often they have changed
    v2rayN,         \* "off", or the core v2rayN runs: "xray", "sing-box"
    born,           \* the cores started so far are 1..born
    coreState,      \* of each core: "none", "starting", "up", "dead"
    loaded,         \* the configuration each core has read
    adapter,        \* the core that holds the TUN adapter
    port,           \* the owner of each local port
    pc,             \* where each supervisor is
    self,           \* the fields of each supervisor object, see Fields
    wpc,            \* where each watchdog is
    wd              \* the variables of each watchdog script, see Script

netVars   == <<v2rayN, adapter, port>>
coreVars  == <<born, coreState, loaded>>
inputVars == <<source, changes>>
supVars   == <<pc, self>>
wdVars    == <<wpc, wd>>
world     == <<inputVars, netVars, coreVars, wdVars>>
vars      == <<file, inputVars, netVars, coreVars, supVars, wdVars>>

Steps == {
    "idle", "init", "snapshot", "prepare", "stopV2rayN", "awaitPort", "clearFiles",
    "spawnWatchdog", "spawnCore", "writeState", "awaitReady", "writeAccess", "pin",
    "announce", "checks", "monitor", "classify", "cancelWatchdog", "terminate",
    "awaitWatchdog", "verifyDown", "stopped", "failed", "deleteFiles", "exited", "crashed"}

Checkpoints == {
    "created", "initial-snapshot", "offline-prepare", "stop-v2rayn", "start-core",
    "health", "monitoring", "stop-mihomo", "stop-complete"}

ExitReasons == {"none", "core-exit", "watchdog-forced-stop", "watchdog-heartbeat-timeout"}

Files == [
    status    : [state : {"absent", "starting", "running", "restarting", "stopping",
                          "stopped", "failed"}, by : Sup \cup {None}],
    state     : Core \cup {None},       \* the core the state file names
    heartbeat : {"fresh", "lost"},      \* what its age tells a watchdog
    cancel    : BOOLEAN,                \* the watchdog's cancel file exists
    stop      : BOOLEAN,                \* the stop request exists
    access    : Core \cup {None},       \* the core the access file names
    config    : Config \cup {None},     \* who built it, and from what
    report    : [core : Core \cup {None}, expired : BOOLEAN, forced : BOOLEAN]]

Fields == [
    then      : {"start", "restart", "stop", "fail"},   \* who called _stop_core
    core      : Core \cup {None},
    watchdog  : Core \cup {None},
    beating   : BOOLEAN,                \* the heartbeat worker runs
    snap      : Source \cup {None},     \* what the configuration is prepared from
    current   : Source \cup {None},     \* the baseline of _monitor
    pending   : Source \cup {None},
    count     : Nat,                    \* pending_count
    checkpoint : Checkpoints,
    failedAt  : Steps \cup {"nowhere"},   \* the step that raised
    reason    : ExitReasons]            \* last_core_exit_reason

Script == [target : Core \cup {None}, cancelled : BOOLEAN, expired : BOOLEAN,
           forced : BOOLEAN]

NoReport == [core |-> None, expired |-> FALSE, forced |-> FALSE]

Alive(c) == c \in Core /\ coreState[c] \in {"starting", "up"}
Live(s)  == pc[s] \notin {"idle", "exited", "crashed"}

Init ==
    /\ file = [status |-> [state |-> "absent", by |-> None], state |-> None,
               heartbeat |-> "lost", cancel |-> FALSE, stop |-> FALSE,
               access |-> None, config |-> None, report |-> NoReport]
    /\ source \in Source /\ changes = 0
    /\ v2rayN \in {"off", "xray", "sing-box"}
    /\ born = 0
    /\ coreState = [c \in Core |-> "none"]
    /\ loaded = [c \in Core |-> None]
    /\ adapter = None
    /\ port = [p \in Ports |-> IF p = 1081 /\ v2rayN # "off" THEN Xray ELSE None]
    /\ pc = [s \in Sup |-> "idle"]
    /\ self = [s \in Sup |-> [then |-> "start", core |-> None, watchdog |-> None,
                              beating |-> FALSE, snap |-> None, current |-> None,
                              pending |-> None, count |-> 0, checkpoint |-> "created",
                              failedAt |-> "nowhere", reason |-> "none"]]
    /\ wpc = [w \in Core |-> "none"]
    /\ wd = [w \in Core |-> [target |-> None, cancelled |-> FALSE, expired |-> FALSE,
                             forced |-> FALSE]]

-----------------------------------------------------------------------------
(* Steps of a supervisor are built from these.                             *)

Go(s, from, to) == pc[s] = from /\ pc' = [pc EXCEPT ![s] = to]

(* run() names the step it is about to take; _restart_guarded does not.    *)
NextCheckpoint(s, name) ==
    IF self[s].then = "restart" THEN self[s].checkpoint ELSE name

(* An exception reaches run(): if there is a core it is stopped first.     *)
Raise(s, from) ==
    /\ Go(s, from, IF self[s].core # None THEN "cancelWatchdog" ELSE "failed")
    /\ self' = [self EXCEPT ![s].then = "fail", ![s].failedAt = from]

-----------------------------------------------------------------------------
(* run() up to _start_core, and the part of _restart_guarded that repeats  *)
(* it.                                                                     *)

(* The launcher starts the process.  One at a time, unless "overlap".      *)
Launch(s) ==
    /\ "overlap" \in Faults \/ \A t \in Sup : ~Live(t)
    /\ Go(s, "idle", "init")
    /\ UNCHANGED <<file, self, world>>

(* Remove an old stop request and announce the start.                      *)
Begin(s) ==
    /\ Go(s, "init", "snapshot")
    /\ file' = [file EXCEPT !.stop = FALSE, !.status = [state |-> "starting", by |-> s]]
    /\ self' = [self EXCEPT ![s].checkpoint = "initial-snapshot"]
    /\ UNCHANGED world

Snapshot(s) ==
    /\ \/ /\ Go(s, "snapshot", "prepare")
          /\ self' = [self EXCEPT ![s].snap = source,
                                  ![s].checkpoint = NextCheckpoint(s, "offline-prepare")]
       \/ "snapshot" \in Faults /\ Raise(s, "snapshot")
    /\ UNCHANGED <<file, world>>

(* The network comes from the snapshot, the profile and the route are read *)
(* from v2rayN's files once more.  A preparation that fails removes what   *)
(* it has written; an earlier configuration that it has not come to        *)
(* replace stays.  (Preparation is the model of what happens inside.)      *)
Prepare(s) ==
    /\ \/ /\ Go(s, "prepare", IF s \in Manual THEN "clearFiles" ELSE "stopV2rayN")
          /\ file' = [file EXCEPT !.config =
                        [by |-> s, network |-> self[s].snap.network, data |-> source.data]]
          /\ self' = [self EXCEPT ![s].checkpoint = NextCheckpoint(s,
                        IF s \in Manual THEN "start-core" ELSE "stop-v2rayn")]
       \/ /\ "prepare" \in Faults /\ Raise(s, "prepare")
          /\ \E kept \in {None, file.config} : file' = [file EXCEPT !.config = kept]
    /\ UNCHANGED world

(* Stop the v2rayN of the application folder, and the owner of port 1081   *)
(* if that is its xray.exe: a sing-box core is left running.               *)
StopV2rayN(s) ==
    /\ Go(s, "stopV2rayN", "awaitPort")
    /\ v2rayN' = IF v2rayN = "xray" THEN "off" ELSE v2rayN
    /\ port' = [port EXCEPT ![1081] = IF v2rayN = "xray" /\ @ = Xray THEN None ELSE @]
    /\ UNCHANGED <<file, self, inputVars, adapter, coreVars, wdVars>>

(* Mutant: go on after the 15 s, whoever has the port.                     *)
AwaitPortAnyway(s) ==
    /\ Go(s, "awaitPort", "clearFiles")
    /\ self' = [self EXCEPT ![s].checkpoint = NextCheckpoint(s, "start-core")]
    /\ UNCHANGED <<file, world>>

(* Wait until port 1081 is free; 15 s later give up.                       *)
AwaitPort(s) ==
    /\ \/ /\ port[1081] = None
          /\ Go(s, "awaitPort", "clearFiles")
          /\ self' = [self EXCEPT ![s].checkpoint = NextCheckpoint(s, "start-core")]
       \/ port[1081] # None /\ Raise(s, "awaitPort")
    /\ UNCHANGED <<file, world>>

-----------------------------------------------------------------------------
(* _start_core.                                                            *)

(* Mutant: the cancel file of the core before is left in place.            *)
ClearFilesButCancel(s) ==
    /\ Go(s, "clearFiles", "spawnWatchdog")
    /\ file' = [file EXCEPT !.state = None, !.heartbeat = "fresh", !.report = NoReport]
    /\ self' = [self EXCEPT ![s].reason = "none"]
    /\ UNCHANGED world

(* Remove what an earlier core has left, set its report aside, touch the   *)
(* heartbeat.                                                              *)
ClearFiles(s) ==
    /\ Go(s, "clearFiles", "spawnWatchdog")
    /\ \E r \in {NoReport} \cup (IF "rotate" \in Faults THEN {file.report} ELSE {}) :
          file' = [file EXCEPT !.state = None, !.cancel = FALSE, !.heartbeat = "fresh",
                               !.report = r]
    /\ self' = [self EXCEPT ![s].reason = "none"]
    /\ UNCHANGED world

SpawnWatchdog(s) ==
    /\ born < MaxCore
    /\ Go(s, "spawnWatchdog", "spawnCore")
    /\ born' = born + 1
    /\ self' = [self EXCEPT ![s].watchdog = born + 1]
    /\ wpc' = [wpc EXCEPT ![born + 1] = "waiting"]
    /\ UNCHANGED <<file, inputVars, netVars, coreState, loaded, wd>>

SpawnCore(s) ==
    /\ \/ /\ Go(s, "spawnCore", "writeState")
          /\ self' = [self EXCEPT ![s].core = self[s].watchdog]
          /\ coreState' = [coreState EXCEPT ![self[s].watchdog] = "starting"]
       \/ /\ "spawn" \in Faults /\ Raise(s, "spawnCore")
          /\ UNCHANGED coreState
    /\ UNCHANGED <<file, inputVars, netVars, born, loaded, wdVars>>

(* Name the core in the state file, which arms the watchdog, and start the *)
(* heartbeat worker.                                                       *)
WriteState(s) ==
    /\ Go(s, "writeState", "awaitReady")
    /\ \E c \in {self[s].core} \cup (IF "stateWrite" \in Faults THEN {file.state} ELSE {}) :
          file' = [file EXCEPT !.state = c, !.heartbeat = "fresh"]
    /\ self' = [self EXCEPT ![s].beating = TRUE]
    /\ UNCHANGED world

Ready(s) == Alive(self[s].core) /\ adapter # None /\ port[MixedPort(s)] # None

(* Mutant: wait for ever.                                                  *)
AwaitReadyForEver(s) ==
    /\ Ready(s) /\ Go(s, "awaitReady", "writeAccess")
    /\ UNCHANGED <<file, self, world>>

(* Wait until the core lives, the adapter is up and somebody listens on    *)
(* the port; give up after 30 s, or when the core has ended.               *)
AwaitReady(s) ==
    /\ \/ Ready(s) /\ Go(s, "awaitReady", "writeAccess") /\ UNCHANGED self
       \/ ~Ready(s) /\ Raise(s, "awaitReady")
    /\ UNCHANGED <<file, world>>

-----------------------------------------------------------------------------
(* From the ready core to _monitor.                                        *)

WriteAccess(s) ==
    /\ Go(s, "writeAccess", IF s \in Manual THEN "announce" ELSE "pin")
    /\ file' = [file EXCEPT !.access = self[s].core]
    /\ self' = [self EXCEPT ![s].current = self[s].snap]
    /\ UNCHANGED world

(* A second snapshot, with the proxy address pinned, becomes the baseline. *)
PinSnapshot(s) ==
    /\ \/ /\ Go(s, "pin", "announce")
          /\ self' = [self EXCEPT ![s].current = source]
       \/ "snapshot" \in Faults /\ Raise(s, "pin")
    /\ UNCHANGED <<file, world>>

(* Mutant: a stop request from before the announcement is taken for old.   *)
AnnounceAfresh(s) ==
    /\ Go(s, "announce", "checks")
    /\ file' = [file EXCEPT !.status = [state |-> "running", by |-> s], !.stop = FALSE]
    /\ self' = [self EXCEPT ![s].checkpoint = "health"]
    /\ UNCHANGED world

Announce(s) ==
    /\ Go(s, "announce", "checks")
    /\ file' = [file EXCEPT !.status = [state |-> "running", by |-> s]]
    /\ self' = [self EXCEPT ![s].checkpoint = "health"]
    /\ UNCHANGED world

(* The five probes only fill health_checks, which nothing here depends on. *)
ConnectivityChecks(s) ==
    /\ \/ /\ Go(s, "checks", "monitor")
          /\ self' = [self EXCEPT ![s].checkpoint = "monitoring",
                                  ![s].pending = None, ![s].count = 0]
       \/ "checks" \in Faults /\ Raise(s, "checks")
    /\ UNCHANGED <<file, world>>

-----------------------------------------------------------------------------
(* _monitor.                                                               *)

(* Mutant: the stop is not announced before it is done.                    *)
TakeStopQuietly(s) ==
    /\ file.stop
    /\ Go(s, "monitor", "cancelWatchdog")
    /\ self' = [self EXCEPT ![s].then = "stop", ![s].checkpoint = "stop-mihomo"]
    /\ UNCHANGED <<file, world>>

TakeStopRequest(s) ==
    /\ file.stop
    /\ Go(s, "monitor", "cancelWatchdog")
    /\ file' = [file EXCEPT !.status = [state |-> "stopping", by |-> s]]
    /\ self' = [self EXCEPT ![s].then = "stop", ![s].checkpoint = "stop-mihomo"]
    /\ UNCHANGED world

(* The core has ended: stop beating and look for the watchdog's report.    *)
NoticeExit(s) ==
    /\ ~file.stop /\ ~Alive(self[s].core)
    /\ Go(s, "monitor", "classify")
    /\ self' = [self EXCEPT ![s].beating = FALSE]
    /\ UNCHANGED <<file, world>>

(* Mutant: the watchdog's own words are taken over as the reason.          *)
ExitReasonAsReported(r) == IF r.expired THEN "heartbeat-timeout"
                           ELSE IF r.forced THEN "forced-stop"
                           ELSE "core-exit"

(* classify_core_exit.                                                     *)
ExitReason(r) == IF r.expired /\ r.forced THEN "watchdog-heartbeat-timeout"
                 ELSE IF r.forced THEN "watchdog-forced-stop"
                 ELSE "core-exit"

(* Mutant: any report that lies there counts.                              *)
ClassifyByAnyReport(s) ==
    /\ Go(s, "classify", "cancelWatchdog")
    /\ self' = [self EXCEPT ![s].then = "fail", ![s].failedAt = "monitor",
                            ![s].reason = ExitReason(file.report)]
    /\ UNCHANGED <<file, world>>

(* Only a report about this very core counts; none may come in 1.5 s.      *)
Classify(s) ==
    /\ Go(s, "classify", "cancelWatchdog")
    /\ self' = [self EXCEPT ![s].then = "fail", ![s].failedAt = "monitor",
                            ![s].reason = IF file.report.core = self[s].core
                                          THEN ExitReason(file.report) ELSE "core-exit"]
    /\ UNCHANGED <<file, world>>

(* Mutant: every observation of a change counts as its first.              *)
NeverDebounced(s, o) == IF o \in {None, self[s].current} THEN 0 ELSE 1

(* pending_count after the observation o (None: the snapshot failed).      *)
Debounced(s, o) == IF o \in {None, self[s].current} THEN 0
                   ELSE IF o = self[s].pending THEN self[s].count + 1
                   ELSE 1

(* One observation of the source; the second one that shows the same       *)
(* change begins a restart.                                                *)
Observe(s) ==
    /\ ~file.stop /\ Alive(self[s].core) /\ s \notin Manual
    /\ pc[s] = "monitor"
    /\ \E o \in {source} \cup (IF "snapshot" \in Faults THEN {None} ELSE {}) :
          LET n == Debounced(s, o)
              restart == n >= 2
          IN  /\ pc' = [pc EXCEPT ![s] = IF restart THEN "cancelWatchdog" ELSE @]
              /\ self' = [self EXCEPT ![s] =
                            [@ EXCEPT !.pending = IF n = 0 THEN None ELSE o, !.count = n,
                                      !.then = IF restart THEN "restart" ELSE self[s].then]]
              /\ file' = IF restart
                         THEN [file EXCEPT !.status = [state |-> "restarting", by |-> s]]
                         ELSE file
    /\ UNCHANGED world

-----------------------------------------------------------------------------
(* _stop_core.                                                             *)

(* Ask the watchdog to stand down, then stop the heartbeat worker.         *)
CancelWatchdog(s) ==
    /\ Go(s, "cancelWatchdog", "terminate")
    /\ \E written \in {TRUE} \cup (IF "cancelWrite" \in Faults THEN {file.cancel} ELSE {}) :
          file' = [file EXCEPT !.cancel = written]
    /\ self' = [self EXCEPT ![s].beating = FALSE]
    /\ UNCHANGED world

Terminate(s) ==
    /\ Go(s, "terminate", "awaitWatchdog")
    /\ \/ /\ Alive(self[s].core)
          /\ coreState' = [coreState EXCEPT ![self[s].core] = "dead"]
       \/ /\ ~Alive(self[s].core) \/ "kill" \in Faults
          /\ UNCHANGED coreState
    /\ UNCHANGED <<file, self, inputVars, netVars, born, loaded, wdVars>>

(* Mutant: do not wait for the end of the watchdog.                        *)
LeaveWatchdog(s) ==
    /\ Go(s, "awaitWatchdog", "verifyDown")
    /\ self' = [self EXCEPT ![s].core = None, ![s].watchdog = None]
    /\ UNCHANGED <<file, world>>

AwaitWatchdog(s) ==
    /\ Go(s, "awaitWatchdog", "verifyDown")
    /\ wpc[self[s].watchdog] = "done" \/ "slowWatchdog" \in Faults
    /\ self' = [self EXCEPT ![s].core = None, ![s].watchdog = None]
    /\ UNCHANGED <<file, world>>

(* Where _stop_core returns to.                                            *)
Return(s) == CASE self[s].then = "restart" -> "snapshot"
               [] self[s].then = "stop"    -> "stopped"
               [] OTHER                    -> "failed"

(* Mutant: trust terminate() and kill().                                   *)
TrustTheKill(s) == Go(s, "verifyDown", Return(s)) /\ UNCHANGED <<file, self, world>>

(* Wait for the adapter to go down and the port to be released; 15 s later *)
(* raise.  run() swallows that while it handles another exception.         *)
VerifyDown(s) ==
    /\ \/ /\ adapter = None /\ port[MixedPort(s)] = None
          /\ Go(s, "verifyDown", Return(s))
          /\ UNCHANGED self
       \/ /\ adapter # None \/ port[MixedPort(s)] # None
          /\ Go(s, "verifyDown", "failed")
          /\ self' = [self EXCEPT ![s].then = "fail", ![s].failedAt =
                        IF self[s].then = "fail" THEN @ ELSE "verifyDown"]
    /\ UNCHANGED <<file, world>>

-----------------------------------------------------------------------------
(* The two ends of run().                                                  *)

Stopped(s) ==
    /\ Go(s, "stopped", "deleteFiles")
    /\ file' = [file EXCEPT !.status = [state |-> "stopped", by |-> s]]
    /\ self' = [self EXCEPT ![s].checkpoint = "stop-complete"]
    /\ UNCHANGED world

(* Mutant: leave the files behind after a failure.                         *)
FailedInPlace(s) ==
    /\ Go(s, "failed", "exited")
    /\ file' = [file EXCEPT !.status = [state |-> "failed", by |-> s]]
    /\ UNCHANGED <<self, world>>

(* Write the status; the failure history is not read back by the runtime.  *)
Failed(s) ==
    /\ Go(s, "failed", "deleteFiles")
    /\ file' = [file EXCEPT !.status = [state |-> "failed", by |-> s]]
    /\ UNCHANGED <<self, world>>

(* _delete_sensitive_files.  The heartbeat file goes too: to a watchdog    *)
(* that is as if it were stale, and heartbeat becomes "lost" in its time.  *)
DeleteFiles(s) ==
    /\ Go(s, "deleteFiles", "exited")
    /\ file' = [file EXCEPT !.config = None, !.state = None, !.access = None,
                            !.cancel = FALSE, !.stop = FALSE]
    /\ UNCHANGED <<self, world>>

(* The process is killed, and its heartbeat worker with it.  Its children, *)
(* the core and the watchdog, live on.                                     *)
Crash(s) ==
    /\ "crash" \in Faults
    /\ Live(s)
    /\ pc' = [pc EXCEPT ![s] = "crashed"]
    /\ self' = [self EXCEPT ![s].beating = FALSE]
    /\ UNCHANGED <<file, world>>

-----------------------------------------------------------------------------
(* The watchdogs.                                                          *)

(* Nobody will write the state file that watchdog w waits for: only then,  *)
(* or in a slow start, do its 45 s pass (WatchdogTimer!WatchKept).         *)
Forsaken(w) ==
    ~\E s \in Sup : self[s].watchdog = w /\ pc[s] \in {"spawnCore", "writeState"}

(* The startup loop: cancelled, armed by a state file, or given up.        *)
AwaitState(w) ==
    /\ wpc[w] = "waiting"
    /\ \/ /\ file.cancel
          /\ wpc' = [wpc EXCEPT ![w] = "stopping"]
          /\ wd' = [wd EXCEPT ![w].cancelled = TRUE]
       \/ /\ ~file.cancel /\ file.state # None
          /\ wpc' = [wpc EXCEPT ![w] = "guarding"]
          /\ wd' = [wd EXCEPT ![w].target = file.state]
       \/ /\ ~file.cancel /\ file.state = None
          /\ Forsaken(w) \/ "slowStart" \in Faults
          /\ wpc' = [wpc EXCEPT ![w] = "stopping"]
          /\ UNCHANGED wd
    /\ UNCHANGED <<file, inputVars, netVars, coreVars, supVars>>

(* The guard loop ends: the core is gone, a cancel file exists, the        *)
(* heartbeat is lost, or the deadline has come.                            *)
Guard(w) ==
    /\ wpc[w] = "guarding"
    /\ \/ /\ ~Alive(wd[w].target)
          /\ UNCHANGED wd
       \/ /\ Alive(wd[w].target) /\ file.cancel
          /\ wd' = [wd EXCEPT ![w].cancelled = TRUE]
       \/ /\ Alive(wd[w].target) /\ ~file.cancel /\ file.heartbeat = "lost"
          /\ wd' = [wd EXCEPT ![w].expired = TRUE]
       \/ /\ Alive(wd[w].target) /\ ~file.cancel /\ "deadline" \in Faults
          /\ UNCHANGED wd
    /\ wpc' = [wpc EXCEPT ![w] = "stopping"]
    /\ UNCHANGED <<file, inputVars, netVars, coreVars, supVars>>

(* Mutant: the test of $cancelled is turned round.                         *)
StopTargetIfCancelled(w) ==
    LET kill == wd[w].cancelled /\ Alive(wd[w].target) IN
    /\ wpc[w] = "stopping"
    /\ wpc' = [wpc EXCEPT ![w] = "closing"]
    /\ wd' = [wd EXCEPT ![w].forced = kill]
    /\ coreState' = IF kill THEN [coreState EXCEPT ![wd[w].target] = "dead"] ELSE coreState
    /\ UNCHANGED <<file, inputVars, netVars, born, loaded, supVars>>

(* Stop the guarded core by force, unless cancelled.                       *)
StopTarget(w) ==
    LET kill == ~wd[w].cancelled /\ Alive(wd[w].target) IN
    /\ wpc[w] = "stopping"
    /\ wpc' = [wpc EXCEPT ![w] = "closing"]
    /\ wd' = [wd EXCEPT ![w].forced = kill]
    /\ \/ kill /\ coreState' = [coreState EXCEPT ![wd[w].target] = "dead"]
       \/ (kill => "forcedStop" \in Faults) /\ UNCHANGED coreState
    /\ UNCHANGED <<file, inputVars, netVars, born, loaded, supVars>>

(* Remove the controller access file, whoever wrote it, and report.        *)
CloseReport(w) ==
    /\ wpc[w] = "closing"
    /\ wpc' = [wpc EXCEPT ![w] = "done"]
    /\ file' = [file EXCEPT !.access = None,
                            !.report = [core |-> wd[w].target, expired |-> wd[w].expired,
                                        forced |-> wd[w].forced]]
    /\ UNCHANGED <<inputVars, netVars, coreVars, supVars, wd>>

-----------------------------------------------------------------------------
(* The machine and its user.                                               *)

(* A core reads its configuration and takes what is free of the adapter    *)
(* and its port; without a configuration it ends.                          *)
CoreComesUp(c) ==
    /\ coreState[c] = "starting"
    /\ loaded' = [loaded EXCEPT ![c] = file.config]
    /\ IF file.config = None
       THEN /\ coreState' = [coreState EXCEPT ![c] = "dead"]
            /\ UNCHANGED <<adapter, port>>
       ELSE /\ coreState' = [coreState EXCEPT ![c] = "up"]
            /\ adapter' = IF adapter = None THEN c ELSE adapter
            /\ port' = [port EXCEPT ![MixedPort(file.config.by)] = IF @ = None THEN c ELSE @]
    /\ UNCHANGED <<file, inputVars, v2rayN, born, supVars, wdVars>>

CoreExits(c) ==
    /\ "coreExit" \in Faults
    /\ Alive(c)
    /\ coreState' = [coreState EXCEPT ![c] = "dead"]
    /\ UNCHANGED <<file, inputVars, netVars, born, loaded, supVars, wdVars>>

(* The system takes back what a dead core held.                            *)
Release(c) ==
    /\ coreState[c] = "dead"
    /\ adapter = c \/ \E p \in Ports : port[p] = c
    /\ adapter' = IF adapter = c THEN None ELSE adapter
    /\ port' = [p \in Ports |-> IF port[p] = c THEN None ELSE port[p]]
    /\ UNCHANGED <<file, inputVars, v2rayN, coreVars, supVars, wdVars>>

(* A supervisor is about to have a core guarded, or keeps the file fresh.  *)
Beats(s) == self[s].beating \/ pc[s] \in {"spawnWatchdog", "spawnCore", "writeState"}

(* So much time without a heartbeat that a watchdog gives its core up.     *)
LoseHeartbeat ==
    /\ file.heartbeat = "fresh"
    /\ \A s \in Sup : ~Beats(s)
    /\ file' = [file EXCEPT !.heartbeat = "lost"]
    /\ UNCHANGED <<supVars, world>>

(* The user edits profiles or routes, or the machine changes its network.  *)
ChangeSource ==
    /\ changes < MaxChange
    /\ changes' = changes + 1
    /\ source' \in Source \ {source}
    /\ UNCHANGED <<file, netVars, coreVars, supVars, wdVars>>

(* The user starts v2rayN, although the TUN may be running.                *)
StartV2rayN ==
    /\ "v2rayN" \in Faults
    /\ v2rayN = "off"
    /\ v2rayN' = "xray"
    /\ port' = [port EXCEPT ![1081] = IF @ = None THEN Xray ELSE @]
    /\ UNCHANGED <<file, inputVars, adapter, coreVars, supVars, wdVars>>

(* mihomo-tun.ps1 -Action Stop writes its request for a live supervisor.   *)
RequestStop ==
    /\ ~file.stop
    /\ file.status.by \in Sup /\ Live(file.status.by)
    /\ file' = [file EXCEPT !.stop = TRUE]
    /\ UNCHANGED <<supVars, world>>

-----------------------------------------------------------------------------
StartSteps(s) ==
    \/ Begin(s) \/ Snapshot(s) \/ Prepare(s) \/ StopV2rayN(s) \/ AwaitPort(s)
    \/ ClearFiles(s) \/ SpawnWatchdog(s) \/ SpawnCore(s) \/ WriteState(s)
    \/ AwaitReady(s) \/ WriteAccess(s) \/ PinSnapshot(s) \/ Announce(s)
    \/ ConnectivityChecks(s)

MonitorSteps(s) == TakeStopRequest(s) \/ NoticeExit(s) \/ Classify(s) \/ Observe(s)

StopSteps(s) ==
    \/ CancelWatchdog(s) \/ Terminate(s) \/ AwaitWatchdog(s) \/ VerifyDown(s)
    \/ Stopped(s) \/ Failed(s) \/ DeleteFiles(s)

SupervisorStep(s) == StartSteps(s) \/ MonitorSteps(s) \/ StopSteps(s)

WatchdogStep(w) == AwaitState(w) \/ Guard(w) \/ StopTarget(w) \/ CloseReport(w)

Next ==
    \/ \E s \in Sup : Launch(s) \/ SupervisorStep(s) \/ Crash(s)
    \/ \E c \in Core : WatchdogStep(c) \/ CoreComesUp(c) \/ CoreExits(c) \/ Release(c)
    \/ LoseHeartbeat \/ ChangeSource \/ StartV2rayN \/ RequestStop

Spec == Init /\ [][Next]_vars

(* Processes that are alive are scheduled, time passes, the system takes   *)
(* back what the dead held.  Nobody has to launch, stop, change or break   *)
(* anything.                                                               *)
Fairness ==
    /\ \A s \in Sup : WF_vars(SupervisorStep(s))
    /\ \A c \in Core : WF_vars(WatchdogStep(c)) /\ WF_vars(Release(c))
    /\ WF_vars(LoseHeartbeat)

FairSpec == Spec /\ Fairness

-----------------------------------------------------------------------------
(* Properties.                                                             *)

TypeOK ==
    /\ file \in Files
    /\ source \in Source /\ changes \in 0..MaxChange
    /\ v2rayN \in {"off", "xray", "sing-box"}
    /\ born \in 0..MaxCore
    /\ coreState \in [Core -> {"none", "starting", "up", "dead"}]
    /\ loaded \in [Core -> Config \cup {None}]
    /\ adapter \in Core \cup {None}
    /\ port \in [Ports -> Core \cup {Xray, None}]
    /\ pc \in [Sup -> Steps]
    /\ self \in [Sup -> Fields]
    /\ wpc \in [Core -> {"none", "waiting", "guarding", "stopping", "closing", "done"}]
    /\ wd \in [Core -> Script]

(* From the ready core to the end of monitoring.                           *)
Serving(s) == pc[s] \in {"writeAccess", "pin", "announce", "checks", "monitor"}

(* Watchdog w will stop core c when the heartbeat is lost: it is on its    *)
(* way to c's state file, guards c, or is about to stop it.                *)
ArmedFor(w, c) ==
    \/ wpc[w] = "waiting"  /\ file.state = c /\ ~file.cancel
    \/ wpc[w] = "guarding" /\ wd[w].target = c /\ ~file.cancel
    \/ wpc[w] = "stopping" /\ wd[w].target = c /\ ~wd[w].cancelled

(* A live core that serves is never without an armed watchdog of its own.  *)
GuardedWhileServing ==
    \A s \in Sup : Serving(s) /\ Alive(self[s].core) =>
        self[s].watchdog \in Core /\ ArmedFor(self[s].watchdog, self[s].core)

(* No two cores are alive: a restart, and a start after a failure, wait    *)
(* for the end of the core before.                                         *)
OneCore == \A c, d \in Core : Alive(c) /\ Alive(d) => c = d

(* A serving core owns the adapter and the port it promises to serve on:   *)
(* readiness was not read off the resources of somebody else.              *)
ServesOnItsOwn ==
    \A s \in Sup : Serving(s) /\ coreState[self[s].core] = "up" =>
        adapter = self[s].core /\ port[MixedPort(s)] = self[s].core

(* "stopped" is only announced when no core lives or holds a resource.     *)
StoppedMeansDown ==
    file.status.state = "stopped" =>
        /\ adapter = None
        /\ \A c \in Core : ~Alive(c) /\ \A p \in Ports : port[p] # c

(* The access file of a serving core names it: the last watchdog has not   *)
(* removed it behind the back of its successor.                            *)
AccessPublished ==
    \A s \in Sup : Serving(s) /\ pc[s] # "writeAccess" /\ Alive(self[s].core) =>
        file.access = self[s].core

(* A failure is only blamed on the watchdog when a watchdog has stopped    *)
(* this very core by force.                                                *)
BlameIsFair ==
    \A s \in Sup :
        pc[s] = "cancelWatchdog" /\ self[s].reason \notin {"none", "core-exit"} =>
            \E w \in Core : wd[w].forced /\ wd[w].target = self[s].core

(* The steps that a checkpoint announces.                                  *)
StepsOf(checkpoint) ==
    CASE checkpoint = "initial-snapshot" -> {"snapshot"}
      [] checkpoint = "offline-prepare"  -> {"prepare"}
      [] checkpoint = "stop-v2rayn"      -> {"stopV2rayN", "awaitPort"}
      [] checkpoint = "start-core"       -> {"clearFiles", "spawnWatchdog", "spawnCore",
                                             "writeState", "awaitReady", "writeAccess", "pin"}
      [] checkpoint = "health"           -> {"checks"}
      [] checkpoint = "monitoring"       -> {"monitor"}
      [] checkpoint = "stop-mihomo"      -> {"cancelWatchdog", "terminate", "awaitWatchdog",
                                             "verifyDown"}
      [] OTHER                           -> {}

(* The checkpoint in the status and in the history of a failure names the  *)
(* step that failed.                                                       *)
FailureIsNamed ==
    \A s \in Sup : pc[s] = "failed" => self[s].failedAt \in StepsOf(self[s].checkpoint)

(* When the last supervisor has returned, whichever way it went, nothing   *)
(* sensitive is left in the runtime directory.                             *)
LeavesNothing ==
    (\A s \in Sup : pc[s] \in {"idle", "exited"}) =>
        file.config = None /\ file.access = None /\ file.state = None

-----------------------------------------------------------------------------
(* What a step may never do.                                               *)

(* Trouble with a website never takes a step from the checks to the end of *)
(* the core.                                                               *)
ChecksAreInformational ==
    [][\A s \in Sup : pc[s] = "checks" /\ pc'[s] # "checks" =>
          pc'[s] \in {"monitor", "crashed"}]_vars

-----------------------------------------------------------------------------
(* What a supervisor shows to the outside.                                 *)
PhaseOf(s) ==
    CASE pc[s] = "idle"                              -> "idle"
      [] pc[s] = "init"                              -> "launched"
      [] pc[s] \in {"exited", "crashed"}             -> "gone"
      [] pc[s] = "deleteFiles"                       -> "ended"
      [] pc[s] \in {"checks", "monitor", "classify"} -> "running"
      [] OTHER -> [start |-> "starting", restart |-> "restarting", stop |-> "stopping",
                   fail |-> "failing"][self[s].then]

Shown == INSTANCE Lifecycle WITH
    phase <- [s \in Sup |-> PhaseOf(s)], status <- file.status, stop <- file.stop

(* The status file and the stop request follow the phases of Lifecycle:    *)
(* no state is announced twice, skipped, or out of order, whatever fails.  *)
KeepsLifecycle == Shown!Spec

-----------------------------------------------------------------------------
(* What must happen, under FairSpec.                                       *)

(* A start comes to an end: in service, or back in the hands of the user.  *)
StartEnds == \A s \in Sup : pc[s] = "init" ~> pc[s] \in {"monitor", "exited", "crashed"}

(* A stop request that a started supervisor can see ends it, even if it    *)
(* arrives during the start or a restart.                                  *)
StopHonoured ==
    \A s \in Sup : file.stop /\ Live(s) /\ pc[s] # "init" ~> ~Live(s)

(* When every supervisor is gone, a core with a guard that was not         *)
(* cancelled is stopped.                                                   *)
GuardedOrphanEnds ==
    \A w \in Core :
        wpc[w] = "guarding" /\ ~file.cancel /\ (\A s \in Sup : ~Live(s))
            ~> ~Alive(wd[w].target)

(* A monitor does not overlook that the source differs from its baseline.  *)
ChangeNoticed ==
    \A s \in Sup \ Manual :
        pc[s] = "monitor" /\ source # self[s].current
            ~> pc[s] # "monitor" \/ source = self[s].current

(* No core outlives its supervisor for ever.                               *)
OrphanEnds ==
    \A s \in Sup : pc[s] = "crashed" /\ Alive(self[s].core) ~> ~Alive(self[s].core)

(* A change of the physical network reaches the core that serves.          *)
NetworkFollowed ==
    \A s \in Sup \ Manual :
        pc[s] = "monitor" /\ loaded[self[s].core].network # source.network
            ~> \/ pc[s] # "monitor"
               \/ loaded[self[s].core].network = source.network

-----------------------------------------------------------------------------
(* The inductive invariant behind GuardedWhileServing.  It needs the       *)
(* launcher to keep to one supervisor, state files that are written, and   *)
(* watchdogs and kills that are not too slow.                              *)

NoRace == Faults \cap {"overlap", "stateWrite", "slowStart", "forcedStop"} = {}

(* A configuration is prepared from a snapshot.                            *)
Snapped == \A s \in Sup : pc[s] = "prepare" => self[s].snap \in Source

(* At most one supervisor is at work.                                      *)
Solo == \A s, t \in Sup : Live(s) /\ Live(t) => s = t

(* A number that no core has yet got has no watchdog, and a watchdog that  *)
(* has not been told so does not believe itself cancelled.                 *)
Unborn ==
    /\ \A w \in Core : w > born => wpc[w] = "none"
    /\ \A w \in Core : wpc[w] \in {"none", "waiting", "guarding"} => ~wd[w].cancelled

(* From the watchdog's birth on nothing an earlier core has left can       *)
(* cancel it or arm it.                                                    *)
CleanStart ==
    \A s \in Sup :
        /\ pc[s] \in {"spawnWatchdog", "spawnCore", "writeState"} =>
              file.state = None /\ ~file.cancel
        /\ pc[s] \in {"spawnCore", "writeState"} =>
              self[s].watchdog \in Core /\ wpc[self[s].watchdog] = "waiting"
        /\ pc[s] = "writeState" => self[s].core = self[s].watchdog

(* From the state file on the live core has its armed watchdog.            *)
Armed ==
    \A s \in Sup : pc[s] = "awaitReady" \/ Serving(s) =>
        /\ self[s].watchdog \in Core /\ self[s].core = self[s].watchdog
        /\ file.state = self[s].core /\ ~file.cancel
        /\ Alive(self[s].core) => ArmedFor(self[s].watchdog, self[s].core)

GuardInv == TypeOK /\ Snapped /\ Solo /\ Unborn /\ CleanStart /\ Armed

=============================================================================
