-------------------------- MODULE SupervisorProofs --------------------------
(***************************************************************************)
(* Proofs about Supervisor, for any number of supervisors, cores, versions *)
(* and changes, in this order: its types; the guard of a core in service;  *)
(* the refinement of Lifecycle; what a return leaves behind; the blame for *)
(* a failure; one core at a time; what "stopped" means; the access file;   *)
(* and whose adapter and port a core in service has.                       *)
(***************************************************************************)
EXTENDS Supervisor, TLAPS

Typed == TypeOK /\ Snapped

LEMMA TypedInit == Init => Typed
  BY RuntimeAssumption
  DEF RuntimeAssumption, Init, Typed, TypeOK, Snapped, Files, Fields, Script, Steps,
      Checkpoints, ExitReasons, NoReport, Source, Config, Ports, Core

-----------------------------------------------------------------------------
(* A supervisor moves on and updates its record, or leaves it alone.       *)

LEMMA Move ==
  ASSUME Typed, NEW s \in Sup, NEW from, NEW to \in Steps, Go(s, from, to),
         NEW r \in Fields, self' = [self EXCEPT ![s] = r],
         to = "prepare" => r.snap \in Source
  PROVE  pc' \in [Sup -> Steps] /\ self' \in [Sup -> Fields] /\ Snapped'
  BY DEF Typed, TypeOK, Snapped, Go

LEMMA Walk ==
  ASSUME Typed, NEW s \in Sup, NEW from, NEW to \in Steps \ {"prepare"}, Go(s, from, to),
         UNCHANGED self
  PROVE  pc' \in [Sup -> Steps] /\ self' \in [Sup -> Fields] /\ Snapped'
  BY DEF Typed, TypeOK, Snapped, Go

LEMMA RaiseMoves ==
  ASSUME Typed, NEW s \in Sup, NEW from \in Steps, Raise(s, from)
  PROVE  pc' \in [Sup -> Steps] /\ self' \in [Sup -> Fields] /\ Snapped'
<1> DEFINE r == [self[s] EXCEPT !.then = "fail", !.failedAt = from]
           to == IF self[s].core # None THEN "cancelWatchdog" ELSE "failed"
<1>1. self[s] \in Fields
  BY DEF Typed, TypeOK
<1>2. r \in Fields
  BY <1>1 DEF Fields
<1>3. self' = [self EXCEPT ![s] = r] /\ Go(s, from, to)
  BY DEF Raise
<1>4. to \in Steps /\ to # "prepare"
  BY DEF Steps
<1> HIDE DEF r, to
<1> QED BY <1>2, <1>3, <1>4, Move

(* What a step of the supervisor that leaves the world alone has to show.  *)
LEMMA FilesOnly ==
  ASSUME Typed, UNCHANGED world, file' \in Files,
         pc' \in [Sup -> Steps] /\ self' \in [Sup -> Fields] /\ Snapped'
  PROVE  Typed'
  BY DEF Typed, TypeOK, world, inputVars, netVars, coreVars, wdVars

LEMMA CheckpointNamed ==
  ASSUME Typed, NEW s \in Sup, NEW name \in Checkpoints
  PROVE  NextCheckpoint(s, name) \in Checkpoints
  BY DEF Typed, TypeOK, Fields, NextCheckpoint

-----------------------------------------------------------------------------
LEMMA TypedBegin == ASSUME Typed, NEW s \in Sup, Begin(s) PROVE Typed'
<1>1. self[s] \in Fields /\ file \in Files
  BY DEF Typed, TypeOK
<1> DEFINE r == [self[s] EXCEPT !.checkpoint = "initial-snapshot"]
<1>2. r \in Fields
  BY <1>1 DEF Fields, Checkpoints
<1>3. self' = [self EXCEPT ![s] = r] /\ Go(s, "init", "snapshot")
  BY DEF Begin
<1>4. "snapshot" \in Steps
  BY DEF Steps
<1>5. file' \in Files
  BY <1>1 DEF Begin, Files
<1> HIDE DEF r
<1>6. pc' \in [Sup -> Steps] /\ self' \in [Sup -> Fields] /\ Snapped'
  BY <1>2, <1>3, <1>4, Move
<1> QED BY <1>5, <1>6, FilesOnly DEF Begin

LEMMA TypedSnapshot == ASSUME Typed, NEW s \in Sup, Snapshot(s) PROVE Typed'
<1>1. self[s] \in Fields /\ file \in Files /\ source \in Source
  BY DEF Typed, TypeOK
<1> DEFINE cp == NextCheckpoint(s, "offline-prepare")
           r == [self[s] EXCEPT !.snap = source, !.checkpoint = cp]
<1>2. r \in Fields /\ r.snap \in Source
  <2>1. cp \in Checkpoints
    BY CheckpointNamed DEF Checkpoints
  <2> HIDE DEF cp
  <2> QED BY <1>1, <2>1 DEF Fields
<1>3. "prepare" \in Steps /\ "snapshot" \in Steps
  BY DEF Steps
<1>4. CASE Go(s, "snapshot", "prepare") /\ self' = [self EXCEPT ![s] = r]
  <2> HIDE DEF r
  <2>1. pc' \in [Sup -> Steps] /\ self' \in [Sup -> Fields] /\ Snapped'
    BY <1>2, <1>3, <1>4, Move
  <2> QED BY <1>1, <2>1, FilesOnly DEF Snapshot
<1>5. CASE Raise(s, "snapshot")
  BY <1>1, <1>3, <1>5, RaiseMoves, FilesOnly DEF Snapshot
<1> QED BY <1>4, <1>5 DEF Snapshot

LEMMA TypedPrepare == ASSUME Typed, NEW s \in Sup, Prepare(s) PROVE Typed'
<1>1. self[s] \in Fields /\ file \in Files /\ source \in Source
  BY DEF Typed, TypeOK
<1> DEFINE cp == NextCheckpoint(s, IF s \in Manual THEN "start-core" ELSE "stop-v2rayn")
           to == IF s \in Manual THEN "clearFiles" ELSE "stopV2rayN"
           r == [self[s] EXCEPT !.checkpoint = cp]
<1>2. r \in Fields
  <2>1. cp \in Checkpoints
    BY CheckpointNamed DEF Checkpoints
  <2> HIDE DEF cp
  <2> QED BY <1>1, <2>1 DEF Fields
<1>3. to \in Steps /\ to # "prepare" /\ "prepare" \in Steps
  BY DEF Steps
<1>4. CASE /\ Go(s, "prepare", to) /\ self' = [self EXCEPT ![s] = r]
           /\ file' = [file EXCEPT !.config =
                 [by |-> s, network |-> self[s].snap.network, data |-> source.data]]
  <2>1. self[s].snap \in Source
    BY <1>4 DEF Typed, Snapped, Go
  <2>2. [by |-> s, network |-> self[s].snap.network, data |-> source.data] \in Config
    BY <1>1, <2>1 DEF Source, Config
  <2>3. file' \in Files
    BY <1>1, <1>4, <2>2 DEF Files
  <2> HIDE DEF r, to
  <2>4. pc' \in [Sup -> Steps] /\ self' \in [Sup -> Fields] /\ Snapped'
    BY <1>2, <1>3, <1>4, Move
  <2> QED BY <2>3, <2>4, FilesOnly DEF Prepare
<1>5. CASE /\ Raise(s, "prepare")
           /\ \E kept \in {None, file.config} : file' = [file EXCEPT !.config = kept]
  <2>1. file' \in Files
    BY <1>1, <1>5 DEF Files
  <2> QED BY <1>3, <1>5, <2>1, RaiseMoves, FilesOnly DEF Prepare
<1> QED BY <1>4, <1>5 DEF Prepare

LEMMA TypedStopV2rayN == ASSUME Typed, NEW s \in Sup, StopV2rayN(s) PROVE Typed'
<1>1. pc' \in [Sup -> Steps] /\ self' \in [Sup -> Fields] /\ Snapped'
  <2>1. "awaitPort" \in Steps \ {"prepare"}
    BY DEF Steps
  <2> QED BY <2>1, Walk DEF StopV2rayN
<1>2. v2rayN' \in {"off", "xray", "sing-box"}
  BY DEF Typed, TypeOK, StopV2rayN
<1>3. port' \in [Ports -> Core \cup {Xray, None}]
  <2> DEFINE owner == IF v2rayN = "xray" /\ port[1081] = Xray THEN None ELSE port[1081]
  <2>1. port \in [Ports -> Core \cup {Xray, None}] /\ 1081 \in Ports
    BY DEF Typed, TypeOK, Ports
  <2>2. port' = [port EXCEPT ![1081] = owner]
    BY DEF StopV2rayN
  <2>3. owner \in Core \cup {Xray, None}
    BY <2>1
  <2> HIDE DEF owner
  <2> QED BY <2>1, <2>2, <2>3
<1> QED BY <1>1, <1>2, <1>3 DEF Typed, TypeOK, StopV2rayN, inputVars, coreVars, wdVars

LEMMA TypedAwaitPort == ASSUME Typed, NEW s \in Sup, AwaitPort(s) PROVE Typed'
<1>1. self[s] \in Fields /\ file \in Files
  BY DEF Typed, TypeOK
<1> DEFINE cp == NextCheckpoint(s, "start-core")
           r == [self[s] EXCEPT !.checkpoint = cp]
<1>2. r \in Fields
  <2>1. cp \in Checkpoints
    BY CheckpointNamed DEF Checkpoints
  <2> HIDE DEF cp
  <2> QED BY <1>1, <2>1 DEF Fields
<1>3. "clearFiles" \in Steps /\ "awaitPort" \in Steps
  BY DEF Steps
<1>4. CASE Go(s, "awaitPort", "clearFiles") /\ self' = [self EXCEPT ![s] = r]
  <2> HIDE DEF r
  <2>1. pc' \in [Sup -> Steps] /\ self' \in [Sup -> Fields] /\ Snapped'
    BY <1>2, <1>3, <1>4, Move
  <2> QED BY <1>1, <2>1, FilesOnly DEF AwaitPort
<1>5. CASE Raise(s, "awaitPort")
  BY <1>1, <1>3, <1>5, RaiseMoves, FilesOnly DEF AwaitPort
<1> QED BY <1>4, <1>5 DEF AwaitPort

LEMMA TypedClearFiles == ASSUME Typed, NEW s \in Sup, ClearFiles(s) PROVE Typed'
<1>1. self[s] \in Fields /\ file \in Files
  BY DEF Typed, TypeOK
<1> DEFINE r == [self[s] EXCEPT !.reason = "none"]
<1>2. r \in Fields
  BY <1>1 DEF Fields, ExitReasons
<1>3. self' = [self EXCEPT ![s] = r] /\ Go(s, "clearFiles", "spawnWatchdog")
  BY DEF ClearFiles
<1>4. file' \in Files
  <2>1. PICK report \in {NoReport, file.report} :
          file' = [file EXCEPT !.state = None, !.cancel = FALSE, !.heartbeat = "fresh",
                               !.report = report]
    BY DEF ClearFiles
  <2> DEFINE Reports == [core : Core \cup {None}, expired : BOOLEAN, forced : BOOLEAN]
  <2>2. report \in Reports
    <3>1. NoReport \in Reports
      BY DEF NoReport
    <3>2. file.report \in Reports
      BY <1>1 DEF Files
    <3> QED BY <3>1, <3>2
  <2> QED BY <1>1, <2>1, <2>2 DEF Files
<1>5. "spawnWatchdog" \in Steps
  BY DEF Steps
<1> HIDE DEF r
<1>6. pc' \in [Sup -> Steps] /\ self' \in [Sup -> Fields] /\ Snapped'
  BY <1>2, <1>3, <1>5, Move
<1> QED BY <1>4, <1>6, FilesOnly DEF ClearFiles

LEMMA TypedSpawnWatchdog == ASSUME Typed, NEW s \in Sup, SpawnWatchdog(s) PROVE Typed'
<1>1. self[s] \in Fields /\ born' \in 0..MaxCore /\ born + 1 \in Core
  BY RuntimeAssumption DEF RuntimeAssumption, Typed, TypeOK, SpawnWatchdog, Core
<1> DEFINE r == [self[s] EXCEPT !.watchdog = born + 1]
<1>2. r \in Fields
  BY <1>1 DEF Fields
<1>3. self' = [self EXCEPT ![s] = r] /\ Go(s, "spawnWatchdog", "spawnCore")
  BY DEF SpawnWatchdog
<1>4. "spawnCore" \in Steps
  BY DEF Steps
<1> HIDE DEF r
<1>5. pc' \in [Sup -> Steps] /\ self' \in [Sup -> Fields] /\ Snapped'
  BY <1>2, <1>3, <1>4, Move
<1>6. wpc' \in [Core -> {"none", "waiting", "guarding", "stopping", "closing", "done"}]
  BY <1>1 DEF Typed, TypeOK, SpawnWatchdog
<1> QED BY <1>1, <1>5, <1>6 DEF Typed, TypeOK, SpawnWatchdog, inputVars, netVars

LEMMA TypedSpawnCore == ASSUME Typed, NEW s \in Sup, SpawnCore(s) PROVE Typed'
<1>1. self[s] \in Fields
  BY DEF Typed, TypeOK
<1> DEFINE r == [self[s] EXCEPT !.core = self[s].watchdog]
<1>2. r \in Fields
  BY <1>1 DEF Fields
<1>3. "writeState" \in Steps /\ "spawnCore" \in Steps
  BY DEF Steps
<1>4. pc' \in [Sup -> Steps] /\ self' \in [Sup -> Fields] /\ Snapped'
  <2>1. CASE Go(s, "spawnCore", "writeState") /\ self' = [self EXCEPT ![s] = r]
    <3> HIDE DEF r
    <3> QED BY <1>2, <1>3, <2>1, Move
  <2>2. CASE Raise(s, "spawnCore")
    BY <1>3, <2>2, RaiseMoves
  <2> QED BY <2>1, <2>2 DEF SpawnCore
<1>5. coreState' \in [Core -> {"none", "starting", "up", "dead"}]
  BY DEF Typed, TypeOK, SpawnCore
<1> QED BY <1>4, <1>5 DEF Typed, TypeOK, SpawnCore, inputVars, netVars, wdVars

LEMMA TypedWriteState == ASSUME Typed, NEW s \in Sup, WriteState(s) PROVE Typed'
<1>1. self[s] \in Fields /\ file \in Files
  BY DEF Typed, TypeOK
<1> DEFINE r == [self[s] EXCEPT !.beating = TRUE]
<1>2. r \in Fields
  BY <1>1 DEF Fields
<1>3. self' = [self EXCEPT ![s] = r] /\ Go(s, "writeState", "awaitReady")
  BY DEF WriteState
<1>4. file' \in Files
  <2>1. PICK c \in {self[s].core, file.state} :
          file' = [file EXCEPT !.state = c, !.heartbeat = "fresh"]
    BY DEF WriteState
  <2>2. c \in Core \cup {None}
    BY <1>1 DEF Files, Fields
  <2> QED BY <1>1, <2>1, <2>2 DEF Files
<1>5. "awaitReady" \in Steps
  BY DEF Steps
<1> HIDE DEF r
<1>6. pc' \in [Sup -> Steps] /\ self' \in [Sup -> Fields] /\ Snapped'
  BY <1>2, <1>3, <1>5, Move
<1> QED BY <1>4, <1>6, FilesOnly DEF WriteState

LEMMA TypedAwaitReady == ASSUME Typed, NEW s \in Sup, AwaitReady(s) PROVE Typed'
<1>1. file \in Files /\ "awaitReady" \in Steps /\ "writeAccess" \in Steps \ {"prepare"}
  BY DEF Typed, TypeOK, Steps
<1>2. pc' \in [Sup -> Steps] /\ self' \in [Sup -> Fields] /\ Snapped'
  BY <1>1, Walk, RaiseMoves DEF AwaitReady
<1> QED BY <1>1, <1>2, FilesOnly DEF AwaitReady

LEMMA TypedWriteAccess == ASSUME Typed, NEW s \in Sup, WriteAccess(s) PROVE Typed'
<1>1. self[s] \in Fields /\ file \in Files
  BY DEF Typed, TypeOK
<1> DEFINE r == [self[s] EXCEPT !.current = self[s].snap]
           to == IF s \in Manual THEN "announce" ELSE "pin"
<1>2. r \in Fields
  BY <1>1 DEF Fields
<1>3. self' = [self EXCEPT ![s] = r] /\ Go(s, "writeAccess", to)
  BY DEF WriteAccess
<1>4. to \in Steps /\ to # "prepare"
  BY DEF Steps
<1> HIDE DEF r, to
<1>5. pc' \in [Sup -> Steps] /\ self' \in [Sup -> Fields] /\ Snapped'
  BY <1>2, <1>3, <1>4, Move
<1>6. file' \in Files
  <2>1. self[s].core \in Core \cup {None}
    BY <1>1 DEF Fields
  <2> QED BY <1>1, <2>1 DEF WriteAccess, Files
<1> QED BY <1>5, <1>6, FilesOnly DEF WriteAccess

LEMMA TypedPinSnapshot == ASSUME Typed, NEW s \in Sup, PinSnapshot(s) PROVE Typed'
<1>1. self[s] \in Fields /\ file \in Files /\ source \in Source
  BY DEF Typed, TypeOK
<1> DEFINE r == [self[s] EXCEPT !.current = source]
<1>2. r \in Fields
  BY <1>1 DEF Fields
<1>3. "pin" \in Steps /\ "announce" \in Steps
  BY DEF Steps
<1>4. pc' \in [Sup -> Steps] /\ self' \in [Sup -> Fields] /\ Snapped'
  <2>1. CASE Go(s, "pin", "announce") /\ self' = [self EXCEPT ![s] = r]
    <3> HIDE DEF r
    <3> QED BY <1>2, <1>3, <2>1, Move
  <2>2. CASE Raise(s, "pin")
    BY <1>3, <2>2, RaiseMoves
  <2> QED BY <2>1, <2>2 DEF PinSnapshot
<1> QED BY <1>1, <1>4, FilesOnly DEF PinSnapshot

LEMMA TypedAnnounce == ASSUME Typed, NEW s \in Sup, Announce(s) PROVE Typed'
<1>1. self[s] \in Fields /\ file \in Files
  BY DEF Typed, TypeOK
<1> DEFINE r == [self[s] EXCEPT !.checkpoint = "health"]
<1>2. r \in Fields
  BY <1>1 DEF Fields, Checkpoints
<1>3. self' = [self EXCEPT ![s] = r] /\ Go(s, "announce", "checks")
  BY DEF Announce
<1>4. "checks" \in Steps
  BY DEF Steps
<1> HIDE DEF r
<1>5. pc' \in [Sup -> Steps] /\ self' \in [Sup -> Fields] /\ Snapped'
  BY <1>2, <1>3, <1>4, Move
<1>6. file' \in Files
  BY <1>1 DEF Announce, Files
<1> QED BY <1>5, <1>6, FilesOnly DEF Announce

LEMMA TypedConnectivityChecks ==
  ASSUME Typed, NEW s \in Sup, ConnectivityChecks(s) PROVE Typed'
<1>1. self[s] \in Fields /\ file \in Files
  BY DEF Typed, TypeOK
<1> DEFINE r == [self[s] EXCEPT !.checkpoint = "monitoring", !.pending = None, !.count = 0]
<1>2. r \in Fields
  BY <1>1 DEF Fields, Checkpoints
<1>3. "checks" \in Steps /\ "monitor" \in Steps
  BY DEF Steps
<1>4. pc' \in [Sup -> Steps] /\ self' \in [Sup -> Fields] /\ Snapped'
  <2>1. CASE Go(s, "checks", "monitor") /\ self' = [self EXCEPT ![s] = r]
    <3> HIDE DEF r
    <3> QED BY <1>2, <1>3, <2>1, Move
  <2>2. CASE Raise(s, "checks")
    BY <1>3, <2>2, RaiseMoves
  <2> QED BY <2>1, <2>2 DEF ConnectivityChecks
<1> QED BY <1>1, <1>4, FilesOnly DEF ConnectivityChecks

-----------------------------------------------------------------------------
LEMMA TypedTakeStopRequest == ASSUME Typed, NEW s \in Sup, TakeStopRequest(s) PROVE Typed'
<1>1. self[s] \in Fields /\ file \in Files
  BY DEF Typed, TypeOK
<1> DEFINE r == [self[s] EXCEPT !.then = "stop", !.checkpoint = "stop-mihomo"]
<1>2. r \in Fields
  BY <1>1 DEF Fields, Checkpoints
<1>3. self' = [self EXCEPT ![s] = r] /\ Go(s, "monitor", "cancelWatchdog")
  BY DEF TakeStopRequest
<1>4. "cancelWatchdog" \in Steps
  BY DEF Steps
<1> HIDE DEF r
<1>5. pc' \in [Sup -> Steps] /\ self' \in [Sup -> Fields] /\ Snapped'
  BY <1>2, <1>3, <1>4, Move
<1>6. file' \in Files
  BY <1>1 DEF TakeStopRequest, Files
<1> QED BY <1>5, <1>6, FilesOnly DEF TakeStopRequest

LEMMA TypedNoticeExit == ASSUME Typed, NEW s \in Sup, NoticeExit(s) PROVE Typed'
<1>1. self[s] \in Fields /\ file \in Files
  BY DEF Typed, TypeOK
<1> DEFINE r == [self[s] EXCEPT !.beating = FALSE]
<1>2. r \in Fields
  BY <1>1 DEF Fields
<1>3. self' = [self EXCEPT ![s] = r] /\ Go(s, "monitor", "classify")
  BY DEF NoticeExit
<1>4. "classify" \in Steps
  BY DEF Steps
<1> HIDE DEF r
<1>5. pc' \in [Sup -> Steps] /\ self' \in [Sup -> Fields] /\ Snapped'
  BY <1>2, <1>3, <1>4, Move
<1>6. file' \in Files
  BY <1>1 DEF NoticeExit
<1> QED BY <1>5, <1>6, FilesOnly DEF NoticeExit

LEMMA TypedClassify == ASSUME Typed, NEW s \in Sup, Classify(s) PROVE Typed'
<1>1. self[s] \in Fields /\ file \in Files
  BY DEF Typed, TypeOK
<1> DEFINE reason == IF file.report.core = self[s].core
                     THEN ExitReason(file.report) ELSE "core-exit"
           r == [self[s] EXCEPT !.then = "fail", !.failedAt = "monitor", !.reason = reason]
<1>2. reason \in ExitReasons
  BY DEF ExitReason, ExitReasons
<1>3. "classify" \in Steps /\ "cancelWatchdog" \in Steps /\ "monitor" \in Steps
  BY DEF Steps
<1>4. self' = [self EXCEPT ![s] = r] /\ Go(s, "classify", "cancelWatchdog")
  BY DEF Classify
<1> HIDE DEF reason
<1>5. r \in Fields
  BY <1>1, <1>2, <1>3 DEF Fields
<1> HIDE DEF r
<1>6. pc' \in [Sup -> Steps] /\ self' \in [Sup -> Fields] /\ Snapped'
  BY <1>3, <1>4, <1>5, Move
<1> QED BY <1>1, <1>6, FilesOnly DEF Classify

LEMMA TypedObserve == ASSUME Typed, NEW s \in Sup, Observe(s) PROVE Typed'
<1>1. self[s] \in Fields /\ file \in Files /\ source \in Source
  BY DEF Typed, TypeOK
<1> DEFINE To(n) == IF n >= 2 THEN "cancelWatchdog" ELSE pc[s]
           R(o, n) == [self[s] EXCEPT !.pending = IF n = 0 THEN None ELSE o, !.count = n,
                                      !.then = IF n >= 2 THEN "restart" ELSE self[s].then]
<1>2. PICK o \in {source} \cup (IF "snapshot" \in Faults THEN {None} ELSE {}) :
        /\ pc' = [pc EXCEPT ![s] = To(Debounced(s, o))]
        /\ self' = [self EXCEPT ![s] = R(o, Debounced(s, o))]
        /\ file' = IF Debounced(s, o) >= 2
                   THEN [file EXCEPT !.status = [state |-> "restarting", by |-> s]]
                   ELSE file
  BY DEF Observe
<1> DEFINE n == Debounced(s, o)
           r == R(o, n)
           to == To(n)
<1>3. n \in Nat
  <2>1. self[s].count \in Nat
    BY <1>1 DEF Fields
  <2> QED BY <2>1 DEF Debounced
<1>4. pc' = [pc EXCEPT ![s] = to] /\ self' = [self EXCEPT ![s] = r]
  BY <1>2
<1>5. file' \in Files
  BY <1>1, <1>2 DEF Files
<1> HIDE DEF n
<1>6. r \in Fields
  <2> DEFINE seen == IF n = 0 THEN None ELSE o
             then == IF n >= 2 THEN "restart" ELSE self[s].then
  <2>1. seen \in Source \cup {None}
    BY <1>1
  <2>2. then \in {"start", "restart", "stop", "fail"}
    BY <1>1 DEF Fields
  <2>3. r = [self[s] EXCEPT !.pending = seen, !.count = n, !.then = then]
    OBVIOUS
  <2> HIDE DEF seen, then, r
  <2> QED BY <1>1, <1>3, <2>1, <2>2, <2>3 DEF Fields
<1>7. to \in Steps /\ to # "prepare" /\ Go(s, "monitor", to)
  BY <1>4 DEF Observe, Go, Steps
<1> HIDE DEF r, to
<1>8. pc' \in [Sup -> Steps] /\ self' \in [Sup -> Fields] /\ Snapped'
  BY <1>4, <1>6, <1>7, Move
<1> QED BY <1>5, <1>8, FilesOnly DEF Observe

-----------------------------------------------------------------------------
LEMMA TypedCancelWatchdog == ASSUME Typed, NEW s \in Sup, CancelWatchdog(s) PROVE Typed'
<1>1. self[s] \in Fields /\ file \in Files
  BY DEF Typed, TypeOK
<1> DEFINE r == [self[s] EXCEPT !.beating = FALSE]
<1>2. r \in Fields
  BY <1>1 DEF Fields
<1>3. self' = [self EXCEPT ![s] = r] /\ Go(s, "cancelWatchdog", "terminate")
  BY DEF CancelWatchdog
<1>4. "terminate" \in Steps
  BY DEF Steps
<1> HIDE DEF r
<1>5. pc' \in [Sup -> Steps] /\ self' \in [Sup -> Fields] /\ Snapped'
  BY <1>2, <1>3, <1>4, Move
<1>6. file' \in Files
  <2>1. PICK written \in {TRUE, file.cancel} : file' = [file EXCEPT !.cancel = written]
    BY DEF CancelWatchdog
  <2>2. CASE written = TRUE
    BY <1>1, <2>1, <2>2 DEF Files
  <2>3. CASE written = file.cancel
    BY <1>1, <2>1, <2>3 DEF Files
  <2> QED BY <2>2, <2>3
<1> QED BY <1>5, <1>6, FilesOnly DEF CancelWatchdog

LEMMA TypedTerminate == ASSUME Typed, NEW s \in Sup, Terminate(s) PROVE Typed'
<1>1. "awaitWatchdog" \in Steps \ {"prepare"}
  BY DEF Steps
<1>2. pc' \in [Sup -> Steps] /\ self' \in [Sup -> Fields] /\ Snapped'
  BY <1>1, Walk DEF Terminate
<1>3. coreState' \in [Core -> {"none", "starting", "up", "dead"}]
  BY DEF Typed, TypeOK, Terminate
<1> QED BY <1>2, <1>3 DEF Typed, TypeOK, Terminate, inputVars, netVars, wdVars

LEMMA TypedAwaitWatchdog == ASSUME Typed, NEW s \in Sup, AwaitWatchdog(s) PROVE Typed'
<1>1. self[s] \in Fields /\ file \in Files
  BY DEF Typed, TypeOK
<1> DEFINE r == [self[s] EXCEPT !.core = None, !.watchdog = None]
<1>2. r \in Fields
  BY <1>1 DEF Fields
<1>3. self' = [self EXCEPT ![s] = r] /\ Go(s, "awaitWatchdog", "verifyDown")
  BY DEF AwaitWatchdog
<1>4. "verifyDown" \in Steps
  BY DEF Steps
<1> HIDE DEF r
<1>5. pc' \in [Sup -> Steps] /\ self' \in [Sup -> Fields] /\ Snapped'
  BY <1>2, <1>3, <1>4, Move
<1>6. file' \in Files
  BY <1>1 DEF AwaitWatchdog
<1> QED BY <1>5, <1>6, FilesOnly DEF AwaitWatchdog

LEMMA TypedVerifyDown == ASSUME Typed, NEW s \in Sup, VerifyDown(s) PROVE Typed'
<1>1. self[s] \in Fields /\ file \in Files
  BY DEF Typed, TypeOK
<1> DEFINE at == IF self[s].then = "fail" THEN self[s].failedAt ELSE "verifyDown"
           r == [self[s] EXCEPT !.then = "fail", !.failedAt = at]
<1>2. "failed" \in Steps /\ Return(s) \in Steps \ {"prepare"}
  BY DEF Steps, Return
<1>3. r \in Fields
  <2>1. at \in Steps \cup {"nowhere"}
    <3>1. "verifyDown" \in Steps
      BY DEF Steps
    <3> QED BY <1>1, <3>1 DEF Fields
  <2> HIDE DEF at
  <2> QED BY <1>1, <2>1 DEF Fields
<1>4. pc' \in [Sup -> Steps] /\ self' \in [Sup -> Fields] /\ Snapped'
  <2>1. CASE Go(s, "verifyDown", Return(s)) /\ UNCHANGED self
    BY <1>2, <2>1, Walk
  <2>2. CASE Go(s, "verifyDown", "failed") /\ self' = [self EXCEPT ![s] = r]
    <3> HIDE DEF r
    <3> QED BY <1>2, <1>3, <2>2, Move
  <2> QED BY <2>1, <2>2 DEF VerifyDown
<1> QED BY <1>1, <1>4, FilesOnly DEF VerifyDown

-----------------------------------------------------------------------------
LEMMA TypedStopped == ASSUME Typed, NEW s \in Sup, Stopped(s) PROVE Typed'
<1>1. self[s] \in Fields /\ file \in Files
  BY DEF Typed, TypeOK
<1> DEFINE r == [self[s] EXCEPT !.checkpoint = "stop-complete"]
<1>2. r \in Fields
  BY <1>1 DEF Fields, Checkpoints
<1>3. self' = [self EXCEPT ![s] = r] /\ Go(s, "stopped", "deleteFiles")
  BY DEF Stopped
<1>4. "deleteFiles" \in Steps
  BY DEF Steps
<1> HIDE DEF r
<1>5. pc' \in [Sup -> Steps] /\ self' \in [Sup -> Fields] /\ Snapped'
  BY <1>2, <1>3, <1>4, Move
<1>6. file' \in Files
  BY <1>1 DEF Stopped, Files
<1> QED BY <1>5, <1>6, FilesOnly DEF Stopped

LEMMA TypedFailed == ASSUME Typed, NEW s \in Sup, Failed(s) PROVE Typed'
<1>1. self[s] \in Fields /\ file \in Files
  BY DEF Typed, TypeOK
<1>4. "deleteFiles" \in Steps \ {"prepare"}
  BY DEF Steps
<1>5. pc' \in [Sup -> Steps] /\ self' \in [Sup -> Fields] /\ Snapped'
  BY <1>4, Walk DEF Failed
<1>6. file' \in Files
  BY <1>1 DEF Failed, Files
<1> QED BY <1>5, <1>6, FilesOnly DEF Failed

LEMMA TypedDeleteFiles == ASSUME Typed, NEW s \in Sup, DeleteFiles(s) PROVE Typed'
<1>1. self[s] \in Fields /\ file \in Files
  BY DEF Typed, TypeOK
<1>4. "exited" \in Steps \ {"prepare"}
  BY DEF Steps
<1>5. pc' \in [Sup -> Steps] /\ self' \in [Sup -> Fields] /\ Snapped'
  BY <1>4, Walk DEF DeleteFiles
<1>6. file' \in Files
  BY <1>1 DEF DeleteFiles, Files
<1> QED BY <1>5, <1>6, FilesOnly DEF DeleteFiles

LEMMA TypedCrash == ASSUME Typed, NEW s \in Sup, Crash(s) PROVE Typed'
<1>1. self[s] \in Fields /\ file \in Files
  BY DEF Typed, TypeOK
<1> DEFINE r == [self[s] EXCEPT !.beating = FALSE]
<1>2. r \in Fields
  BY <1>1 DEF Fields
<1>3. self' = [self EXCEPT ![s] = r] /\ Go(s, pc[s], "crashed")
  BY DEF Crash, Go
<1>4. "crashed" \in Steps
  BY DEF Steps
<1> HIDE DEF r
<1>5. pc' \in [Sup -> Steps] /\ self' \in [Sup -> Fields] /\ Snapped'
  BY <1>2, <1>3, <1>4, Move
<1> QED BY <1>1, <1>5, FilesOnly DEF Crash

LEMMA TypedLaunch == ASSUME Typed, NEW s \in Sup, Launch(s) PROVE Typed'
<1>1. file \in Files /\ "init" \in Steps \ {"prepare"}
  BY DEF Typed, TypeOK, Steps
<1>2. pc' \in [Sup -> Steps] /\ self' \in [Sup -> Fields] /\ Snapped'
  BY <1>1, Walk DEF Launch
<1> QED BY <1>1, <1>2, FilesOnly DEF Launch

-----------------------------------------------------------------------------
(* The watchdogs, the machine and its user leave the supervisors alone.    *)

LEMMA StandStill ==
  ASSUME Typed, UNCHANGED supVars
  PROVE  pc' \in [Sup -> Steps] /\ self' \in [Sup -> Fields] /\ Snapped'
  BY DEF Typed, TypeOK, Snapped, supVars

LEMMA TypedAwaitState == ASSUME Typed, NEW w \in Core, AwaitState(w) PROVE Typed'
<1>1. wpc' \in [Core -> {"none", "waiting", "guarding", "stopping", "closing", "done"}]
  BY DEF Typed, TypeOK, AwaitState
<1>2. wd[w] \in Script /\ file \in Files /\ wd \in [Core -> Script]
  BY DEF Typed, TypeOK
<1>3. wd' \in [Core -> Script]
  <2>1. [wd[w] EXCEPT !.cancelled = TRUE] \in Script
    BY <1>2 DEF Script
  <2>2. file.state \in Core \cup {None}
    BY <1>2 DEF Files
  <2>3. [wd[w] EXCEPT !.target = file.state] \in Script
    BY <1>2, <2>2 DEF Script
  <2> QED BY <1>2, <2>1, <2>3 DEF AwaitState
<1> QED BY <1>1, <1>3, StandStill DEF Typed, TypeOK, AwaitState, inputVars, netVars, coreVars

LEMMA TypedGuard == ASSUME Typed, NEW w \in Core, Guard(w) PROVE Typed'
<1>1. wpc' \in [Core -> {"none", "waiting", "guarding", "stopping", "closing", "done"}]
  BY DEF Typed, TypeOK, Guard
<1>2. wd[w] \in Script /\ wd \in [Core -> Script]
  BY DEF Typed, TypeOK
<1>3. wd' \in [Core -> Script]
  <2>1. [wd[w] EXCEPT !.cancelled = TRUE] \in Script /\ [wd[w] EXCEPT !.expired = TRUE] \in Script
    BY <1>2 DEF Script
  <2> QED BY <1>2, <2>1 DEF Guard
<1> QED BY <1>1, <1>3, StandStill DEF Typed, TypeOK, Guard, inputVars, netVars, coreVars

LEMMA TypedStopTarget == ASSUME Typed, NEW w \in Core, StopTarget(w) PROVE Typed'
<1>1. wpc' \in [Core -> {"none", "waiting", "guarding", "stopping", "closing", "done"}]
  BY DEF Typed, TypeOK, StopTarget
<1>2. wd[w] \in Script /\ wd \in [Core -> Script]
  BY DEF Typed, TypeOK
<1>3. wd' \in [Core -> Script]
  <2> DEFINE kill == ~wd[w].cancelled /\ Alive(wd[w].target)
  <2>1. wd' = [wd EXCEPT ![w] = [wd[w] EXCEPT !.forced = kill]]
    BY DEF StopTarget
  <2>2. kill \in BOOLEAN
    OBVIOUS
  <2> HIDE DEF kill
  <2>3. [wd[w] EXCEPT !.forced = kill] \in Script
    <3>1. CASE kill = TRUE
      BY <1>2, <3>1 DEF Script
    <3>2. CASE kill = FALSE
      BY <1>2, <3>2 DEF Script
    <3> QED BY <2>2, <3>1, <3>2
  <2> QED BY <1>2, <2>1, <2>3
<1>4. coreState' \in [Core -> {"none", "starting", "up", "dead"}]
  BY DEF Typed, TypeOK, StopTarget
<1> QED BY <1>1, <1>3, <1>4, StandStill DEF Typed, TypeOK, StopTarget, inputVars, netVars

LEMMA TypedCloseReport == ASSUME Typed, NEW w \in Core, CloseReport(w) PROVE Typed'
<1>1. wpc' \in [Core -> {"none", "waiting", "guarding", "stopping", "closing", "done"}]
  BY DEF Typed, TypeOK, CloseReport
<1>2. file' \in Files
  <2> DEFINE report == [core |-> wd[w].target, expired |-> wd[w].expired,
                        forced |-> wd[w].forced]
             Reports == [core : Core \cup {None}, expired : BOOLEAN, forced : BOOLEAN]
  <2>1. wd[w] \in Script /\ file \in Files
    BY DEF Typed, TypeOK
  <2>2. report \in Reports
    BY <2>1 DEF Script
  <2>3. file' = [file EXCEPT !.access = None, !.report = report]
    BY DEF CloseReport
  <2> HIDE DEF report
  <2> QED BY <2>1, <2>2, <2>3 DEF Files
<1> QED BY <1>1, <1>2, StandStill DEF Typed, TypeOK, CloseReport, inputVars, netVars, coreVars

-----------------------------------------------------------------------------
LEMMA TypedCoreComesUp == ASSUME Typed, NEW c \in Core, CoreComesUp(c) PROVE Typed'
<1>1. file \in Files /\ file.config \in Config \cup {None}
  BY DEF Typed, TypeOK, Files
<1>2. loaded' \in [Core -> Config \cup {None}]
  BY <1>1 DEF Typed, TypeOK, CoreComesUp
<1>3. coreState' \in [Core -> {"none", "starting", "up", "dead"}]
  BY DEF Typed, TypeOK, CoreComesUp
<1>4. adapter' \in Core \cup {None}
  BY DEF Typed, TypeOK, CoreComesUp
<1>5. port' \in [Ports -> Core \cup {Xray, None}]
  <2>1. port \in [Ports -> Core \cup {Xray, None}]
    BY DEF Typed, TypeOK
  <2> DEFINE p == MixedPort(file.config.by)
             owner == IF port[p] = None THEN c ELSE port[p]
  <2>2. UNCHANGED port \/ port' = [port EXCEPT ![p] = owner]
    BY DEF CoreComesUp
  <2>3. p \in Ports
    BY DEF MixedPort, Ports
  <2>4. owner \in Core \cup {Xray, None}
    BY <2>1, <2>3
  <2> HIDE DEF p, owner
  <2> QED BY <2>1, <2>2, <2>4
<1> QED BY <1>2, <1>3, <1>4, <1>5, StandStill
        DEF Typed, TypeOK, CoreComesUp, inputVars, wdVars

LEMMA TypedCoreExits == ASSUME Typed, NEW c \in Core, CoreExits(c) PROVE Typed'
<1>1. coreState' \in [Core -> {"none", "starting", "up", "dead"}]
  BY DEF Typed, TypeOK, CoreExits
<1> QED BY <1>1, StandStill DEF Typed, TypeOK, CoreExits, inputVars, netVars, wdVars

LEMMA TypedRelease == ASSUME Typed, NEW c \in Core, Release(c) PROVE Typed'
<1>1. adapter' \in Core \cup {None}
  BY DEF Typed, TypeOK, Release
<1>2. port' \in [Ports -> Core \cup {Xray, None}]
  BY DEF Typed, TypeOK, Release
<1> QED BY <1>1, <1>2, StandStill DEF Typed, TypeOK, Release, inputVars, coreVars, wdVars

LEMMA TypedLoseHeartbeat == ASSUME Typed, LoseHeartbeat PROVE Typed'
<1>1. file' \in Files
  BY DEF Typed, TypeOK, LoseHeartbeat, Files
<1> QED BY <1>1, StandStill
        DEF Typed, TypeOK, LoseHeartbeat, world, inputVars, netVars, coreVars, wdVars

LEMMA TypedChangeSource == ASSUME Typed, ChangeSource PROVE Typed'
<1>1. source' \in Source /\ changes' \in 0..MaxChange
  BY RuntimeAssumption DEF RuntimeAssumption, Typed, TypeOK, ChangeSource
<1> QED BY <1>1, StandStill DEF Typed, TypeOK, ChangeSource, netVars, coreVars, wdVars

LEMMA TypedStartV2rayN == ASSUME Typed, StartV2rayN PROVE Typed'
<1>1. port' \in [Ports -> Core \cup {Xray, None}]
  <2> DEFINE owner == IF port[1081] = None THEN Xray ELSE port[1081]
  <2>1. port \in [Ports -> Core \cup {Xray, None}] /\ 1081 \in Ports
    BY DEF Typed, TypeOK, Ports
  <2>2. port' = [port EXCEPT ![1081] = owner]
    BY DEF StartV2rayN
  <2>3. owner \in Core \cup {Xray, None}
    BY <2>1
  <2> HIDE DEF owner
  <2> QED BY <2>1, <2>2, <2>3
<1>2. v2rayN' \in {"off", "xray", "sing-box"}
  BY DEF StartV2rayN
<1> QED BY <1>1, <1>2, StandStill DEF Typed, TypeOK, StartV2rayN, inputVars, coreVars, wdVars

LEMMA TypedRequestStop == ASSUME Typed, RequestStop PROVE Typed'
<1>1. file' \in Files
  BY DEF Typed, TypeOK, RequestStop, Files
<1> QED BY <1>1, StandStill
        DEF Typed, TypeOK, RequestStop, world, inputVars, netVars, coreVars, wdVars

-----------------------------------------------------------------------------
LEMMA TypedStep == Typed /\ [Next]_vars => Typed'
<1> SUFFICES ASSUME Typed, [Next]_vars PROVE Typed'
  OBVIOUS
<1>1. ASSUME NEW s \in Sup, Launch(s) PROVE Typed'
  BY <1>1, TypedLaunch
<1>2. ASSUME NEW s \in Sup, StartSteps(s) PROVE Typed'
  BY <1>2, TypedBegin, TypedSnapshot, TypedPrepare, TypedStopV2rayN, TypedAwaitPort,
     TypedClearFiles, TypedSpawnWatchdog, TypedSpawnCore, TypedWriteState,
     TypedAwaitReady, TypedWriteAccess, TypedPinSnapshot, TypedAnnounce,
     TypedConnectivityChecks
  DEF StartSteps
<1>3. ASSUME NEW s \in Sup, MonitorSteps(s) PROVE Typed'
  BY <1>3, TypedTakeStopRequest, TypedNoticeExit, TypedClassify, TypedObserve
  DEF MonitorSteps
<1>4. ASSUME NEW s \in Sup, StopSteps(s) PROVE Typed'
  BY <1>4, TypedCancelWatchdog, TypedTerminate, TypedAwaitWatchdog, TypedVerifyDown,
     TypedStopped, TypedFailed, TypedDeleteFiles
  DEF StopSteps
<1>5. ASSUME NEW s \in Sup, Crash(s) PROVE Typed'
  BY <1>5, TypedCrash
<1>6. ASSUME NEW w \in Core, WatchdogStep(w) PROVE Typed'
  BY <1>6, TypedAwaitState, TypedGuard, TypedStopTarget, TypedCloseReport DEF WatchdogStep
<1>7. ASSUME NEW c \in Core, CoreComesUp(c) \/ CoreExits(c) \/ Release(c) PROVE Typed'
  BY <1>7, TypedCoreComesUp, TypedCoreExits, TypedRelease
<1>8. CASE LoseHeartbeat \/ ChangeSource \/ StartV2rayN \/ RequestStop
  BY <1>8, TypedLoseHeartbeat, TypedChangeSource, TypedStartV2rayN, TypedRequestStop
<1>9. CASE UNCHANGED vars
  BY <1>9 DEF Typed, TypeOK, Snapped, vars, inputVars, netVars, coreVars, supVars, wdVars
<1> QED BY <1>1, <1>2, <1>3, <1>4, <1>5, <1>6, <1>7, <1>8, <1>9 DEF Next, SupervisorStep

(* Every reachable state is of the declared types, and a configuration is  *)
(* only prepared from a snapshot that was taken.                           *)
THEOREM TypeCorrect == Spec => []TypeOK
<1>1. Typed => TypeOK
  BY DEF Typed
<1> QED BY <1>1, TypedInit, TypedStep, PTL DEF Spec

-----------------------------------------------------------------------------
(* GuardedWhileServing.  Only one supervisor is at work, so each step has  *)
(* to be looked at for the supervisor that takes it.                       *)

LEMMA GuardInit == Init => GuardInv
<1> SUFFICES ASSUME Init PROVE GuardInv
  OBVIOUS
<1>1. Typed
  BY TypedInit
<1>2. \A s \in Sup : pc[s] = "idle"
  BY DEF Init
<1>3. Solo /\ CleanStart /\ Armed
  BY <1>2 DEF Solo, Live, CleanStart, Armed, Serving
<1>4. Unborn
  BY DEF Init, Unborn
<1> QED BY <1>1, <1>3, <1>4 DEF GuardInv, Typed

(* The supervisor that takes a step was the only one at work, and it is    *)
(* the only one afterwards.                                                *)
LEMMA Alone ==
  ASSUME GuardInv, NEW s \in Sup, Live(s), NEW from, NEW to, Go(s, from, to)
  PROVE  Solo' /\ pc'[s] = to /\ \A t \in Sup : t # s => ~Live(t) /\ ~Live(t)'
  BY DEF GuardInv, TypeOK, Solo, Live, Go

ArmedSteps == {"awaitReady", "writeAccess", "pin", "announce", "checks", "monitor"}
GuardSteps == {"spawnWatchdog", "spawnCore", "writeState"} \cup ArmedSteps

Guards == Solo /\ Unborn /\ CleanStart /\ Armed

(* A step that does not lead into the guarded part.                        *)
LEMMA Elsewhere ==
  ASSUME GuardInv, NEW s \in Sup, Live(s), NEW from, NEW to, Go(s, from, to),
         to \notin GuardSteps, UNCHANGED wdVars, UNCHANGED born
  PROVE  Guards'
<1>1. Solo' /\ pc'[s] = to /\ \A t \in Sup : t # s => ~Live(t)'
  BY Alone
<1>2. Unborn'
  BY DEF GuardInv, Unborn, wdVars
<1>3. \A t \in Sup : pc'[t] \notin GuardSteps
  BY <1>1 DEF GuardSteps, ArmedSteps, Live
<1>4. CleanStart' /\ Armed'
  BY <1>3 DEF CleanStart, Armed, Serving, GuardSteps, ArmedSteps
<1> QED BY <1>1, <1>2, <1>4 DEF Guards

LEMMA RaiseElsewhere ==
  ASSUME GuardInv, NEW s \in Sup, NEW from, from \notin {"idle", "exited", "crashed"},
         Raise(s, from), UNCHANGED wdVars, UNCHANGED born
  PROVE  Guards'
<1> DEFINE to == IF self[s].core # None THEN "cancelWatchdog" ELSE "failed"
<1>1. Go(s, from, to) /\ Live(s)
  BY DEF Raise, Go, Live
<1>2. to \notin GuardSteps
  BY DEF GuardSteps, ArmedSteps
<1> HIDE DEF to
<1> QED BY <1>1, <1>2, Elsewhere

(* A step from one armed position to the next.                             *)
LEMMA StaysArmed ==
  ASSUME GuardInv, NEW s \in Sup, NEW from \in ArmedSteps, NEW to \in ArmedSteps,
         Go(s, from, to), UNCHANGED <<born, coreState, wdVars>>,
         self'[s].core = self[s].core, self'[s].watchdog = self[s].watchdog,
         file'.state = file.state, file'.cancel = file.cancel
  PROVE  Guards'
<1>1. Live(s) /\ pc[s] = from
  BY DEF Live, Go, ArmedSteps
<1>2. Solo' /\ pc'[s] = to /\ \A t \in Sup : t # s => ~Live(t)'
  BY <1>1, Alone
<1>3. Unborn'
  BY DEF GuardInv, Unborn, wdVars
<1>4. CleanStart'
  BY <1>2 DEF CleanStart, Live, ArmedSteps
<1>5. Armed'
  <2> SUFFICES ASSUME NEW t \in Sup, pc'[t] = "awaitReady" \/ Serving(t)'
               PROVE  /\ self'[t].watchdog \in Core /\ self'[t].core = self'[t].watchdog
                      /\ file'.state = self'[t].core /\ ~file'.cancel
                      /\ Alive(self[t].core)' => ArmedFor(self[t].watchdog, self[t].core)'
    BY DEF Armed
  <2>1. t = s
    BY <1>2 DEF Serving, Live
  <2>2. pc[s] = "awaitReady" \/ Serving(s)
    BY <1>1 DEF Serving, ArmedSteps
  <2>3. /\ self[s].watchdog \in Core /\ self[s].core = self[s].watchdog
        /\ file.state = self[s].core /\ ~file.cancel
        /\ Alive(self[s].core) => ArmedFor(self[s].watchdog, self[s].core)
    BY <2>2 DEF GuardInv, Armed
  <2> QED BY <2>1, <2>3 DEF Alive, ArmedFor, wdVars
<1> QED BY <1>2, <1>3, <1>4, <1>5 DEF Guards

(* Whoever leaves supervisors, watchdogs and their files alone, and wakes  *)
(* no core.                                                                *)
LEMMA Calm ==
  ASSUME GuardInv, UNCHANGED <<born, supVars, wdVars>>,
         file'.state = file.state, file'.cancel = file.cancel,
         \A c \in Core : Alive(c)' => Alive(c)
  PROVE  Guards'
<1>1. Solo' /\ Unborn' /\ CleanStart'
  BY DEF GuardInv, Solo, Live, Unborn, CleanStart, supVars, wdVars
<1>2. Armed'
  BY DEF GuardInv, Armed, Serving, ArmedFor, supVars, wdVars
<1> QED BY <1>1, <1>2 DEF Guards

-----------------------------------------------------------------------------
(* The four steps in which a guard comes into being.                       *)

LEMMA GuardClearFiles == ASSUME GuardInv, NEW s \in Sup, ClearFiles(s) PROVE Guards'
<1>1. Go(s, "clearFiles", "spawnWatchdog") /\ Live(s)
  BY DEF ClearFiles, Go, Live
<1>2. Solo' /\ pc'[s] = "spawnWatchdog" /\ \A t \in Sup : t # s => ~Live(t)'
  BY <1>1, Alone
<1>3. Unborn'
  BY DEF GuardInv, Unborn, ClearFiles, world, wdVars, coreVars
<1>4. file'.state = None /\ ~file'.cancel
  <2>1. file \in Files
    BY DEF GuardInv, TypeOK
  <2> QED BY <2>1 DEF ClearFiles, Files
<1>5. CleanStart' /\ Armed'
  BY <1>2, <1>4 DEF CleanStart, Armed, Serving, Live
<1> QED BY <1>2, <1>3, <1>5 DEF Guards

LEMMA GuardSpawnWatchdog == ASSUME GuardInv, NEW s \in Sup, SpawnWatchdog(s) PROVE Guards'
<1>1. Go(s, "spawnWatchdog", "spawnCore") /\ Live(s)
  BY DEF SpawnWatchdog, Go, Live
<1>2. Solo' /\ pc'[s] = "spawnCore" /\ \A t \in Sup : t # s => ~Live(t)'
  BY <1>1, Alone
<1>3. born \in 0..MaxCore /\ born + 1 \in Core /\ born' = born + 1
  BY RuntimeAssumption DEF RuntimeAssumption, GuardInv, TypeOK, SpawnWatchdog, Core
<1>4. wpc'[born + 1] = "waiting" /\ \A w \in Core : w # born + 1 => wpc'[w] = wpc[w]
  BY <1>3 DEF GuardInv, TypeOK, SpawnWatchdog
<1>5. Unborn'
  <2>1. \A w \in Core : w > born + 1 => wpc'[w] = "none"
    BY <1>3, <1>4 DEF GuardInv, Unborn, Core
  <2>2. wpc[born + 1] = "none"
    BY <1>3 DEF GuardInv, Unborn, Core
  <2> QED BY <1>3, <1>4, <2>1, <2>2 DEF GuardInv, Unborn, SpawnWatchdog
<1>6. self'[s].watchdog = born + 1
  BY DEF GuardInv, TypeOK, SpawnWatchdog, Fields
<1>7. file.state = None /\ ~file.cancel /\ UNCHANGED file
  BY <1>1 DEF GuardInv, CleanStart, Go, SpawnWatchdog
<1>8. CleanStart' /\ Armed'
  BY <1>2, <1>3, <1>4, <1>6, <1>7 DEF CleanStart, Armed, Serving, Live
<1> QED BY <1>2, <1>5, <1>8 DEF Guards

LEMMA GuardSpawnCore == ASSUME GuardInv, NEW s \in Sup, SpawnCore(s) PROVE Guards'
<1>1. CASE Raise(s, "spawnCore")
  BY <1>1, RaiseElsewhere DEF SpawnCore
<1>2. CASE /\ Go(s, "spawnCore", "writeState")
           /\ self' = [self EXCEPT ![s].core = self[s].watchdog]
  <2>1. Live(s)
    BY <1>2 DEF Live, Go
  <2>2. Solo' /\ pc'[s] = "writeState" /\ \A t \in Sup : t # s => ~Live(t)'
    BY <1>2, <2>1, Alone
  <2>3. Unborn'
    BY DEF GuardInv, Unborn, SpawnCore, wdVars
  <2>4. self'[s].core = self[s].watchdog /\ self'[s].watchdog = self[s].watchdog
    BY <1>2 DEF GuardInv, TypeOK, Fields
  <2>5. /\ file.state = None /\ ~file.cancel
        /\ self[s].watchdog \in Core /\ wpc[self[s].watchdog] = "waiting"
    BY <1>2 DEF GuardInv, CleanStart, Go
  <2>6. CleanStart' /\ Armed'
    BY <2>2, <2>4, <2>5 DEF CleanStart, Armed, Serving, Live, SpawnCore, wdVars
  <2> QED BY <2>2, <2>3, <2>6 DEF Guards
<1> QED BY <1>1, <1>2 DEF SpawnCore

LEMMA GuardWriteState ==
  ASSUME NoRace, GuardInv, NEW s \in Sup, WriteState(s)
  PROVE  Guards'
<1>1. Go(s, "writeState", "awaitReady") /\ Live(s)
  BY DEF WriteState, Go, Live
<1>2. Solo' /\ pc'[s] = "awaitReady" /\ \A t \in Sup : t # s => ~Live(t)'
  BY <1>1, Alone
<1>3. Unborn'
  BY DEF GuardInv, Unborn, WriteState, world, wdVars, coreVars
<1>4. self'[s].core = self[s].core /\ self'[s].watchdog = self[s].watchdog
  BY DEF GuardInv, TypeOK, Fields, WriteState
<1>5. /\ file.state = None /\ ~file.cancel /\ self[s].core = self[s].watchdog
      /\ self[s].watchdog \in Core /\ wpc[self[s].watchdog] = "waiting"
  BY <1>1 DEF GuardInv, CleanStart, Go
<1>6. file'.state = self[s].core /\ ~file'.cancel
  <2>1. file' = [file EXCEPT !.state = self[s].core, !.heartbeat = "fresh"]
    BY DEF NoRace, WriteState
  <2>2. file \in Files
    BY DEF GuardInv, TypeOK
  <2> QED BY <1>5, <2>1, <2>2 DEF Files
<1>7. CleanStart'
  BY <1>2 DEF CleanStart, Live
<1>8. Armed'
  BY <1>2, <1>4, <1>5, <1>6
  DEF Armed, Serving, Live, ArmedFor, WriteState, world, wdVars
<1> QED BY <1>2, <1>3, <1>7, <1>8 DEF Guards

-----------------------------------------------------------------------------
(* The steps along which it is kept, and those that leave it behind.       *)

LEMMA GuardStart == ASSUME NoRace, GuardInv, NEW s \in Sup, StartSteps(s) PROVE Guards'
<1> USE DEF world, coreVars, ArmedSteps
<1>1. CASE Begin(s)
  <2>1. Go(s, "init", "snapshot") /\ Live(s) /\ "snapshot" \notin GuardSteps
    BY <1>1 DEF Begin, Go, Live, GuardSteps
  <2> QED BY <1>1, <2>1, Elsewhere DEF Begin
<1>2. CASE Snapshot(s)
  <2>1. CASE Go(s, "snapshot", "prepare")
    <3>1. Live(s) /\ "prepare" \notin GuardSteps
      BY <2>1 DEF Go, Live, GuardSteps
    <3> QED BY <1>2, <2>1, <3>1, Elsewhere DEF Snapshot
  <2>2. CASE Raise(s, "snapshot")
    BY <1>2, <2>2, RaiseElsewhere DEF Snapshot
  <2> QED BY <1>2, <2>1, <2>2 DEF Snapshot
<1>3. CASE Prepare(s)
  <2> DEFINE to == IF s \in Manual THEN "clearFiles" ELSE "stopV2rayN"
  <2>1. CASE Go(s, "prepare", to)
    <3>1. Live(s) /\ to \notin GuardSteps
      BY <2>1 DEF Go, Live, GuardSteps
    <3> HIDE DEF to
    <3> QED BY <1>3, <2>1, <3>1, Elsewhere DEF Prepare
  <2>2. CASE Raise(s, "prepare")
    BY <1>3, <2>2, RaiseElsewhere DEF Prepare
  <2> QED BY <1>3, <2>1, <2>2 DEF Prepare
<1>4. CASE StopV2rayN(s)
  <2>1. Go(s, "stopV2rayN", "awaitPort") /\ Live(s) /\ "awaitPort" \notin GuardSteps
    BY <1>4 DEF StopV2rayN, Go, Live, GuardSteps
  <2> QED BY <1>4, <2>1, Elsewhere DEF StopV2rayN
<1>5. CASE AwaitPort(s)
  <2>1. CASE Go(s, "awaitPort", "clearFiles")
    <3>1. Live(s) /\ "clearFiles" \notin GuardSteps
      BY <2>1 DEF Go, Live, GuardSteps
    <3> QED BY <1>5, <2>1, <3>1, Elsewhere DEF AwaitPort
  <2>2. CASE Raise(s, "awaitPort")
    BY <1>5, <2>2, RaiseElsewhere DEF AwaitPort
  <2> QED BY <1>5, <2>1, <2>2 DEF AwaitPort
<1>6. CASE ClearFiles(s)     BY <1>6, GuardClearFiles
<1>7. CASE SpawnWatchdog(s)  BY <1>7, GuardSpawnWatchdog
<1>8. CASE SpawnCore(s)      BY <1>8, GuardSpawnCore
<1>9. CASE WriteState(s)     BY <1>9, GuardWriteState
<1>10. CASE AwaitReady(s)
  <2>1. CASE Go(s, "awaitReady", "writeAccess") /\ UNCHANGED self
    BY <1>10, <2>1, StaysArmed DEF AwaitReady
  <2>2. CASE Raise(s, "awaitReady")
    BY <1>10, <2>2, RaiseElsewhere DEF AwaitReady
  <2> QED BY <1>10, <2>1, <2>2 DEF AwaitReady
<1>11. CASE WriteAccess(s)
  <2> DEFINE to == IF s \in Manual THEN "announce" ELSE "pin"
  <2>1. Go(s, "writeAccess", to) /\ to \in ArmedSteps /\ "writeAccess" \in ArmedSteps
    BY <1>11 DEF WriteAccess
  <2>2. self'[s].core = self[s].core /\ self'[s].watchdog = self[s].watchdog
    BY <1>11 DEF WriteAccess, GuardInv, TypeOK, Fields
  <2>3. file'.state = file.state /\ file'.cancel = file.cancel
    BY <1>11 DEF WriteAccess, GuardInv, TypeOK, Files
  <2> HIDE DEF to
  <2> QED BY <1>11, <2>1, <2>2, <2>3, StaysArmed DEF WriteAccess
<1>12. CASE PinSnapshot(s)
  <2>1. CASE Go(s, "pin", "announce") /\ self' = [self EXCEPT ![s].current = source]
    <3>1. self'[s].core = self[s].core /\ self'[s].watchdog = self[s].watchdog
      BY <2>1 DEF GuardInv, TypeOK, Fields
    <3> QED BY <1>12, <2>1, <3>1, StaysArmed DEF PinSnapshot
  <2>2. CASE Raise(s, "pin")
    BY <1>12, <2>2, RaiseElsewhere DEF PinSnapshot
  <2> QED BY <1>12, <2>1, <2>2 DEF PinSnapshot
<1>13. CASE Announce(s)
  <2>1. self'[s].core = self[s].core /\ self'[s].watchdog = self[s].watchdog
    BY <1>13 DEF Announce, GuardInv, TypeOK, Fields
  <2>2. file'.state = file.state /\ file'.cancel = file.cancel
    BY <1>13 DEF Announce, GuardInv, TypeOK, Files
  <2> QED BY <1>13, <2>1, <2>2, StaysArmed DEF Announce
<1>14. CASE ConnectivityChecks(s)
  <2> DEFINE r == [self[s] EXCEPT !.checkpoint = "monitoring", !.pending = None, !.count = 0]
  <2>1. CASE Go(s, "checks", "monitor") /\ self' = [self EXCEPT ![s] = r]
    <3>1. self'[s].core = self[s].core /\ self'[s].watchdog = self[s].watchdog
      BY <2>1 DEF GuardInv, TypeOK, Fields
    <3> QED BY <1>14, <2>1, <3>1, StaysArmed DEF ConnectivityChecks
  <2>2. CASE Raise(s, "checks")
    BY <1>14, <2>2, RaiseElsewhere DEF ConnectivityChecks
  <2> QED BY <1>14, <2>1, <2>2 DEF ConnectivityChecks
<1> QED BY <1>1, <1>2, <1>3, <1>4, <1>5, <1>6, <1>7, <1>8, <1>9, <1>10, <1>11, <1>12,
           <1>13, <1>14 DEF StartSteps

LEMMA GuardMonitor == ASSUME GuardInv, NEW s \in Sup, MonitorSteps(s) PROVE Guards'
<1> USE DEF world, coreVars, ArmedSteps
<1>1. CASE TakeStopRequest(s)
  <2>1. Go(s, "monitor", "cancelWatchdog") /\ Live(s) /\ "cancelWatchdog" \notin GuardSteps
    BY <1>1 DEF TakeStopRequest, Go, Live, GuardSteps
  <2> QED BY <1>1, <2>1, Elsewhere DEF TakeStopRequest
<1>2. CASE NoticeExit(s)
  <2>1. Go(s, "monitor", "classify") /\ Live(s) /\ "classify" \notin GuardSteps
    BY <1>2 DEF NoticeExit, Go, Live, GuardSteps
  <2> QED BY <1>2, <2>1, Elsewhere DEF NoticeExit
<1>3. CASE Classify(s)
  <2>1. Go(s, "classify", "cancelWatchdog") /\ Live(s) /\ "cancelWatchdog" \notin GuardSteps
    BY <1>3 DEF Classify, Go, Live, GuardSteps
  <2> QED BY <1>3, <2>1, Elsewhere DEF Classify
<1>4. CASE Observe(s)
  <2>1. PICK n, o :
          /\ pc' = [pc EXCEPT ![s] = IF n >= 2 THEN "cancelWatchdog" ELSE pc[s]]
          /\ self' = [self EXCEPT ![s] =
                [self[s] EXCEPT !.pending = IF n = 0 THEN None ELSE o, !.count = n,
                                !.then = IF n >= 2 THEN "restart" ELSE self[s].then]]
          /\ file' = IF n >= 2
                     THEN [file EXCEPT !.status = [state |-> "restarting", by |-> s]]
                     ELSE file
    BY <1>4 DEF Observe
  <2>2. CASE n >= 2
    <3>1. Go(s, "monitor", "cancelWatchdog") /\ Live(s) /\ "cancelWatchdog" \notin GuardSteps
      BY <1>4, <2>1, <2>2 DEF Observe, Go, Live, GuardSteps
    <3> QED BY <1>4, <3>1, Elsewhere DEF Observe
  <2>3. CASE ~(n >= 2)
    <3>1. Go(s, "monitor", "monitor") /\ UNCHANGED file
      BY <1>4, <2>1, <2>3 DEF Observe, Go
    <3>2. self'[s].core = self[s].core /\ self'[s].watchdog = self[s].watchdog
      BY <2>1 DEF GuardInv, TypeOK, Fields
    <3> QED BY <1>4, <3>1, <3>2, StaysArmed DEF Observe
  <2> QED BY <2>2, <2>3
<1> QED BY <1>1, <1>2, <1>3, <1>4 DEF MonitorSteps

LEMMA GuardStop == ASSUME GuardInv, NEW s \in Sup, StopSteps(s) PROVE Guards'
<1> USE DEF world, coreVars, ArmedSteps, Go, Live, GuardSteps
<1>1. CASE CancelWatchdog(s)
  BY <1>1, Elsewhere DEF CancelWatchdog
<1>2. CASE Terminate(s)
  BY <1>2, Elsewhere DEF Terminate
<1>3. CASE AwaitWatchdog(s)
  BY <1>3, Elsewhere DEF AwaitWatchdog
<1>4. CASE VerifyDown(s)
  BY <1>4, Elsewhere DEF VerifyDown, Return
<1>5. CASE Stopped(s)
  BY <1>5, Elsewhere DEF Stopped
<1>6. CASE Failed(s)
  BY <1>6, Elsewhere DEF Failed
<1>7. CASE DeleteFiles(s)
  BY <1>7, Elsewhere DEF DeleteFiles
<1> QED BY <1>1, <1>2, <1>3, <1>4, <1>5, <1>6, <1>7 DEF StopSteps

LEMMA GuardLaunch == ASSUME NoRace, GuardInv, NEW s \in Sup, Launch(s) PROVE Guards'
<1>1. \A t \in Sup : ~Live(t)
  BY DEF Launch, NoRace
<1>2. pc'[s] = "init" /\ \A t \in Sup : t # s => ~Live(t)'
  BY <1>1 DEF Launch, Go, Live, GuardInv, TypeOK
<1>3. Unborn'
  BY DEF GuardInv, Unborn, Launch, world, coreVars, wdVars
<1>4. Solo' /\ CleanStart' /\ Armed'
  BY <1>2 DEF Solo, CleanStart, Armed, Serving, Live
<1> QED BY <1>3, <1>4 DEF Guards

LEMMA GuardCrash == ASSUME GuardInv, NEW s \in Sup, Crash(s) PROVE Guards'
<1>1. Go(s, pc[s], "crashed") /\ Live(s) /\ "crashed" \notin GuardSteps
  BY DEF Crash, Go, GuardSteps, ArmedSteps
<1> QED BY <1>1, Elsewhere DEF Crash, world, coreVars

-----------------------------------------------------------------------------
(* The watchdogs.  The guard of a serving core passes from waiting to      *)
(* guarding to stopping, and leaves "stopping" only with the core dead.    *)

LEMMA GuardAwaitState ==
  ASSUME NoRace, GuardInv, NEW w \in Core, AwaitState(w)
  PROVE  Guards'
<1> USE DEF supVars, coreVars
<1>1. wpc[w] = "waiting" /\ wpc \in [Core -> {"none", "waiting", "guarding", "stopping",
                                            "closing", "done"}]
  BY DEF AwaitState, GuardInv, TypeOK
<1>2. wd \in [Core -> Script]
  BY DEF GuardInv, TypeOK
<1>3. \A v \in Core : v # w => wpc'[v] = wpc[v] /\ wd'[v] = wd[v]
  BY <1>1, <1>2 DEF AwaitState
<1>4. Solo'
  BY DEF GuardInv, Solo, Live, AwaitState
<1>5. Unborn'
  <2>1. w <= born
    BY <1>1 DEF GuardInv, Unborn, Core, TypeOK
  <2>2. wpc'[w] = "guarding" => wd'[w].cancelled = wd[w].cancelled
    BY <1>1, <1>2 DEF AwaitState, Script
  <2>3. wpc'[w] \notin {"none", "waiting"}
    BY <1>1 DEF AwaitState
  <2> QED BY <1>1, <1>3, <2>1, <2>2, <2>3 DEF GuardInv, Unborn, AwaitState, TypeOK, Core
<1>6. CleanStart'
  <2>1. ASSUME NEW s \in Sup, pc[s] \in {"spawnCore", "writeState"}
        PROVE  self[s].watchdog # w
    BY <2>1, <1>1 DEF GuardInv, CleanStart, AwaitState, Forsaken, NoRace
  <2> QED BY <1>3, <2>1 DEF GuardInv, CleanStart, AwaitState
<1>7. Armed'
  <2> SUFFICES ASSUME NEW s \in Sup, pc[s] = "awaitReady" \/ Serving(s)
               PROVE  /\ self[s].watchdog \in Core /\ self[s].core = self[s].watchdog
                      /\ file.state = self[s].core /\ ~file.cancel
                      /\ Alive(self[s].core) =>
                            ArmedFor(self[s].watchdog, self[s].core)'
    BY DEF Armed, Serving, AwaitState, Alive
  <2>1. /\ self[s].watchdog \in Core /\ self[s].core = self[s].watchdog
        /\ file.state = self[s].core /\ ~file.cancel
        /\ Alive(self[s].core) => ArmedFor(self[s].watchdog, self[s].core)
    BY DEF GuardInv, Armed
  <2>2. CASE self[s].watchdog # w
    BY <1>3, <2>1, <2>2 DEF ArmedFor, AwaitState
  <2>3. CASE self[s].watchdog = w
    <3>1. file.state # None
      BY <2>1, RuntimeAssumption DEF RuntimeAssumption, Core
    <3>2. wpc'[w] = "guarding" /\ wd'[w].target = file.state
      BY <1>1, <1>2, <2>1, <3>1 DEF AwaitState, Script
    <3> QED BY <2>1, <2>3, <3>2 DEF ArmedFor, AwaitState
  <2> QED BY <2>1, <2>2, <2>3
<1> QED BY <1>4, <1>5, <1>6, <1>7 DEF Guards

LEMMA GuardGuard == ASSUME GuardInv, NEW w \in Core, Guard(w) PROVE Guards'
<1> USE DEF supVars, coreVars
<1>1. wpc[w] = "guarding" /\ wpc' = [wpc EXCEPT ![w] = "stopping"]
  BY DEF Guard
<1>2. wpc'[w] = "stopping" /\ \A v \in Core : v # w => wpc'[v] = wpc[v] /\ wd'[v] = wd[v]
  BY <1>1 DEF Guard, GuardInv, TypeOK
<1>3. Solo'
  BY DEF GuardInv, Solo, Live, Guard
<1>4. Unborn'
  BY <1>1, <1>2 DEF GuardInv, Unborn, Guard
<1>5. CleanStart'
  BY <1>1, <1>2 DEF GuardInv, CleanStart, Guard
<1>6. Armed'
  <2> SUFFICES ASSUME NEW s \in Sup, pc[s] = "awaitReady" \/ Serving(s)
               PROVE  /\ self[s].watchdog \in Core /\ self[s].core = self[s].watchdog
                      /\ file.state = self[s].core /\ ~file.cancel
                      /\ Alive(self[s].core) =>
                            ArmedFor(self[s].watchdog, self[s].core)'
    BY DEF Armed, Serving, Guard, Alive
  <2>1. /\ self[s].watchdog \in Core /\ self[s].core = self[s].watchdog
        /\ file.state = self[s].core /\ ~file.cancel
        /\ Alive(self[s].core) => ArmedFor(self[s].watchdog, self[s].core)
    BY DEF GuardInv, Armed
  <2>2. CASE self[s].watchdog # w
    BY <1>2, <2>1, <2>2 DEF ArmedFor, Guard
  <2>3. CASE self[s].watchdog = w /\ Alive(self[s].core)
    <3>1. wd[w].target = self[s].core /\ ~wd[w].cancelled
      BY <1>1, <2>1, <2>3 DEF GuardInv, Unborn, ArmedFor
    <3>2. wd'[w].target = wd[w].target /\ wd'[w].cancelled = wd[w].cancelled
      <4>1. wd \in [Core -> Script]
        BY DEF GuardInv, TypeOK
      <4> QED BY <2>1, <2>3, <3>1, <4>1 DEF Guard, Script
    <3> QED BY <1>2, <2>1, <2>3, <3>1, <3>2 DEF ArmedFor, Guard
  <2> QED BY <2>1, <2>2, <2>3
<1> QED BY <1>3, <1>4, <1>5, <1>6 DEF Guards

LEMMA GuardStopTarget ==
  ASSUME NoRace, GuardInv, NEW w \in Core, StopTarget(w)
  PROVE  Guards'
<1> USE DEF supVars
<1>1. wpc[w] = "stopping" /\ wpc' = [wpc EXCEPT ![w] = "closing"]
  BY DEF StopTarget
<1>2. /\ wpc'[w] = "closing" /\ \A v \in Core : v # w => wpc'[v] = wpc[v] /\ wd'[v] = wd[v]
  BY <1>1 DEF StopTarget, GuardInv, TypeOK
<1>3. Solo'
  BY DEF GuardInv, Solo, Live, StopTarget
<1>4. Unborn'
  BY <1>1, <1>2 DEF GuardInv, Unborn, StopTarget
<1>5. CleanStart'
  BY <1>1, <1>2 DEF GuardInv, CleanStart, StopTarget
<1>6. \A c \in Core : Alive(c)' => Alive(c)
  BY DEF Alive, StopTarget, GuardInv, TypeOK
<1>7. ~wd[w].cancelled => ~Alive(wd[w].target)'
  BY DEF StopTarget, Alive, NoRace, GuardInv, TypeOK
<1>8. Armed'
  <2> SUFFICES ASSUME NEW s \in Sup, pc[s] = "awaitReady" \/ Serving(s)
               PROVE  /\ self[s].watchdog \in Core /\ self[s].core = self[s].watchdog
                      /\ file.state = self[s].core /\ ~file.cancel
                      /\ Alive(self[s].core)' =>
                            ArmedFor(self[s].watchdog, self[s].core)'
    BY DEF Armed, Serving, StopTarget, Alive
  <2>1. /\ self[s].watchdog \in Core /\ self[s].core = self[s].watchdog
        /\ file.state = self[s].core /\ ~file.cancel
        /\ Alive(self[s].core) => ArmedFor(self[s].watchdog, self[s].core)
    BY DEF GuardInv, Armed
  <2>2. CASE self[s].watchdog # w
    BY <1>2, <1>6, <2>1, <2>2 DEF ArmedFor, StopTarget
  <2>3. CASE self[s].watchdog = w /\ Alive(self[s].core)
    <3>1. wd[w].target = self[s].core /\ ~wd[w].cancelled
      BY <1>1, <2>1, <2>3 DEF ArmedFor
    <3> QED BY <1>7, <2>1, <3>1 DEF StopTarget, Alive
  <2>4. Alive(self[s].core)' => Alive(self[s].core)
    BY <1>6, <2>1 DEF StopTarget, Alive
  <2> QED BY <2>1, <2>2, <2>3, <2>4
<1> QED BY <1>3, <1>4, <1>5, <1>8 DEF Guards

LEMMA GuardCloseReport == ASSUME GuardInv, NEW w \in Core, CloseReport(w) PROVE Guards'
<1> USE DEF supVars, coreVars
<1>1. wpc[w] = "closing" /\ wpc' = [wpc EXCEPT ![w] = "done"]
  BY DEF CloseReport
<1>2. wpc'[w] = "done" /\ \A v \in Core : v # w => wpc'[v] = wpc[v]
  BY <1>1 DEF GuardInv, TypeOK
<1>3. file'.state = file.state /\ file'.cancel = file.cancel
  BY DEF CloseReport, GuardInv, TypeOK, Files
<1>4. Solo'
  BY DEF GuardInv, Solo, Live, CloseReport
<1>5. Unborn'
  BY <1>1, <1>2 DEF GuardInv, Unborn, CloseReport
<1>6. CleanStart'
  BY <1>1, <1>2, <1>3 DEF GuardInv, CleanStart, CloseReport
<1>7. Armed'
  BY <1>1, <1>2, <1>3 DEF GuardInv, Armed, Serving, ArmedFor, Alive, CloseReport
<1> QED BY <1>4, <1>5, <1>6, <1>7 DEF Guards

-----------------------------------------------------------------------------
LEMMA GuardMachine ==
  ASSUME GuardInv
  PROVE  /\ \A c \in Core : CoreComesUp(c) \/ CoreExits(c) \/ Release(c) => Guards'
         /\ LoseHeartbeat \/ ChangeSource \/ StartV2rayN \/ RequestStop => Guards'
<1> USE DEF world, supVars, coreVars, wdVars
<1>1. file \in Files /\ coreState \in [Core -> {"none", "starting", "up", "dead"}]
  BY DEF GuardInv, TypeOK
<1>2. ASSUME NEW c \in Core, CoreComesUp(c) PROVE Guards'
  <2>1. \A d \in Core : Alive(d)' => Alive(d)
    BY <1>1, <1>2 DEF CoreComesUp, Alive
  <2> QED BY <1>2, <2>1, Calm DEF CoreComesUp
<1>3. ASSUME NEW c \in Core, CoreExits(c) PROVE Guards'
  <2>1. \A d \in Core : Alive(d)' => Alive(d)
    BY <1>1, <1>3 DEF CoreExits, Alive
  <2> QED BY <1>3, <2>1, Calm DEF CoreExits
<1>4. ASSUME NEW c \in Core, Release(c) PROVE Guards'
  BY <1>4, Calm DEF Release, Alive
<1>5. CASE LoseHeartbeat
  <2>1. file'.state = file.state /\ file'.cancel = file.cancel
    BY <1>1, <1>5 DEF LoseHeartbeat, Files
  <2> QED BY <1>5, <2>1, Calm DEF LoseHeartbeat, Alive
<1>6. CASE ChangeSource
  BY <1>6, Calm DEF ChangeSource, Alive
<1>7. CASE StartV2rayN
  BY <1>7, Calm DEF StartV2rayN, Alive
<1>8. CASE RequestStop
  <2>1. file'.state = file.state /\ file'.cancel = file.cancel
    BY <1>1, <1>8 DEF RequestStop, Files
  <2> QED BY <1>8, <2>1, Calm DEF RequestStop, Alive
<1> QED BY <1>2, <1>3, <1>4, <1>5, <1>6, <1>7, <1>8

LEMMA GuardStep == ASSUME NoRace, GuardInv, [Next]_vars PROVE GuardInv'
<1>1. Typed'
  BY TypedStep DEF GuardInv, Typed
<1>2. Guards'
  <2>1. ASSUME NEW s \in Sup, Launch(s) \/ SupervisorStep(s) \/ Crash(s) PROVE Guards'
    BY <2>1, GuardLaunch, GuardStart, GuardMonitor, GuardStop, GuardCrash DEF SupervisorStep
  <2>2. ASSUME NEW w \in Core, WatchdogStep(w) PROVE Guards'
    BY <2>2, GuardAwaitState, GuardGuard, GuardStopTarget, GuardCloseReport DEF WatchdogStep
  <2>3. CASE UNCHANGED vars
    BY <2>3, Calm DEF vars, Alive, coreVars
  <2> QED BY <2>1, <2>2, <2>3, GuardMachine DEF Next
<1> QED BY <1>1, <1>2 DEF GuardInv, Guards, Typed

(* As long as the launcher keeps to one supervisor, state files are        *)
(* written, and watchdogs start and kills succeed in time, no crash, no    *)
(* failure and no relaunch leaves a serving core without a watchdog that   *)
(* will stop it: for any number of supervisors, cores and changes.         *)
THEOREM ServingCoreIsGuarded == ASSUME NoRace PROVE Spec => []GuardedWhileServing
<1>1. GuardInv /\ [Next]_vars => GuardInv'
  BY GuardStep
<1>2. GuardInv => GuardedWhileServing
  BY DEF GuardInv, Armed, GuardedWhileServing
<1> QED BY GuardInit, <1>1, <1>2, PTL DEF Spec

-----------------------------------------------------------------------------
(* The refinement of Lifecycle.                                            *)
StartPlaces == {"snapshot", "prepare", "stopV2rayN", "awaitPort", "clearFiles",
                "spawnWatchdog", "spawnCore", "writeState", "awaitReady", "writeAccess",
                "pin", "announce"}
RunPlaces   == {"checks", "monitor", "classify"}
StopPlaces  == {"cancelWatchdog", "terminate", "awaitWatchdog", "verifyDown"}

(* Where a supervisor may be, and on whose behalf.                         *)
Proper(place, then) ==
    /\ place \in {"idle", "init"} => then = "start"
    /\ place \in StartPlaces \cup RunPlaces => then \in {"start", "restart"}
    /\ place \in StopPlaces => then # "start"
    /\ place = "stopped" => then = "stop"
    /\ place = "failed" => then = "fail"

OnCourse == \A s \in Sup : Proper(pc[s], self[s].then)

(* PhaseOf as a function of the two.                                       *)
Word(place, then) ==
    CASE place = "idle"                  -> "idle"
      [] place = "init"                  -> "launched"
      [] place \in {"exited", "crashed"} -> "gone"
      [] place = "deleteFiles"           -> "ended"
      [] place \in RunPlaces             -> "running"
      [] OTHER -> IF then = "start" THEN "starting" ELSE IF then = "restart" THEN "restarting"
                  ELSE IF then = "stop" THEN "stopping" ELSE "failing"

LEMMA Worded == ASSUME Typed, NEW s \in Sup PROVE PhaseOf(s) = Word(pc[s], self[s].then)
<1> self[s].then \in {"start", "restart", "stop", "fail"}
  BY DEF Typed, TypeOK, Fields
<1> QED BY DEF PhaseOf, Word, RunPlaces

(* Supervisor s goes on, and nobody else.                                  *)
Moves(s, from, to, then) ==
    /\ pc[s] = from /\ pc' = [pc EXCEPT ![s] = to]
    /\ self'[s].then = then
    /\ \A t \in Sup \ {s} : self'[t] = self[t]

LEMMA Turning ==
  ASSUME Typed, Typed', NEW s \in Sup, NEW from, NEW to, NEW then, Moves(s, from, to, then),
         NEW words, Word(from, self[s].then) \in words
  PROVE  Shown!Turn(s, words, Word(to, then))
<1>1. PhaseOf(s) \in words
  BY Worded DEF Moves
<1>2. PhaseOf(s)' = Word(to, then)
  <2>1. pc'[s] = to /\ self'[s].then = then /\ then \in {"start", "restart", "stop", "fail"}
    BY DEF Moves, Typed, TypeOK, Fields
  <2> QED BY <2>1 DEF PhaseOf, Word, RunPlaces
<1>3. \A t \in Sup \ {s} : PhaseOf(t)' = PhaseOf(t)
  BY DEF Moves, PhaseOf, Typed, TypeOK
<1> QED BY <1>1, <1>2, <1>3 DEF Shown!Turn

shownVars == <<[s \in Sup |-> PhaseOf(s)], file.status, file.stop>>

(* What it shows does not change.                                          *)
LEMMA Covert ==
  ASSUME Typed, OnCourse, Typed', NEW s \in Sup, NEW from, NEW to, NEW then,
         Moves(s, from, to, then), Proper(to, then),
         Word(from, self[s].then) = Word(to, then),
         file'.status = file.status, file'.stop = file.stop
  PROVE  OnCourse' /\ UNCHANGED shownVars
<1>1. OnCourse'
  BY DEF OnCourse, Moves, Typed, TypeOK
<1>2. \A t \in Sup : PhaseOf(t)' = PhaseOf(t)
  <2>1. \A t \in Sup \ {s} : PhaseOf(t)' = PhaseOf(t)
    BY DEF Moves, PhaseOf, Typed, TypeOK
  <2>2. Shown!Turn(s, {Word(from, self[s].then)}, Word(to, then))
    BY Turning
  <2> QED BY <2>1, <2>2 DEF Shown!Turn
<1> QED BY <1>1, <1>2 DEF shownVars

(* It changes in the way of Lifecycle.                                     *)
LEMMA Overt ==
  ASSUME Typed, OnCourse, Typed', NEW s \in Sup, NEW from, NEW to, NEW then,
         Moves(s, from, to, then), Proper(to, then),
         NEW words, Word(from, self[s].then) \in words
  PROVE  OnCourse' /\ Shown!Turn(s, words, Word(to, then))
<1>1. OnCourse'
  BY DEF OnCourse, Moves, Typed, TypeOK
<1> QED BY <1>1, Turning

-----------------------------------------------------------------------------
(* An exception.                                                           *)
LEMMA RaiseShows ==
  ASSUME Typed, OnCourse, Typed', NEW s \in Sup,
         NEW from \in StartPlaces \cup RunPlaces, Raise(s, from),
         file'.status = file.status, file'.stop = file.stop
  PROVE  OnCourse' /\ Shown!Raise(s)
<1> DEFINE to == IF self[s].core # None THEN "cancelWatchdog" ELSE "failed"
<1>1. Moves(s, from, to, "fail")
  BY DEF Raise, Go, Moves, Typed, TypeOK, Fields
<1>2. Proper(to, "fail") /\ Word(to, "fail") = "failing"
  BY DEF Proper, Word, StartPlaces, RunPlaces, StopPlaces
<1>3. Word(from, self[s].then) \in Shown!Working
  BY <1>1 DEF OnCourse, Proper, Moves, Word, StartPlaces, RunPlaces, Shown!Working
<1> HIDE DEF to
<1> QED BY <1>1, <1>2, <1>3, Overt DEF Shown!Raise

LEMMA StartShows ==
  ASSUME Typed, OnCourse, Typed', NEW s \in Sup, StartSteps(s)
  PROVE  OnCourse' /\ [Shown!Next]_shownVars
<1> DEFINE then == self[s].then
<1>0. /\ file \in Files /\ self \in [Sup -> Fields] /\ pc \in [Sup -> Steps]
      /\ Proper(pc[s], then) /\ then \in {"start", "restart", "stop", "fail"}
  BY DEF Typed, TypeOK, OnCourse, Fields
<1> HIDE DEF then
<1>1. CASE Begin(s)
  <2>1. Moves(s, "init", "snapshot", then)
    BY <1>0, <1>1 DEF Begin, Go, Moves, Fields, then
  <2>2. OnCourse' /\ Shown!Turn(s, {"launched"}, "starting")
    <3>1. Proper("snapshot", then) /\ Word("snapshot", then) = "starting" /\ Word("init", then) \in {"launched"}
      BY <1>0, <2>1 DEF Moves, Proper, Word, StartPlaces, RunPlaces, StopPlaces
    <3> QED BY <2>1, <3>1, Overt DEF then
  <2>3. file'.status = [state |-> "starting", by |-> s] /\ ~file'.stop
    BY <1>0, <1>1 DEF Begin, Files
  <2> QED BY <1>0, <2>2, <2>3 DEF Shown!Begin, Shown!Tell, Shown!Next, Files
<1>2. CASE Snapshot(s)
  <2>1. file'.status = file.status /\ file'.stop = file.stop
    BY <1>0, <1>2 DEF Snapshot, Files
  <2>2. CASE Moves(s, "snapshot", "prepare", then)
    <3>1. Proper("prepare", then) /\ Word("snapshot", then) = Word("prepare", then)
      BY <1>0, <2>2 DEF Moves, Proper, Word, StartPlaces, RunPlaces, StopPlaces
    <3> QED BY <2>1, <2>2, <3>1, Covert DEF then
  <2>3. CASE Raise(s, "snapshot")
    BY <2>1, <2>3, RaiseShows DEF Shown!Next, StartPlaces, RunPlaces
  <2> QED BY <1>0, <1>2, <2>2, <2>3 DEF Snapshot, Go, Moves, Fields, then
<1>3. CASE Prepare(s)
  <2> DEFINE to == IF s \in Manual THEN "clearFiles" ELSE "stopV2rayN"
  <2>1. file'.status = file.status /\ file'.stop = file.stop
    BY <1>0, <1>3 DEF Prepare, Files
  <2>2. CASE Moves(s, "prepare", to, then)
    <3>1. Proper(to, then) /\ Word("prepare", then) = Word(to, then)
      BY <1>0, <2>2 DEF Moves, Proper, Word, StartPlaces, RunPlaces, StopPlaces
    <3> QED BY <2>1, <2>2, <3>1, Covert DEF then
  <2>3. CASE Raise(s, "prepare")
    BY <2>1, <2>3, RaiseShows DEF Shown!Next, StartPlaces, RunPlaces
  <2> QED BY <1>0, <1>3, <2>2, <2>3 DEF Prepare, Go, Moves, Fields, then
<1>4. CASE StopV2rayN(s)
  <2>1. Moves(s, "stopV2rayN", "awaitPort", then) /\ file'.status = file.status /\ file'.stop = file.stop
    BY <1>0, <1>4 DEF StopV2rayN, Files, Go, Moves, Fields, then
  <2>2. Proper("awaitPort", then) /\ Word("stopV2rayN", then) = Word("awaitPort", then)
    BY <1>0, <2>1 DEF Moves, Proper, Word, StartPlaces, RunPlaces, StopPlaces
  <2> QED BY <2>1, <2>2, Covert DEF then
<1>5. CASE AwaitPort(s)
  <2>1. file'.status = file.status /\ file'.stop = file.stop
    BY <1>0, <1>5 DEF AwaitPort, Files
  <2>2. CASE Moves(s, "awaitPort", "clearFiles", then)
    <3>1. Proper("clearFiles", then) /\ Word("awaitPort", then) = Word("clearFiles", then)
      BY <1>0, <2>2 DEF Moves, Proper, Word, StartPlaces, RunPlaces, StopPlaces
    <3> QED BY <2>1, <2>2, <3>1, Covert DEF then
  <2>3. CASE Raise(s, "awaitPort")
    BY <2>1, <2>3, RaiseShows DEF Shown!Next, StartPlaces, RunPlaces
  <2> QED BY <1>0, <1>5, <2>2, <2>3 DEF AwaitPort, Go, Moves, Fields, then
<1>6. CASE ClearFiles(s)
  <2>1. Moves(s, "clearFiles", "spawnWatchdog", then) /\ file'.status = file.status /\ file'.stop = file.stop
    BY <1>0, <1>6 DEF ClearFiles, Files, Go, Moves, Fields, then
  <2>2. Proper("spawnWatchdog", then) /\ Word("clearFiles", then) = Word("spawnWatchdog", then)
    BY <1>0, <2>1 DEF Moves, Proper, Word, StartPlaces, RunPlaces, StopPlaces
  <2> QED BY <2>1, <2>2, Covert DEF then
<1>7. CASE SpawnWatchdog(s)
  <2>1. Moves(s, "spawnWatchdog", "spawnCore", then) /\ file'.status = file.status /\ file'.stop = file.stop
    BY <1>0, <1>7 DEF SpawnWatchdog, Files, Go, Moves, Fields, then
  <2>2. Proper("spawnCore", then) /\ Word("spawnWatchdog", then) = Word("spawnCore", then)
    BY <1>0, <2>1 DEF Moves, Proper, Word, StartPlaces, RunPlaces, StopPlaces
  <2> QED BY <2>1, <2>2, Covert DEF then
<1>8. CASE SpawnCore(s)
  <2>1. file'.status = file.status /\ file'.stop = file.stop
    BY <1>0, <1>8 DEF SpawnCore, Files
  <2>2. CASE Moves(s, "spawnCore", "writeState", then)
    <3>1. Proper("writeState", then) /\ Word("spawnCore", then) = Word("writeState", then)
      BY <1>0, <2>2 DEF Moves, Proper, Word, StartPlaces, RunPlaces, StopPlaces
    <3> QED BY <2>1, <2>2, <3>1, Covert DEF then
  <2>3. CASE Raise(s, "spawnCore")
    BY <2>1, <2>3, RaiseShows DEF Shown!Next, StartPlaces, RunPlaces
  <2> QED BY <1>0, <1>8, <2>2, <2>3 DEF SpawnCore, Go, Moves, Fields, then
<1>9. CASE WriteState(s)
  <2>1. Moves(s, "writeState", "awaitReady", then) /\ file'.status = file.status /\ file'.stop = file.stop
    BY <1>0, <1>9 DEF WriteState, Files, Go, Moves, Fields, then
  <2>2. Proper("awaitReady", then) /\ Word("writeState", then) = Word("awaitReady", then)
    BY <1>0, <2>1 DEF Moves, Proper, Word, StartPlaces, RunPlaces, StopPlaces
  <2> QED BY <2>1, <2>2, Covert DEF then
<1>10. CASE AwaitReady(s)
  <2>1. file'.status = file.status /\ file'.stop = file.stop
    BY <1>0, <1>10 DEF AwaitReady, Files
  <2>2. CASE Moves(s, "awaitReady", "writeAccess", then)
    <3>1. Proper("writeAccess", then) /\ Word("awaitReady", then) = Word("writeAccess", then)
      BY <1>0, <2>2 DEF Moves, Proper, Word, StartPlaces, RunPlaces, StopPlaces
    <3> QED BY <2>1, <2>2, <3>1, Covert DEF then
  <2>3. CASE Raise(s, "awaitReady")
    BY <2>1, <2>3, RaiseShows DEF Shown!Next, StartPlaces, RunPlaces
  <2> QED BY <1>0, <1>10, <2>2, <2>3 DEF AwaitReady, Go, Moves, Fields, then
<1>11. CASE WriteAccess(s)
  <2> DEFINE to == IF s \in Manual THEN "announce" ELSE "pin"
  <2>1. Moves(s, "writeAccess", to, then) /\ file'.status = file.status /\ file'.stop = file.stop
    BY <1>0, <1>11 DEF WriteAccess, Files, Go, Moves, Fields, then
  <2>2. Proper(to, then) /\ Word("writeAccess", then) = Word(to, then)
    BY <1>0, <2>1 DEF Moves, Proper, Word, StartPlaces, RunPlaces, StopPlaces
  <2> QED BY <2>1, <2>2, Covert DEF then
<1>12. CASE PinSnapshot(s)
  <2>1. file'.status = file.status /\ file'.stop = file.stop
    BY <1>0, <1>12 DEF PinSnapshot, Files
  <2>2. CASE Moves(s, "pin", "announce", then)
    <3>1. Proper("announce", then) /\ Word("pin", then) = Word("announce", then)
      BY <1>0, <2>2 DEF Moves, Proper, Word, StartPlaces, RunPlaces, StopPlaces
    <3> QED BY <2>1, <2>2, <3>1, Covert DEF then
  <2>3. CASE Raise(s, "pin")
    BY <2>1, <2>3, RaiseShows DEF Shown!Next, StartPlaces, RunPlaces
  <2> QED BY <1>0, <1>12, <2>2, <2>3 DEF PinSnapshot, Go, Moves, Fields, then
<1>13. CASE Announce(s)
  <2>1. Moves(s, "announce", "checks", then)
    BY <1>0, <1>13 DEF Announce, Go, Moves, Fields, then
  <2>2. OnCourse' /\ Shown!Turn(s, {"starting", "restarting"}, "running")
    <3>1. Proper("checks", then) /\ Word("checks", then) = "running" /\ Word("announce", then) \in {"starting", "restarting"}
      BY <1>0, <2>1 DEF Moves, Proper, Word, StartPlaces, RunPlaces, StopPlaces
    <3> QED BY <2>1, <3>1, Overt DEF then
  <2>3. file'.status = [state |-> "running", by |-> s] /\ file'.stop = file.stop
    BY <1>0, <1>13 DEF Announce, Files
  <2> QED BY <2>2, <2>3 DEF Shown!Announce, Shown!Tell, Shown!Next
<1>14. CASE ConnectivityChecks(s)
  <2>1. file'.status = file.status /\ file'.stop = file.stop
    BY <1>0, <1>14 DEF ConnectivityChecks, Files
  <2>2. CASE Moves(s, "checks", "monitor", then)
    <3>1. Proper("monitor", then) /\ Word("checks", then) = Word("monitor", then)
      BY <1>0, <2>2 DEF Moves, Proper, Word, StartPlaces, RunPlaces, StopPlaces
    <3> QED BY <2>1, <2>2, <3>1, Covert DEF then
  <2>3. CASE Raise(s, "checks")
    BY <2>1, <2>3, RaiseShows DEF Shown!Next, StartPlaces, RunPlaces
  <2> QED BY <1>0, <1>14, <2>2, <2>3 DEF ConnectivityChecks, Go, Moves, Fields, then
<1> QED BY <1>1, <1>2, <1>3, <1>4, <1>5, <1>6, <1>7, <1>8, <1>9, <1>10, <1>11, <1>12, <1>13, <1>14
  DEF StartSteps

LEMMA MonitorShows ==
  ASSUME Typed, OnCourse, Typed', NEW s \in Sup, MonitorSteps(s)
  PROVE  OnCourse' /\ [Shown!Next]_shownVars
<1> DEFINE then == self[s].then
<1>0. /\ file \in Files /\ self \in [Sup -> Fields] /\ pc \in [Sup -> Steps]
      /\ Proper(pc[s], then) /\ then \in {"start", "restart", "stop", "fail"}
  BY DEF Typed, TypeOK, OnCourse, Fields
<1> HIDE DEF then
<1>1. CASE TakeStopRequest(s)
  <2>1. Moves(s, "monitor", "cancelWatchdog", "stop")
    BY <1>0, <1>1 DEF TakeStopRequest, Go, Moves, Fields, then
  <2>2. OnCourse' /\ Shown!Turn(s, {"running"}, "stopping")
    <3>1. Proper("cancelWatchdog", "stop") /\ Word("cancelWatchdog", "stop") = "stopping" /\ Word("monitor", then) \in {"running"}
      BY <1>0, <2>1 DEF Moves, Proper, Word, StartPlaces, RunPlaces, StopPlaces
    <3> QED BY <2>1, <3>1, Overt DEF then
  <2>3. file.stop /\ file'.status = [state |-> "stopping", by |-> s] /\ file'.stop = file.stop
    BY <1>0, <1>1 DEF TakeStopRequest, Files
  <2> QED BY <2>2, <2>3 DEF Shown!TakeStop, Shown!Tell, Shown!Next
<1>2. CASE NoticeExit(s)
  <2>1. Moves(s, "monitor", "classify", then) /\ file'.status = file.status /\ file'.stop = file.stop
    BY <1>0, <1>2 DEF NoticeExit, Files, Go, Moves, Fields, then
  <2>2. Proper("classify", then) /\ Word("monitor", then) = Word("classify", then)
    BY <1>0, <2>1 DEF Moves, Proper, Word, StartPlaces, RunPlaces, StopPlaces
  <2> QED BY <2>1, <2>2, Covert DEF then
<1>3. CASE Classify(s)
  <2>1. Moves(s, "classify", "cancelWatchdog", "fail") /\ file' = file
    BY <1>0, <1>3 DEF Classify, Go, Moves, Fields
  <2>2. OnCourse' /\ Shown!Turn(s, Shown!Working, "failing")
    <3>1. /\ Proper("cancelWatchdog", "fail") /\ Word("cancelWatchdog", "fail") = "failing"
          /\ Word("classify", then) \in Shown!Working
      BY <1>0, <2>1 DEF Moves, Proper, Word, StartPlaces, RunPlaces, StopPlaces, Shown!Working
    <3> QED BY <2>1, <3>1, Overt DEF then
  <2> QED BY <2>1, <2>2 DEF Shown!Raise, Shown!Next
<1>4. CASE Observe(s)
  <2>1. CASE Moves(s, "monitor", "monitor", then) /\ file' = file
    <3>1. Proper("monitor", then)
      BY <1>0, <2>1 DEF Moves
    <3> QED BY <2>1, <3>1, Covert DEF then
  <2>2. CASE /\ Moves(s, "monitor", "cancelWatchdog", "restart")
             /\ file' = [file EXCEPT !.status = [state |-> "restarting", by |-> s]]
    <3>1. OnCourse' /\ Shown!Turn(s, {"running"}, "restarting")
      <4>1. /\ Proper("cancelWatchdog", "restart")
            /\ Word("cancelWatchdog", "restart") = "restarting" /\ Word("monitor", then) = "running"
        BY <1>0, <2>2 DEF Moves, Proper, Word, StartPlaces, RunPlaces, StopPlaces
      <4> QED BY <2>2, <4>1, Overt DEF then
    <3>2. ~file.stop /\ file'.status = [state |-> "restarting", by |-> s] /\ file'.stop = file.stop
      BY <1>0, <1>4, <2>2 DEF Observe, Files
    <3> QED BY <3>1, <3>2 DEF Shown!Restart, Shown!Tell, Shown!Next
  <2>3. PICK o : LET n == Debounced(s, o)
                     restart == n >= 2
                 IN  /\ pc[s] = "monitor"
                     /\ pc' = [pc EXCEPT ![s] = IF restart THEN "cancelWatchdog" ELSE @]
                     /\ self' = [self EXCEPT ![s] =
                            [@ EXCEPT !.pending = IF n = 0 THEN None ELSE o, !.count = n,
                                      !.then = IF restart THEN "restart" ELSE self[s].then]]
                     /\ file' = IF restart
                         THEN [file EXCEPT !.status = [state |-> "restarting", by |-> s]]
                         ELSE file
    BY <1>4 DEF Observe
  <2>4. CASE Debounced(s, o) >= 2
    BY <1>0, <2>2, <2>3, <2>4 DEF Moves, Fields
  <2>5. CASE ~(Debounced(s, o) >= 2)
    BY <1>0, <2>1, <2>3, <2>5 DEF Moves, Fields, then
  <2> QED BY <2>4, <2>5
<1> QED BY <1>1, <1>2, <1>3, <1>4 DEF MonitorSteps

LEMMA StopShows ==
  ASSUME Typed, OnCourse, Typed', NEW s \in Sup, StopSteps(s)
  PROVE  OnCourse' /\ [Shown!Next]_shownVars
<1> DEFINE then == self[s].then
<1>0. /\ file \in Files /\ self \in [Sup -> Fields] /\ pc \in [Sup -> Steps]
      /\ Proper(pc[s], then) /\ then \in {"start", "restart", "stop", "fail"}
  BY DEF Typed, TypeOK, OnCourse, Fields
<1> HIDE DEF then
<1>1. CASE CancelWatchdog(s)
  <2>1. Moves(s, "cancelWatchdog", "terminate", then) /\ file'.status = file.status /\ file'.stop = file.stop
    BY <1>0, <1>1 DEF CancelWatchdog, Files, Go, Moves, Fields, then
  <2>2. Proper("terminate", then) /\ Word("cancelWatchdog", then) = Word("terminate", then)
    BY <1>0, <2>1 DEF Moves, Proper, Word, StartPlaces, RunPlaces, StopPlaces
  <2> QED BY <2>1, <2>2, Covert DEF then
<1>2. CASE Terminate(s)
  <2>1. Moves(s, "terminate", "awaitWatchdog", then) /\ file'.status = file.status /\ file'.stop = file.stop
    BY <1>0, <1>2 DEF Terminate, Files, Go, Moves, Fields, then
  <2>2. Proper("awaitWatchdog", then) /\ Word("terminate", then) = Word("awaitWatchdog", then)
    BY <1>0, <2>1 DEF Moves, Proper, Word, StartPlaces, RunPlaces, StopPlaces
  <2> QED BY <2>1, <2>2, Covert DEF then
<1>3. CASE AwaitWatchdog(s)
  <2>1. Moves(s, "awaitWatchdog", "verifyDown", then) /\ file'.status = file.status /\ file'.stop = file.stop
    BY <1>0, <1>3 DEF AwaitWatchdog, Files, Go, Moves, Fields, then
  <2>2. Proper("verifyDown", then) /\ Word("awaitWatchdog", then) = Word("verifyDown", then)
    BY <1>0, <2>1 DEF Moves, Proper, Word, StartPlaces, RunPlaces, StopPlaces
  <2> QED BY <2>1, <2>2, Covert DEF then
<1>4. CASE VerifyDown(s)
  <2>1. pc[s] = "verifyDown" /\ file' = file
    BY <1>4 DEF VerifyDown, Go
  <2>2. CASE Moves(s, "verifyDown", Return(s), then)
    <3>1. /\ Proper(Return(s), then)
          /\ Word("verifyDown", then) = Word(Return(s), then)
      BY <1>0, <2>1 DEF Return, Proper, Word, StartPlaces, RunPlaces, StopPlaces, then
    <3> QED BY <2>1, <2>2, <3>1, Covert DEF then
  <2>3. CASE Moves(s, "verifyDown", "failed", "fail")
    <3>1. Proper("failed", "fail") /\ Word("failed", "fail") = "failing"
      BY DEF Proper, Word, StartPlaces, RunPlaces, StopPlaces
    <3>2. CASE then = "fail"
      <4>1. Word("verifyDown", then) = Word("failed", "fail")
        BY <3>2 DEF Word, RunPlaces
      <4> QED BY <2>1, <2>3, <3>1, <4>1, Covert DEF then
    <3>3. CASE then # "fail"
      <4>1. Word("verifyDown", then) \in Shown!Working
        BY <1>0, <2>1, <3>3 DEF Proper, Word, RunPlaces, StopPlaces, Shown!Working
      <4>2. OnCourse' /\ Shown!Turn(s, Shown!Working, "failing")
        BY <2>3, <3>1, <4>1, Overt DEF then
      <4> QED BY <2>1, <4>2 DEF Shown!Raise, Shown!Next
    <3> QED BY <3>2, <3>3
  <2> QED BY <1>0, <1>4, <2>2, <2>3 DEF VerifyDown, Go, Moves, Fields, then
<1>5. CASE Stopped(s)
  <2>1. Moves(s, "stopped", "deleteFiles", then)
    BY <1>0, <1>5 DEF Stopped, Go, Moves, Fields, then
  <2>2. OnCourse' /\ Shown!Turn(s, {"stopping"}, "ended")
    <3>1. Proper("deleteFiles", then) /\ Word("deleteFiles", then) = "ended" /\ Word("stopped", then) \in {"stopping"}
      BY <1>0, <2>1 DEF Moves, Proper, Word, StartPlaces, RunPlaces, StopPlaces
    <3> QED BY <2>1, <3>1, Overt DEF then
  <2>3. file'.status = [state |-> "stopped", by |-> s] /\ file'.stop = file.stop
    BY <1>0, <1>5 DEF Stopped, Files
  <2> QED BY <2>2, <2>3 DEF Shown!Stopped, Shown!Tell, Shown!Next
<1>6. CASE Failed(s)
  <2>1. Moves(s, "failed", "deleteFiles", then)
    BY <1>0, <1>6 DEF Failed, Go, Moves, Fields, then
  <2>2. OnCourse' /\ Shown!Turn(s, {"failing"}, "ended")
    <3>1. Proper("deleteFiles", then) /\ Word("deleteFiles", then) = "ended" /\ Word("failed", then) \in {"failing"}
      BY <1>0, <2>1 DEF Moves, Proper, Word, StartPlaces, RunPlaces, StopPlaces
    <3> QED BY <2>1, <3>1, Overt DEF then
  <2>3. file'.status = [state |-> "failed", by |-> s] /\ file'.stop = file.stop
    BY <1>0, <1>6 DEF Failed, Files
  <2> QED BY <2>2, <2>3 DEF Shown!Failed, Shown!Tell, Shown!Next
<1>7. CASE DeleteFiles(s)
  <2>1. Moves(s, "deleteFiles", "exited", then)
    BY <1>0, <1>7 DEF DeleteFiles, Go, Moves, Fields, then
  <2>2. OnCourse' /\ Shown!Turn(s, {"ended"}, "gone")
    <3>1. Proper("exited", then) /\ Word("exited", then) = "gone" /\ Word("deleteFiles", then) \in {"ended"}
      BY <1>0, <2>1 DEF Moves, Proper, Word, StartPlaces, RunPlaces, StopPlaces
    <3> QED BY <2>1, <3>1, Overt DEF then
  <2>3. file'.status = file.status /\ ~file'.stop /\ file'.stop \in BOOLEAN
    BY <1>0, <1>7 DEF DeleteFiles, Files
  <2> QED BY <2>2, <2>3 DEF Shown!Finish, Shown!Next
<1> QED BY <1>1, <1>2, <1>3, <1>4, <1>5, <1>6, <1>7 DEF StopSteps

-----------------------------------------------------------------------------
(* What everybody else does.                                               *)
LEMMA Aside ==
  ASSUME Typed, OnCourse, UNCHANGED supVars,
         file'.status = file.status, file'.stop = file.stop
  PROVE  OnCourse' /\ UNCHANGED shownVars
  BY DEF supVars, OnCourse, shownVars, PhaseOf

LEMMA LauncherShows ==
  ASSUME Typed, OnCourse, Typed', NEW s \in Sup, Launch(s) \/ Crash(s)
  PROVE  OnCourse' /\ [Shown!Next]_shownVars
<1> DEFINE then == self[s].then
<1>0. /\ self \in [Sup -> Fields] /\ pc \in [Sup -> Steps] /\ Proper(pc[s], then)
      /\ then \in {"start", "restart", "stop", "fail"}
  BY DEF Typed, TypeOK, OnCourse, Fields
<1> HIDE DEF then
<1>1. CASE Launch(s)
  <2>1. Moves(s, "idle", "init", then) /\ file' = file
    BY <1>0, <1>1 DEF Launch, Go, Moves, then
  <2>2. /\ Proper("init", then)
        /\ Word("init", then) = "launched" /\ Word("idle", then) = "idle"
    BY <1>0, <2>1 DEF Moves, Proper, Word, StartPlaces, RunPlaces, StopPlaces
  <2>3. OnCourse' /\ Shown!Turn(s, {"idle"}, "launched")
    BY <2>1, <2>2, Overt DEF then
  <2> QED BY <2>1, <2>3 DEF Shown!Launch, Shown!Next
<1>2. CASE Crash(s)
  <2>1. Moves(s, pc[s], "crashed", then) /\ file' = file
    BY <1>0, <1>2 DEF Crash, Moves, Fields, then
  <2>2. Proper("crashed", then) /\ Word("crashed", then) = "gone"
    BY DEF Proper, Word, StartPlaces, RunPlaces, StopPlaces
  <2>3. Word(pc[s], then) \in Shown!Phases \ {"idle", "gone"}
    BY <1>0, <1>2 DEF Crash, Live, Word, RunPlaces, Shown!Phases
  <2>4. OnCourse' /\ Shown!Turn(s, Shown!Phases \ {"idle", "gone"}, "gone")
    BY <2>1, <2>2, <2>3, Overt DEF then
  <2> QED BY <2>1, <2>4 DEF Shown!Crash, Shown!Next
<1> QED BY <1>1, <1>2

LEMMA WorldShows ==
  ASSUME Typed, OnCourse
  PROVE  /\ \A c \in Core : WatchdogStep(c) \/ CoreComesUp(c) \/ CoreExits(c) \/ Release(c) =>
               OnCourse' /\ [Shown!Next]_shownVars
         /\ LoseHeartbeat \/ ChangeSource \/ StartV2rayN \/ RequestStop =>
               OnCourse' /\ [Shown!Next]_shownVars
<1>0. file \in Files
  BY DEF Typed, TypeOK
<1>1. ASSUME NEW w \in Core, WatchdogStep(w) PROVE OnCourse' /\ UNCHANGED shownVars
  <2>1. UNCHANGED supVars
    BY <1>1 DEF WatchdogStep, AwaitState, Guard, StopTarget, CloseReport
  <2>2. file'.status = file.status /\ file'.stop = file.stop
    BY <1>0, <1>1 DEF WatchdogStep, AwaitState, Guard, StopTarget, CloseReport, Files
  <2> QED BY <2>1, <2>2, Aside
<1>2. ASSUME NEW c \in Core, CoreComesUp(c) \/ CoreExits(c) \/ Release(c)
      PROVE  OnCourse' /\ UNCHANGED shownVars
  BY <1>2, Aside DEF CoreComesUp, CoreExits, Release
<1>3. CASE LoseHeartbeat \/ ChangeSource \/ StartV2rayN
  <2>1. UNCHANGED supVars /\ file'.status = file.status /\ file'.stop = file.stop
    BY <1>0, <1>3 DEF LoseHeartbeat, ChangeSource, StartV2rayN, Files
  <2> QED BY <2>1, Aside
<1>4. CASE RequestStop
  <2>1. UNCHANGED supVars /\ file'.status = file.status /\ file'.stop = TRUE
    BY <1>0, <1>4 DEF RequestStop, Files
  <2>2. OnCourse' /\ \A s \in Sup : PhaseOf(s)' = PhaseOf(s)
    BY <2>1 DEF supVars, OnCourse, PhaseOf
  <2> QED BY <2>1, <2>2 DEF Shown!RequestStop, Shown!Next
<1> QED BY <1>1, <1>2, <1>3, <1>4

LEMMA NextShows ==
  ASSUME Typed, OnCourse, Typed', [Next]_vars
  PROVE  OnCourse' /\ [Shown!Next]_shownVars
<1>1. ASSUME NEW s \in Sup, Launch(s) \/ SupervisorStep(s) \/ Crash(s)
      PROVE  OnCourse' /\ [Shown!Next]_shownVars
  BY <1>1, LauncherShows, StartShows, MonitorShows, StopShows DEF SupervisorStep
<1>2. CASE UNCHANGED vars
  BY <1>2, Aside DEF vars, supVars
<1> QED BY <1>1, <1>2, WorldShows DEF Next

(* The status file, the stop request and the supervisors' phases follow    *)
(* Lifecycle, whatever fails and however many supervisors run at once:     *)
(* what the control script relies on is what mihomo_supervisor.py does.    *)
THEOREM ImplementsLifecycle == Spec => KeepsLifecycle
<1>1. Init => Typed /\ OnCourse /\ Shown!Init
  <2> SUFFICES ASSUME Init PROVE OnCourse /\ Shown!Init
    BY TypedInit
  <2>1. \A s \in Sup : pc[s] = "idle" /\ self[s].then = "start"
    BY DEF Init
  <2>2. OnCourse
    BY <2>1 DEF OnCourse, Proper, StartPlaces, RunPlaces, StopPlaces
  <2>3. file.status = [state |-> "absent", by |-> None] /\ file.stop = FALSE
    BY DEF Init
  <2> QED BY <2>1, <2>2, <2>3 DEF Shown!Init, PhaseOf
<1>2. Typed /\ OnCourse /\ [Next]_vars => Typed' /\ OnCourse' /\ [Shown!Next]_shownVars
  BY TypedStep, NextShows
<1> QED BY <1>1, <1>2, PTL DEF Spec, KeepsLifecycle, Shown!Spec, shownVars

-----------------------------------------------------------------------------
(* Nothing sensitive is left: who has exited has deleted the files, and    *)
(* the others are not done.                                                *)

LEMMA OnlyDeleteFilesExits ==
  ASSUME Typed, OnCourse, NEW s \in Sup, SupervisorStep(s) \/ Launch(s) \/ Crash(s)
  PROVE  DeleteFiles(s) \/ pc'[s] \notin {"idle", "exited"}
<1>0. /\ pc \in [Sup -> Steps] /\ Proper(pc[s], self[s].then)
      /\ self[s].then \in {"start", "restart", "stop", "fail"}
  BY DEF Typed, TypeOK, OnCourse, Fields
<1>1. CASE StartSteps(s)
  <2>1. ASSUME NEW from, NEW to, Go(s, from, to) PROVE pc'[s] = to
    BY <1>0, <2>1 DEF Go
  <2>2. ASSUME NEW from, Raise(s, from) PROVE pc'[s] \notin {"idle", "exited"}
    BY <2>1, <2>2 DEF Raise
  <2>3. CASE Begin(s) \/ Snapshot(s) \/ Prepare(s) \/ StopV2rayN(s) \/ AwaitPort(s)
    BY <2>1, <2>2, <2>3 DEF Begin, Snapshot, Prepare, StopV2rayN, AwaitPort
  <2>4. CASE ClearFiles(s) \/ SpawnWatchdog(s) \/ SpawnCore(s) \/ WriteState(s) \/ AwaitReady(s)
    BY <2>1, <2>2, <2>4 DEF ClearFiles, SpawnWatchdog, SpawnCore, WriteState, AwaitReady
  <2>5. CASE WriteAccess(s) \/ PinSnapshot(s) \/ Announce(s) \/ ConnectivityChecks(s)
    BY <2>1, <2>2, <2>5 DEF WriteAccess, PinSnapshot, Announce, ConnectivityChecks
  <2> QED BY <1>1, <2>3, <2>4, <2>5 DEF StartSteps
<1>2. CASE MonitorSteps(s)
  BY <1>0, <1>2 DEF MonitorSteps, TakeStopRequest, NoticeExit, Classify, Observe, Go
<1>3. CASE StopSteps(s)
  BY <1>0, <1>3 DEF StopSteps, CancelWatchdog, Terminate, AwaitWatchdog, VerifyDown, Return,
      Stopped, Failed, Go
<1>4. CASE Launch(s) \/ Crash(s)
  BY <1>0, <1>4 DEF Launch, Crash, Go
<1> QED BY <1>1, <1>2, <1>3, <1>4 DEF SupervisorStep

LEMMA NothingStep ==
  ASSUME Typed, OnCourse, LeavesNothing, [Next]_vars
  PROVE  LeavesNothing'
<1>0. file \in Files /\ pc \in [Sup -> Steps]
  BY DEF Typed, TypeOK
<1>1. ASSUME NEW s \in Sup, SupervisorStep(s) \/ Launch(s) \/ Crash(s) PROVE LeavesNothing'
  <2>1. CASE DeleteFiles(s)
    BY <1>0, <2>1 DEF DeleteFiles, Files, LeavesNothing
  <2>2. CASE pc'[s] \notin {"idle", "exited"}
    BY <2>2 DEF LeavesNothing
  <2> QED BY <1>1, <2>1, <2>2, OnlyDeleteFilesExits
<1>2. ASSUME UNCHANGED supVars, file'.config = file.config, file'.state = file.state,
             file'.access \in {None, file.access}
      PROVE  LeavesNothing'
  BY <1>2 DEF supVars, LeavesNothing
<1>3. ASSUME NEW w \in Core, WatchdogStep(w) PROVE LeavesNothing'
  BY <1>0, <1>2, <1>3 DEF WatchdogStep, AwaitState, Guard, StopTarget, CloseReport, Files
<1>4. ASSUME NEW c \in Core, CoreComesUp(c) \/ CoreExits(c) \/ Release(c)
      PROVE  LeavesNothing'
  BY <1>2, <1>4 DEF CoreComesUp, CoreExits, Release
<1>5. CASE LoseHeartbeat \/ ChangeSource \/ StartV2rayN \/ RequestStop
  BY <1>0, <1>2, <1>5 DEF LoseHeartbeat, ChangeSource, StartV2rayN, RequestStop, Files
<1>6. CASE UNCHANGED vars
  BY <1>2, <1>6 DEF vars, supVars
<1> QED BY <1>1, <1>3, <1>4, <1>5, <1>6 DEF Next

(* When every supervisor that was launched has returned, whichever way it  *)
(* went, whatever failed, and however many there were at once, no          *)
(* configuration, access or state file is left.                            *)
THEOREM ReturnLeavesNothing == Spec => []LeavesNothing
<1>1. Init => Typed /\ OnCourse /\ LeavesNothing
  <2> SUFFICES ASSUME Init PROVE OnCourse /\ LeavesNothing
    BY TypedInit
  <2> QED BY DEF Init, LeavesNothing, OnCourse, Proper, StartPlaces, RunPlaces, StopPlaces
<1>2. Typed /\ OnCourse /\ LeavesNothing /\ [Next]_vars
        => Typed' /\ OnCourse' /\ LeavesNothing'
  BY TypedStep, NextShows, NothingStep
<1> QED BY <1>1, <1>2, PTL DEF Spec

-----------------------------------------------------------------------------
(* A failure is blamed on a watchdog only for what it has done.            *)

(* A watchdog has stopped core c by force, and has said so.                *)
ForcedOn(c) == \E w \in Core : wpc[w] = "done" /\ wd[w].forced /\ wd[w].target = c

Unspent  == \A w \in Core : w > born => wpc[w] = "none"
Reported == file.report.forced => ForcedOn(file.report.core)

Blaming(s) == self[s].reason \notin {"none", "core-exit"}

Blamed ==
    \A s \in Sup : Blaming(s) =>
        /\ pc[s] \in StopPlaces \cup {"failed", "deleteFiles", "exited", "crashed"}
        /\ pc[s] \in StopPlaces => self[s].then = "fail"
        /\ pc[s] = "cancelWatchdog" => ForcedOn(self[s].core)

(* A supervisor that is asked to do one step.                              *)
Acts(s) == SupervisorStep(s) \/ Launch(s) \/ Crash(s)

(* Where a supervisor is when it takes a step of its start.                *)
LEMMA StartsFrom ==
  ASSUME NEW s \in Sup, StartSteps(s)
  PROVE  pc[s] \in StartPlaces \cup {"init", "checks"}
<1>1. ASSUME NEW from, NEW to, Go(s, from, to) PROVE pc[s] = from
  BY <1>1 DEF Go
<1>2. ASSUME NEW from, Raise(s, from) PROVE pc[s] = from
  BY <1>2 DEF Raise, Go
<1>3. CASE Begin(s) \/ Snapshot(s) \/ Prepare(s) \/ StopV2rayN(s) \/ AwaitPort(s)
  <2>1. pc[s] \in {"init", "snapshot", "prepare", "stopV2rayN", "awaitPort"}
    BY <1>1, <1>2, <1>3 DEF Begin, Snapshot, Prepare, StopV2rayN, AwaitPort
  <2> QED BY <2>1 DEF StartPlaces
<1>4. CASE ClearFiles(s) \/ SpawnWatchdog(s) \/ SpawnCore(s) \/ WriteState(s)
  <2>1. pc[s] \in {"clearFiles", "spawnWatchdog", "spawnCore", "writeState"}
    BY <1>1, <1>2, <1>4 DEF ClearFiles, SpawnWatchdog, SpawnCore, WriteState
  <2> QED BY <2>1 DEF StartPlaces
<1>5. CASE \/ AwaitReady(s) \/ WriteAccess(s) \/ PinSnapshot(s) \/ Announce(s)
           \/ ConnectivityChecks(s)
  <2>1. pc[s] \in {"awaitReady", "writeAccess", "pin", "announce", "checks"}
    BY <1>1, <1>2, <1>5 DEF AwaitReady, WriteAccess, PinSnapshot, Announce, ConnectivityChecks
  <2> QED BY <2>1 DEF StartPlaces
<1> QED BY <1>3, <1>4, <1>5 DEF StartSteps

(* Its first step is to announce the start.                                *)
LEMMA StartsOn ==
  ASSUME NEW s \in Sup, StartSteps(s), ~Begin(s)
  PROVE  pc[s] # "init"
<1>1. ASSUME NEW from, NEW to, Go(s, from, to) PROVE pc[s] = from
  BY <1>1 DEF Go
<1>2. ASSUME NEW from, Raise(s, from) PROVE pc[s] = from
  BY <1>2 DEF Raise, Go
<1>3. CASE Snapshot(s) \/ Prepare(s) \/ StopV2rayN(s) \/ AwaitPort(s)
  BY <1>1, <1>2, <1>3 DEF Snapshot, Prepare, StopV2rayN, AwaitPort
<1>4. CASE ClearFiles(s) \/ SpawnWatchdog(s) \/ SpawnCore(s) \/ WriteState(s)
  BY <1>1, <1>2, <1>4 DEF ClearFiles, SpawnWatchdog, SpawnCore, WriteState
<1>5. CASE \/ AwaitReady(s) \/ WriteAccess(s) \/ PinSnapshot(s) \/ Announce(s)
           \/ ConnectivityChecks(s)
  BY <1>1, <1>2, <1>5 DEF AwaitReady, WriteAccess, PinSnapshot, Announce, ConnectivityChecks
<1> QED BY <1>3, <1>4, <1>5 DEF StartSteps

(* Where it is when it monitors its core, and when it stops it.            *)
LEMMA RunsFrom ==
  ASSUME NEW s \in Sup, MonitorSteps(s)
  PROVE  pc[s] \in {"monitor", "classify"}
<1>1. ASSUME NEW from, NEW to, Go(s, from, to) PROVE pc[s] = from
  BY <1>1 DEF Go
<1> QED BY <1>1 DEF MonitorSteps, TakeStopRequest, NoticeExit, Classify, Observe

LEMMA StopsFrom ==
  ASSUME NEW s \in Sup, StopSteps(s)
  PROVE  pc[s] \in StopPlaces \cup {"stopped", "failed", "deleteFiles"}
<1>1. ASSUME NEW from, NEW to, Go(s, from, to) PROVE pc[s] = from
  BY <1>1 DEF Go
<1>2. CASE CancelWatchdog(s) \/ Terminate(s) \/ AwaitWatchdog(s) \/ VerifyDown(s)
  <2>1. pc[s] \in {"cancelWatchdog", "terminate", "awaitWatchdog", "verifyDown"}
    BY <1>1, <1>2 DEF CancelWatchdog, Terminate, AwaitWatchdog, VerifyDown
  <2> QED BY <2>1 DEF StopPlaces
<1>3. CASE Stopped(s) \/ Failed(s) \/ DeleteFiles(s)
  BY <1>1, <1>3 DEF Stopped, Failed, DeleteFiles
<1> QED BY <1>2, <1>3 DEF StopSteps

LEMMA OnlySelf ==
  ASSUME Typed, NEW s \in Sup, Acts(s), NEW t \in Sup \ {s}
  PROVE  pc'[t] = pc[t] /\ self'[t] = self[t]
<1>0. pc \in [Sup -> Steps] /\ self \in [Sup -> Fields]
  BY DEF Typed, TypeOK
<1>1. ASSUME NEW from, NEW to, Go(s, from, to) PROVE pc'[t] = pc[t]
  BY <1>0, <1>1 DEF Go
<1>2. ASSUME NEW r, self' = [self EXCEPT ![s] = r] PROVE self'[t] = self[t]
  BY <1>0, <1>2
<1>3. ASSUME NEW from, Raise(s, from) PROVE pc'[t] = pc[t] /\ self'[t] = self[t]
  BY <1>1, <1>2, <1>3 DEF Raise
<1>4. CASE Begin(s) \/ Snapshot(s) \/ Prepare(s) \/ StopV2rayN(s) \/ AwaitPort(s)
  BY <1>1, <1>2, <1>3, <1>4 DEF Begin, Snapshot, Prepare, StopV2rayN, AwaitPort
<1>5. CASE ClearFiles(s) \/ SpawnWatchdog(s) \/ SpawnCore(s) \/ WriteState(s) \/ AwaitReady(s)
  BY <1>1, <1>2, <1>3, <1>5 DEF ClearFiles, SpawnWatchdog, SpawnCore, WriteState, AwaitReady
<1>6. CASE WriteAccess(s) \/ PinSnapshot(s) \/ Announce(s) \/ ConnectivityChecks(s)
  BY <1>1, <1>2, <1>3, <1>6 DEF WriteAccess, PinSnapshot, Announce, ConnectivityChecks
<1>7. CASE MonitorSteps(s)
  BY <1>0, <1>1, <1>2, <1>7 DEF MonitorSteps, TakeStopRequest, NoticeExit, Classify, Observe
<1>8. CASE StopSteps(s)
  BY <1>1, <1>2, <1>8 DEF StopSteps, CancelWatchdog, Terminate, AwaitWatchdog, VerifyDown,
      Stopped, Failed, DeleteFiles
<1>9. CASE Launch(s) \/ Crash(s)
  BY <1>0, <1>1, <1>2, <1>9 DEF Launch, Crash
<1> QED BY <1>4, <1>5, <1>6, <1>7, <1>8, <1>9 DEF Acts, SupervisorStep, StartSteps

(* What a watchdog has done stays done.                                    *)
LEMMA DoneStays ==
  ASSUME Typed, Unspent, [Next]_vars
  PROVE  Unspent' /\ \A c : ForcedOn(c) => ForcedOn(c)'
<1>0. /\ born \in 0..MaxCore /\ MaxCore \in Nat /\ wd \in [Core -> Script]
      /\ wpc \in [Core -> {"none", "waiting", "guarding", "stopping", "closing", "done"}]
  BY RuntimeAssumption DEF Typed, TypeOK
<1>1. ASSUME UNCHANGED wdVars, UNCHANGED born PROVE Unspent' /\ \A c : ForcedOn(c) => ForcedOn(c)'
  BY <1>1 DEF wdVars, Unspent, ForcedOn
<1>2. ASSUME NEW s \in Sup, SpawnWatchdog(s)
      PROVE  Unspent' /\ \A c : ForcedOn(c) => ForcedOn(c)'
  BY <1>0, <1>2 DEF SpawnWatchdog, Unspent, ForcedOn, Core
<1>3. ASSUME NEW s \in Sup, Acts(s), ~SpawnWatchdog(s) PROVE UNCHANGED <<wdVars, born>>
  BY <1>3 DEF Acts, SupervisorStep, StartSteps, MonitorSteps, StopSteps, world, coreVars, wdVars,
      Begin, Snapshot, Prepare, StopV2rayN, AwaitPort, ClearFiles, SpawnCore, WriteState,
      AwaitReady, WriteAccess, PinSnapshot, Announce, ConnectivityChecks, TakeStopRequest,
      NoticeExit, Classify, Observe, CancelWatchdog, Terminate, AwaitWatchdog, VerifyDown,
      Stopped, Failed, DeleteFiles, Launch, Crash
<1>4. ASSUME NEW w \in Core, WatchdogStep(w)
      PROVE  Unspent' /\ \A c : ForcedOn(c) => ForcedOn(c)'
  <2>1. wpc[w] \notin {"none", "done"} /\ \E at : wpc' = [wpc EXCEPT ![w] = at]
    BY <1>4 DEF WatchdogStep, AwaitState, Guard, StopTarget, CloseReport
  <2>2. \A v \in Core \ {w} : wd'[v] = wd[v]
    BY <1>0, <1>4 DEF WatchdogStep, AwaitState, Guard, StopTarget, CloseReport
  <2>3. UNCHANGED born
    BY <1>4 DEF WatchdogStep, AwaitState, Guard, StopTarget, CloseReport, coreVars
  <2> QED BY <1>0, <2>1, <2>2, <2>3 DEF Unspent, ForcedOn
<1>5. ASSUME NEW c \in Core, CoreComesUp(c) \/ CoreExits(c) \/ Release(c)
      PROVE  UNCHANGED <<wdVars, born>>
  BY <1>5 DEF CoreComesUp, CoreExits, Release, coreVars
<1>6. CASE LoseHeartbeat \/ ChangeSource \/ StartV2rayN \/ RequestStop
  BY <1>1, <1>6 DEF LoseHeartbeat, ChangeSource, StartV2rayN, RequestStop, world, coreVars
<1>7. CASE UNCHANGED vars
  BY <1>1, <1>7 DEF vars, coreVars
<1> QED BY <1>1, <1>2, <1>3, <1>4, <1>5, <1>6, <1>7 DEF Next, Acts

LEMMA ReportedStep ==
  ASSUME Typed, Unspent, Reported, [Next]_vars
  PROVE  Reported'
<1>0. file \in Files /\ wd \in [Core -> Script]
      /\ wpc \in [Core -> {"none", "waiting", "guarding", "stopping", "closing", "done"}]
  BY DEF Typed, TypeOK
<1>1. ASSUME file'.report = file.report \/ file'.report = NoReport PROVE Reported'
  BY <1>0, <1>1, DoneStays DEF Reported, NoReport
<1>2. ASSUME NEW s \in Sup, Acts(s) PROVE file'.report = file.report \/ file'.report = NoReport
  <2>1. CASE ClearFiles(s)
    BY <1>0, <2>1 DEF ClearFiles, Files
  <2>2. CASE Prepare(s)
    BY <1>0, <2>2 DEF Prepare, Files
  <2>3. CASE WriteState(s) \/ CancelWatchdog(s)
    <3>1. WriteState(s) => file'.report = file.report
      BY <1>0 DEF WriteState, Files
    <3>2. CancelWatchdog(s) => file'.report = file.report
      BY <1>0 DEF CancelWatchdog, Files
    <3> QED BY <2>3, <3>1, <3>2
  <2>4. CASE Observe(s)
    BY <1>0, <2>4 DEF Observe, Files
  <2>5. CASE Begin(s) \/ WriteAccess(s) \/ Announce(s) \/ TakeStopRequest(s)
             \/ Stopped(s) \/ Failed(s) \/ DeleteFiles(s)
    BY <1>0, <2>5 DEF Begin, WriteAccess, Announce, TakeStopRequest, Stopped, Failed,
        DeleteFiles, Files
  <2>6. CASE Snapshot(s) \/ StopV2rayN(s) \/ AwaitPort(s) \/ SpawnWatchdog(s) \/ SpawnCore(s)
             \/ AwaitReady(s) \/ PinSnapshot(s) \/ ConnectivityChecks(s) \/ NoticeExit(s)
             \/ Classify(s) \/ Terminate(s) \/ AwaitWatchdog(s) \/ VerifyDown(s)
             \/ Launch(s) \/ Crash(s)
    BY <2>6 DEF Snapshot, StopV2rayN, AwaitPort, SpawnWatchdog, SpawnCore, AwaitReady,
        PinSnapshot, ConnectivityChecks, NoticeExit, Classify, Terminate, AwaitWatchdog,
        VerifyDown, Launch, Crash
  <2> QED BY <1>2, <2>1, <2>2, <2>3, <2>4, <2>5, <2>6
        DEF Acts, SupervisorStep, StartSteps, MonitorSteps, StopSteps
<1>3. ASSUME NEW w \in Core, CloseReport(w) PROVE Reported'
  <2>1. file'.report = [core |-> wd[w].target, expired |-> wd[w].expired, forced |-> wd[w].forced]
    BY <1>0, <1>3 DEF CloseReport, Files
  <2>2. wpc'[w] = "done" /\ wd' = wd
    BY <1>0, <1>3 DEF CloseReport
  <2> QED BY <2>1, <2>2 DEF Reported, ForcedOn
<1>4. ASSUME NEW w \in Core, AwaitState(w) \/ Guard(w) \/ StopTarget(w)
             \/ CoreComesUp(w) \/ CoreExits(w) \/ Release(w)
      PROVE  file'.report = file.report
  BY <1>4 DEF AwaitState, Guard, StopTarget, CoreComesUp, CoreExits, Release
<1>5. CASE LoseHeartbeat \/ ChangeSource \/ StartV2rayN \/ RequestStop
  BY <1>0, <1>1, <1>5 DEF LoseHeartbeat, ChangeSource, StartV2rayN, RequestStop, Files
<1>6. CASE UNCHANGED vars
  BY <1>1, <1>6 DEF vars
<1> QED BY <1>1, <1>2, <1>3, <1>4, <1>5, <1>6 DEF Next, Acts, WatchdogStep

LEMMA BlamedStep ==
  ASSUME Typed, OnCourse, Unspent, Reported, Blamed, [Next]_vars
  PROVE  Blamed'
<1>0. /\ file \in Files /\ self \in [Sup -> Fields] /\ pc \in [Sup -> Steps]
      /\ \A c : ForcedOn(c) => ForcedOn(c)'
  BY DoneStays DEF Typed, TypeOK
<1>1. ASSUME NEW t \in Sup, pc'[t] = pc[t], self'[t] = self[t], Blaming(t)'
      PROVE  /\ pc'[t] \in StopPlaces \cup {"failed", "deleteFiles", "exited", "crashed"}
             /\ pc'[t] \in StopPlaces => self'[t].then = "fail"
             /\ pc'[t] = "cancelWatchdog" => ForcedOn(self[t].core)'
  BY <1>0, <1>1 DEF Blamed, Blaming
<1>2. ASSUME UNCHANGED supVars PROVE Blamed'
  BY <1>1, <1>2 DEF supVars, Blamed
(* What is left to show of a step of supervisor s.                         *)
<1>3. ASSUME NEW s \in Sup, Acts(s),
             Blaming(s)' =>
                /\ pc'[s] \in StopPlaces \cup {"failed", "deleteFiles", "exited", "crashed"}
                /\ pc'[s] \in StopPlaces => self'[s].then = "fail"
                /\ pc'[s] = "cancelWatchdog" => ForcedOn(self[s].core)'
      PROVE  Blamed'
  BY <1>1, <1>3, OnlySelf DEF Blamed
<1>4. ASSUME NEW s \in Sup, StartSteps(s) PROVE Blamed'
  <2>1. pc[s] \in StartPlaces \cup {"init", "checks"}
    BY <1>4, StartsFrom
  <2>2. ~Blaming(s)
    BY <2>1 DEF Blamed, StartPlaces, StopPlaces
  <2>3. ASSUME NEW from, Raise(s, from) PROVE self'[s].reason = self[s].reason
    BY <1>0, <2>3 DEF Raise, Fields
  <2>4. self'[s].reason \in {self[s].reason, "none"}
    <3>1. CASE Begin(s) \/ Snapshot(s) \/ Prepare(s) \/ StopV2rayN(s) \/ AwaitPort(s)
      BY <1>0, <2>3, <3>1 DEF Begin, Snapshot, Prepare, StopV2rayN, AwaitPort, Fields
    <3>2. CASE ClearFiles(s) \/ SpawnWatchdog(s) \/ SpawnCore(s) \/ WriteState(s) \/ AwaitReady(s)
      BY <1>0, <2>3, <3>2 DEF ClearFiles, SpawnWatchdog, SpawnCore, WriteState, AwaitReady, Fields
    <3>3. CASE WriteAccess(s) \/ PinSnapshot(s) \/ Announce(s) \/ ConnectivityChecks(s)
      BY <1>0, <2>3, <3>3 DEF WriteAccess, PinSnapshot, Announce, ConnectivityChecks, Fields
    <3> QED BY <1>4, <3>1, <3>2, <3>3 DEF StartSteps
  <2>5. ~Blaming(s)'
    BY <2>2, <2>4 DEF Blaming
  <2> QED BY <1>3, <1>4, <2>5 DEF Acts, SupervisorStep
<1>5. ASSUME NEW s \in Sup, Classify(s) PROVE Blamed'
  <2>1. /\ pc'[s] = "cancelWatchdog" /\ self'[s].then = "fail" /\ self'[s].core = self[s].core
        /\ self'[s].reason = IF file.report.core = self[s].core
                             THEN ExitReason(file.report) ELSE "core-exit"
    BY <1>0, <1>5 DEF Classify, Go, Fields
  <2>2. Blaming(s)' => file.report.forced /\ file.report.core = self[s].core
    BY <2>1 DEF Blaming, ExitReason
  <2>3. Blaming(s)' => ForcedOn(self[s].core)'
    BY <1>0, <2>1, <2>2 DEF Reported, ForcedOn
  <2> QED BY <1>3, <1>5, <2>1, <2>3 DEF Acts, SupervisorStep, MonitorSteps, StopPlaces
<1>6. ASSUME NEW s \in Sup, TakeStopRequest(s) \/ NoticeExit(s) \/ Observe(s) PROVE Blamed'
  <2>1. pc[s] = "monitor" /\ ~Blaming(s)
    BY <1>6 DEF TakeStopRequest, NoticeExit, Observe, Go, Blamed, StopPlaces
  <2>2. self'[s].reason = self[s].reason
    <3>1. CASE TakeStopRequest(s) \/ NoticeExit(s)
      BY <1>0, <3>1 DEF TakeStopRequest, NoticeExit, Fields
    <3>2. CASE Observe(s)
      BY <1>0, <3>2 DEF Observe, Fields
    <3> QED BY <1>6, <3>1, <3>2
  <2> QED BY <1>3, <1>6, <2>1, <2>2 DEF Acts, SupervisorStep, MonitorSteps, Blaming
<1>7. ASSUME NEW s \in Sup, StopSteps(s) PROVE Blamed'
  <2>1. self'[s].reason = self[s].reason
    <3>1. CASE CancelWatchdog(s) \/ AwaitWatchdog(s)
      BY <1>0, <3>1 DEF CancelWatchdog, AwaitWatchdog, Fields
    <3>2. CASE VerifyDown(s)
      BY <1>0, <3>2 DEF VerifyDown, Fields
    <3>3. CASE Terminate(s) \/ Stopped(s) \/ Failed(s) \/ DeleteFiles(s)
      BY <1>0, <3>3 DEF Terminate, Stopped, Failed, DeleteFiles, Fields
    <3> QED BY <1>7, <3>1, <3>2, <3>3 DEF StopSteps
  <2>2. CASE CancelWatchdog(s) \/ Terminate(s) \/ AwaitWatchdog(s)
    <3>1. /\ pc[s] \in StopPlaces /\ pc'[s] \in StopPlaces \ {"cancelWatchdog"}
          /\ self'[s].then = self[s].then
      <4>1. CASE CancelWatchdog(s)
        BY <1>0, <4>1 DEF CancelWatchdog, Go, StopPlaces, Fields
      <4>2. CASE Terminate(s)
        BY <1>0, <4>2 DEF Terminate, Go, StopPlaces
      <4>3. CASE AwaitWatchdog(s)
        BY <1>0, <4>3 DEF AwaitWatchdog, Go, StopPlaces, Fields
      <4> QED BY <2>2, <4>1, <4>2, <4>3
    <3> QED BY <1>3, <1>7, <2>1, <3>1 DEF Acts, SupervisorStep, Blamed, Blaming
  <2>3. CASE VerifyDown(s)
    <3>1. pc[s] = "verifyDown" /\ pc'[s] \in {Return(s), "failed"}
      BY <1>0, <2>3 DEF VerifyDown, Go
    <3>2. Blaming(s) => self[s].then = "fail"
      BY <3>1 DEF Blamed, StopPlaces
    <3>3. Blaming(s)' => pc'[s] = "failed"
      BY <2>1, <3>1, <3>2 DEF Return, Blaming
    <3> QED BY <1>3, <1>7, <3>3 DEF Acts, SupervisorStep, StopPlaces
  <2>4. CASE Stopped(s) \/ Failed(s) \/ DeleteFiles(s)
    <3>1. pc'[s] \in {"deleteFiles", "exited"}
      BY <1>0, <2>4 DEF Stopped, Failed, DeleteFiles, Go
    <3> QED BY <1>3, <1>7, <3>1 DEF Acts, SupervisorStep, StopPlaces
  <2> QED BY <1>7, <2>2, <2>3, <2>4 DEF StopSteps
<1>8. ASSUME NEW s \in Sup, Launch(s) \/ Crash(s) PROVE Blamed'
  <2>1. CASE Launch(s)
    <3>1. pc[s] = "idle" /\ self' = self
      BY <2>1 DEF Launch, Go
    <3>2. ~Blaming(s)
      BY <3>1 DEF Blamed, StopPlaces
    <3> QED BY <1>3, <1>8, <3>1, <3>2 DEF Acts, Blaming
  <2>2. CASE Crash(s)
    <3>1. pc'[s] = "crashed"
      BY <1>0, <2>2 DEF Crash
    <3> QED BY <1>3, <1>8, <3>1 DEF Acts, StopPlaces
  <2> QED BY <1>8, <2>1, <2>2
<1>9. ASSUME NEW c \in Core, WatchdogStep(c) \/ CoreComesUp(c) \/ CoreExits(c) \/ Release(c)
      PROVE  Blamed'
  BY <1>2, <1>9 DEF WatchdogStep, AwaitState, Guard, StopTarget, CloseReport, CoreComesUp,
      CoreExits, Release
<1>10. CASE LoseHeartbeat \/ ChangeSource \/ StartV2rayN \/ RequestStop
  BY <1>2, <1>10 DEF LoseHeartbeat, ChangeSource, StartV2rayN, RequestStop
<1>11. CASE UNCHANGED vars
  BY <1>2, <1>11 DEF vars
<1> QED BY <1>4, <1>5, <1>6, <1>7, <1>8, <1>9, <1>10, <1>11 DEF Next, SupervisorStep, MonitorSteps

(* The reason that run() records blames a watchdog only if one has stopped *)
(* this very core by force: whatever old reports lie there, however late   *)
(* or early they come, and whatever else fails.                            *)
THEOREM BlamesFairly == Spec => []BlameIsFair
<1> DEFINE BlameInv == Typed /\ OnCourse /\ Unspent /\ Reported /\ Blamed
<1>1. Init => BlameInv
  <2> SUFFICES ASSUME Init PROVE OnCourse /\ Unspent /\ Reported /\ Blamed
    BY TypedInit
  <2>1. OnCourse
    BY DEF Init, OnCourse, Proper, StartPlaces, RunPlaces, StopPlaces
  <2> QED BY <2>1 DEF Init, NoReport, Unspent, Reported, Blamed, Blaming
<1>2. BlameInv /\ [Next]_vars => BlameInv'
  BY TypedStep, NextShows, DoneStays, ReportedStep, BlamedStep
<1>3. BlameInv => BlameIsFair
  BY DEF BlameIsFair, Blamed, Blaming, ForcedOn
<1> QED BY <1>1, <1>2, <1>3, PTL DEF Spec

-----------------------------------------------------------------------------
(* One core, in all starts, rebuilds and failures.                         *)

(* No second supervisor is launched, none is killed, and kill() works.     *)
Orderly == Faults \cap {"overlap", "crash", "kill"} = {}

OwnPlaces == {"writeState", "awaitReady", "writeAccess", "pin", "announce"} \cup RunPlaces
                 \cup {"cancelWatchdog", "terminate"}

(* A core that lives has a supervisor that will stop it.                   *)
Owns(s, c) == pc[s] \in OwnPlaces /\ self[s].core = c
Owned == \A c \in Core : Alive(c) => \E s \in Sup : Owns(s, c)

(* A step of s that leaves it its core.                                    *)
Keeps(s) == pc'[s] \in OwnPlaces /\ self'[s].core = self[s].core

LEMMA SoloStep == ASSUME Orderly, Typed, Solo, [Next]_vars PROVE Solo'
<1>0. pc \in [Sup -> Steps]
  BY DEF Typed, TypeOK
<1>1. ASSUME NEW s \in Sup, SupervisorStep(s) \/ Crash(s) PROVE Solo'
  <2>1. Live(s)
    <3>1. ASSUME NEW from, NEW to, Go(s, from, to), from \notin {"idle", "exited", "crashed"}
          PROVE  Live(s)
      BY <3>1 DEF Go, Live
    <3>2. CASE StartSteps(s)
      <4>1. ASSUME NEW from \in Steps \ {"idle", "exited", "crashed"}, Raise(s, from) PROVE Live(s)
        BY <3>1, <4>1 DEF Raise
      <4>2. CASE Begin(s) \/ Snapshot(s) \/ Prepare(s) \/ StopV2rayN(s) \/ AwaitPort(s)
        BY <3>1, <4>1, <4>2 DEF Begin, Snapshot, Prepare, StopV2rayN, AwaitPort, Steps
      <4>3. CASE ClearFiles(s) \/ SpawnWatchdog(s) \/ SpawnCore(s) \/ WriteState(s) \/ AwaitReady(s)
        BY <3>1, <4>1, <4>3 DEF ClearFiles, SpawnWatchdog, SpawnCore, WriteState, AwaitReady, Steps
      <4>4. CASE WriteAccess(s) \/ PinSnapshot(s) \/ Announce(s) \/ ConnectivityChecks(s)
        BY <3>1, <4>1, <4>4 DEF WriteAccess, PinSnapshot, Announce, ConnectivityChecks, Steps
      <4> QED BY <3>2, <4>2, <4>3, <4>4 DEF StartSteps
    <3>3. CASE MonitorSteps(s)
      BY <3>1, <3>3 DEF MonitorSteps, TakeStopRequest, NoticeExit, Classify, Observe, Live
    <3>4. CASE StopSteps(s)
      BY <3>1, <3>4 DEF StopSteps, CancelWatchdog, Terminate, AwaitWatchdog, VerifyDown, Stopped,
          Failed, DeleteFiles
    <3> QED BY <1>1, <3>2, <3>3, <3>4 DEF SupervisorStep, Crash
  <2>2. \A t \in Sup \ {s} : pc'[t] = pc[t]
    BY <1>1, OnlySelf DEF Acts
  <2> QED BY <2>1, <2>2 DEF Solo, Live
<1>2. ASSUME NEW s \in Sup, Launch(s) PROVE Solo'
  BY <1>0, <1>2 DEF Launch, Go, Orderly, Solo, Live
<1>3. ASSUME UNCHANGED pc PROVE Solo'
  BY <1>3 DEF Solo, Live
<1>4. ASSUME NEW c \in Core, WatchdogStep(c) \/ CoreComesUp(c) \/ CoreExits(c) \/ Release(c)
      PROVE  Solo'
  BY <1>3, <1>4 DEF WatchdogStep, AwaitState, Guard, StopTarget, CloseReport, CoreComesUp,
      CoreExits, Release, supVars
<1>5. CASE LoseHeartbeat \/ ChangeSource \/ StartV2rayN \/ RequestStop
  BY <1>3, <1>5 DEF LoseHeartbeat, ChangeSource, StartV2rayN, RequestStop, supVars
<1> QED BY <1>1, <1>2, <1>3, <1>4, <1>5 DEF Next, vars, supVars

LEMMA OwnedStep ==
  ASSUME Orderly, Typed, Solo, Owned, [Next]_vars
  PROVE  Owned'
<1>0. /\ self \in [Sup -> Fields] /\ pc \in [Sup -> Steps] /\ None \notin Core
      /\ coreState \in [Core -> {"none", "starting", "up", "dead"}]
  BY RuntimeAssumption DEF Typed, TypeOK, Core
(* A step that starts no core, and after which the supervisor still has    *)
(* the core it had.                                                        *)
<1>1. ASSUME NEW s \in Sup, Acts(s), UNCHANGED coreState,
             pc[s] \notin OwnPlaces \/ self[s].core = None \/ Keeps(s)
      PROVE  Owned'
  <2> SUFFICES ASSUME NEW c \in Core, Alive(c)' PROVE \E t \in Sup : Owns(t, c)'
    BY DEF Owned
  <2>1. PICK t \in Sup : Owns(t, c)
    BY <1>1 DEF Owned, Alive
  <2>2. CASE t = s
    BY <1>0, <1>1, <2>1, <2>2 DEF Owns, Keeps
  <2>3. CASE t # s
    <3>1. pc'[t] = pc[t] /\ self'[t] = self[t]
      BY <1>1, <2>3, OnlySelf
    <3> QED BY <2>1, <3>1 DEF Owns
  <2> QED BY <2>2, <2>3
<1>2. ASSUME NEW s \in Sup, NEW from, Raise(s, from)
      PROVE  self[s].core = None \/ Keeps(s)
  BY <1>0, <1>2 DEF Raise, Go, Keeps, OwnPlaces, Fields
<1>3. ASSUME NEW s \in Sup, StartSteps(s), ~SpawnCore(s) PROVE Owned'
  <2>1. UNCHANGED coreState
    BY <1>3 DEF StartSteps, Begin, Snapshot, Prepare, StopV2rayN, AwaitPort, ClearFiles,
        SpawnWatchdog, WriteState, AwaitReady, WriteAccess, PinSnapshot, Announce,
        ConnectivityChecks, world, coreVars
  <2>2. pc[s] \notin OwnPlaces \/ self[s].core = None \/ Keeps(s)
    <3>1. CASE Begin(s) \/ Snapshot(s) \/ Prepare(s) \/ StopV2rayN(s) \/ AwaitPort(s)
               \/ ClearFiles(s) \/ SpawnWatchdog(s)
      <4>1. pc[s] \in {"init", "snapshot", "prepare", "stopV2rayN", "awaitPort", "clearFiles",
                      "spawnWatchdog"}
        BY <3>1 DEF Begin, Snapshot, Prepare, StopV2rayN, AwaitPort, ClearFiles, SpawnWatchdog,
            Raise, Go
      <4> QED BY <4>1 DEF OwnPlaces, RunPlaces
    <3>2. CASE WriteState(s)
      BY <1>0, <3>2 DEF WriteState, Go, Keeps, OwnPlaces, Fields
    <3>3. CASE AwaitReady(s)
      BY <1>0, <1>2, <3>3 DEF AwaitReady, Go, Keeps, OwnPlaces
    <3>4. CASE WriteAccess(s)
      BY <1>0, <3>4 DEF WriteAccess, Go, Keeps, OwnPlaces, Fields
    <3>5. CASE PinSnapshot(s)
      BY <1>0, <1>2, <3>5 DEF PinSnapshot, Go, Keeps, OwnPlaces, Fields
    <3>6. CASE Announce(s)
      BY <1>0, <3>6 DEF Announce, Go, Keeps, OwnPlaces, RunPlaces, Fields
    <3>7. CASE ConnectivityChecks(s)
      BY <1>0, <1>2, <3>7 DEF ConnectivityChecks, Go, Keeps, OwnPlaces, RunPlaces, Fields
    <3> QED BY <1>3, <3>1, <3>2, <3>3, <3>4, <3>5, <3>6, <3>7 DEF StartSteps
  <2> QED BY <1>1, <1>3, <2>1, <2>2 DEF Acts, SupervisorStep
<1>4. ASSUME NEW s \in Sup, SpawnCore(s) PROVE Owned'
  <2>1. pc[s] = "spawnCore"
    BY <1>4 DEF SpawnCore, Raise, Go
  <2>2. \A c \in Core : ~Alive(c)
    BY <2>1 DEF Owned, Owns, Solo, Live, OwnPlaces, RunPlaces
  <2>3. CASE /\ Go(s, "spawnCore", "writeState")
             /\ self' = [self EXCEPT ![s].core = self[s].watchdog]
             /\ coreState' = [coreState EXCEPT ![self[s].watchdog] = "starting"]
    <3>1. \A c \in Core : Alive(c)' => c = self[s].watchdog
      BY <1>0, <2>2, <2>3 DEF Alive
    <3>2. pc'[s] \in OwnPlaces /\ self'[s].core = self[s].watchdog
      BY <1>0, <2>3 DEF Go, OwnPlaces, Fields
    <3> QED BY <3>1, <3>2 DEF Owned, Owns
  <2>4. CASE UNCHANGED coreState
    BY <2>2, <2>4 DEF Owned, Alive
  <2> QED BY <1>4, <2>3, <2>4 DEF SpawnCore
<1>5. ASSUME NEW s \in Sup, MonitorSteps(s) PROVE Owned'
  <2>1. UNCHANGED coreState
    BY <1>5 DEF MonitorSteps, TakeStopRequest, NoticeExit, Classify, Observe, world, coreVars
  <2>2. Keeps(s)
    <3>1. CASE TakeStopRequest(s) \/ NoticeExit(s)
      BY <1>0, <3>1 DEF TakeStopRequest, NoticeExit, Go, Keeps, OwnPlaces, RunPlaces, Fields
    <3>2. CASE Classify(s)
      BY <1>0, <3>2 DEF Classify, Go, Keeps, OwnPlaces, RunPlaces, Fields
    <3>3. CASE Observe(s)
      BY <1>0, <3>3 DEF Observe, Keeps, OwnPlaces, RunPlaces, Fields
    <3> QED BY <1>5, <3>1, <3>2, <3>3 DEF MonitorSteps
  <2> QED BY <1>1, <1>5, <2>1, <2>2 DEF Acts, SupervisorStep
<1>6. ASSUME NEW s \in Sup, Terminate(s) PROVE Owned'
  <2>1. pc[s] = "terminate" /\ \A c \in Core : Alive(c) => c = self[s].core
    BY <1>6 DEF Terminate, Go, Owned, Owns, Solo, Live, OwnPlaces, RunPlaces
  <2>2. \A c \in Core : ~Alive(c)'
    BY <1>0, <1>6, <2>1 DEF Terminate, Orderly, Alive
  <2> QED BY <2>2 DEF Owned
<1>7. ASSUME NEW s \in Sup, StopSteps(s), ~Terminate(s) PROVE Owned'
  <2>1. UNCHANGED coreState
    BY <1>7 DEF StopSteps, CancelWatchdog, AwaitWatchdog, VerifyDown, Stopped, Failed,
        DeleteFiles, world, coreVars
  <2>2. pc[s] \notin OwnPlaces \/ Keeps(s)
    <3>1. CASE CancelWatchdog(s)
      BY <1>0, <3>1 DEF CancelWatchdog, Go, Keeps, OwnPlaces, Fields
    <3>2. CASE AwaitWatchdog(s) \/ VerifyDown(s) \/ Stopped(s) \/ Failed(s) \/ DeleteFiles(s)
      BY <3>2 DEF AwaitWatchdog, VerifyDown, Stopped, Failed, DeleteFiles, Go, OwnPlaces, RunPlaces
    <3> QED BY <1>7, <3>1, <3>2 DEF StopSteps
  <2> QED BY <1>1, <1>7, <2>1, <2>2 DEF Acts, SupervisorStep
<1>8. ASSUME NEW s \in Sup, Launch(s) \/ Crash(s) PROVE Owned'
  <2>1. Launch(s) /\ pc[s] \notin OwnPlaces
    BY <1>8 DEF Orderly, Crash, Launch, Go, OwnPlaces, RunPlaces
  <2> QED BY <1>1, <1>8, <2>1 DEF Acts, Launch, world, coreVars
(* Nothing else brings a core to life.                                     *)
<1>9. ASSUME UNCHANGED supVars, \A c \in Core : Alive(c)' => Alive(c) PROVE Owned'
  BY <1>9 DEF Owned, Owns, supVars
<1>10. ASSUME NEW c \in Core, CoreComesUp(c) \/ CoreExits(c) \/ Release(c) PROVE Owned'
  BY <1>0, <1>9, <1>10 DEF CoreComesUp, CoreExits, Release, coreVars, Alive
<1>11. ASSUME NEW w \in Core, WatchdogStep(w) PROVE Owned'
  BY <1>0, <1>9, <1>11 DEF WatchdogStep, AwaitState, Guard, StopTarget, CloseReport, coreVars,
      supVars, Alive
<1>12. CASE LoseHeartbeat \/ ChangeSource \/ StartV2rayN \/ RequestStop
  BY <1>9, <1>12 DEF LoseHeartbeat, ChangeSource, StartV2rayN, RequestStop, world, coreVars, Alive
<1>13. CASE UNCHANGED vars
  BY <1>9, <1>13 DEF vars, coreVars, Alive
<1> QED BY <1>3, <1>4, <1>5, <1>6, <1>7, <1>8, <1>10, <1>11, <1>12, <1>13 DEF Next, SupervisorStep

(* As long as the launcher keeps to one supervisor, none is killed, and    *)
(* terminate() or kill() ends a core, no sequence of starts, rebuilds,     *)
(* failures and stops of any number of supervisors has two cores alive.    *)
THEOREM OneCoreAtATime == ASSUME Orderly PROVE Spec => []OneCore
<1>1. Init => Typed /\ Solo /\ Owned
  <2> SUFFICES ASSUME Init PROVE Solo /\ Owned
    BY TypedInit
  <2> QED BY DEF Init, Solo, Live, Owned, Alive
<1>2. Typed /\ Solo /\ Owned /\ [Next]_vars => Typed' /\ Solo' /\ Owned'
  BY TypedStep, SoloStep, OwnedStep
<1>3. Solo /\ Owned => OneCore
  BY DEF Solo, Owned, Owns, OneCore, Live, Alive, OwnPlaces, RunPlaces
<1> QED BY <1>1, <1>2, <1>3, PTL DEF Spec

-----------------------------------------------------------------------------
(* "stopped", in an orderly series of starts that all use one port.  (In a *)
(* mixed series a dead core of another mode may still hold the port that   *)
(* VerifyDown does not look at.)                                           *)
OnePort == Manual \in {{}, Sup}
OurPort == IF Manual = {} THEN 1081 ELSE 1082

Held(c) == \E p \in Ports : port[p] = c
Down == adapter = None /\ \A c \in Core : ~Alive(c) /\ ~Held(c)

AtRest == \A s \in Sup : pc[s] \in {"idle", "init", "deleteFiles", "exited"}

(* VerifyDown sees all there is to see, and from then on nothing comes up  *)
(* before the next start is announced.                                     *)
DownInv ==
    /\ \A p \in Ports \ {OurPort} : port[p] \notin Core
    /\ \A s \in Sup : pc[s] # "crashed"
    /\ \A s \in Sup : pc[s] = "stopped" => Down
    /\ file.status.state = "stopped" => Down /\ AtRest

(* What is down stays down until a core is started.                        *)
LEMMA StillDown ==
  ASSUME Typed, Down, \A s \in Sup : pc[s] # "spawnCore", [Next]_vars
  PROVE  Down'
<1>0. /\ adapter \in Core \cup {None} /\ port \in [Ports -> Core \cup {Xray, None}]
      /\ coreState \in [Core -> {"none", "starting", "up", "dead"}]
      /\ Xray \notin Core /\ None \notin Core
  BY RuntimeAssumption DEF Typed, TypeOK, Core
<1>1. ASSUME UNCHANGED <<adapter, port, coreState>> PROVE Down'
  BY <1>1 DEF Down, Alive, Held
<1>2. ASSUME NEW s \in Sup, StartSteps(s), ~StopV2rayN(s) PROVE UNCHANGED <<adapter, port, coreState>>
  BY <1>2 DEF StartSteps, Begin, Snapshot, Prepare, AwaitPort, ClearFiles, SpawnWatchdog,
      SpawnCore, WriteState, AwaitReady, WriteAccess, PinSnapshot, Announce,
      ConnectivityChecks, world, netVars, coreVars, Go, Raise
<1>3. ASSUME NEW s \in Sup, StopV2rayN(s) PROVE Down'
  BY <1>0, <1>3 DEF StopV2rayN, Down, Alive, Held, coreVars
<1>4. ASSUME NEW s \in Sup, MonitorSteps(s) PROVE UNCHANGED <<adapter, port, coreState>>
  BY <1>4 DEF MonitorSteps, TakeStopRequest, NoticeExit, Classify, Observe, world, netVars, coreVars
<1>5. ASSUME NEW s \in Sup, StopSteps(s) PROVE Down'
  <2>1. CASE Terminate(s)
    BY <1>0, <2>1 DEF Terminate, Down, Alive, Held, netVars
  <2>2. CASE ~Terminate(s)
    BY <1>1, <1>5, <2>2 DEF StopSteps, CancelWatchdog, AwaitWatchdog, VerifyDown, Stopped, Failed,
        DeleteFiles, world, netVars, coreVars
  <2> QED BY <2>1, <2>2
<1>6. ASSUME NEW s \in Sup, Launch(s) \/ Crash(s) PROVE Down'
  BY <1>1, <1>6 DEF Launch, Crash, world, netVars, coreVars
<1>7. ASSUME NEW w \in Core, WatchdogStep(w) PROVE Down'
  BY <1>0, <1>7 DEF WatchdogStep, AwaitState, Guard, StopTarget, CloseReport, netVars, coreVars,
      Down, Alive, Held
<1>8. ASSUME NEW c \in Core, CoreComesUp(c) \/ CoreExits(c) \/ Release(c) PROVE Down'
  BY <1>0, <1>8 DEF CoreComesUp, CoreExits, Release, netVars, coreVars, Down, Alive, Held
<1>9. CASE LoseHeartbeat \/ ChangeSource \/ RequestStop
  BY <1>1, <1>9 DEF LoseHeartbeat, ChangeSource, RequestStop, world, netVars, coreVars
<1>10. CASE StartV2rayN
  BY <1>0, <1>10 DEF StartV2rayN, Down, Alive, Held, coreVars
<1>11. CASE UNCHANGED vars
  BY <1>1, <1>11 DEF vars, netVars, coreVars
<1> QED BY <1>1, <1>2, <1>3, <1>4, <1>5, <1>6, <1>7, <1>8, <1>9, <1>10, <1>11
    DEF Next, SupervisorStep

(* Who moves.                                                              *)
LEMMA Mover ==
  ASSUME Typed, [Next]_vars, NEW s \in Sup, pc'[s] # pc[s]
  PROVE  Acts(s)
<1>1. ASSUME NEW t \in Sup, SupervisorStep(t) \/ Launch(t) \/ Crash(t) PROVE Acts(s)
  <2>1. Acts(t)
    BY <1>1 DEF Acts
  <2> QED BY <2>1, OnlySelf
<1>2. ASSUME NEW c \in Core, WatchdogStep(c) \/ CoreComesUp(c) \/ CoreExits(c) \/ Release(c)
      PROVE  UNCHANGED pc
  BY <1>2 DEF WatchdogStep, AwaitState, Guard, StopTarget, CloseReport, CoreComesUp,
      CoreExits, Release, supVars
<1>3. CASE LoseHeartbeat \/ ChangeSource \/ StartV2rayN \/ RequestStop
  BY <1>3 DEF LoseHeartbeat, ChangeSource, StartV2rayN, RequestStop, supVars
<1> QED BY <1>1, <1>2, <1>3 DEF Next, vars, supVars

LEMMA ComesToStop ==
  ASSUME Typed, NEW s \in Sup, Acts(s), pc'[s] = "stopped"
  PROVE  VerifyDown(s)
<1>0. pc \in [Sup -> Steps]
  BY DEF Typed, TypeOK
<1>1. ASSUME StartSteps(s) PROVE FALSE
  <2>1. CASE Begin(s) \/ Snapshot(s) \/ Prepare(s) \/ StopV2rayN(s) \/ AwaitPort(s)
    BY <1>0, <2>1 DEF Begin, Snapshot, Prepare, StopV2rayN, AwaitPort, Go, Raise
  <2>2. CASE ClearFiles(s) \/ SpawnWatchdog(s) \/ SpawnCore(s) \/ WriteState(s) \/ AwaitReady(s)
    BY <1>0, <2>2 DEF ClearFiles, SpawnWatchdog, SpawnCore, WriteState, AwaitReady, Go, Raise
  <2>3. CASE WriteAccess(s) \/ PinSnapshot(s) \/ Announce(s) \/ ConnectivityChecks(s)
    BY <1>0, <2>3 DEF WriteAccess, PinSnapshot, Announce, ConnectivityChecks, Go, Raise
  <2> QED BY <1>1, <2>1, <2>2, <2>3 DEF StartSteps
<1>2. ASSUME MonitorSteps(s) PROVE FALSE
  BY <1>0, <1>2 DEF MonitorSteps, TakeStopRequest, NoticeExit, Classify, Observe, Go
<1>3. ASSUME StopSteps(s), ~VerifyDown(s) PROVE FALSE
  BY <1>0, <1>3 DEF StopSteps, CancelWatchdog, Terminate, AwaitWatchdog, Stopped, Failed,
      DeleteFiles, Go
<1>4. ASSUME Launch(s) \/ Crash(s) PROVE FALSE
  BY <1>0, <1>4 DEF Launch, Crash, Go
<1> QED BY <1>1, <1>2, <1>3, <1>4 DEF Acts, SupervisorStep

(* Only a supervisor at "stopped" writes that it has stopped.              *)
LEMMA WritesStopped ==
  ASSUME Typed, [Next]_vars, file.status.state # "stopped", file'.status.state = "stopped"
  PROVE  \E s \in Sup : Stopped(s)
<1>0. file \in Files
  BY DEF Typed, TypeOK
<1>1. ASSUME NEW s \in Sup, Acts(s) PROVE Stopped(s)
  <2>1. CASE ClearFiles(s) \/ Prepare(s) \/ WriteState(s) \/ CancelWatchdog(s)
    BY <1>0, <2>1 DEF ClearFiles, Prepare, WriteState, CancelWatchdog, Files
  <2>2. CASE Observe(s)
    BY <1>0, <2>2 DEF Observe, Files
  <2>3. CASE Begin(s) \/ Announce(s) \/ TakeStopRequest(s) \/ Failed(s)
    <3>1. \E at \in {"starting", "running", "stopping", "failed"} :
             file'.status = [state |-> at, by |-> s]
      BY <1>0, <2>3 DEF Begin, Announce, TakeStopRequest, Failed, Files
    <3> QED BY <3>1
  <2>5. CASE WriteAccess(s) \/ DeleteFiles(s)
    BY <1>0, <2>5 DEF WriteAccess, DeleteFiles, Files
  <2>4. CASE Snapshot(s) \/ StopV2rayN(s) \/ AwaitPort(s) \/ SpawnWatchdog(s) \/ SpawnCore(s)
             \/ AwaitReady(s) \/ PinSnapshot(s) \/ ConnectivityChecks(s) \/ NoticeExit(s)
             \/ Classify(s) \/ Terminate(s) \/ AwaitWatchdog(s) \/ VerifyDown(s)
             \/ Launch(s) \/ Crash(s)
    BY <2>4 DEF Snapshot, StopV2rayN, AwaitPort, SpawnWatchdog, SpawnCore, AwaitReady,
        PinSnapshot, ConnectivityChecks, NoticeExit, Classify, Terminate, AwaitWatchdog,
        VerifyDown, Launch, Crash
  <2> QED BY <1>1, <2>1, <2>2, <2>3, <2>4, <2>5
        DEF Acts, SupervisorStep, StartSteps, MonitorSteps, StopSteps
<1>2. ASSUME NEW w \in Core, CloseReport(w) PROVE FALSE
  BY <1>0, <1>2 DEF CloseReport, Files
<1>3. ASSUME NEW w \in Core, AwaitState(w) \/ Guard(w) \/ StopTarget(w)
             \/ CoreComesUp(w) \/ CoreExits(w) \/ Release(w)
      PROVE  FALSE
  BY <1>3 DEF AwaitState, Guard, StopTarget, CoreComesUp, CoreExits, Release
<1>4. CASE LoseHeartbeat \/ ChangeSource \/ StartV2rayN \/ RequestStop
  BY <1>0, <1>4 DEF LoseHeartbeat, ChangeSource, StartV2rayN, RequestStop, Files
<1> QED BY <1>1, <1>2, <1>3, <1>4 DEF Next, Acts, WatchdogStep, vars

LEMMA DownStep ==
  ASSUME Orderly, OnePort, Typed, Solo, Owned, DownInv, [Next]_vars
  PROVE  DownInv'
<1>0. /\ adapter \in Core \cup {None} /\ port \in [Ports -> Core \cup {Xray, None}]
      /\ Xray \notin Core /\ None \notin Core /\ file \in Files /\ pc \in [Sup -> Steps]
  BY RuntimeAssumption DEF Typed, TypeOK, Core
<1>1. \A p \in Ports \ {OurPort} : port'[p] \notin Core
  <2> SUFFICES ASSUME NEW p \in Ports \ {OurPort} PROVE port'[p] \notin Core
    OBVIOUS
  <2>1. ASSUME NEW c \in Core, CoreComesUp(c) PROVE port'[p] \notin Core
    <3>1. ASSUME file.config # None PROVE MixedPort(file.config.by) = OurPort
      BY <1>0, <3>1 DEF Files, Config, OnePort, OurPort, MixedPort
    <3> QED BY <1>0, <2>1, <3>1 DEF CoreComesUp, DownInv
  <2>2. ASSUME UNCHANGED port PROVE port'[p] \notin Core
    BY <2>2 DEF DownInv
  <2>3. ASSUME NEW s \in Sup, Acts(s) PROVE port'[p] \notin Core
    <3>1. CASE StopV2rayN(s)
      BY <1>0, <3>1 DEF StopV2rayN, DownInv
    <3>2. CASE ~StopV2rayN(s)
      BY <2>2, <2>3, <3>2 DEF Acts, SupervisorStep, StartSteps, MonitorSteps, StopSteps, world, netVars,
          Begin, Snapshot, Prepare, AwaitPort, ClearFiles, SpawnWatchdog, SpawnCore, WriteState,
          AwaitReady, WriteAccess, PinSnapshot, Announce, ConnectivityChecks, TakeStopRequest,
          NoticeExit, Classify, Observe, CancelWatchdog, Terminate, AwaitWatchdog, VerifyDown,
          Stopped, Failed, DeleteFiles, Launch, Crash
    <3> QED BY <3>1, <3>2
  <2>4. ASSUME NEW c \in Core, WatchdogStep(c) \/ CoreExits(c) PROVE port'[p] \notin Core
    BY <2>2, <2>4 DEF WatchdogStep, AwaitState, Guard, StopTarget, CloseReport, CoreExits, netVars
  <2>5. ASSUME NEW c \in Core, Release(c) PROVE port'[p] \notin Core
    BY <1>0, <2>5 DEF Release, DownInv
  <2>6. CASE StartV2rayN
    BY <1>0, <2>6 DEF StartV2rayN, DownInv
  <2>7. CASE LoseHeartbeat \/ ChangeSource \/ RequestStop
    BY <2>2, <2>7 DEF LoseHeartbeat, ChangeSource, RequestStop, world, netVars
  <2> QED BY <2>1, <2>2, <2>3, <2>4, <2>5, <2>6, <2>7 DEF Next, Acts, vars, netVars
<1>2. \A s \in Sup : pc'[s] # "crashed"
  <2> SUFFICES ASSUME NEW s \in Sup, Acts(s) PROVE pc'[s] # "crashed"
    BY Mover DEF DownInv
  <2>1. CASE StartSteps(s)
    <3>1. CASE Begin(s) \/ Snapshot(s) \/ Prepare(s) \/ StopV2rayN(s) \/ AwaitPort(s)
      BY <1>0, <3>1 DEF Begin, Snapshot, Prepare, StopV2rayN, AwaitPort, Go, Raise
    <3>2. CASE ClearFiles(s) \/ SpawnWatchdog(s) \/ SpawnCore(s) \/ WriteState(s) \/ AwaitReady(s)
      BY <1>0, <3>2 DEF ClearFiles, SpawnWatchdog, SpawnCore, WriteState, AwaitReady, Go, Raise
    <3>3. CASE WriteAccess(s) \/ PinSnapshot(s) \/ Announce(s) \/ ConnectivityChecks(s)
      BY <1>0, <3>3 DEF WriteAccess, PinSnapshot, Announce, ConnectivityChecks, Go, Raise
    <3> QED BY <2>1, <3>1, <3>2, <3>3 DEF StartSteps
  <2>2. CASE MonitorSteps(s)
    BY <1>0, <2>2 DEF MonitorSteps, TakeStopRequest, NoticeExit, Classify, Observe, Go, DownInv
  <2>3. CASE StopSteps(s)
    BY <1>0, <2>3 DEF StopSteps, CancelWatchdog, Terminate, AwaitWatchdog, VerifyDown, Return,
        Stopped, Failed, DeleteFiles, Go
  <2>4. CASE Launch(s) \/ Crash(s)
    BY <1>0, <2>4 DEF Orderly, Launch, Crash, Go
  <2> QED BY <2>1, <2>2, <2>3, <2>4 DEF Acts, SupervisorStep
<1>3. ASSUME NEW s \in Sup, pc'[s] = "stopped" PROVE Down'
  <2>1. CASE pc[s] = "stopped"
    <3>1. Down /\ \A t \in Sup : pc[t] # "spawnCore"
      BY <2>1 DEF DownInv, Solo, Live
    <3> QED BY <3>1, StillDown
  <2>2. CASE pc[s] # "stopped"
    <3>1. VerifyDown(s)
      BY <1>3, <2>2, Mover, ComesToStop
    <3>2. pc[s] = "verifyDown" /\ adapter = None /\ port[MixedPort(s)] = None /\ UNCHANGED world
      BY <1>0, <1>3, <3>1 DEF VerifyDown, Go
    <3>3. MixedPort(s) = OurPort
      BY DEF MixedPort, OurPort, OnePort
    <3>4. \A c \in Core : ~Held(c)
      BY <1>0, <3>2, <3>3 DEF Held, DownInv
    <3>5. \A c \in Core : ~Alive(c)
      BY <3>2 DEF Owned, Owns, Solo, Live, OwnPlaces, RunPlaces
    <3> QED BY <3>2, <3>4, <3>5 DEF Down, Alive, Held, world, netVars, coreVars
  <2> QED BY <2>1, <2>2
<1>4. ASSUME file'.status.state = "stopped" PROVE Down' /\ AtRest'
  <2>1. CASE file.status.state = "stopped"
    <3>1. Down /\ AtRest
      BY <2>1 DEF DownInv
    <3>2. Down'
      BY <3>1, StillDown DEF AtRest
    <3>3. ASSUME NEW s \in Sup, pc'[s] # pc[s] PROVE pc'[s] \in {"init", "exited"}
      <4>1. Acts(s) /\ pc[s] \in {"idle", "init", "deleteFiles", "exited"}
        BY <3>1, <3>3, Mover DEF AtRest
      <4>2. ~Begin(s)
        <5>1. Begin(s) => file'.status = [state |-> "starting", by |-> s]
          BY <1>0 DEF Begin, Files
        <5> QED BY <1>4, <5>1
      <4>3. ~StartSteps(s)
        <5>1. ASSUME StartSteps(s) PROVE pc[s] = "init"
          BY <4>1, <5>1, StartsFrom DEF StartPlaces
        <5>2. ASSUME StartSteps(s), ~Begin(s) PROVE pc[s] # "init"
          BY <5>2, StartsOn
        <5> QED BY <4>2, <5>1, <5>2
      <4>4. ~MonitorSteps(s) /\ ~Crash(s)
        BY <4>1, RunsFrom DEF Crash, Orderly
      <4>5. CASE StopSteps(s)
        <5>1. pc[s] = "deleteFiles"
          BY <4>1, <4>5, StopsFrom DEF StopPlaces
        <5>2. DeleteFiles(s)
          BY <4>5, <5>1 DEF StopSteps, CancelWatchdog, Terminate, AwaitWatchdog, VerifyDown,
              Stopped, Failed, Go
        <5> QED BY <1>0, <5>2 DEF DeleteFiles, Go
      <4>6. CASE Launch(s)
        BY <1>0, <4>6 DEF Launch, Go
      <4> QED BY <4>1, <4>3, <4>4, <4>5, <4>6 DEF Acts, SupervisorStep
    <3> QED BY <3>1, <3>2, <3>3 DEF AtRest
  <2>2. CASE file.status.state # "stopped"
    <3>1. PICK s \in Sup : Stopped(s)
      BY <1>4, <2>2, WritesStopped
    <3>2. pc[s] = "stopped" /\ pc' = [pc EXCEPT ![s] = "deleteFiles"] /\ UNCHANGED world
      BY <3>1 DEF Stopped, Go
    <3>3. \A t \in Sup \ {s} : pc[t] \in {"idle", "exited"}
      BY <3>2 DEF Solo, Live, DownInv
    <3>4. Down
      BY <3>2 DEF DownInv
    <3> QED BY <1>0, <3>2, <3>3, <3>4 DEF AtRest, Down, Alive, Held, world, netVars, coreVars
  <2> QED BY <2>1, <2>2
<1> QED BY <1>1, <1>2, <1>3, <1>4 DEF DownInv

(* As long as the launcher keeps to one supervisor and one kind of them,   *)
(* none is killed, and terminate() or kill() ends a core: whoever reads    *)
(* "stopped" finds no core alive and no adapter or port with one, whatever *)
(* else has failed, and however many starts came before.                   *)
THEOREM StoppedIsDown == ASSUME Orderly, OnePort PROVE Spec => []StoppedMeansDown
<1> DEFINE Inv == Typed /\ Solo /\ Owned /\ DownInv
<1>1. Init => Inv
  <2> SUFFICES ASSUME Init PROVE Solo /\ Owned /\ DownInv
    BY TypedInit
  <2> QED BY RuntimeAssumption DEF Init, Solo, Live, Owned, Alive, DownInv, Core, Ports
<1>2. Inv /\ [Next]_vars => Inv'
  BY TypedStep, SoloStep, OwnedStep, DownStep
<1>3. Inv => StoppedMeansDown
  BY DEF StoppedMeansDown, DownInv, Down, Held
<1> QED BY <1>1, <1>2, <1>3, PTL DEF Spec

-----------------------------------------------------------------------------
(* The controller access file, which every closing watchdog removes.       *)

(* No supervisor leaves its watchdog alone: none is killed, none fails     *)
(* between watchdog and core, and every watchdog ends within the 12 s.     *)
Attentive == Faults \cap {"crash", "spawn", "slowWatchdog"} = {}

AttendPlaces == OwnPlaces \cup {"spawnCore", "awaitWatchdog"}

(* A watchdog that runs has a supervisor that will wait for its end.       *)
Attends(s, w) == pc[s] \in AttendPlaces /\ self[s].watchdog = w
Attended == \A w \in Core : wpc[w] \notin {"none", "done"} => \E s \in Sup : Attends(s, w)

PublishPlaces == {"pin", "announce", "checks", "monitor"}

Published ==
    \A s \in Sup : pc[s] \in PublishPlaces /\ Alive(self[s].core) =>
        file.access = self[s].core

LEMMA AttendedStep ==
  ASSUME NoRace, Attentive, GuardInv, Attended, [Next]_vars
  PROVE  Attended'
<1>0. /\ self \in [Sup -> Fields] /\ pc \in [Sup -> Steps] /\ None \notin Core /\ Typed
      /\ wpc \in [Core -> {"none", "waiting", "guarding", "stopping", "closing", "done"}]
  BY RuntimeAssumption DEF GuardInv, Typed, TypeOK, Core
<1>1. ASSUME NEW s \in Sup, Acts(s), UNCHANGED wpc,
             \A w \in Core : wpc[w] \notin {"none", "done"} /\ Attends(s, w) => Attends(s, w)'
      PROVE  Attended'
  <2> SUFFICES ASSUME NEW w \in Core, wpc[w] \notin {"none", "done"}
               PROVE  \E t \in Sup : Attends(t, w)'
    BY <1>1 DEF Attended
  <2>1. PICK t \in Sup : Attends(t, w)
    BY DEF Attended
  <2>2. CASE t = s
    BY <1>1, <2>1, <2>2
  <2>3. CASE t # s
    BY <1>0, <1>1, <2>1, <2>3, OnlySelf DEF Attends
  <2> QED BY <2>2, <2>3
(* A step away from nowhere in particular.                                 *)
<1>2. ASSUME NEW s \in Sup, Acts(s), UNCHANGED wpc, pc[s] \notin AttendPlaces PROVE Attended'
  BY <1>1, <1>2 DEF Attends
(* A step after which the supervisor still attends to its watchdog.        *)
<1>3. ASSUME NEW s \in Sup, Acts(s), UNCHANGED wpc, pc'[s] \in AttendPlaces,
             self'[s].watchdog = self[s].watchdog
      PROVE  Attended'
  BY <1>1, <1>3 DEF Attends
<1>4. ASSUME NEW s \in Sup, NEW from \in {"awaitReady", "pin", "checks"}, Raise(s, from)
      PROVE  pc'[s] \in AttendPlaces /\ self'[s].watchdog = self[s].watchdog
  <2>1. self[s].core # None
    BY <1>0, <1>4 DEF GuardInv, Armed, Serving, Raise, Go
  <2> QED BY <1>0, <1>4, <2>1 DEF Raise, Go, AttendPlaces, OwnPlaces, Fields
<1>5. ASSUME NEW s \in Sup, StartSteps(s), ~SpawnWatchdog(s) PROVE Attended'
  <2>1. UNCHANGED wpc
    BY <1>5 DEF StartSteps, Begin, Snapshot, Prepare, StopV2rayN, AwaitPort, ClearFiles,
        SpawnCore, WriteState, AwaitReady, WriteAccess, PinSnapshot, Announce,
        ConnectivityChecks, world, wdVars
  <2>2. CASE Begin(s) \/ Snapshot(s) \/ Prepare(s) \/ StopV2rayN(s) \/ AwaitPort(s)
             \/ ClearFiles(s)
    <3>1. pc[s] \in {"init", "snapshot", "prepare", "stopV2rayN", "awaitPort", "clearFiles"}
      <4>1. CASE Begin(s) \/ Snapshot(s) \/ Prepare(s)
        BY <4>1 DEF Begin, Snapshot, Prepare, Raise, Go
      <4>2. CASE StopV2rayN(s)
        BY <4>2 DEF StopV2rayN, Go
      <4>3. CASE AwaitPort(s) \/ ClearFiles(s)
        BY <4>3 DEF AwaitPort, ClearFiles, Raise, Go
      <4> QED BY <2>2, <4>1, <4>2, <4>3
    <3> QED BY <1>2, <1>5, <2>1, <3>1 DEF Acts, SupervisorStep, AttendPlaces, OwnPlaces, RunPlaces
  <2>3. CASE SpawnCore(s) \/ WriteState(s) \/ AwaitReady(s) \/ WriteAccess(s) \/ PinSnapshot(s)
             \/ Announce(s) \/ ConnectivityChecks(s)
    <3>1. pc'[s] \in AttendPlaces /\ self'[s].watchdog = self[s].watchdog
      <4>1. CASE SpawnCore(s)
        BY <1>0, <4>1 DEF Attentive, SpawnCore, Go, AttendPlaces, OwnPlaces, Fields
      <4>2. CASE WriteState(s)
        BY <1>0, <4>2 DEF WriteState, Go, AttendPlaces, OwnPlaces, Fields
      <4>3. CASE AwaitReady(s)
        BY <1>0, <1>4, <4>3 DEF AwaitReady, Go, AttendPlaces, OwnPlaces
      <4>4. CASE WriteAccess(s)
        BY <1>0, <4>4 DEF WriteAccess, Go, AttendPlaces, OwnPlaces, Fields
      <4>5. CASE PinSnapshot(s)
        BY <1>0, <1>4, <4>5 DEF PinSnapshot, Go, AttendPlaces, OwnPlaces, Fields
      <4>6. CASE Announce(s)
        BY <1>0, <4>6 DEF Announce, Go, AttendPlaces, OwnPlaces, RunPlaces, Fields
      <4>7. CASE ConnectivityChecks(s)
        BY <1>0, <1>4, <4>7 DEF ConnectivityChecks, Go, AttendPlaces, OwnPlaces, RunPlaces, Fields
      <4> QED BY <2>3, <4>1, <4>2, <4>3, <4>4, <4>5, <4>6, <4>7
    <3> QED BY <1>3, <1>5, <2>1, <3>1 DEF Acts, SupervisorStep
  <2> QED BY <1>5, <2>2, <2>3 DEF StartSteps
<1>6. ASSUME NEW s \in Sup, SpawnWatchdog(s) PROVE Attended'
  <2>1. pc[s] = "spawnWatchdog"
    BY <1>6 DEF SpawnWatchdog, Go
  <2>2. \A w \in Core : wpc[w] \in {"none", "done"}
    BY <2>1 DEF Attended, Attends, GuardInv, Solo, Live, AttendPlaces, OwnPlaces, RunPlaces
  <2>3. \A w \in Core : wpc'[w] \notin {"none", "done"} => w = born + 1
    BY <1>0, <1>6, <2>2 DEF SpawnWatchdog
  <2>4. pc'[s] \in AttendPlaces /\ self'[s].watchdog = born + 1
    BY <1>0, <1>6 DEF SpawnWatchdog, Go, AttendPlaces, Fields
  <2> QED BY <2>3, <2>4 DEF Attended, Attends
<1>7. ASSUME NEW s \in Sup, MonitorSteps(s) PROVE Attended'
  <2>1. UNCHANGED wpc
    BY <1>7 DEF MonitorSteps, TakeStopRequest, NoticeExit, Classify, Observe, world, wdVars
  <2>2. pc'[s] \in AttendPlaces /\ self'[s].watchdog = self[s].watchdog
    <3>1. CASE TakeStopRequest(s) \/ NoticeExit(s)
      BY <1>0, <3>1 DEF TakeStopRequest, NoticeExit, Go, AttendPlaces, OwnPlaces, RunPlaces, Fields
    <3>2. CASE Classify(s)
      BY <1>0, <3>2 DEF Classify, Go, AttendPlaces, OwnPlaces, RunPlaces, Fields
    <3>3. CASE Observe(s)
      BY <1>0, <3>3 DEF Observe, AttendPlaces, OwnPlaces, RunPlaces, Fields
    <3> QED BY <1>7, <3>1, <3>2, <3>3 DEF MonitorSteps
  <2> QED BY <1>3, <1>7, <2>1, <2>2 DEF Acts, SupervisorStep
<1>8. ASSUME NEW s \in Sup, StopSteps(s) PROVE Attended'
  <2>1. UNCHANGED wpc /\ Acts(s)
    BY <1>8 DEF StopSteps, CancelWatchdog, Terminate, AwaitWatchdog, VerifyDown, Stopped, Failed,
        DeleteFiles, world, wdVars, Acts, SupervisorStep
  <2>2. CASE CancelWatchdog(s) \/ Terminate(s)
    <3>1. pc'[s] \in AttendPlaces /\ self'[s].watchdog = self[s].watchdog
      <4>1. CASE CancelWatchdog(s)
        BY <1>0, <4>1 DEF CancelWatchdog, Go, AttendPlaces, OwnPlaces, Fields
      <4>2. CASE Terminate(s)
        BY <1>0, <4>2 DEF Terminate, Go, AttendPlaces, OwnPlaces
      <4> QED BY <2>2, <4>1, <4>2
    <3> QED BY <1>3, <2>1, <3>1
  <2>3. CASE AwaitWatchdog(s)
    <3>1. wpc[self[s].watchdog] = "done"
      BY <2>3 DEF Attentive, AwaitWatchdog
    <3> QED BY <1>1, <2>1, <3>1 DEF Attends
  <2>4. CASE VerifyDown(s) \/ Stopped(s) \/ Failed(s) \/ DeleteFiles(s)
    <3>1. pc[s] \in {"verifyDown", "stopped", "failed", "deleteFiles"}
      BY <2>4 DEF VerifyDown, Stopped, Failed, DeleteFiles, Go
    <3> QED BY <1>2, <2>1, <3>1 DEF AttendPlaces, OwnPlaces, RunPlaces
  <2> QED BY <1>8, <2>2, <2>3, <2>4 DEF StopSteps
<1>9. ASSUME NEW s \in Sup, Launch(s) \/ Crash(s) PROVE Attended'
  <2>1. Launch(s) /\ pc[s] = "idle" /\ UNCHANGED wpc
    BY <1>9 DEF Attentive, Crash, Launch, Go, world, wdVars
  <2> QED BY <1>2, <2>1 DEF Acts, AttendPlaces, OwnPlaces, RunPlaces
<1>10. ASSUME UNCHANGED supVars,
              \A w \in Core : wpc'[w] \notin {"none", "done"} => wpc[w] \notin {"none", "done"}
       PROVE  Attended'
  BY <1>10 DEF Attended, Attends, supVars
<1>11. ASSUME NEW v \in Core, WatchdogStep(v) PROVE Attended'
  BY <1>0, <1>10, <1>11 DEF WatchdogStep, AwaitState, Guard, StopTarget, CloseReport
<1>12. ASSUME NEW c \in Core, CoreComesUp(c) \/ CoreExits(c) \/ Release(c) PROVE Attended'
  BY <1>10, <1>12 DEF CoreComesUp, CoreExits, Release, wdVars
<1>13. CASE LoseHeartbeat \/ ChangeSource \/ StartV2rayN \/ RequestStop
  BY <1>10, <1>13 DEF LoseHeartbeat, ChangeSource, StartV2rayN, RequestStop, world, wdVars
<1>14. CASE UNCHANGED vars
  BY <1>10, <1>14 DEF vars, wdVars
<1> QED BY <1>5, <1>6, <1>7, <1>8, <1>9, <1>11, <1>12, <1>13, <1>14 DEF Next, SupervisorStep

LEMMA PublishedStep ==
  ASSUME GuardInv, Attended, Published, [Next]_vars, Solo'
  PROVE  Published'
<1>0. /\ self \in [Sup -> Fields] /\ pc \in [Sup -> Steps] /\ file \in Files /\ Typed
      /\ coreState \in [Core -> {"none", "starting", "up", "dead"}]
  BY DEF GuardInv, Typed, TypeOK
(* A supervisor that goes on in service, with the core it had.             *)
<1>1. ASSUME NEW s \in Sup, Acts(s),
             pc'[s] \in PublishPlaces =>
                /\ pc[s] \in PublishPlaces /\ UNCHANGED coreState
                /\ self'[s].core = self[s].core /\ file'.access = file.access
      PROVE  Published'
  <2> SUFFICES ASSUME NEW t \in Sup, pc'[t] \in PublishPlaces, Alive(self[t].core)'
               PROVE  file'.access = self'[t].core
    BY DEF Published
  <2>1. CASE t = s
    BY <1>1, <2>1 DEF Published, Alive
  <2>2. CASE t # s
    <3>1. pc'[t] = pc[t] /\ Live(t) /\ Live(t)'
      BY <1>0, <1>1, <2>2, OnlySelf DEF Live, PublishPlaces
    <3>2. ~Live(s) /\ ~Live(s)'
      BY <2>2, <3>1 DEF GuardInv, Solo
    <3>3. ~Launch(s)
      BY <1>0, <3>2 DEF Launch, Go, Live
    <3>4. ~SupervisorStep(s) /\ ~Crash(s)
      <4>1. ~StartSteps(s) /\ ~MonitorSteps(s) /\ ~StopSteps(s)
        BY <3>2, StartsFrom, RunsFrom, StopsFrom DEF Live, StartPlaces, StopPlaces
      <4>2. ~Crash(s)
        BY <3>2 DEF Crash
      <4> QED BY <4>1, <4>2 DEF SupervisorStep
    <3> QED BY <1>1, <3>3, <3>4 DEF Acts
  <2> QED BY <2>1, <2>2
<1>2. ASSUME NEW s \in Sup, WriteAccess(s) PROVE Published'
  <2>1. pc[s] = "writeAccess" /\ file'.access = self[s].core /\ self'[s].core = self[s].core
    BY <1>0, <1>2 DEF WriteAccess, Go, Files, Fields
  <2>2. ASSUME NEW t \in Sup, t # s PROVE pc'[t] \notin PublishPlaces
    <3>1. pc'[t] = pc[t]
      BY <1>0, <1>2, <2>2 DEF WriteAccess, Go
    <3>2. ~Live(t)
      BY <2>1, <2>2 DEF GuardInv, Solo, Live
    <3> QED BY <3>1, <3>2 DEF Live, PublishPlaces
  <2> QED BY <2>1, <2>2 DEF Published
<1>3. ASSUME NEW s \in Sup, StartSteps(s), ~WriteAccess(s) PROVE Published'
  <2>1. CASE Begin(s) \/ Snapshot(s) \/ Prepare(s) \/ StopV2rayN(s) \/ AwaitPort(s)
    <3>1. pc'[s] \notin PublishPlaces
      BY <1>0, <2>1 DEF Begin, Snapshot, Prepare, StopV2rayN, AwaitPort, Go, Raise, PublishPlaces
    <3> QED BY <1>1, <1>3, <3>1 DEF Acts, SupervisorStep
  <2>2. CASE ClearFiles(s) \/ SpawnWatchdog(s) \/ SpawnCore(s) \/ WriteState(s) \/ AwaitReady(s)
    <3>1. pc'[s] \notin PublishPlaces
      BY <1>0, <2>2 DEF ClearFiles, SpawnWatchdog, SpawnCore, WriteState, AwaitReady, Go, Raise,
          PublishPlaces
    <3> QED BY <1>1, <1>3, <3>1 DEF Acts, SupervisorStep
  <2>3. CASE PinSnapshot(s) \/ Announce(s) \/ ConnectivityChecks(s)
    <3>1. ASSUME NEW from, Raise(s, from) PROVE pc'[s] \notin PublishPlaces
      BY <1>0, <3>1 DEF Raise, Go, PublishPlaces
    <3>2. pc[s] \in PublishPlaces /\ UNCHANGED coreState /\ file'.access = file.access
      BY <1>0, <2>3 DEF PinSnapshot, Announce, ConnectivityChecks, Go, Raise, PublishPlaces, world,
          coreVars, Files
    <3>3. pc'[s] \in PublishPlaces => self'[s].core = self[s].core
      BY <1>0, <2>3, <3>1 DEF PinSnapshot, Announce, ConnectivityChecks, Fields
    <3> QED BY <1>1, <1>3, <3>2, <3>3 DEF Acts, SupervisorStep
  <2> QED BY <1>3, <2>1, <2>2, <2>3 DEF StartSteps
<1>4. ASSUME NEW s \in Sup, MonitorSteps(s) PROVE Published'
  <2>1. CASE Observe(s)
    <3>1. pc[s] = "monitor" /\ UNCHANGED coreState /\ file'.access = file.access
      BY <1>0, <2>1 DEF Observe, world, coreVars, Files
    <3>2. self'[s].core = self[s].core
      BY <1>0, <2>1 DEF Observe, Fields
    <3> QED BY <1>1, <1>4, <3>1, <3>2 DEF Acts, SupervisorStep, PublishPlaces
  <2>2. CASE TakeStopRequest(s) \/ NoticeExit(s) \/ Classify(s)
    <3>1. pc'[s] \notin PublishPlaces
      BY <1>0, <2>2 DEF TakeStopRequest, NoticeExit, Classify, Go, PublishPlaces
    <3> QED BY <1>1, <1>4, <3>1 DEF Acts, SupervisorStep
  <2> QED BY <1>4, <2>1, <2>2 DEF MonitorSteps
<1>5. ASSUME NEW s \in Sup, StopSteps(s) \/ Launch(s) \/ Crash(s) PROVE Published'
  <2>1. pc'[s] \notin PublishPlaces
    BY <1>0, <1>5 DEF StopSteps, CancelWatchdog, Terminate, AwaitWatchdog, VerifyDown, Return,
        Stopped, Failed, DeleteFiles, Launch, Crash, Go, PublishPlaces
  <2> QED BY <1>1, <1>5, <2>1 DEF Acts, SupervisorStep
<1>6. ASSUME UNCHANGED supVars, file'.access = file.access, \A c \in Core : Alive(c)' => Alive(c)
      PROVE  Published'
  BY <1>6 DEF Published, supVars, Alive
(* A closing watchdog belongs to the supervisor in service; it would not   *)
(* be closing while its core lives.                                        *)
<1>7. ASSUME NEW w \in Core, CloseReport(w) PROVE Published'
  <2>1. UNCHANGED <<supVars, coreState>>
    BY <1>7 DEF CloseReport, coreVars
  <2> SUFFICES ASSUME NEW t \in Sup, pc[t] \in PublishPlaces, Alive(self[t].core) PROVE FALSE
    BY <2>1 DEF Published, supVars, Alive
  <2>2. wpc[w] = "closing"
    BY <1>7 DEF CloseReport
  <2>3. PICK s \in Sup : Attends(s, w)
    BY <2>2 DEF Attended
  <2>4. s = t
    BY <2>3 DEF Attends, AttendPlaces, OwnPlaces, RunPlaces, GuardInv, Solo, Live, PublishPlaces
  <2>5. ArmedFor(w, self[t].core)
    BY <2>3, <2>4 DEF GuardInv, Armed, Serving, Attends, PublishPlaces
  <2> QED BY <2>2, <2>5 DEF ArmedFor
<1>8. ASSUME NEW w \in Core, AwaitState(w) \/ Guard(w) \/ StopTarget(w) PROVE Published'
  BY <1>0, <1>6, <1>8 DEF AwaitState, Guard, StopTarget, coreVars, Alive
<1>9. ASSUME NEW c \in Core, CoreComesUp(c) \/ CoreExits(c) \/ Release(c) PROVE Published'
  BY <1>0, <1>6, <1>9 DEF CoreComesUp, CoreExits, Release, coreVars, Alive
<1>10. CASE LoseHeartbeat \/ ChangeSource \/ StartV2rayN \/ RequestStop
  <2>1. file'.access = file.access
    BY <1>0, <1>10 DEF LoseHeartbeat, ChangeSource, StartV2rayN, RequestStop, Files
  <2> QED BY <1>6, <1>10, <2>1 DEF LoseHeartbeat, ChangeSource, StartV2rayN, RequestStop, world,
      coreVars, Alive
<1>11. CASE UNCHANGED vars
  BY <1>6, <1>11 DEF vars, coreVars, Alive
<1> QED BY <1>2, <1>3, <1>4, <1>5, <1>7, <1>8, <1>9, <1>10, <1>11
    DEF Next, SupervisorStep, WatchdogStep

(* The access file of a core in service stays: no watchdog of an earlier   *)
(* start or rebuild comes late and removes it, provided the guards are not *)
(* raced (NoRace) and no supervisor leaves one behind.                     *)
THEOREM AccessIsPublished == ASSUME NoRace, Attentive PROVE Spec => []AccessPublished
<1> DEFINE Inv == GuardInv /\ Attended /\ Published
<1>1. Init => Inv
  BY GuardInit DEF Init, Attended, Published, PublishPlaces
<1>2. Inv /\ [Next]_vars => Inv'
  <2> SUFFICES ASSUME Inv, [Next]_vars PROVE Inv'
    OBVIOUS
  <2>1. GuardInv'
    BY GuardStep
  <2> QED BY <2>1, AttendedStep, PublishedStep DEF GuardInv
<1>3. Inv => AccessPublished
  BY DEF AccessPublished, Published, Serving, PublishPlaces
<1> QED BY <1>1, <1>2, <1>3, PTL DEF Spec

-----------------------------------------------------------------------------
(* The adapter and the port of an automatic core.                          *)

(* Every supervisor waits for port 1081 and nobody else takes it then.     *)
PortToItself == Manual = {} /\ "v2rayN" \notin Faults

(* Who is to stop a core has one.                                          *)
Equipped ==
    \A s \in Sup :
        /\ pc[s] = "spawnCore" => self[s].watchdog \in Core
        /\ pc[s] \in OwnPlaces => self[s].core \in Core

(* The port says who has the adapter, it is free until the core is up, and *)
(* the core that comes up takes both.                                      *)
Holding ==
    /\ adapter \in Core => port[1081] = adapter
    /\ \A s \in Sup : pc[s] \in {"clearFiles", "spawnWatchdog", "spawnCore"} => port[1081] = None
    /\ \A c \in Core : coreState[c] = "starting" => port[1081] = None
    /\ \A c \in Core : coreState[c] = "up" => adapter = c /\ port[1081] = c

LEMMA EquippedStep ==
  ASSUME Typed, Equipped, [Next]_vars
  PROVE  Equipped'
<1>0. /\ self \in [Sup -> Fields] /\ pc \in [Sup -> Steps] /\ None \notin Core
      /\ born \in 0..MaxCore /\ MaxCore \in Nat
  BY RuntimeAssumption DEF Typed, TypeOK, Core
<1>1. ASSUME NEW s \in Sup, Acts(s),
             pc'[s] = "spawnCore" => self'[s].watchdog \in Core,
             pc'[s] \in OwnPlaces => self'[s].core \in Core
      PROVE  Equipped'
  BY <1>1, OnlySelf DEF Equipped
<1>2. ASSUME NEW s \in Sup, Acts(s), pc[s] \in OwnPlaces, Keeps(s) PROVE Equipped'
  BY <1>1, <1>2 DEF Equipped, Keeps, OwnPlaces, RunPlaces
<1>3. ASSUME NEW s \in Sup, Acts(s), pc'[s] \notin OwnPlaces \cup {"spawnCore"} PROVE Equipped'
  BY <1>1, <1>3
<1>4. ASSUME NEW s \in Sup, NEW from, Raise(s, from), Acts(s) PROVE Equipped'
  <2>1. pc'[s] \in {"cancelWatchdog", "failed"} /\ self'[s].core = self[s].core
    BY <1>0, <1>4 DEF Raise, Go, Fields
  <2>2. pc'[s] = "cancelWatchdog" => self[s].core \in Core
    BY <1>0, <1>4 DEF Raise, Go, Fields
  <2>3. pc'[s] \in OwnPlaces => pc'[s] = "cancelWatchdog"
    BY <2>1 DEF OwnPlaces, RunPlaces
  <2> QED BY <1>1, <1>4, <2>1, <2>2, <2>3
<1>5. ASSUME NEW s \in Sup, StartSteps(s) PROVE Equipped'
  <2>0. Acts(s)
    BY <1>5 DEF Acts, SupervisorStep
  <2>1. CASE Begin(s) \/ Snapshot(s) \/ Prepare(s)
    <3>1. (\E from : Raise(s, from)) \/ pc'[s] \in {"snapshot", "prepare", "clearFiles", "stopV2rayN"}
      BY <1>0, <2>1 DEF Begin, Snapshot, Prepare, Go
    <3> QED BY <1>3, <1>4, <2>0, <3>1 DEF OwnPlaces, RunPlaces
  <2>2. CASE StopV2rayN(s) \/ AwaitPort(s) \/ ClearFiles(s)
    <3>1. (\E from : Raise(s, from)) \/ pc'[s] \in {"awaitPort", "clearFiles", "spawnWatchdog"}
      <4>1. CASE StopV2rayN(s)
        BY <1>0, <4>1 DEF StopV2rayN, Go
      <4>2. CASE AwaitPort(s)
        BY <1>0, <4>2 DEF AwaitPort, Go
      <4>3. CASE ClearFiles(s)
        BY <1>0, <4>3 DEF ClearFiles, Go
      <4> QED BY <2>2, <4>1, <4>2, <4>3
    <3> QED BY <1>3, <1>4, <2>0, <3>1 DEF OwnPlaces, RunPlaces
  <2>3. CASE SpawnWatchdog(s)
    <3>1. pc'[s] = "spawnCore" /\ self'[s].watchdog = born + 1 /\ born < MaxCore
      BY <1>0, <2>3 DEF SpawnWatchdog, Go, Fields
    <3> QED BY <1>0, <1>1, <2>0, <3>1 DEF OwnPlaces, RunPlaces, Core
  <2>4. CASE SpawnCore(s)
    <3>1. CASE Go(s, "spawnCore", "writeState") /\ self' = [self EXCEPT ![s].core = self[s].watchdog]
      <4>1. pc[s] = "spawnCore" /\ pc'[s] = "writeState" /\ self'[s].core = self[s].watchdog
        BY <1>0, <3>1 DEF Go, Fields
      <4> QED BY <1>1, <2>0, <4>1 DEF Equipped
    <3> QED BY <1>4, <2>0, <2>4, <3>1 DEF SpawnCore
  <2>5. CASE WriteState(s) \/ WriteAccess(s) \/ Announce(s)
    <3>1. pc[s] \in OwnPlaces /\ Keeps(s)
      <4>1. CASE WriteState(s)
        BY <1>0, <4>1 DEF WriteState, Go, Keeps, OwnPlaces, Fields
      <4>2. CASE WriteAccess(s)
        BY <1>0, <4>2 DEF WriteAccess, Go, Keeps, OwnPlaces, Fields
      <4>3. CASE Announce(s)
        BY <1>0, <4>3 DEF Announce, Go, Keeps, OwnPlaces, RunPlaces, Fields
      <4> QED BY <2>5, <4>1, <4>2, <4>3
    <3> QED BY <1>2, <2>0, <3>1
  <2>6. CASE AwaitReady(s)
    <3>1. CASE /\ Go(s, "awaitReady", "writeAccess")
               /\ UNCHANGED self
      <4>1. pc[s] \in OwnPlaces /\ Keeps(s)
        BY <1>0, <3>1 DEF Go, Keeps, OwnPlaces, RunPlaces
      <4> QED BY <1>2, <2>0, <4>1
    <3> QED BY <1>4, <2>0, <2>6, <3>1 DEF AwaitReady
  <2>7. CASE PinSnapshot(s)
    <3>1. CASE /\ Go(s, "pin", "announce")
               /\ self' = [self EXCEPT ![s].current = source]
      <4>1. pc[s] \in OwnPlaces /\ Keeps(s)
        BY <1>0, <3>1 DEF Go, Keeps, OwnPlaces, RunPlaces, Fields
      <4> QED BY <1>2, <2>0, <4>1
    <3> QED BY <1>4, <2>0, <2>7, <3>1 DEF PinSnapshot
  <2>8. CASE ConnectivityChecks(s)
    <3>1. CASE /\ Go(s, "checks", "monitor")
               /\ self' = [self EXCEPT ![s].checkpoint = "monitoring",
                                      ![s].pending = None, ![s].count = 0]
      <4>1. pc[s] \in OwnPlaces /\ Keeps(s)
        BY <1>0, <3>1 DEF Go, Keeps, OwnPlaces, RunPlaces, Fields
      <4> QED BY <1>2, <2>0, <4>1
    <3> QED BY <1>4, <2>0, <2>8, <3>1 DEF ConnectivityChecks
  <2> QED BY <1>5, <2>1, <2>2, <2>3, <2>4, <2>5, <2>6, <2>7, <2>8 DEF StartSteps
<1>6. ASSUME NEW s \in Sup, MonitorSteps(s) PROVE Equipped'
  <2>1. pc[s] \in OwnPlaces /\ Keeps(s)
    <3>1. CASE TakeStopRequest(s) \/ NoticeExit(s)
      BY <1>0, <3>1 DEF TakeStopRequest, NoticeExit, Go, Keeps, OwnPlaces, RunPlaces, Fields
    <3>2. CASE Classify(s)
      BY <1>0, <3>2 DEF Classify, Go, Keeps, OwnPlaces, RunPlaces, Fields
    <3>3. CASE Observe(s)
      BY <1>0, <3>3 DEF Observe, Keeps, OwnPlaces, RunPlaces, Fields
    <3> QED BY <1>6, <3>1, <3>2, <3>3 DEF MonitorSteps
  <2> QED BY <1>2, <1>6, <2>1 DEF Acts, SupervisorStep
<1>7. ASSUME NEW s \in Sup, StopSteps(s) PROVE Equipped'
  <2>0. Acts(s)
    BY <1>7 DEF Acts, SupervisorStep
  <2>1. CASE CancelWatchdog(s)
    <3>1. pc[s] \in OwnPlaces /\ Keeps(s)
      BY <1>0, <2>1 DEF CancelWatchdog, Go, Keeps, OwnPlaces, Fields
    <3> QED BY <1>2, <2>0, <3>1
  <2>2. CASE Terminate(s) \/ AwaitWatchdog(s) \/ VerifyDown(s) \/ Stopped(s) \/ Failed(s)
             \/ DeleteFiles(s)
    <3>1. pc'[s] \in {"awaitWatchdog", "verifyDown", "snapshot", "stopped", "failed",
                      "deleteFiles", "exited"}
      BY <1>0, <2>2 DEF Terminate, AwaitWatchdog, VerifyDown, Return, Stopped, Failed,
          DeleteFiles, Go
    <3> QED BY <1>3, <2>0, <3>1 DEF OwnPlaces, RunPlaces
  <2> QED BY <1>7, <2>1, <2>2 DEF StopSteps
<1>8. ASSUME NEW s \in Sup, Launch(s) \/ Crash(s) PROVE Equipped'
  <2>1. pc'[s] \in {"init", "crashed"}
    BY <1>0, <1>8 DEF Launch, Crash, Go
  <2> QED BY <1>3, <1>8, <2>1 DEF Acts, OwnPlaces, RunPlaces
<1>9. ASSUME UNCHANGED supVars PROVE Equipped'
  BY <1>9 DEF Equipped, supVars
<1>10. ASSUME NEW c \in Core, WatchdogStep(c) \/ CoreComesUp(c) \/ CoreExits(c) \/ Release(c)
       PROVE  Equipped'
  BY <1>9, <1>10 DEF WatchdogStep, AwaitState, Guard, StopTarget, CloseReport, CoreComesUp,
      CoreExits, Release
<1>11. CASE LoseHeartbeat \/ ChangeSource \/ StartV2rayN \/ RequestStop
  BY <1>9, <1>11 DEF LoseHeartbeat, ChangeSource, StartV2rayN, RequestStop
<1>12. CASE UNCHANGED vars
  BY <1>9, <1>12 DEF vars
<1> QED BY <1>5, <1>6, <1>7, <1>8, <1>10, <1>11, <1>12 DEF Next, SupervisorStep

LEMMA HoldingStep ==
  ASSUME Orderly, PortToItself, Typed, Solo, Owned, Holding, [Next]_vars
  PROVE  Holding'
<1>0. /\ adapter \in Core \cup {None} /\ port \in [Ports -> Core \cup {Xray, None}]
      /\ coreState \in [Core -> {"none", "starting", "up", "dead"}] /\ 1081 \in Ports
      /\ Xray \notin Core /\ None \notin Core /\ pc \in [Sup -> Steps] /\ Xray # None
  BY RuntimeAssumption DEF Typed, TypeOK, Core, Ports
<1> DEFINE Clear == {"clearFiles", "spawnWatchdog", "spawnCore"}
(* Nothing but the place of a supervisor changes.                          *)
<1>1. ASSUME UNCHANGED <<adapter, port, coreState>>,
             \A s \in Sup : pc'[s] \in Clear => pc[s] \in Clear \/ port[1081] = None
      PROVE  Holding'
  BY <1>1 DEF Holding
<1>2. ASSUME NEW s \in Sup, Acts(s), UNCHANGED <<adapter, port, coreState>>,
             pc'[s] \in Clear => pc[s] \in Clear \/ port[1081] = None
      PROVE  Holding'
  BY <1>1, <1>2, OnlySelf
(* A core comes to an end, if anything.                                    *)
<1>3. ASSUME UNCHANGED <<adapter, port>>, \A s \in Sup : pc'[s] \in Clear => pc[s] \in Clear,
             \A c \in Core : coreState'[c] \in {coreState[c], "dead"}
      PROVE  Holding'
  BY <1>3 DEF Holding
<1>4. ASSUME NEW s \in Sup, StartSteps(s), ~StopV2rayN(s), ~SpawnCore(s) PROVE Holding'
  <2>1. UNCHANGED <<adapter, port, coreState>>
    BY <1>4 DEF StartSteps, Begin, Snapshot, Prepare, AwaitPort, ClearFiles, SpawnWatchdog,
        WriteState, AwaitReady, WriteAccess, PinSnapshot, Announce, ConnectivityChecks, world,
        netVars, coreVars
  <2>2. pc'[s] \in Clear => pc[s] \in Clear \/ port[1081] = None
    <3>1. ASSUME NEW from, Raise(s, from) PROVE pc'[s] \notin Clear
      BY <1>0, <3>1 DEF Raise, Go
    <3>2. CASE AwaitPort(s)
      BY <3>1, <3>2 DEF AwaitPort
    <3>3. CASE Begin(s) \/ Snapshot(s) \/ Prepare(s)
      BY <1>0, <3>1, <3>3 DEF Begin, Snapshot, Prepare, PortToItself, Go
    <3>4. CASE ClearFiles(s) \/ SpawnWatchdog(s)
      BY <3>4 DEF ClearFiles, SpawnWatchdog, Go
    <3>5. CASE WriteState(s)
      BY <1>0, <3>5 DEF WriteState, Go
    <3>7. CASE AwaitReady(s)
      BY <1>0, <3>1, <3>7 DEF AwaitReady, Go
    <3>8. CASE WriteAccess(s)
      BY <1>0, <3>8 DEF WriteAccess, Go
    <3>6. CASE PinSnapshot(s) \/ Announce(s) \/ ConnectivityChecks(s)
      BY <1>0, <3>1, <3>6 DEF PinSnapshot, Announce, ConnectivityChecks, Go
    <3> QED BY <1>4, <3>2, <3>3, <3>4, <3>5, <3>6, <3>7, <3>8 DEF StartSteps
  <2> QED BY <1>2, <1>4, <2>1, <2>2 DEF Acts, SupervisorStep
<1>5. ASSUME NEW s \in Sup, StopV2rayN(s) PROVE Holding'
  <2>1. \A t \in Sup : pc'[t] \in Clear => pc[t] \in Clear
    BY <1>0, <1>5 DEF StopV2rayN, Go
  <2>2. UNCHANGED <<adapter, coreState>>
    BY <1>5 DEF StopV2rayN, coreVars
  <2>3. port'[1081] = port[1081] \/ (port[1081] = Xray /\ port'[1081] = None)
    <3>1. port'[1081] = IF v2rayN = "xray" /\ port[1081] = Xray THEN None ELSE port[1081]
      BY <1>0, <1>5 DEF StopV2rayN
    <3> QED BY <3>1
  <2> QED BY <1>0, <2>1, <2>2, <2>3 DEF Holding
(* No other core is alive: the port is free for this one.                  *)
<1>6. ASSUME NEW s \in Sup, SpawnCore(s) PROVE Holding'
  <2>1. pc[s] = "spawnCore" /\ UNCHANGED <<adapter, port>> /\ pc'[s] \notin Clear
    BY <1>0, <1>6 DEF SpawnCore, Raise, Go, netVars
  <2>2. \A c \in Core : ~Alive(c)
    BY <2>1 DEF Owned, Owns, Solo, Live, OwnPlaces, RunPlaces
  <2>3. \A t \in Sup : pc'[t] \in Clear => pc[t] \in Clear
    <3>1. Acts(s)
      BY <1>6 DEF Acts, SupervisorStep, StartSteps
    <3> QED BY <2>1, <3>1, OnlySelf
  <2>4. port[1081] = None /\ \A c \in Core : coreState'[c] \in {coreState[c], "starting"}
    BY <1>0, <1>6, <2>1 DEF SpawnCore, Holding
  <2> QED BY <1>0, <2>1, <2>2, <2>3, <2>4 DEF Holding, Alive
<1>7. ASSUME NEW s \in Sup, MonitorSteps(s) PROVE Holding'
  <2>1. UNCHANGED <<adapter, port, coreState>> /\ pc'[s] \notin Clear
    BY <1>0, <1>7 DEF MonitorSteps, TakeStopRequest, NoticeExit, Classify, Observe, Go, world,
        netVars, coreVars
  <2> QED BY <1>2, <1>7, <2>1 DEF Acts, SupervisorStep
<1>8. ASSUME NEW s \in Sup, StopSteps(s) PROVE Holding'
  <2>1. pc'[s] \notin Clear
    BY <1>0, <1>8 DEF StopSteps, CancelWatchdog, Terminate, AwaitWatchdog, VerifyDown, Return,
        Stopped, Failed, DeleteFiles, Go
  <2>2. CASE Terminate(s)
    <3>1. UNCHANGED <<adapter, port>> /\ \A c \in Core : coreState'[c] \in {coreState[c], "dead"}
      BY <1>0, <2>2 DEF Terminate, netVars
    <3>2. \A t \in Sup : pc'[t] \in Clear => pc[t] \in Clear
      BY <1>8, <2>1, OnlySelf DEF Acts, SupervisorStep
    <3> QED BY <1>3, <3>1, <3>2
  <2>3. CASE ~Terminate(s)
    <3>1. UNCHANGED <<adapter, port, coreState>>
      BY <1>8, <2>3 DEF StopSteps, CancelWatchdog, AwaitWatchdog, VerifyDown, Stopped, Failed,
          DeleteFiles, world, netVars, coreVars
    <3> QED BY <1>2, <1>8, <2>1, <3>1 DEF Acts, SupervisorStep
  <2> QED BY <2>2, <2>3
<1>9. ASSUME NEW s \in Sup, Launch(s) \/ Crash(s) PROVE Holding'
  <2>1. UNCHANGED <<adapter, port, coreState>> /\ pc'[s] \notin Clear
    BY <1>0, <1>9 DEF Launch, Crash, Go, world, netVars, coreVars
  <2> QED BY <1>2, <1>9, <2>1 DEF Acts
<1>10. ASSUME NEW c \in Core, CoreComesUp(c) PROVE Holding'
  <2>1. coreState[c] = "starting" /\ UNCHANGED pc
    BY <1>10 DEF CoreComesUp, supVars
  <2>2. port[1081] = None /\ adapter = None
    BY <1>0, <2>1 DEF Holding
  <2>3. PICK s \in Sup : Owns(s, c)
    BY <2>1 DEF Owned, Alive
  <2>4. \A d \in Core : Alive(d) => d = c
    BY <2>3 DEF Owned, Owns, Solo, Live, OwnPlaces, RunPlaces
  <2>5. \A t \in Sup : pc[t] \notin Clear
    BY <2>3 DEF Owns, Solo, Live, OwnPlaces, RunPlaces
  <2>6. CASE file.config = None
    <3>1. UNCHANGED <<adapter, port>> /\ coreState' = [coreState EXCEPT ![c] = "dead"]
      BY <1>10, <2>6 DEF CoreComesUp
    <3> QED BY <1>0, <1>3, <2>1, <3>1
  <2>7. CASE file.config # None
    <3>1. /\ adapter' = c /\ coreState' = [coreState EXCEPT ![c] = "up"]
          /\ port' = [port EXCEPT ![1081] = c]
      BY <1>0, <1>10, <2>2, <2>7 DEF CoreComesUp, MixedPort, PortToItself
    <3>2. port'[1081] = c /\ coreState'[c] = "up"
      BY <1>0, <3>1
    <3>3. \A d \in Core : coreState'[d] \in {"starting", "up"} => d = c
      BY <1>0, <2>4, <3>1 DEF Alive
    <3> QED BY <1>0, <2>1, <2>5, <3>1, <3>2, <3>3 DEF Holding
  <2> QED BY <2>6, <2>7
<1>11. ASSUME NEW c \in Core, Release(c) PROVE Holding'
  <2>1. UNCHANGED <<pc, coreState>> /\ coreState[c] = "dead"
    BY <1>11 DEF Release, supVars, coreVars
  <2>2. /\ adapter' = IF adapter = c THEN None ELSE adapter
        /\ port'[1081] = IF port[1081] = c THEN None ELSE port[1081]
    BY <1>0, <1>11 DEF Release
  <2> QED BY <1>0, <2>1, <2>2 DEF Holding
<1>12. ASSUME NEW c \in Core, CoreExits(c) \/ WatchdogStep(c) PROVE Holding'
  <2>1. UNCHANGED <<adapter, port, pc>>
    BY <1>12 DEF CoreExits, WatchdogStep, AwaitState, Guard, StopTarget, CloseReport, netVars, supVars
  <2>2. \A d \in Core : coreState'[d] \in {coreState[d], "dead"}
    BY <1>0, <1>12 DEF CoreExits, WatchdogStep, AwaitState, Guard, StopTarget, CloseReport, coreVars
  <2> QED BY <1>3, <2>1, <2>2
<1>13. CASE LoseHeartbeat \/ ChangeSource \/ StartV2rayN \/ RequestStop
  BY <1>1, <1>13 DEF LoseHeartbeat, ChangeSource, StartV2rayN, RequestStop, PortToItself, world,
      netVars, coreVars, supVars
<1>14. CASE UNCHANGED vars
  BY <1>1, <1>14 DEF vars, netVars, coreVars, supVars
<1> QED BY <1>4, <1>5, <1>6, <1>7, <1>8, <1>9, <1>10, <1>11, <1>12, <1>13, <1>14
    DEF Next, SupervisorStep

(* Readiness is not read off the resources of somebody else: in an orderly *)
(* series of automatic starts, as long as the user does not start v2rayN   *)
(* over it, the core in service has the adapter and port 1081 to itself,   *)
(* however the cores before it ended.                                      *)
THEOREM CoreServesOnItsOwn ==
  ASSUME Orderly, PortToItself PROVE Spec => []ServesOnItsOwn
<1> DEFINE Inv == Typed /\ Solo /\ Owned /\ Equipped /\ Holding
<1>1. Init => Inv
  <2> SUFFICES ASSUME Init PROVE Solo /\ Owned /\ Equipped /\ Holding
    BY TypedInit
  <2>1. Equipped
    BY DEF Init, Equipped, OwnPlaces, RunPlaces
  <2> QED BY <2>1, RuntimeAssumption DEF Init, Solo, Live, Owned, Alive, Holding, Core
<1>2. Inv /\ [Next]_vars => Inv'
  BY TypedStep, SoloStep, OwnedStep, EquippedStep, HoldingStep
<1>3. Inv => ServesOnItsOwn
  BY DEF ServesOnItsOwn, Serving, Equipped, Holding, OwnPlaces, RunPlaces, MixedPort, PortToItself
<1> QED BY <1>1, <1>2, <1>3, PTL DEF Spec

=============================================================================
