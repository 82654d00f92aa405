--------------------------- MODULE WatchdogTimer ---------------------------
(***************************************************************************)
(* The timing contract between a supervisor (mihomo_supervisor.py) and the *)
(* external watchdog (tun-watchdog.ps1) that it starts beside the core.    *)
(* The only link between them is a heartbeat file: the supervisor rewrites *)
(* it, the watchdog compares its LastWriteTime with the wall clock.        *)
(*                                                                         *)
(* Time is counted in ticks of the wall clock.  While the machine is awake *)
(* both processes keep their pace: Tick is disabled when one of them is    *)
(* due.  When the machine sleeps (Nap) the wall clock jumps and neither    *)
(* runs, so the heartbeat looks old to whoever runs first after the resume.*)
(***************************************************************************)
EXTENDS Integers

CONSTANTS
    Stale,          \* -HeartbeatStaleSeconds: older than this is not fresh
    Confirm,        \* -HeartbeatConfirmSeconds: stale this long is a loss
    StartupGuard,   \* -StartupGuardSeconds: how long to wait for the state file
    Timeout,        \* -TimeoutSeconds: how long one watchdog guards at most
    BeatGap,        \* awake ticks between two successful heartbeat writes
    PollGap,        \* awake ticks between two looks of the watchdog
    WriteGap,       \* awake ticks from the watchdog's start to the state file
    MinAwake,       \* awake ticks between two suspensions of the machine
    MaxNap,         \* the longest suspension (bound)
    Horizon         \* the last tick that is looked at (bound)

(* Periods are positive; the heartbeat worker (3 s) and the watchdog's     *)
(* looks (0.3 s) are faster than the windows that judge them (20 s, 30 s,  *)
(* and 45 s for the start).                                                *)
ASSUME PeriodAssumption ==
    /\ Stale \in Nat /\ Confirm \in Nat /\ StartupGuard \in Nat /\ Timeout \in Nat
    /\ BeatGap \in Nat \ {0} /\ PollGap \in Nat \ {0} /\ WriteGap \in Nat \ {0}
    /\ MinAwake \in Nat /\ MaxNap \in Nat /\ Horizon \in Nat
    /\ BeatGap <= Stale /\ BeatGap < Confirm /\ PollGap <= Stale
    /\ WriteGap + PollGap < StartupGuard

Never == -1         \* $staleObservedAt = $null

VARIABLES
    now,            \* the wall clock
    wokeAt,         \* when the machine last resumed (its start counts as one)
    supervisor,     \* "starting", "beating", or "gone" (stopped or vanished)
    beatAt,         \* LastWriteTime of the heartbeat file
    beatTimer,      \* awake ticks since that write
    stateFile,      \* the state file that names the core exists
    cancelFile,     \* the supervisor has asked the watchdog to stand down
    core,           \* "running" or "dead"
    wd,             \* where the watchdog script is
    observedAt,     \* $now of the watchdog's last look
    pollTimer,      \* awake ticks since that look
    staleAt,        \* $staleObservedAt
    deadline,       \* $deadline, set when the guard loop is entered
    armed,          \* $state is not null: the watchdog knows which core it guards
    cancelled,      \* $cancelled
    heartbeatExpired,
    forcedStop

clockVars == <<now, wokeAt>>
supVars   == <<supervisor, beatAt, beatTimer, stateFile, cancelFile>>
loopVars  == <<observedAt, pollTimer, staleAt, deadline, armed>>
endVars   == <<cancelled, heartbeatExpired, forcedStop>>
vars      == <<clockVars, supVars, core, wd, loopVars, endVars>>

TypeOK ==
    /\ now \in 0..Horizon /\ wokeAt \in 0..Horizon
    /\ supervisor \in {"starting", "beating", "gone"}
    /\ beatAt \in 0..Horizon /\ beatTimer \in 0..Horizon
    /\ stateFile \in BOOLEAN /\ cancelFile \in BOOLEAN
    /\ core \in {"running", "dead"}
    /\ wd \in {"waiting", "guarding", "finishing", "done"}
    /\ observedAt \in 0..Horizon /\ pollTimer \in 0..Horizon
    /\ staleAt \in {Never} \cup 0..Horizon
    /\ deadline \in Nat
    /\ armed \in BOOLEAN /\ cancelled \in BOOLEAN
    /\ heartbeatExpired \in BOOLEAN /\ forcedStop \in BOOLEAN

(* _start_core has touched the heartbeat and started watchdog and core.    *)
Init ==
    /\ now = 0 /\ wokeAt = 0
    /\ supervisor = "starting" /\ beatAt = 0 /\ beatTimer = 0
    /\ stateFile = FALSE /\ cancelFile = FALSE
    /\ core = "running"
    /\ wd = "waiting"
    /\ observedAt = 0 /\ pollTimer = 0 /\ staleAt = Never /\ deadline = 0
    /\ armed = FALSE
    /\ cancelled = FALSE /\ heartbeatExpired = FALSE /\ forcedStop = FALSE

-----------------------------------------------------------------------------
(* The machine.                                                            *)

(* One awake tick: nobody who is due may be overtaken by the clock.        *)
Tick ==
    /\ now < Horizon
    /\ wd \in {"waiting", "guarding"}
    /\ pollTimer < PollGap
    /\ supervisor = "starting" => beatTimer < WriteGap
    /\ supervisor = "beating"  => beatTimer < BeatGap
    /\ now' = now + 1 /\ beatTimer' = beatTimer + 1 /\ pollTimer' = pollTimer + 1
    /\ UNCHANGED <<wokeAt, supervisor, beatAt, stateFile, cancelFile, core, wd,
                   observedAt, staleAt, deadline, armed, endVars>>

(* The machine sleeps for d ticks: the wall clock runs, the processes do   *)
(* not, and their relative waits (Event.wait, Start-Sleep) stand still.    *)
Nap(d) ==
    /\ now + d <= Horizon
    /\ wd \in {"waiting", "guarding"}
    /\ now - wokeAt >= MinAwake
    /\ now' = now + d /\ wokeAt' = now + d
    /\ UNCHANGED <<supVars, core, wd, loopVars, endVars>>

-----------------------------------------------------------------------------
(* The supervisor.                                                         *)

(* The state file is complete, the heartbeat worker runs and the readiness *)
(* loop has touched the heartbeat once more.                               *)
StateWritten ==
    /\ supervisor = "starting"
    /\ supervisor' = "beating" /\ stateFile' = TRUE
    /\ beatAt' = now /\ beatTimer' = 0
    /\ UNCHANGED <<clockVars, cancelFile, core, wd, loopVars, endVars>>

(* A successful write of the heartbeat.  A failed one is swallowed and     *)
(* leaves no trace: BeatGap bounds how long failures may go on.            *)
Beat ==
    /\ supervisor = "beating"
    /\ beatTimer > 0
    /\ beatAt' = now /\ beatTimer' = 0
    /\ UNCHANGED <<clockVars, supervisor, stateFile, cancelFile, core, wd, loopVars, endVars>>

(* The supervisor process vanishes; its worker is a daemon thread of it.   *)
Vanish ==
    /\ supervisor # "gone"
    /\ supervisor' = "gone"
    /\ UNCHANGED <<clockVars, beatAt, beatTimer, stateFile, cancelFile, core, wd,
                   loopVars, endVars>>

(* _stop_core: write the cancel file, stop the worker; the core follows.   *)
Cancel ==
    /\ supervisor = "beating"
    /\ supervisor' = "gone" /\ cancelFile' = TRUE
    /\ UNCHANGED <<clockVars, beatAt, beatTimer, stateFile, core, wd, loopVars, endVars>>

(* The core ends: terminated by its supervisor, or by itself.              *)
CoreEnds ==
    /\ core = "running"
    /\ core' = "dead"
    /\ UNCHANGED <<clockVars, supVars, wd, loopVars, endVars>>

-----------------------------------------------------------------------------
(* The watchdog.                                                           *)

(* Mutant: the file is not looked for again once the guard time has begun  *)
(* to run out: half of it must be enough.                                  *)
AwaitStateHalf ==
    /\ wd = "waiting"
    /\ pollTimer > 0 \/ now = 0
    /\ observedAt' = now /\ pollTimer' = 0
    /\ \/ /\ 2 * now >= StartupGuard \/ cancelFile
          /\ wd' = "finishing" /\ cancelled' = cancelFile
          /\ UNCHANGED <<deadline, armed>>
       \/ /\ 2 * now < StartupGuard /\ ~cancelFile /\ stateFile
          /\ wd' = "guarding" /\ armed' = TRUE /\ deadline' = now + Timeout
          /\ UNCHANGED cancelled
       \/ /\ 2 * now < StartupGuard /\ ~cancelFile /\ ~stateFile
          /\ UNCHANGED <<wd, armed, deadline, cancelled>>
    /\ UNCHANGED <<clockVars, supVars, core, staleAt, heartbeatExpired, forcedStop>>

(* One round of the startup loop.  The loop tests the clock after its      *)
(* sleep, before it looks at the files again.                              *)
AwaitState ==
    /\ wd = "waiting"
    /\ pollTimer > 0 \/ now = 0
    /\ observedAt' = now /\ pollTimer' = 0
    /\ \/ /\ now >= StartupGuard \/ cancelFile
          /\ wd' = "finishing" /\ cancelled' = cancelFile
          /\ UNCHANGED <<deadline, armed>>
       \/ /\ now < StartupGuard /\ ~cancelFile /\ stateFile
          /\ wd' = "guarding" /\ armed' = TRUE /\ deadline' = now + Timeout
          /\ UNCHANGED cancelled
       \/ /\ now < StartupGuard /\ ~cancelFile /\ ~stateFile
          /\ UNCHANGED <<wd, armed, deadline, cancelled>>
    /\ UNCHANGED <<clockVars, supVars, core, staleAt, heartbeatExpired, forcedStop>>

HeartbeatFresh == now - beatAt <= Stale

(* The guard loop leaves because the core is gone or a cancel file exists. *)
LeaveGuard ==
    /\ core = "dead" \/ cancelFile
    /\ wd' = "finishing"
    /\ cancelled' = (core = "running")
    /\ UNCHANGED <<staleAt, heartbeatExpired>>

(* Mutant: a fresh heartbeat does not forget an earlier stale one.         *)
JudgeUnforgiving ==
    LET expired == ~HeartbeatFresh /\ staleAt # Never /\ now - staleAt >= Confirm
    IN  /\ core = "running" /\ ~cancelFile
        /\ staleAt' = IF ~HeartbeatFresh /\ staleAt = Never THEN now ELSE staleAt
        /\ heartbeatExpired' = expired
        /\ wd' = IF expired \/ now >= deadline THEN "finishing" ELSE "guarding"
        /\ UNCHANGED cancelled

(* Mutant: the confirmation window begins anew at every stale look.        *)
JudgeForgetful ==
    LET expired == ~HeartbeatFresh /\ staleAt # Never /\ now - staleAt >= Confirm
    IN  /\ core = "running" /\ ~cancelFile
        /\ staleAt' = IF HeartbeatFresh THEN Never ELSE now
        /\ heartbeatExpired' = expired
        /\ wd' = IF expired \/ now >= deadline THEN "finishing" ELSE "guarding"
        /\ UNCHANGED cancelled

(* Mutant: staleness is dated back to before the last heartbeat.           *)
JudgeFromEpoch ==
    LET expired == ~HeartbeatFresh /\ staleAt # Never /\ now - staleAt >= Confirm
    IN  /\ core = "running" /\ ~cancelFile
        /\ staleAt' = IF HeartbeatFresh THEN Never
                      ELSE IF staleAt = Never THEN beatAt - Stale ELSE staleAt
        /\ heartbeatExpired' = expired
        /\ wd' = IF expired \/ now >= deadline THEN "finishing" ELSE "guarding"
        /\ UNCHANGED cancelled

(* The guard loop judges the heartbeat, then its own deadline.             *)
JudgeHeartbeat ==
    LET expired == ~HeartbeatFresh /\ staleAt # Never /\ now - staleAt >= Confirm
    IN  /\ core = "running" /\ ~cancelFile
        /\ staleAt' = IF HeartbeatFresh THEN Never
                      ELSE IF staleAt = Never THEN now ELSE staleAt
        /\ heartbeatExpired' = expired
        /\ wd' = IF expired \/ now >= deadline THEN "finishing" ELSE "guarding"
        /\ UNCHANGED cancelled

(* One round of the guard loop.                                            *)
Guard ==
    /\ wd = "guarding"
    /\ observedAt' = now /\ pollTimer' = 0
    /\ LeaveGuard \/ JudgeHeartbeat
    /\ UNCHANGED <<clockVars, supVars, core, deadline, armed, forcedStop>>

(* After the loops: stop the very core of the state file unless cancelled. *)
Finish ==
    /\ wd = "finishing"
    /\ wd' = "done"
    /\ LET kill == ~cancelled /\ armed /\ core = "running"
       IN  /\ forcedStop' = kill
           /\ core' = IF kill THEN "dead" ELSE core
    /\ UNCHANGED <<clockVars, supVars, loopVars, cancelled, heartbeatExpired>>

-----------------------------------------------------------------------------
Next ==
    \/ Tick
    \/ \E d \in 1..MaxNap : Nap(d)
    \/ StateWritten \/ Beat \/ Vanish \/ Cancel
    \/ CoreEnds
    \/ AwaitState \/ Guard \/ Finish

Spec == Init /\ [][Next]_vars

-----------------------------------------------------------------------------
(* Properties.                                                             *)

(* Between two suspensions there is time for one heartbeat and one look.   *)
RestedMachine == MinAwake > BeatGap + PollGap /\ MinAwake > WriteGap + PollGap

(* The watchdog stops a core by force before its own deadline only when    *)
(* the supervisor's heartbeat has really ended: slow checks, failed writes *)
(* and one suspension of the machine are not enough.                       *)
HealthyCoreKept == forcedStop /\ observedAt < deadline => supervisor = "gone"

(* While the supervisor serves, the watchdog of its core is still at its   *)
(* post: it has neither given up waiting for the state file nor left.      *)
WatchKept ==
    supervisor = "beating" /\ core = "running" /\ (armed => observedAt < deadline)
        => wd \in {"waiting", "guarding"}

(* A core whose supervisor has vanished is not left alone for longer than  *)
(* the two windows and two looks, counted in time the machine was awake.   *)
LossBound == Stale + Confirm + 2 * PollGap
LossNoticed == wd = "guarding" => beatTimer <= LossBound

-----------------------------------------------------------------------------
(* The inductive invariants behind these properties.                       *)

(* How the timers of awake time relate to the wall clock: they never run   *)
(* ahead of it, and agree with it since the last resume.                   *)
Clocks ==
    /\ wokeAt <= now /\ beatAt <= now /\ observedAt <= now
    /\ beatTimer <= now - beatAt /\ pollTimer <= now - observedAt
    /\ beatAt >= wokeAt => beatTimer = now - beatAt
    /\ beatAt < wokeAt => beatTimer >= now - wokeAt
    /\ observedAt >= wokeAt => pollTimer = now - observedAt
    /\ wd \in {"waiting", "guarding"} => pollTimer <= PollGap
    /\ supervisor = "beating" => beatTimer <= BeatGap

(* What each phase of the watchdog knows.                                  *)
Phases ==
    /\ wd = "waiting" => ~armed /\ staleAt = Never
    /\ wd = "guarding" => armed
    /\ armed => stateFile
    /\ supervisor = "beating" => stateFile
    /\ wd # "done" => ~forcedStop
    /\ cancelFile => supervisor = "gone"
    /\ supervisor = "starting" =>
          /\ wd = "waiting" /\ ~stateFile
          /\ wokeAt = 0 /\ now <= WriteGap /\ beatTimer = now /\ beatAt = 0

(* A stale observation of a serving supervisor is younger than the resume  *)
(* that explains it, and forgotten before the next suspension.             *)
StaleExplained ==
    /\ wd = "waiting" /\ supervisor = "beating" => wokeAt = 0 /\ observedAt <= WriteGap
    /\ wd = "guarding" /\ supervisor = "beating" /\ staleAt # Never =>
          wokeAt <= staleAt /\ staleAt <= observedAt /\ observedAt <= wokeAt + BeatGap

(* Whoever leaves his post, or kills, has a reason.                        *)
Reasons ==
    /\ wd \in {"finishing", "done"} /\ supervisor = "beating" /\ core = "running" =>
          armed /\ observedAt >= deadline
    /\ forcedStop => supervisor = "gone" \/ observedAt >= deadline

KeepInv == TypeOK /\ Clocks /\ Phases /\ StaleExplained /\ Reasons

(* How old, in awake time, the last heartbeat was at the last look.        *)
LossInv ==
    /\ TypeOK /\ Clocks
    /\ wd = "waiting" => staleAt = Never
    /\ supervisor = "starting" => ~stateFile
    /\ wd = "waiting" /\ stateFile => beatTimer <= pollTimer
    /\ wd = "guarding" /\ staleAt = Never => beatTimer <= pollTimer + Stale
    /\ wd = "guarding" /\ staleAt # Never =>
          /\ staleAt <= observedAt /\ observedAt - staleAt < Confirm
          /\ beatTimer <= pollTimer + Stale + PollGap + (observedAt - staleAt)

=============================================================================
