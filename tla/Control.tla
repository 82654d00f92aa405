------------------------------ MODULE Control ------------------------------
(***************************************************************************)
(* Starting and stopping: the control script (mihomo-tun.ps1), the cleanup *)
(* that it falls back on (cleanup-tun.ps1), and the window that calls them *)
(* (tun_gui/app.py), against supervisors that follow Lifecycle.            *)
(*                                                                         *)
(* A caller works through one job at a time: the window keeps to that with *)
(* _busy, a terminal because the script is in the foreground.  Jobs of     *)
(* different callers, and the supervisors, interleave.  Of a core only     *)
(* what the script can tell is kept: whether its process lives, whether it *)
(* listens, and who holds the adapter.                                     *)
(***************************************************************************)
EXTENDS Naturals

CONSTANTS
    Sup,            \* the supervisor processes (a bound on how many starts)
    Caller,         \* who runs the script: the window, terminals
    Window,         \* the one of them that is the window
    Action,         \* the jobs they run, a subset of Jobs
    Faults,         \* what may go wrong, a subset of FaultKinds
    None

(* Update is the window's "replace and restart" of the route manager.      *)
Jobs == {"Start", "Stop", "Restart", "Update"}

FaultKinds == {
    "crash",        \* a supervisor process is killed
    "coreExit",     \* a core ends by itself
    "raise",        \* a supervisor fails
    "follow",       \* it is not a manual one, and follows a network change
    "deadline",     \* 100 s pass before a supervisor has answered
    "declined",     \* the user does not grant the elevation
    "route",        \* the update of v2rayN's route raises
    "kill"}         \* Stop-Process leaves the core alive

ASSUME ControlAssumption ==
    /\ Window \in Caller /\ Action \subseteq Jobs /\ Faults \subseteq FaultKinds
    /\ None \notin Sup

VARIABLES
    phase, status, stop,    \* of Lifecycle
    core,           \* the core of each supervisor: "none", "starting", "up", "dead"
    named,          \* the supervisor whose core the state file names
    adapter,        \* the supervisor whose core holds the TUN adapter
    job,            \* what each caller runs, see Job
    step            \* where each caller is in it

supVars    == <<phase, status, stop, core, named, adapter>>
callerVars == <<job, step>>
vars       == <<supVars, callerVars>>

Job == [
    action   : Jobs,
    mine     : Sup \cup {None},     \* the supervisor that Start has started
    refused  : BOOLEAN,             \* $safetyRefused
    stopCode : 0..5,                \* the exit codes of the two scripts
    code     : 0..5]

NewJob(a) == [action |-> a, mine |-> None, refused |-> FALSE, stopCode |-> 0, code |-> 0]

Steps == {"idle", "elevate", "route", "elevateStart", "existing", "rotate", "clear",
          "spawn", "await", "look", "ask", "awaitStop", "cleanup", "release", "done"}

Exists(s) == s \in Sup /\ phase[s] \notin {"idle", "gone"}
Alive(s)  == s \in Sup /\ core[s] \in {"starting", "up"}

Runtime == INSTANCE Lifecycle

Init ==
    /\ Runtime!Init
    /\ core = [s \in Sup |-> "none"] /\ named = None /\ adapter = None
    /\ job = [c \in Caller |-> NewJob("Stop")]
    /\ step = [c \in Caller |-> "idle"]

-----------------------------------------------------------------------------
(* The script.                                                             *)

Go(c, from, to) == step[c] = from /\ step' = [step EXCEPT ![c] = to]

(* The stop of c is over with an exit code.  A larger job goes on to its   *)
(* start; only Restart looks at the code.                                  *)
AfterStop(c, code) == CASE job[c].action = "Restart" -> IF code = 0 THEN "existing" ELSE "done"
                        [] job[c].action = "Update"  -> "elevateStart"
                        [] OTHER                     -> "done"

StopExits(c, from, code) ==
    /\ Go(c, from, AfterStop(c, code))
    /\ job' = [job EXCEPT ![c].stopCode = code, ![c].code = code]

StartExits(c, from, code) ==
    /\ Go(c, from, "done")
    /\ job' = [job EXCEPT ![c].code = code]

(* Start: a running supervisor is left alone.                              *)
Existing(c) ==
    LET there == status.state = "running" /\ Exists(status.by) IN
    /\ \/ there /\ StartExits(c, "existing", 0)
       \/ ~there /\ Go(c, "existing", "rotate") /\ UNCHANGED job
    /\ UNCHANGED supVars

Rotate(c) ==
    /\ Go(c, "rotate", "clear")
    /\ status' = [state |-> "absent", by |-> None]
    /\ UNCHANGED <<phase, stop, core, named, adapter, job>>

ClearStop(c) ==
    /\ Go(c, "clear", "spawn")
    /\ stop' = FALSE
    /\ UNCHANGED <<phase, status, core, named, adapter, job>>

Spawn(c) ==
    /\ Go(c, "spawn", "await")
    /\ \E s \in Sup :
          /\ Runtime!Launch(s)
          /\ job' = [job EXCEPT ![c].mine = s]
    /\ UNCHANGED <<core, named, adapter>>

(* Mutant: wait as long as it takes.                                       *)
AwaitForEver(c) ==
    LET told == status.by = job[c].mine IN
    /\ step[c] = "await"
    /\ \/ told /\ status.state = "running" /\ StartExits(c, "await", 0)
       \/ told /\ status.state = "failed" /\ StartExits(c, "await", 2)
       \/ ~Exists(job[c].mine) /\ StartExits(c, "await", 2)
    /\ UNCHANGED supVars

(* Mutant: a supervisor that starts will run.                              *)
AwaitTheStart(c) ==
    LET told == status.by = job[c].mine IN
    /\ step[c] = "await"
    /\ \/ told /\ status.state \in {"starting", "running"} /\ StartExits(c, "await", 0)
       \/ told /\ status.state = "failed" /\ StartExits(c, "await", 2)
       \/ ~Exists(job[c].mine) /\ StartExits(c, "await", 2)
    /\ UNCHANGED supVars

(* Until the supervisor says that it runs or has failed, or is gone.  The  *)
(* 100 s are enough for its first word, not for all of its start.          *)
Await(c) ==
    LET told == status.by = job[c].mine IN
    /\ step[c] = "await"
    /\ \/ told /\ status.state = "running" /\ StartExits(c, "await", 0)
       \/ told /\ status.state = "failed" /\ StartExits(c, "await", 2)
       \/ /\ ~(told /\ status.state \in {"running", "failed"})
          /\ \/ ~Exists(job[c].mine) /\ StartExits(c, "await", 2)
             \/ /\ "deadline" \in Faults /\ phase[job[c].mine] # "launched"
                /\ StartExits(c, "await", 3)
    /\ UNCHANGED supVars

(* Mutant: only a running supervisor is asked to stop.                     *)
LookForRunning(c) ==
    /\ Go(c, "look", IF status.state = "running" /\ Exists(status.by) THEN "ask" ELSE "cleanup")
    /\ UNCHANGED <<job, supVars>>

(* Stop: without a supervisor there is only something to clean up.         *)
Look(c) ==
    /\ Go(c, "look", IF Exists(status.by) THEN "ask" ELSE "cleanup")
    /\ UNCHANGED <<job, supVars>>

Ask(c) ==
    /\ Go(c, "ask", "awaitStop")
    /\ Runtime!RequestStop
    /\ UNCHANGED <<core, named, adapter, job>>

(* Mutant: look only once.                                                 *)
AwaitStopOnce(c) ==
    /\ \/ status.state = "stopped" /\ StopExits(c, "awaitStop", 0)
       \/ status.state = "failed" /\ StopExits(c, "awaitStop", 2)
       \/ /\ status.state \notin {"stopped", "failed"}
          /\ Go(c, "awaitStop", "cleanup") /\ UNCHANGED job
    /\ UNCHANGED supVars

AwaitStop(c) ==
    /\ \/ status.state = "stopped" /\ StopExits(c, "awaitStop", 0)
       \/ status.state = "failed" /\ StopExits(c, "awaitStop", 2)
       \/ /\ status.state \notin {"stopped", "failed"}
          /\ ~Exists(status.by) \/ "deadline" \in Faults
          /\ Go(c, "awaitStop", "cleanup") /\ UNCHANGED job
    /\ UNCHANGED supVars

(* cleanup-tun.ps1: stop the core that the state file names if it listens  *)
(* on its port, else leave it alone.                                       *)
Cleanup(c) ==
    LET found == named # None /\ Alive(named)
        mayStop == found /\ core[named] = "up"
    IN  /\ Go(c, "cleanup", "release")
        /\ job' = [job EXCEPT ![c].refused = found /\ ~mayStop]
        /\ \/ mayStop /\ core' = [core EXCEPT ![named] = "dead"]
           \/ (mayStop => "kill" \in Faults) /\ UNCHANGED core
        /\ UNCHANGED <<phase, status, stop, named, adapter>>

(* Mutant: what becomes of the adapter does not matter.                    *)
ReleasedAnyway(c) ==
    /\ StopExits(c, "release", IF job[c].refused THEN 4 ELSE 0)
    /\ UNCHANGED supVars

(* Mutant: the two codes are added up.                                     *)
ReleasedBoth(c) ==
    /\ StopExits(c, "release",
          (IF job[c].refused THEN 4 ELSE 0) + IF adapter # None THEN 3 ELSE 0)
    /\ UNCHANGED supVars

(* Wait until the adapter is released, or for 15 s.                        *)
Released(c) ==
    /\ StopExits(c, "release",
          IF job[c].refused THEN 4 ELSE IF adapter # None THEN 3 ELSE 0)
    /\ UNCHANGED supVars

-----------------------------------------------------------------------------
(* The callers.                                                            *)

(* A bound: nothing that starts a supervisor when none is left.            *)
Spare(c) ==
    \E s \in Sup : /\ phase[s] = "idle"
                   /\ \A d \in Caller \ {c} : step[d] = "idle" \/ job[d].action = "Stop"

(* _begin_command, _begin_route_update; only the window updates routes.    *)
BeginJob(c) ==
    \E a \in Action :
        /\ a = "Update" => c = Window
        /\ a # "Stop" => Spare(c)
        /\ Go(c, "idle", IF a = "Update" THEN "route" ELSE "elevate")
        /\ job' = [job EXCEPT ![c] = NewJob(a)]
        /\ UNCHANGED supVars

UpdateRoute(c) ==
    /\ \/ Go(c, "route", "elevate") /\ UNCHANGED job
       \/ "route" \in Faults /\ StartExits(c, "route", 1)
    /\ UNCHANGED supVars

(* The elevation of an action, or of the stop of an update ...             *)
Elevate(c) ==
    /\ \/ Go(c, "elevate", IF job[c].action = "Start" THEN "existing" ELSE "look") /\ UNCHANGED job
       \/ "declined" \in Faults /\ job[c].action = "Update" /\ StopExits(c, "elevate", 5)
       \/ "declined" \in Faults /\ job[c].action # "Update" /\ StartExits(c, "elevate", 5)
    /\ UNCHANGED supVars

(* ... and that of its start.                                              *)
ElevateStart(c) ==
    /\ \/ Go(c, "elevateStart", "existing") /\ UNCHANGED job
       \/ "declined" \in Faults /\ StartExits(c, "elevateStart", 5)
    /\ UNCHANGED supVars

(* The worker's message is taken from the queue: the buttons come back.    *)
Report(c) ==
    /\ Go(c, "done", "idle")
    /\ job' = [job EXCEPT ![c] = NewJob("Stop")]
    /\ UNCHANGED supVars

ScriptStep(c) ==
    \/ UpdateRoute(c) \/ Elevate(c) \/ ElevateStart(c)
    \/ Existing(c) \/ Rotate(c) \/ ClearStop(c) \/ Spawn(c) \/ Await(c)
    \/ Look(c) \/ Ask(c) \/ AwaitStop(c) \/ Cleanup(c) \/ Released(c)
    \/ Report(c)

-----------------------------------------------------------------------------
(* The supervisors, and what they do to their cores.                       *)

Advance(s) ==
    \/ /\ Runtime!Begin(s) \/ Runtime!TakeStop(s)
       /\ UNCHANGED <<core, named, adapter>>
    \/ /\ core[s] = "up" /\ Runtime!Announce(s)
       /\ UNCHANGED <<core, named, adapter>>
    \/ /\ ~Alive(s) /\ adapter = None /\ Runtime!Stopped(s)
       /\ UNCHANGED <<core, named, adapter>>
    \/ /\ ~Alive(s) /\ Runtime!Failed(s)
       /\ UNCHANGED <<core, named, adapter>>
    \/ /\ Runtime!Finish(s) /\ named' = None
       /\ UNCHANGED <<core, adapter>>

(* It fails: for a reason of its own, because its core has ended, or       *)
(* because the adapter is not released.                                    *)
Fails(s) ==
    /\ \/ "raise" \in Faults
       \/ core[s] = "dead" /\ phase[s] \in {"starting", "running", "restarting"}
       \/ phase[s] = "stopping" /\ ~Alive(s) /\ adapter # None /\ adapter # s
       \/ phase[s] \in {"starting", "restarting"} /\ adapter # None /\ adapter # s
    /\ Runtime!Raise(s)
    /\ UNCHANGED <<core, named, adapter>>

(* _start_core: once in a start or restart.                                *)
StartCore(s) ==
    /\ phase[s] \in {"starting", "restarting"} /\ core[s] = "none"
    /\ core' = [core EXCEPT ![s] = "starting"]
    /\ named' = s
    /\ UNCHANGED <<phase, status, stop, adapter, callerVars>>

CoreUp(s) ==
    /\ core[s] = "starting"
    /\ core' = [core EXCEPT ![s] = "up"]
    /\ adapter' = IF adapter = None THEN s ELSE adapter
    /\ UNCHANGED <<phase, status, stop, named, callerVars>>

(* A core is stopped: by its supervisor, or, when that is gone, by the     *)
(* watchdog.                                                               *)
StopCore(s) ==
    /\ Alive(s)
    /\ phase[s] \in {"stopping", "failing", "gone"}
    /\ core' = [core EXCEPT ![s] = "dead"]
    /\ UNCHANGED <<phase, status, stop, named, adapter, callerVars>>

CoreExits(s) ==
    /\ "coreExit" \in Faults /\ Alive(s)
    /\ core' = [core EXCEPT ![s] = "dead"]
    /\ UNCHANGED <<phase, status, stop, named, adapter, callerVars>>

Release(s) ==
    /\ adapter = s /\ ~Alive(s)
    /\ adapter' = None
    /\ UNCHANGED <<phase, status, stop, core, named, callerVars>>

(* A network or configuration change is followed; this stops the core.     *)
Follow(s) ==
    /\ "follow" \in Faults /\ Runtime!Restart(s)
    /\ core' = [core EXCEPT ![s] = "none"]
    /\ UNCHANGED <<named, adapter>>

SupervisorCrashes(s) ==
    /\ "crash" \in Faults /\ Runtime!Crash(s)
    /\ UNCHANGED <<core, named, adapter>>

SupervisorStep(s) == Advance(s) \/ Fails(s) \/ Follow(s) \/ SupervisorCrashes(s)

Next ==
    \/ \E c \in Caller : BeginJob(c) \/ ScriptStep(c)
    \/ \E s \in Sup : SupervisorStep(s) /\ UNCHANGED callerVars
    \/ \E s \in Sup : StartCore(s) \/ CoreUp(s) \/ StopCore(s) \/ CoreExits(s) \/ Release(s)

Spec == Init /\ [][Next]_vars

(* The scripts are scheduled, and so is what they have launched, until it  *)
(* has said its first word; then supervisors and cores may hang.           *)
FairScripts ==
    /\ Spec
    /\ \A c \in Caller : WF_vars(ScriptStep(c))
    /\ \A s \in Sup : WF_vars(phase[s] = "launched" /\ Advance(s) /\ UNCHANGED callerVars)

(* They do not hang.  Nothing has to fail.                                 *)
SupervisorsRun ==
    \A s \in Sup :
        /\ WF_vars((Advance(s) \/ Fails(s)) /\ UNCHANGED callerVars)
        /\ WF_vars(StartCore(s) \/ CoreUp(s) \/ StopCore(s)) /\ WF_vars(Release(s))

FairSpec == FairScripts /\ SupervisorsRun

-----------------------------------------------------------------------------
(* Properties.                                                             *)

TypeOK ==
    /\ phase \in [Sup -> Runtime!Phases]
    /\ status.by \in Sup \cup {None} /\ stop \in BOOLEAN
    /\ core \in [Sup -> {"none", "starting", "up", "dead"}]
    /\ named \in Sup \cup {None} /\ adapter \in Sup \cup {None}
    /\ job \in [Caller -> Job]
    /\ step \in [Caller -> Steps]

(* Job a of c is over, and has succeeded.                                  *)
Succeeds(c, a) ==
    step[c] # "done" /\ step'[c] = "done" /\ job'[c].action = a /\ job'[c].code = 0

(* A stop that reports success leaves no core that holds the adapter, even *)
(* if its supervisor did not answer, was killed, or is about to fail.      *)
StopMeansDown ==
    [][\A c \in Caller : Succeeds(c, "Stop") =>
          adapter = None /\ \A s \in Sup : core[s] # "up"]_vars

(* At most one supervisor is at work.                                      *)
OneSupervisor ==
    \A s, t \in Sup :
        phase[s] \in Runtime!Working /\ phase[t] \in Runtime!Working => s = t

(* A restart that reports success has started a supervisor of its own,     *)
(* after the one before had let go of the adapter.                         *)
RestartIsFresh ==
    [][\A c \in Caller : Succeeds(c, "Restart") =>
          job[c].mine \in Sup /\ phase[job[c].mine] # "launched"]_vars

(* So has an update of the routes.                                         *)
UpdateRestarts ==
    [][\A c \in Caller : Succeeds(c, "Update") => job[c].mine \in Sup]_vars

(* Nobody else is at it while the script runs.                             *)
OneAtATime == [](\A c, d \in Caller : step[c] # "idle" /\ step[d] # "idle" => c = d)

(* What was stopped stays down until somebody starts it again, unless a    *)
(* supervisor hangs or a start was under way during the stop: nothing      *)
(* keeps that start from going on.                                         *)
StopSticks ==
    OneAtATime /\ SupervisorsRun => \A c \in Caller :
        step[c] = "done" /\ job[c].action = "Stop" /\ job[c].code = 0
            ~> \/ \A s \in Sup : ~Alive(s) /\ ~Exists(s)
               \/ \E d \in Caller : step[d] # "idle" /\ job[d].action # "Stop"

(* Every job ends, and the buttons come back, even if a supervisor hangs.  *)
ControlsComeBack == \A c \in Caller : step[c] # "idle" ~> step[c] = "idle"

=============================================================================
