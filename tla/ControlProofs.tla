--------------------------- MODULE ControlProofs ---------------------------
(***************************************************************************)
(* Proofs about Control, for any number of supervisors: as long as only    *)
(* the window runs the script, supervisors do not follow changes, and they *)
(* answer before the script gives up, there is one of them at most.        *)
(***************************************************************************)
EXTENDS Control, TLAPS

OneWindow == Caller = {Window} /\ Faults \cap {"follow", "deadline"} = {}

at == step[Window]

(* It was launched and has not said its last word.                         *)
Busy(s) == phase[s] \in {"launched", "starting", "running", "stopping", "failing"}

Nobody == \A s \in Sup : ~Busy(s)

Typed ==
    /\ phase \in [Sup -> {"idle", "launched", "starting", "running", "stopping", "failing",
                          "ended", "gone"}]
    /\ step \in [Caller -> Steps] /\ job \in [Caller -> Job]

Single == \A s, t \in Sup : Busy(s) /\ Busy(t) => s = t

(* The status file says of a supervisor where it is.                       *)
Told ==
    \A s \in Sup :
        /\ phase[s] \in {"idle", "launched"} => status.by # s
        /\ phase[s] \in {"starting", "running", "stopping"} =>
              status.by = s /\ status.state = phase[s]
        /\ phase[s] = "failing" =>
              status.by = s /\ status.state \in {"starting", "running", "stopping"}
        /\ phase[s] = "ended" /\ status.by = s => status.state \in {"stopped", "failed"}

(* Only a caller that waits for the answer has asked for a stop.           *)
Unasked ==
    /\ at # "awaitStop" => Nobody \/ ~stop
    /\ at = "spawn" => ~stop

(* What the window can rely on at each step.                               *)
Awaiting == at = "await" => job[Window].mine \in Sup /\ \A s \in Sup : Busy(s) => s = job[Window].mine
Cleared  == at \in {"rotate", "clear", "spawn", "cleanup", "release"} => Nobody
Afresh   == at \in {"existing", "elevateStart"} /\ job[Window].action = "Restart" => Nobody
Stopping == at = "awaitStop" => \A s \in Sup : phase[s] \notin {"launched", "starting"}
Calm     == at \notin {"await", "awaitStop"} =>
                \A s \in Sup : Busy(s) =>
                    phase[s] \in {"running", "failing"} /\ status.by = s /\ status.state = "running"

ControlInv ==
    Typed /\ Single /\ Told /\ Unasked /\ Awaiting /\ Cleared /\ Afresh /\ Stopping /\ Calm

-----------------------------------------------------------------------------
LEMMA Initially == Init => ControlInv
  <1> SUFFICES ASSUME Init PROVE ControlInv
    OBVIOUS
  <1> USE ControlAssumption DEF Init, Runtime!Init
  <1>1. Typed
    BY DEF Typed, Steps, Job, NewJob, Jobs
  <1>2. Nobody /\ at = "idle" /\ \A s \in Sup : phase[s] = "idle" /\ status.by # s
    BY DEF Nobody, Busy, at
  <1> QED BY <1>1, <1>2 DEF ControlInv, Single, Told, Unasked, Awaiting, Cleared, Afresh,
        Stopping, Calm, Nobody

(* A step of the script that changes nothing of the supervisors.           *)
LEMMA ScriptWalks ==
  ASSUME ControlInv, OneWindow, UNCHANGED <<phase, status>>, stop' = stop \/ ~stop',
         step' \in [Caller -> Steps], job' \in [Caller -> Job],
         at' \notin {"await", "awaitStop"}, at \notin {"await", "awaitStop"} \/ Nobody,
         at' \in {"rotate", "clear", "spawn", "cleanup", "release"} => Nobody,
         at' = "spawn" => ~stop',
         at' \in {"existing", "elevateStart"} /\ job'[Window].action = "Restart" => Nobody
  PROVE  ControlInv'
  BY DEF ControlInv, Typed, Single, Told, Unasked, Awaiting, Cleared, Afresh, Stopping, Calm,
      Nobody, Busy

(* The script moves on.                                                    *)
LEMMA Walking ==
  ASSUME ControlInv, NEW from, NEW to \in Steps, Go(Window, from, to)
  PROVE  step' \in [Caller -> Steps] /\ at = from /\ at' = to
  BY ControlAssumption DEF ControlInv, Typed, Go, at

LEMMA Exiting ==
  ASSUME ControlInv, NEW from, NEW code \in 0..5,
         StartExits(Window, from, code) \/ StopExits(Window, from, code)
  PROVE  /\ step' \in [Caller -> Steps] /\ job' \in [Caller -> Job] /\ at = from
         /\ at' \in {"done", "existing", "elevateStart"}
         /\ job'[Window].action = job[Window].action
  <1>1. "done" \in Steps /\ AfterStop(Window, code) \in {"done", "existing", "elevateStart"}
        /\ AfterStop(Window, code) \in Steps
    BY DEF Steps, AfterStop
  <1>2. job[Window] \in Job
    BY ControlAssumption DEF ControlInv, Typed
  <1>3. job' \in [Caller -> Job] /\ job'[Window].action = job[Window].action
    <2>1. CASE StartExits(Window, from, code)
      BY <1>2, <2>1, ControlAssumption DEF ControlInv, Typed, StartExits, Job
    <2>2. CASE StopExits(Window, from, code)
      BY <1>2, <2>2, ControlAssumption DEF ControlInv, Typed, StopExits, Job
    <2> QED BY <2>1, <2>2
  <1> QED BY <1>1, <1>3, Walking DEF StartExits, StopExits

-----------------------------------------------------------------------------
LEMMA ScriptKeeps ==
  ASSUME ControlInv, OneWindow, BeginJob(Window) \/ ScriptStep(Window)
  PROVE  ControlInv'
  <1> USE ControlAssumption, Walking, Exiting DEF supVars
  <1>0. job[Window] \in Job /\ at \in Steps /\ phase \in [Sup -> Runtime!Phases]
    BY DEF ControlInv, Typed, at, Runtime!Phases
  <1>1. CASE BeginJob(Window)
    <2>1. PICK a \in Jobs : /\ Go(Window, "idle", IF a = "Update" THEN "route" ELSE "elevate")
                            /\ job' = [job EXCEPT ![Window] = NewJob(a)]
                            /\ UNCHANGED supVars
      BY <1>1 DEF BeginJob
    <2>2. NewJob(a) \in Job
      BY DEF NewJob, Job
    <2>3. job' \in [Caller -> Job]
      BY <2>1, <2>2 DEF ControlInv, Typed
    <2>4. "route" \in Steps /\ "elevate" \in Steps
      BY DEF Steps
    <2> QED BY <2>1, <2>3, <2>4, ScriptWalks
  <1>2. CASE UpdateRoute(Window)
    <2>1. CASE Go(Window, "route", "elevate") /\ UNCHANGED job
      BY <1>2, <2>1, ScriptWalks DEF UpdateRoute, Steps, ControlInv, Typed
    <2>2. CASE StartExits(Window, "route", 1)
      <3>1. at' = "done"
        BY <2>2 DEF StartExits, Steps
      <3> QED BY <1>2, <2>2, <3>1, ScriptWalks DEF UpdateRoute
    <2> QED BY <1>2, <2>1, <2>2 DEF UpdateRoute
  <1>3. CASE Elevate(Window)
    <2>1. CASE /\ Go(Window, "elevate", IF job[Window].action = "Start" THEN "existing" ELSE "look")
               /\ UNCHANGED job
      BY <1>3, <2>1, ScriptWalks DEF Elevate, Steps, ControlInv, Typed
    <2>2. CASE job[Window].action = "Update" /\ StopExits(Window, "elevate", 5)
      BY <1>3, <2>2, ScriptWalks DEF Elevate
    <2>3. CASE StartExits(Window, "elevate", 5)
      <3>1. at' = "done"
        BY <2>3 DEF StartExits, Steps
      <3> QED BY <1>3, <2>3, <3>1, ScriptWalks DEF Elevate
    <2> QED BY <1>3, <2>1, <2>2, <2>3 DEF Elevate
  <1>4. CASE ElevateStart(Window)
    <2>1. CASE Go(Window, "elevateStart", "existing") /\ UNCHANGED job
      <3>1. job[Window].action = "Restart" => Nobody
        BY <2>1, Walking DEF ControlInv, Afresh, Steps
      <3> QED BY <1>4, <2>1, <3>1, ScriptWalks DEF ElevateStart, Steps, ControlInv, Typed
    <2>2. CASE StartExits(Window, "elevateStart", 5)
      <3>1. at' = "done"
        BY <2>2 DEF StartExits, Steps
      <3> QED BY <1>4, <2>2, <3>1, ScriptWalks DEF ElevateStart
    <2> QED BY <1>4, <2>1, <2>2 DEF ElevateStart
  <1>5. CASE Existing(Window)
    <2> DEFINE there == status.state = "running" /\ Exists(status.by)
    <2>1. CASE there /\ StartExits(Window, "existing", 0)
      <3>1. at' = "done"
        BY <2>1 DEF StartExits, Steps
      <3> QED BY <1>5, <2>1, <3>1, ScriptWalks DEF Existing
    <2>2. CASE ~there /\ Go(Window, "existing", "rotate") /\ UNCHANGED job
      <3>1. at = "existing" /\ at' = "rotate"
        BY <2>2 DEF Steps
      <3>2. Nobody
        BY <2>2, <3>1 DEF ControlInv, Calm, Nobody, Busy, Exists
      <3> HIDE DEF there
      <3> QED BY <1>5, <2>2, <3>1, <3>2, ScriptWalks DEF Existing, Steps, ControlInv, Typed
    <2> QED BY <1>5, <2>1, <2>2 DEF Existing
  <1>6. CASE Rotate(Window)
    <2>1. at = "rotate" /\ at' = "clear" /\ step' \in [Caller -> Steps]
      BY <1>6 DEF Rotate, Steps
    <2>2. Nobody
      BY <2>1 DEF ControlInv, Cleared
    <2>3. status' = [state |-> "absent", by |-> None] /\ UNCHANGED <<phase, stop, job>>
      BY <1>6 DEF Rotate
    <2>4. Nobody'
      BY <2>2, <2>3 DEF Nobody, Busy
    <2>5. Told'
      BY <2>3, <2>4 DEF Told, Nobody, Busy
    <2> QED BY <2>1, <2>3, <2>4, <2>5 DEF ControlInv, Typed, Single, Unasked, Awaiting, Cleared,
          Afresh, Stopping, Calm, Nobody, Busy
  <1>7. CASE ClearStop(Window)
    <2>1. at = "clear" /\ at' = "spawn" /\ step' \in [Caller -> Steps]
      BY <1>7 DEF ClearStop, Steps
    <2>2. Nobody /\ UNCHANGED <<phase, status, job>> /\ ~stop'
      BY <1>7, <2>1 DEF ControlInv, Cleared, ClearStop
    <2> QED BY <2>1, <2>2, ScriptWalks DEF ControlInv, Typed
  <1>8. CASE Spawn(Window)
    <2>1. PICK s \in Sup : Runtime!Launch(s) /\ job' = [job EXCEPT ![Window].mine = s]
      BY <1>8 DEF Spawn
    <2>2. at = "spawn" /\ at' = "await" /\ step' \in [Caller -> Steps]
      BY <1>8 DEF Spawn, Steps
    <2>3. Nobody /\ ~stop
      BY <2>2 DEF ControlInv, Cleared, Unasked
    <2>4. /\ phase[s] = "idle" /\ phase' = [phase EXCEPT ![s] = "launched"]
          /\ UNCHANGED <<status, stop>>
      BY <2>1 DEF Runtime!Launch, Runtime!Turn
    <2>5. job' \in [Caller -> Job] /\ job'[Window].mine = s
      BY <1>0, <2>1 DEF ControlInv, Typed, Job
    <2>6. Typed'
      BY <2>2, <2>4, <2>5 DEF ControlInv, Typed
    <2>7. \A t \in Sup : Busy(t)' => t = s
      BY <2>3, <2>4 DEF ControlInv, Typed, Nobody, Busy
    <2>8. Told'
      BY <2>4 DEF ControlInv, Typed, Told
    <2> QED BY <2>2, <2>3, <2>4, <2>5, <2>6, <2>7, <2>8 DEF ControlInv, Single, Unasked, Awaiting, Cleared,
          Afresh, Stopping, Calm
  <1>9. CASE Await(Window)
    <2> DEFINE mine == job[Window].mine
    <2>1. UNCHANGED supVars /\ step[Window] = "await"
      BY <1>9 DEF Await
    <2>2. PICK code \in 0..5 : StartExits(Window, "await", code)
      BY <1>9 DEF Await
    <2>3. at' = "done" /\ at = "await"
      BY <2>2 DEF StartExits, Steps
    <2>4. mine \in Sup /\ \A s \in Sup : Busy(s) => s = mine
      BY <2>3 DEF ControlInv, Awaiting
    <2>5. \/ status.by = mine /\ status.state \in {"running", "failed"}
          \/ ~Exists(mine)
      BY <1>9, <2>3 DEF Await, OneWindow
    <2>6. Busy(mine) => /\ phase[mine] \in {"running", "failing"}
                        /\ status.by = mine /\ status.state = "running"
      BY <2>4, <2>5 DEF ControlInv, Told, Busy, Exists
    <2> HIDE DEF mine
    <2>7. Calm'
      BY <2>1, <2>4, <2>6 DEF Calm, Busy
    <2>8. Unasked'
      BY <2>1, <2>3 DEF ControlInv, Unasked, Nobody, Busy
    <2> QED BY <2>1, <2>2, <2>3, <2>7, <2>8 DEF ControlInv, Typed, Single, Told, Awaiting, Cleared,
          Afresh, Stopping, Busy
  <1>10. CASE Look(Window)
    <2>1. at = "look" /\ at' = (IF Exists(status.by) THEN "ask" ELSE "cleanup")
          /\ step' \in [Caller -> Steps]
      BY <1>10 DEF Look, Steps
    <2>2. ~Exists(status.by) => Nobody
      BY <2>1 DEF ControlInv, Calm, Nobody, Busy, Exists
    <2> QED BY <1>10, <2>1, <2>2, ScriptWalks DEF Look, ControlInv, Typed
  <1>11. CASE Ask(Window)
    <2>1. at = "ask" /\ at' = "awaitStop" /\ step' \in [Caller -> Steps]
      BY <1>11 DEF Ask, Steps
    <2>2. UNCHANGED <<phase, status, job>>
      BY <1>11 DEF Ask, Runtime!RequestStop
    <2>3. Stopping'
      BY <2>1, <2>2 DEF ControlInv, Calm, Stopping, Busy
    <2> QED BY <2>1, <2>2, <2>3 DEF ControlInv, Typed, Single, Told, Unasked, Awaiting, Cleared,
          Afresh, Calm, Busy
  <1>12. CASE AwaitStop(Window)
    <2>1. UNCHANGED supVars
      BY <1>12 DEF AwaitStop
    <2>2. at = "awaitStop"
      BY <1>12 DEF AwaitStop, StopExits, Go, at
    <2>3. Nobody
      BY <1>12, <2>2 DEF AwaitStop, OneWindow, ControlInv, Told, Stopping, Nobody, Busy, Exists
    <2>4. /\ step' \in [Caller -> Steps] /\ job' \in [Caller -> Job]
          /\ at' \in {"done", "existing", "elevateStart", "cleanup"}
      BY <1>12, <2>2 DEF AwaitStop, Steps, ControlInv, Typed
    <2> QED BY <2>1, <2>3, <2>4, ScriptWalks
  <1>13. CASE Cleanup(Window)
    <2>1. at = "cleanup" /\ at' = "release" /\ step' \in [Caller -> Steps]
      BY <1>13 DEF Cleanup, Steps
    <2>2. Nobody /\ UNCHANGED <<phase, status, stop>>
      BY <1>13, <2>1 DEF ControlInv, Cleared, Cleanup
    <2>3. job' \in [Caller -> Job]
      BY <1>0, <1>13 DEF Cleanup, ControlInv, Typed, Job
    <2> QED BY <2>1, <2>2, <2>3, ScriptWalks
  <1>14. CASE Released(Window)
    <2>1. PICK code \in 0..5 : StopExits(Window, "release", code)
      BY <1>14 DEF Released
    <2>2. at = "release" /\ Nobody
      BY <2>1 DEF ControlInv, Cleared
    <2> QED BY <1>14, <2>1, <2>2, ScriptWalks DEF Released
  <1>15. CASE Report(Window)
    <2>1. at = "done" /\ at' = "idle" /\ step' \in [Caller -> Steps]
      BY <1>15 DEF Report, Steps
    <2>2. NewJob("Stop") \in Job
      BY DEF NewJob, Job, Jobs
    <2>3. job' \in [Caller -> Job]
      BY <1>15, <2>2 DEF Report, ControlInv, Typed
    <2> QED BY <1>15, <2>1, <2>3, ScriptWalks DEF Report
  <1> QED BY <1>1, <1>2, <1>3, <1>4, <1>5, <1>6, <1>7, <1>8, <1>9, <1>10, <1>11, <1>12, <1>13,
          <1>14, <1>15 DEF ScriptStep

-----------------------------------------------------------------------------
(* A step of a supervisor or a core, while the script stands still.        *)
LEMMA Bystanding ==
  ASSUME ControlInv, UNCHANGED <<phase, status, stop, callerVars>>
  PROVE  ControlInv'
  BY DEF ControlInv, callerVars, at, Typed, Single, Told, Unasked, Awaiting, Cleared, Afresh,
      Stopping, Calm, Nobody, Busy

LEMMA SupervisorKeeps ==
  ASSUME ControlInv, OneWindow, NEW s \in Sup, SupervisorStep(s), UNCHANGED callerVars
  PROVE  ControlInv'
  <1> USE ControlAssumption
  <1>0. UNCHANGED <<at, step, job>>
    BY DEF callerVars, at
  <1>1. CASE Runtime!Begin(s)
    <2>1. /\ phase[s] = "launched" /\ phase' = [phase EXCEPT ![s] = "starting"]
          /\ status' = [state |-> "starting", by |-> s] /\ ~stop'
      BY <1>1 DEF Runtime!Begin, Runtime!Turn, Runtime!Tell
    <2> QED BY <1>0, <2>1 DEF ControlInv, Typed, Single, Told, Unasked, Awaiting, Cleared, Afresh,
          Stopping, Calm, Nobody, Busy
  <1>2. CASE Runtime!TakeStop(s)
    <2>1. /\ phase[s] = "running" /\ phase' = [phase EXCEPT ![s] = "stopping"]
          /\ status' = [state |-> "stopping", by |-> s] /\ stop /\ stop'
      BY <1>2 DEF Runtime!TakeStop, Runtime!Turn, Runtime!Tell
    <2> QED BY <1>0, <2>1 DEF ControlInv, Typed, Single, Told, Unasked, Awaiting, Cleared, Afresh,
          Stopping, Calm, Nobody, Busy
  <1>3. CASE Runtime!Announce(s)
    <2>1. /\ phase[s] = "starting" /\ phase' = [phase EXCEPT ![s] = "running"]
          /\ status' = [state |-> "running", by |-> s] /\ UNCHANGED stop
      BY <1>3 DEF Runtime!Announce, Runtime!Turn, Runtime!Tell, ControlInv, Typed
    <2> QED BY <1>0, <2>1 DEF ControlInv, Typed, Single, Told, Unasked, Awaiting, Cleared, Afresh,
          Stopping, Calm, Nobody, Busy
  <1>4. CASE Runtime!Stopped(s)
    <2>1. /\ phase[s] = "stopping" /\ phase' = [phase EXCEPT ![s] = "ended"]
          /\ status' = [state |-> "stopped", by |-> s] /\ UNCHANGED stop
      BY <1>4 DEF Runtime!Stopped, Runtime!Turn, Runtime!Tell
    <2> QED BY <1>0, <2>1 DEF ControlInv, Typed, Single, Told, Unasked, Awaiting, Cleared, Afresh,
          Stopping, Calm, Nobody, Busy
  <1>5. CASE Runtime!Failed(s)
    <2>1. /\ phase[s] = "failing" /\ phase' = [phase EXCEPT ![s] = "ended"]
          /\ status' = [state |-> "failed", by |-> s] /\ UNCHANGED stop
      BY <1>5 DEF Runtime!Failed, Runtime!Turn, Runtime!Tell
    <2> QED BY <1>0, <2>1 DEF ControlInv, Typed, Single, Told, Unasked, Awaiting, Cleared, Afresh,
          Stopping, Calm, Nobody, Busy
  <1>6. CASE Runtime!Finish(s)
    <2>1. /\ phase[s] = "ended" /\ phase' = [phase EXCEPT ![s] = "gone"]
          /\ UNCHANGED status /\ ~stop'
      BY <1>6 DEF Runtime!Finish, Runtime!Turn
    <2> QED BY <1>0, <2>1 DEF ControlInv, Typed, Single, Told, Unasked, Awaiting, Cleared, Afresh,
          Stopping, Calm, Nobody, Busy
  <1>7. CASE Runtime!Raise(s)
    <2>1. /\ phase[s] \in {"starting", "running", "stopping"}
          /\ phase' = [phase EXCEPT ![s] = "failing"] /\ UNCHANGED <<status, stop>>
      BY <1>7 DEF Runtime!Raise, Runtime!Turn, Runtime!Working, ControlInv, Typed
    <2> QED BY <1>0, <2>1 DEF ControlInv, Typed, Single, Told, Unasked, Awaiting, Cleared, Afresh,
          Stopping, Calm, Nobody, Busy
  <1>8. CASE Runtime!Crash(s)
    <2>1. phase' = [phase EXCEPT ![s] = "gone"] /\ UNCHANGED <<status, stop>>
      BY <1>8 DEF Runtime!Crash, Runtime!Turn
    <2> QED BY <1>0, <2>1 DEF ControlInv, Typed, Single, Told, Unasked, Awaiting, Cleared, Afresh,
          Stopping, Calm, Nobody, Busy
  <1> QED BY <1>1, <1>2, <1>3, <1>4, <1>5, <1>6, <1>7, <1>8
      DEF SupervisorStep, Advance, Fails, Follow, SupervisorCrashes, OneWindow

LEMMA Inductive == OneWindow /\ ControlInv /\ [Next]_vars => ControlInv'
  <1> SUFFICES ASSUME OneWindow, ControlInv, [Next]_vars PROVE ControlInv'
    OBVIOUS
  <1>1. ASSUME NEW c \in Caller, BeginJob(c) \/ ScriptStep(c) PROVE ControlInv'
    BY <1>1, ScriptKeeps DEF OneWindow
  <1>2. ASSUME NEW s \in Sup, SupervisorStep(s), UNCHANGED callerVars PROVE ControlInv'
    BY <1>2, SupervisorKeeps
  <1>3. ASSUME NEW s \in Sup,
               StartCore(s) \/ CoreUp(s) \/ StopCore(s) \/ CoreExits(s) \/ Release(s)
        PROVE  ControlInv'
    BY <1>3, Bystanding DEF StartCore, CoreUp, StopCore, CoreExits, Release
  <1>4. CASE UNCHANGED vars
    BY <1>4, Bystanding DEF vars, supVars
  <1> QED BY <1>1, <1>2, <1>3, <1>4 DEF Next

(* With one window, and supervisors that answer in time and do not follow  *)
(* changes, starts, stops and restarts never have two supervisors at work, *)
(* whatever crashes, fails or is declined, and however many there are.     *)
THEOREM OneSupervisorAtWork == ASSUME OneWindow PROVE Spec => []OneSupervisor
  <1>1. ControlInv => OneSupervisor
    BY DEF ControlInv, Typed, Single, Busy, OneSupervisor, Runtime!Working
  <1>2. ControlInv /\ [Next]_vars => ControlInv'
    BY Inductive
  <1> QED BY Initially, <1>1, <1>2, PTL DEF Spec

-----------------------------------------------------------------------------
RestartStep ==
    \A c \in Caller : Succeeds(c, "Restart") =>
        job[c].mine \in Sup /\ phase[job[c].mine] # "launched"

LEMMA RestartsAreFresh == OneWindow /\ ControlInv /\ [Next]_vars => RestartStep
  <1> SUFFICES ASSUME OneWindow, ControlInv, [Next]_vars, Succeeds(Window, "Restart")
               PROVE  job[Window].mine \in Sup /\ phase[job[Window].mine] # "launched"
    BY DEF RestartStep, OneWindow
  <1> USE ControlAssumption
  <1>1. /\ at # "done" /\ at' = "done"
        /\ job'[Window].action = "Restart" /\ job'[Window].code = 0
    BY DEF Succeeds, at
  <1>2. job[Window] \in Job /\ job \in [Caller -> Job] /\ step \in [Caller -> Steps]
    BY DEF ControlInv, Typed
  <1>3. BeginJob(Window) \/ ScriptStep(Window)
    BY <1>1 DEF OneWindow, Next, vars, callerVars, at, StartCore, CoreUp, StopCore, CoreExits,
        Release
  (* Its stop was over, so that nobody was left to be found running.       *)
  <1>4. ~Existing(Window)
    <2> SUFFICES ASSUME Existing(Window) PROVE FALSE
      OBVIOUS
    <2>1. at = "existing" /\ job' = [job EXCEPT ![Window].code = 0]
          /\ status.state = "running" /\ Exists(status.by)
      BY <1>1, <1>2 DEF Existing, StartExits, Go, at
    <2>2. Nobody
      BY <1>1, <1>2, <2>1 DEF ControlInv, Afresh, Job
    <2> QED BY <2>1, <2>2 DEF ControlInv, Typed, Told, Nobody, Busy, Exists
  <1>5. ASSUME NEW from, NEW code \in 0..5, StopExits(Window, from, code) PROVE FALSE
    <2>1. job[Window].action = "Restart" /\ code = 0
      BY <1>1, <1>2, <1>5 DEF StopExits, Job
    <2> QED BY <1>1, <1>2, <1>5, <2>1 DEF StopExits, AfterStop, Go, at
  <1>6. ASSUME NEW from, NEW code \in 1..5, StartExits(Window, from, code) PROVE FALSE
    BY <1>1, <1>2, <1>6 DEF StartExits, Job
  <1>7. ASSUME NEW from, NEW to, Go(Window, from, to) PROVE to = "done"
    BY <1>1, <1>2, <1>7 DEF Go, at
  <1>8. ~BeginJob(Window) /\ ~UpdateRoute(Window)
    BY <1>6, <1>7 DEF BeginJob, UpdateRoute
  <1>9. ~Elevate(Window) /\ ~ElevateStart(Window)
    BY <1>5, <1>6, <1>7 DEF Elevate, ElevateStart
  <1>10. ~Rotate(Window) /\ ~ClearStop(Window) /\ ~Spawn(Window)
    BY <1>7 DEF Rotate, ClearStop, Spawn
  <1>11. ~Look(Window) /\ ~Ask(Window) /\ ~Cleanup(Window) /\ ~Report(Window)
    BY <1>7 DEF Look, Ask, Cleanup, Report
  <1>12. ~AwaitStop(Window) /\ ~Released(Window)
    BY <1>5, <1>7 DEF AwaitStop, Released
  (* It has waited for its own supervisor to run.                          *)
  <1>13. Await(Window)
    BY <1>3, <1>4, <1>8, <1>9, <1>10, <1>11, <1>12 DEF ScriptStep
  <1>14. at = "await" /\ status.by = job[Window].mine /\ status.state = "running"
    BY <1>6, <1>13 DEF Await, at
  <1> QED BY <1>14 DEF ControlInv, Awaiting, Told

(* Under the same conditions, a restart that reports success has started a *)
(* supervisor of its own, which has given its first word.                  *)
THEOREM RestartsStartAnew == ASSUME OneWindow PROVE Spec => RestartIsFresh
  <1>1. ControlInv /\ ControlInv' /\ [Next]_vars => [RestartStep]_vars
    BY RestartsAreFresh
  <1>2. ControlInv /\ [Next]_vars => ControlInv'
    BY Inductive
  <1> QED BY Initially, <1>1, <1>2, PTL DEF Spec, RestartIsFresh, RestartStep

-----------------------------------------------------------------------------
(* For any callers and faults: a job to stop keeps to these steps.         *)

StopSteps == {"idle", "elevate", "look", "ask", "awaitStop", "cleanup", "release", "done"}

PathInv == TypeOK /\ \A c \in Caller : job[c].action = "Stop" => step[c] \in StopSteps

LEMMA Moving ==
  ASSUME PathInv, NEW c \in Caller, NEW from, NEW to \in Steps, Go(c, from, to)
  PROVE  /\ step' \in [Caller -> Steps] /\ step[c] = from /\ step'[c] = to
         /\ \A d \in Caller : d # c => step'[d] = step[d]
  BY DEF PathInv, TypeOK, Go

LEMMA Ending ==
  ASSUME PathInv, NEW c \in Caller, NEW from, NEW code \in 0..5,
         StartExits(c, from, code) \/ StopExits(c, from, code)
  PROVE  /\ job' \in [Caller -> Job] /\ job'[c].action = job[c].action /\ job'[c].code = code
         /\ \A d \in Caller : d # c => job'[d] = job[d]
         /\ \E to \in Steps : /\ Go(c, from, to)
                              /\ job[c].action = "Stop" => to = "done"
                              /\ StartExits(c, from, code) => to = "done"
  <1>1. job \in [Caller -> Job] /\ job[c] \in Job
    BY DEF PathInv, TypeOK
  <1>2. CASE StartExits(c, from, code)
    <2>1. Go(c, from, "done") /\ job' = [job EXCEPT ![c].code = code]
      BY <1>2 DEF StartExits
    <2>2. "done" \in Steps
      BY DEF Steps
    <2>3. /\ job' \in [Caller -> Job] /\ job'[c].action = job[c].action /\ job'[c].code = code
          /\ \A d \in Caller : d # c => job'[d] = job[d]
      BY <1>1, <2>1 DEF Job
    <2> QED BY <2>1, <2>2, <2>3
  <1>3. CASE StopExits(c, from, code) /\ ~StartExits(c, from, code)
    <2>1. /\ Go(c, from, AfterStop(c, code))
          /\ job' = [job EXCEPT ![c].stopCode = code, ![c].code = code]
      BY <1>3 DEF StopExits
    <2>2. AfterStop(c, code) \in Steps /\ (job[c].action = "Stop" => AfterStop(c, code) = "done")
      BY DEF Steps, AfterStop
    <2>3. /\ job' \in [Caller -> Job] /\ job'[c].action = job[c].action /\ job'[c].code = code
          /\ \A d \in Caller : d # c => job'[d] = job[d]
      BY <1>1, <2>1 DEF Job
    <2> QED BY <1>3, <2>1, <2>2, <2>3
  <1> QED BY <1>2, <1>3

(* A move of the script, whatever else it does.                            *)
LEMMA PathKept ==
  ASSUME PathInv, NEW c \in Caller, NEW from, NEW to \in Steps, Go(c, from, to),
         job' \in [Caller -> Job], \A d \in Caller : d # c => job'[d] = job[d],
         job'[c].action = "Stop" => to \in StopSteps,
         phase' \in [Sup -> Runtime!Phases], status'.by \in Sup \cup {None}, stop' \in BOOLEAN,
         core' \in [Sup -> {"none", "starting", "up", "dead"}],
         named' \in Sup \cup {None}, adapter' \in Sup \cup {None}
  PROVE  PathInv'
  <1>1. TypeOK'
    BY Moving DEF TypeOK
  <1>2. \A d \in Caller : job'[d].action = "Stop" => step'[d] \in StopSteps
    BY Moving DEF PathInv
  <1> QED BY <1>1, <1>2 DEF PathInv

(* One that leaves the supervisors alone.                                  *)
LEMMA PathWalked ==
  ASSUME PathInv, NEW c \in Caller, NEW from, NEW to \in Steps, Go(c, from, to),
         UNCHANGED <<supVars, job>>, from \in StopSteps => to \in StopSteps
  PROVE  PathInv'
  <1>1. step[c] = from /\ TypeOK
    BY Moving DEF PathInv
  <1>2. job[c].action = "Stop" => from \in StopSteps
    BY <1>1 DEF PathInv
  <1> QED BY <1>1, <1>2, PathKept DEF TypeOK, supVars

LEMMA PathEnds ==
  ASSUME PathInv, NEW c \in Caller, NEW from, NEW code \in 0..5,
         StartExits(c, from, code) \/ StopExits(c, from, code), UNCHANGED supVars
  PROVE  PathInv'
  <1>1. PICK to \in Steps : Go(c, from, to) /\ (job[c].action = "Stop" => to = "done")
    BY Ending
  <1>2. "done" \in StopSteps
    BY DEF StopSteps
  <1>3. job' \in [Caller -> Job] /\ job'[c].action = job[c].action
        /\ \A d \in Caller : d # c => job'[d] = job[d]
    BY Ending
  <1> QED BY <1>1, <1>2, <1>3, PathKept DEF PathInv, TypeOK, supVars

LEMMA ScriptTyped ==
  ASSUME PathInv, NEW c \in Caller, BeginJob(c) \/ ScriptStep(c)
  PROVE  PathInv'
  <1> USE ControlAssumption DEF Steps, StopSteps
  <1>0. TypeOK /\ job \in [Caller -> Job] /\ job[c] \in Job
    BY DEF PathInv, TypeOK
  <1>1. CASE BeginJob(c)
    <2>1. PICK a \in Jobs : /\ Go(c, "idle", IF a = "Update" THEN "route" ELSE "elevate")
                            /\ job' = [job EXCEPT ![c] = NewJob(a)] /\ UNCHANGED supVars
      BY <1>1 DEF BeginJob
    <2>2. NewJob(a) \in Job /\ NewJob(a).action = a
      BY DEF NewJob, Job
    <2>3. /\ job' \in [Caller -> Job] /\ job'[c].action = a
          /\ \A d \in Caller : d # c => job'[d] = job[d]
      BY <1>0, <2>1, <2>2
    <2>4. CASE a = "Update"
      BY <1>0, <2>1, <2>3, <2>4, PathKept DEF TypeOK, supVars
    <2>5. CASE a # "Update"
      BY <1>0, <2>1, <2>3, <2>5, PathKept DEF TypeOK, supVars
    <2> QED BY <2>4, <2>5
  <1>2. CASE UpdateRoute(c)
    BY <1>2, PathWalked, PathEnds DEF UpdateRoute
  <1>3. CASE Elevate(c)
    <2>1. CASE Go(c, "elevate", "existing") /\ job[c].action = "Start" /\ UNCHANGED <<job, supVars>>
      BY <1>0, <2>1, PathKept DEF TypeOK, supVars
    <2>2. CASE Go(c, "elevate", "look") /\ UNCHANGED <<job, supVars>>
      BY <2>2, PathWalked
    <2>3. CASE StopExits(c, "elevate", 5) /\ UNCHANGED supVars
      BY <2>3, PathEnds
    <2>4. CASE StartExits(c, "elevate", 5) /\ UNCHANGED supVars
      BY <2>4, PathEnds
    <2> QED BY <1>3, <2>1, <2>2, <2>3, <2>4 DEF Elevate
  <1>4. CASE ElevateStart(c)
    BY <1>4, PathWalked, PathEnds DEF ElevateStart
  <1>5. CASE Existing(c)
    BY <1>5, PathWalked, PathEnds DEF Existing
  <1>6. CASE Rotate(c)
    <2>1. Go(c, "rotate", "clear") /\ UNCHANGED <<phase, stop, core, named, adapter, job>>
          /\ status'.by = None
      BY <1>6 DEF Rotate
    <2>2. job[c].action # "Stop"
      BY <2>1, Moving DEF PathInv
    <2> QED BY <1>0, <2>1, <2>2, PathKept DEF TypeOK
  <1>7. CASE ClearStop(c)
    <2>1. Go(c, "clear", "spawn") /\ UNCHANGED <<phase, status, core, named, adapter, job>> /\ stop' = FALSE
      BY <1>7 DEF ClearStop
    <2>2. job[c].action # "Stop"
      BY <2>1, Moving DEF PathInv
    <2> QED BY <1>0, <2>1, <2>2, PathKept DEF TypeOK
  <1>8. CASE Spawn(c)
    <2>1. PICK s \in Sup : Runtime!Launch(s) /\ job' = [job EXCEPT ![c].mine = s]
      BY <1>8 DEF Spawn
    <2>2. Go(c, "spawn", "await") /\ UNCHANGED <<core, named, adapter>>
      BY <1>8 DEF Spawn
    <2>3. phase' \in [Sup -> Runtime!Phases] /\ UNCHANGED <<status, stop>>
      BY <1>0, <2>1 DEF Runtime!Launch, Runtime!Turn, Runtime!Phases, TypeOK
    <2>4. /\ job' \in [Caller -> Job] /\ job'[c].action = job[c].action
          /\ \A d \in Caller : d # c => job'[d] = job[d]
      BY <1>0, <2>1 DEF Job
    <2>5. job[c].action # "Stop"
      BY <2>2, Moving DEF PathInv
    <2> QED BY <1>0, <2>2, <2>3, <2>4, <2>5, PathKept DEF TypeOK
  <1>9. CASE Await(c)
    BY <1>9, PathEnds DEF Await
  <1>10. CASE Look(c)
    BY <1>10, PathWalked DEF Look
  <1>11. CASE Ask(c)
    <2>1. Go(c, "ask", "awaitStop") /\ UNCHANGED <<phase, status, core, named, adapter, job>> /\ stop' = TRUE
      BY <1>11 DEF Ask, Runtime!RequestStop
    <2> QED BY <1>0, <2>1, PathKept DEF TypeOK
  <1>12. CASE AwaitStop(c)
    BY <1>12, PathWalked, PathEnds DEF AwaitStop
  <1>13. CASE Cleanup(c)
    <2>1. /\ Go(c, "cleanup", "release") /\ UNCHANGED <<phase, status, stop, named, adapter>>
          /\ \E b \in BOOLEAN : job' = [job EXCEPT ![c].refused = b]
          /\ core' \in {core, [core EXCEPT ![named] = "dead"]}
      BY <1>13 DEF Cleanup
    <2>2. /\ job' \in [Caller -> Job] /\ job'[c].action = job[c].action
          /\ \A d \in Caller : d # c => job'[d] = job[d]
      BY <1>0, <2>1 DEF Job
    <2>3. core' \in [Sup -> {"none", "starting", "up", "dead"}]
      BY <1>0, <2>1 DEF TypeOK
    <2> QED BY <1>0, <2>1, <2>2, <2>3, PathKept DEF TypeOK
  <1>14. CASE Released(c)
    BY <1>14, PathEnds DEF Released
  <1>15. CASE Report(c)
    <2>1. Go(c, "done", "idle") /\ job' = [job EXCEPT ![c] = NewJob("Stop")] /\ UNCHANGED supVars
      BY <1>15 DEF Report
    <2>2. NewJob("Stop") \in Job
      BY DEF NewJob, Job, Jobs
    <2>3. job' \in [Caller -> Job] /\ \A d \in Caller : d # c => job'[d] = job[d]
      BY <1>0, <2>1, <2>2
    <2> QED BY <1>0, <2>1, <2>3, PathKept DEF TypeOK, supVars
  <1> QED BY <1>1, <1>2, <1>3, <1>4, <1>5, <1>6, <1>7, <1>8, <1>9, <1>10, <1>11, <1>12, <1>13,
          <1>14, <1>15 DEF ScriptStep

(* A step of a supervisor or a core.                                       *)
LEMMA RuntimeTyped ==
  ASSUME PathInv, UNCHANGED callerVars,
         \E s \in Sup : \/ SupervisorStep(s)
                        \/ StartCore(s) \/ CoreUp(s) \/ StopCore(s) \/ CoreExits(s) \/ Release(s)
  PROVE  PathInv'
  <1>1. PICK s \in Sup :
            \/ SupervisorStep(s)
            \/ StartCore(s) \/ CoreUp(s) \/ StopCore(s) \/ CoreExits(s) \/ Release(s)
    OBVIOUS
  <1>2. CASE SupervisorStep(s)
    <2>1. \/ Runtime!Begin(s) \/ Runtime!TakeStop(s) \/ Runtime!Announce(s) \/ Runtime!Stopped(s)
          \/ Runtime!Failed(s) \/ Runtime!Finish(s) \/ Runtime!Raise(s) \/ Runtime!Restart(s)
          \/ Runtime!Crash(s)
      BY <1>2 DEF SupervisorStep, Advance, Fails, Follow, SupervisorCrashes
    <2> DEFINE Kept == /\ \E p \in Runtime!Phases : phase' = [phase EXCEPT ![s] = p]
                       /\ status' = status \/ status'.by = s
                       /\ stop' = stop \/ stop' = FALSE
    <2>2. Kept
      <3>1. CASE Runtime!Begin(s)
        BY <3>1 DEF Runtime!Begin, Runtime!Turn, Runtime!Tell, Runtime!Phases
      <3>2. CASE Runtime!TakeStop(s)
        BY <3>2 DEF Runtime!TakeStop, Runtime!Turn, Runtime!Tell, Runtime!Phases
      <3>3. CASE Runtime!Announce(s)
        BY <3>3 DEF Runtime!Announce, Runtime!Turn, Runtime!Tell, Runtime!Phases
      <3>4. CASE Runtime!Stopped(s)
        BY <3>4 DEF Runtime!Stopped, Runtime!Turn, Runtime!Tell, Runtime!Phases
      <3>5. CASE Runtime!Failed(s)
        BY <3>5 DEF Runtime!Failed, Runtime!Turn, Runtime!Tell, Runtime!Phases
      <3>6. CASE Runtime!Finish(s)
        BY <3>6 DEF Runtime!Finish, Runtime!Turn, Runtime!Phases
      <3>7. CASE Runtime!Raise(s)
        BY <3>7 DEF Runtime!Raise, Runtime!Turn, Runtime!Phases
      <3>8. CASE Runtime!Restart(s)
        BY <3>8 DEF Runtime!Restart, Runtime!Turn, Runtime!Tell, Runtime!Phases
      <3>9. CASE Runtime!Crash(s)
        BY <3>9 DEF Runtime!Crash, Runtime!Turn, Runtime!Phases
      <3> QED BY <2>1, <3>1, <3>2, <3>3, <3>4, <3>5, <3>6, <3>7, <3>8, <3>9
    <2>3. core' \in {core, [core EXCEPT ![s] = "none"]} /\ named' \in {named, None} /\ adapter' = adapter
      BY <1>2 DEF SupervisorStep, Advance, Fails, Follow, SupervisorCrashes
    <2> QED BY <2>2, <2>3 DEF PathInv, TypeOK, callerVars
  <1>3. CASE StartCore(s) \/ CoreUp(s) \/ StopCore(s) \/ CoreExits(s) \/ Release(s)
    <2>1. /\ \E k \in {"none", "starting", "up", "dead"} :
                core' = core \/ core' = [core EXCEPT ![s] = k]
          /\ named' \in {named, s} /\ adapter' \in {adapter, s, None}
          /\ UNCHANGED <<phase, status, stop>>
      BY <1>3 DEF StartCore, CoreUp, StopCore, CoreExits, Release
    <2> QED BY <2>1 DEF PathInv, TypeOK, callerVars
  <1> QED BY <1>1, <1>2, <1>3

LEMMA PathInitially == Init => PathInv
  <1> SUFFICES ASSUME Init PROVE PathInv
    OBVIOUS
  <1>1. NewJob("Stop") \in Job
    BY DEF NewJob, Job, Jobs
  <1>2. job \in [Caller -> Job] /\ step \in [Caller -> Steps]
    BY <1>1 DEF Init, Steps
  <1>3. phase \in [Sup -> Runtime!Phases] /\ status.by = None /\ stop = FALSE
    BY DEF Init, Runtime!Init, Runtime!Phases
  <1>4. /\ core \in [Sup -> {"none", "starting", "up", "dead"}] /\ named = None /\ adapter = None
        /\ \A c \in Caller : step[c] \in StopSteps
    BY DEF Init, StopSteps
  <1> QED BY <1>2, <1>3, <1>4 DEF PathInv, TypeOK

LEMMA PathInductive == PathInv /\ [Next]_vars => PathInv'
  <1> SUFFICES ASSUME PathInv, [Next]_vars PROVE PathInv'
    OBVIOUS
  <1>1. CASE \E c \in Caller : BeginJob(c) \/ ScriptStep(c)
    BY <1>1, ScriptTyped
  <1>2. CASE \E s \in Sup : SupervisorStep(s) /\ UNCHANGED callerVars
    BY <1>2, RuntimeTyped
  <1>3. CASE \E s \in Sup : StartCore(s) \/ CoreUp(s) \/ StopCore(s) \/ CoreExits(s) \/ Release(s)
    <2>1. UNCHANGED callerVars
      BY <1>3 DEF StartCore, CoreUp, StopCore, CoreExits, Release, callerVars
    <2> QED BY <1>3, <2>1, RuntimeTyped
  <1>4. CASE UNCHANGED vars
    BY <1>4 DEF vars, supVars, callerVars, PathInv, TypeOK
  <1> QED BY <1>1, <1>2, <1>3, <1>4 DEF Next

(* Every reachable state has the right types, for any callers, any number  *)
(* of supervisors and every fault.                                         *)
THEOREM TypeCorrect == Spec => []TypeOK
  <1>1. PathInv => TypeOK
    BY DEF PathInv
  <1> QED BY PathInitially, PathInductive, <1>1, PTL DEF Spec

-----------------------------------------------------------------------------
(* A stop that succeeds.                                                   *)

DownStep ==
    \A c \in Caller : Succeeds(c, "Stop") => adapter = None /\ \A s \in Sup : core[s] # "up"

(* It has two ways to succeed: the supervisor has said that it stopped, or *)
(* the cleanup has seen that nobody holds the adapter.                     *)
LEMMA StopSucceeds ==
  ASSUME PathInv, [Next]_vars, NEW c \in Caller, Succeeds(c, "Stop")
  PROVE  \/ step[c] = "awaitStop" /\ status.state = "stopped"
         \/ step[c] = "release" /\ adapter = None
  <1> USE ControlAssumption
  <1>1. /\ step[c] # "done" /\ step'[c] = "done"
        /\ job'[c].action = "Stop" /\ job'[c].code = 0
    BY DEF Succeeds
  <1>2. PICK d \in Caller : BeginJob(d) \/ ScriptStep(d)
    BY <1>1 DEF Next, vars, callerVars, StartCore, CoreUp, StopCore, CoreExits, Release
  <1>3. ASSUME NEW from, NEW to, Go(d, from, to)
        PROVE  d = c /\ to = "done" /\ step[c] = from
    BY <1>1, <1>3 DEF Go, PathInv, TypeOK
  <1>4. ASSUME NEW from, NEW code \in 0..5, StartExits(d, from, code) \/ StopExits(d, from, code)
        PROVE  code = 0 /\ step[c] = from /\ job[c].action = "Stop" /\ from \in StopSteps
    <2>1. PICK to \in Steps : Go(d, from, to)
      BY <1>4, Ending
    <2>2. d = c /\ step[c] = from
      BY <1>3, <2>1
    <2>3. job'[c].action = job[c].action /\ job'[c].code = code
      BY <1>4, <2>2, Ending
    <2> QED BY <1>1, <2>2, <2>3 DEF PathInv
  <1>5. ASSUME NEW from \in Steps \ StopSteps, NEW code \in 0..5, StartExits(d, from, code)
        PROVE  FALSE
    BY <1>4, <1>5
  <1>6. ~BeginJob(d) /\ ~UpdateRoute(d) /\ ~ElevateStart(d) /\ ~Existing(d) /\ ~Await(d)
    <2>1. {"route", "elevateStart", "existing", "await"} \subseteq Steps \ StopSteps
      BY DEF Steps, StopSteps
    <2>2. ~BeginJob(d)
      BY <1>3 DEF BeginJob
    <2>3. ~UpdateRoute(d)
      BY <1>3, <1>5, <2>1 DEF UpdateRoute
    <2>4. ~ElevateStart(d)
      BY <1>3, <1>5, <2>1 DEF ElevateStart
    <2>5. ~Existing(d)
      BY <1>3, <1>5, <2>1 DEF Existing
    <2>6. ~Await(d)
      BY <1>5, <2>1 DEF Await
    <2> QED BY <2>2, <2>3, <2>4, <2>5, <2>6
  <1>7. ~Elevate(d) /\ ~Rotate(d) /\ ~ClearStop(d) /\ ~Spawn(d)
    BY <1>3, <1>4 DEF Elevate, Rotate, ClearStop, Spawn
  <1>8. ~Look(d) /\ ~Ask(d) /\ ~Cleanup(d) /\ ~Report(d)
    BY <1>3 DEF Look, Ask, Cleanup, Report
  <1>9. CASE AwaitStop(d)
    <2>1. \/ status.state = "stopped" /\ StopExits(d, "awaitStop", 0)
          \/ StopExits(d, "awaitStop", 2)
      BY <1>3, <1>9 DEF AwaitStop
    <2> QED BY <1>4, <2>1
  <1>10. CASE Released(d)
    <2>1. /\ \E code \in 0..5 : StopExits(d, "release", code)
          /\ StopExits(d, "release", IF job[d].refused THEN 4 ELSE IF adapter # None THEN 3 ELSE 0)
      BY <1>10 DEF Released
    <2> QED BY <1>4, <2>1
  <1> QED BY <1>2, <1>6, <1>7, <1>8, <1>9, <1>10 DEF ScriptStep

(* The script starts no core, and says nothing in a supervisor's name.     *)
LEMMA ScriptOnlyStops ==
  ASSUME PathInv, NEW c \in Caller, BeginJob(c) \/ ScriptStep(c)
  PROVE  /\ adapter' = adapter /\ (status' = status \/ status'.state = "absent")
         /\ \A s \in Sup : core'[s] = core[s] \/ core'[s] = "dead"
         /\ phase' = phase \/ \E s \in Sup : Runtime!Launch(s)
  <1>1. CASE ~Cleanup(c) /\ ~Rotate(c) /\ ~Spawn(c)
    <2>1. UNCHANGED <<phase, status, core, adapter>>
      BY <1>1 DEF BeginJob, ScriptStep, UpdateRoute, Elevate, ElevateStart, Existing, ClearStop,
          Await, Look, Ask, AwaitStop, Released, Report, supVars, Runtime!RequestStop
    <2> QED BY <2>1
  <1>2. CASE Cleanup(c)
    <2>1. /\ UNCHANGED <<phase, status, adapter>>
          /\ core' \in {core, [core EXCEPT ![named] = "dead"]}
      BY <1>2 DEF Cleanup
    <2> QED BY <2>1 DEF PathInv, TypeOK
  <1>3. CASE Rotate(c)
    BY <1>3 DEF Rotate
  <1>4. CASE Spawn(c)
    BY <1>4 DEF Spawn, Runtime!Launch
  <1> QED BY <1>1, <1>2, <1>3, <1>4

(* Nothing is up after a supervisor has said that it stopped.              *)
SaidDown == status.state = "stopped" => adapter = None /\ \A s \in Sup : ~Alive(s)

(* A live core has its supervisor.                                         *)
Manned == \A s \in Sup : Alive(s) => Busy(s)

Undisturbed == OneWindow /\ "crash" \notin Faults

LEMMA DownInductive ==
  ASSUME Undisturbed, ControlInv, PathInv, SaidDown, Manned, [Next]_vars
  PROVE  SaidDown' /\ Manned'
  <1>0. /\ phase \in [Sup -> Runtime!Phases]
        /\ core \in [Sup -> {"none", "starting", "up", "dead"}]
    BY DEF PathInv, TypeOK
  <1>1. CASE \E c \in Caller : BeginJob(c) \/ ScriptStep(c)
    <2>1. /\ adapter' = adapter /\ (status' = status \/ status'.state = "absent")
          /\ \A s \in Sup : core'[s] = core[s] \/ core'[s] = "dead"
          /\ phase' = phase \/ \E s \in Sup : Runtime!Launch(s)
      BY <1>1, ScriptOnlyStops
    <2>2. \A s \in Sup : Alive(s)' => Alive(s)
      BY <2>1 DEF Alive
    <2>3. \A s \in Sup : Busy(s) => Busy(s)'
      BY <1>0, <2>1 DEF Busy, Runtime!Launch, Runtime!Turn
    <2> QED BY <2>1, <2>2, <2>3 DEF SaidDown, Manned
  <1>2. ASSUME NEW s \in Sup, SupervisorStep(s)
        PROVE  SaidDown' /\ Manned'
    <2>0. UNCHANGED <<core, adapter>> /\ \A t \in Sup : Alive(t)' <=> Alive(t)
      BY <1>2 DEF SupervisorStep, Advance, Fails, Follow, SupervisorCrashes, Undisturbed, OneWindow, Alive
    <2>1. CASE Runtime!Begin(s) \/ Runtime!TakeStop(s) \/ Runtime!Announce(s)
      <3>1. status'.state # "stopped"
        BY <2>1 DEF Runtime!Begin, Runtime!TakeStop, Runtime!Announce, Runtime!Tell
      <3>2. \E p \in {"starting", "stopping", "running"} : phase' = [phase EXCEPT ![s] = p]
        BY <2>1 DEF Runtime!Begin, Runtime!TakeStop, Runtime!Announce, Runtime!Turn
      <3> QED BY <1>0, <2>0, <3>1, <3>2 DEF SaidDown, Manned, Busy
    <2>2. CASE ~Alive(s) /\ adapter = None /\ Runtime!Stopped(s)
      <3>1. phase[s] = "stopping" /\ phase' = [phase EXCEPT ![s] = "ended"]
        BY <2>2 DEF Runtime!Stopped, Runtime!Turn
      <3>2. \A t \in Sup : ~Alive(t)
        BY <2>2, <3>1 DEF Manned, ControlInv, Single, Busy
      <3> QED BY <2>0, <2>2, <3>2 DEF SaidDown, Manned
    <2>3. CASE ~Alive(s) /\ Runtime!Failed(s)
      <3>1. /\ phase' = [phase EXCEPT ![s] = "ended"] /\ status'.state = "failed"
        BY <2>3 DEF Runtime!Failed, Runtime!Turn, Runtime!Tell
      <3> QED BY <1>0, <2>0, <2>3, <3>1 DEF SaidDown, Manned, Busy
    <2>4. CASE Runtime!Finish(s)
      <3>1. /\ phase[s] = "ended" /\ phase' = [phase EXCEPT ![s] = "gone"] /\ status' = status
        BY <2>4 DEF Runtime!Finish, Runtime!Turn
      <3> QED BY <1>0, <2>0, <3>1 DEF SaidDown, Manned, Busy
    <2>5. CASE Runtime!Raise(s)
      <3>1. /\ phase' = [phase EXCEPT ![s] = "failing"] /\ status' = status
        BY <2>5 DEF Runtime!Raise, Runtime!Turn
      <3> QED BY <1>0, <2>0, <3>1 DEF SaidDown, Manned, Busy
    <2> QED BY <1>2, <2>1, <2>2, <2>3, <2>4, <2>5
        DEF SupervisorStep, Advance, Fails, Follow, SupervisorCrashes, Undisturbed, OneWindow
  <1>3. ASSUME NEW s \in Sup, StartCore(s)
        PROVE  SaidDown' /\ Manned'
    <2>1. /\ phase[s] \in {"starting", "restarting"} /\ UNCHANGED <<phase, status, adapter>>
          /\ core' = [core EXCEPT ![s] = "starting"]
      BY <1>3 DEF StartCore
    <2>2. phase[s] = "starting" /\ status.state = "starting"
      BY <2>1 DEF ControlInv, Typed, Told
    <2> QED BY <1>0, <2>1, <2>2 DEF SaidDown, Manned, Busy, Alive
  <1>4. ASSUME NEW s \in Sup, CoreUp(s)
        PROVE  SaidDown' /\ Manned'
    <2>1. /\ core[s] = "starting" /\ UNCHANGED <<phase, status>>
          /\ core' = [core EXCEPT ![s] = "up"]
      BY <1>4 DEF CoreUp
    <2>2. Alive(s)
      BY <2>1 DEF Alive
    <2> QED BY <1>0, <2>1, <2>2 DEF SaidDown, Manned, Busy, Alive
  <1>5. ASSUME NEW s \in Sup, StopCore(s) \/ CoreExits(s) \/ Release(s)
        PROVE  SaidDown' /\ Manned'
    <2>1. /\ core' \in {core, [core EXCEPT ![s] = "dead"]} /\ UNCHANGED <<phase, status>>
          /\ adapter' \in {adapter, None}
      BY <1>5 DEF StopCore, CoreExits, Release
    <2> QED BY <1>0, <2>1 DEF SaidDown, Manned, Busy, Alive
  <1>6. CASE UNCHANGED vars
    BY <1>6 DEF vars, supVars, SaidDown, Manned, Busy, Alive
  <1> QED BY <1>1, <1>2, <1>3, <1>4, <1>5, <1>6 DEF Next

(* With one window, and supervisors that are not killed, do not follow     *)
(* changes and answer in time, a stop that reports success leaves no core  *)
(* and nobody at the adapter, whatever fails, and however often the Bridge *)
(* has been started before.                                                *)
THEOREM StoppedIsDown == ASSUME Undisturbed PROVE Spec => StopMeansDown
  <1> DEFINE Inv == ControlInv /\ PathInv /\ SaidDown /\ Manned
  <1>1. Init => Inv
    <2> SUFFICES ASSUME Init PROVE SaidDown /\ Manned
      BY Initially, PathInitially
    <2> QED BY DEF Init, Runtime!Init, SaidDown, Manned, Alive
  <1>2. Inv /\ [Next]_vars => Inv'
    BY Inductive, PathInductive, DownInductive DEF Undisturbed
  <1>3. Inv /\ [Next]_vars => [DownStep]_vars
    <2> SUFFICES ASSUME Inv, [Next]_vars, NEW c \in Caller, Succeeds(c, "Stop")
                 PROVE  adapter = None /\ \A s \in Sup : core[s] # "up"
      BY DEF DownStep
    <2>1. CASE status.state = "stopped"
      BY <2>1 DEF SaidDown, Alive
    <2>2. CASE step[c] = "release" /\ adapter = None
      <3>1. Nobody
        BY <2>2 DEF Undisturbed, OneWindow, ControlInv, Cleared, at
      <3> QED BY <2>2, <3>1 DEF Nobody, Manned, Alive
    <2> QED BY <2>1, <2>2, StopSucceeds
  <1> HIDE DEF Inv
  <1> QED BY <1>1, <1>2, <1>3, PTL DEF Spec, StopMeansDown, DownStep

-----------------------------------------------------------------------------
(* One supervisor, but any callers and every fault.                        *)

Alone == \A s, t \in Sup : s = t

(* A core that is up holds the adapter.                                    *)
Holds == \A s \in Sup : core[s] = "up" => adapter = s

Over == status.state = "stopped" => \A s \in Sup : phase[s] \in {"ended", "gone"}

LEMMA AloneInductive ==
  ASSUME Alone, PathInv, SaidDown, Holds, Over, [Next]_vars
  PROVE  SaidDown' /\ Holds' /\ Over'
  <1> USE ControlAssumption
  <1>0. /\ phase \in [Sup -> Runtime!Phases] /\ adapter \in Sup \cup {None}
        /\ core \in [Sup -> {"none", "starting", "up", "dead"}]
    BY DEF PathInv, TypeOK
  <1>1. CASE \E c \in Caller : BeginJob(c) \/ ScriptStep(c)
    <2>1. /\ adapter' = adapter /\ (status' = status \/ status'.state = "absent")
          /\ \A s \in Sup : core'[s] = core[s] \/ core'[s] = "dead"
          /\ phase' = phase \/ \E s \in Sup : Runtime!Launch(s)
      BY <1>1, ScriptOnlyStops
    <2>2. \A s \in Sup : Alive(s)' => Alive(s)
      BY <2>1 DEF Alive
    <2>3. CASE phase' = phase
      BY <2>1, <2>2, <2>3 DEF SaidDown, Holds, Over
    <2>4. CASE \E s \in Sup : Runtime!Launch(s)
      <3>1. status.state # "stopped"
        BY <2>4 DEF Over, Runtime!Launch, Runtime!Turn
      <3>2. status'.state # "stopped"
        BY <2>1, <3>1
      <3> QED BY <2>1, <3>2 DEF SaidDown, Holds, Over
    <2> QED BY <2>1, <2>3, <2>4
  <1>2. ASSUME NEW s \in Sup, SupervisorStep(s)
        PROVE  SaidDown' /\ Holds' /\ Over'
    <2>0. /\ core' \in {core, [core EXCEPT ![s] = "none"]} /\ adapter' = adapter
          /\ \A t \in Sup : Alive(t)' => Alive(t)
      BY <1>0, <1>2 DEF SupervisorStep, Advance, Fails, Follow, SupervisorCrashes, Alive
    <2>1. Holds'
      BY <1>0, <2>0 DEF Holds
    <2>2. CASE \/ Runtime!Begin(s) \/ Runtime!TakeStop(s) \/ Runtime!Announce(s)
               \/ Runtime!Failed(s) \/ Runtime!Restart(s)
      <3>1. status'.state # "stopped"
        BY <2>2 DEF Runtime!Begin, Runtime!TakeStop, Runtime!Announce, Runtime!Failed, Runtime!Restart,
            Runtime!Tell
      <3> QED BY <2>1, <3>1 DEF SaidDown, Over
    <2>3. CASE ~Alive(s) /\ adapter = None /\ Runtime!Stopped(s)
      <3>1. phase' = [phase EXCEPT ![s] = "ended"]
        BY <2>3 DEF Runtime!Stopped, Runtime!Turn
      <3> QED BY <1>0, <2>0, <2>1, <2>3, <3>1 DEF Alone, SaidDown, Over
    <2>4. CASE Runtime!Finish(s) \/ Runtime!Crash(s)
      <3>1. phase' = [phase EXCEPT ![s] = "gone"] /\ status' = status
        BY <2>4 DEF Runtime!Finish, Runtime!Crash, Runtime!Turn
      <3> QED BY <1>0, <2>0, <2>1, <3>1 DEF SaidDown, Over
    <2>5. CASE Runtime!Raise(s)
      <3>1. phase[s] \in Runtime!Working /\ status' = status
        BY <2>5 DEF Runtime!Raise, Runtime!Turn
      <3>2. status'.state # "stopped"
        BY <3>1 DEF Over, Runtime!Working
      <3> QED BY <2>1, <3>2 DEF SaidDown, Over
    <2> QED BY <1>2, <2>2, <2>3, <2>4, <2>5
        DEF SupervisorStep, Advance, Fails, Follow, SupervisorCrashes
  <1>3. ASSUME NEW s \in Sup, StartCore(s)
        PROVE  SaidDown' /\ Holds' /\ Over'
    <2>1. /\ phase[s] \in {"starting", "restarting"} /\ UNCHANGED <<phase, status, adapter>>
          /\ core' = [core EXCEPT ![s] = "starting"]
      BY <1>3 DEF StartCore
    <2>2. status'.state # "stopped"
      BY <2>1 DEF Over
    <2> QED BY <1>0, <2>1, <2>2 DEF SaidDown, Holds, Over
  <1>4. ASSUME NEW s \in Sup, CoreUp(s)
        PROVE  SaidDown' /\ Holds' /\ Over'
    <2>1. /\ core[s] = "starting" /\ UNCHANGED <<phase, status>>
          /\ core' = [core EXCEPT ![s] = "up"]
          /\ adapter' = IF adapter = None THEN s ELSE adapter
      BY <1>4 DEF CoreUp
    <2>2. status.state # "stopped"
      BY <2>1 DEF SaidDown, Alive
    <2>3. adapter' = s /\ \A t \in Sup : t = s
      BY <1>0, <2>1 DEF Alone
    <2> QED BY <2>1, <2>2, <2>3 DEF SaidDown, Holds, Over
  <1>5. ASSUME NEW s \in Sup, StopCore(s) \/ CoreExits(s) \/ Release(s)
        PROVE  SaidDown' /\ Holds' /\ Over'
    <2>1. /\ core' \in {core, [core EXCEPT ![s] = "dead"]} /\ UNCHANGED <<phase, status>>
          /\ \/ adapter' = adapter
             \/ adapter' = None /\ ~Alive(s) /\ core' = core
      BY <1>5 DEF StopCore, CoreExits, Release
    <2>2. \A t \in Sup : t = s
      BY DEF Alone
    <2>3. \A t \in Sup : core'[t] = core[t] \/ core'[t] = "dead"
      BY <1>0, <2>1
    <2>4. Holds'
      BY <2>1, <2>2, <2>3 DEF Holds, Alive
    <2>5. SaidDown' /\ Over'
      BY <2>1, <2>3 DEF SaidDown, Over, Alive
    <2> QED BY <2>4, <2>5
  <1>6. CASE UNCHANGED vars
    BY <1>6 DEF vars, supVars, SaidDown, Holds, Over, Alive
  <1> QED BY <1>1, <1>2, <1>3, <1>4, <1>5, <1>6 DEF Next

(* As long as nothing but this one supervisor was started, any number of   *)
(* windows and terminals may stop it, and it may hang, fail, be killed or  *)
(* rebuild its core: a stop that reports success leaves no core and nobody *)
(* at the adapter.                                                         *)
THEOREM LoneSupervisorIsDown == ASSUME Alone PROVE Spec => StopMeansDown
  <1> DEFINE Inv == PathInv /\ SaidDown /\ Holds /\ Over
  <1>1. Init => Inv
    <2> SUFFICES ASSUME Init PROVE SaidDown /\ Holds /\ Over
      BY PathInitially
    <2> QED BY DEF Init, Runtime!Init, SaidDown, Holds, Over
  <1>2. Inv /\ [Next]_vars => Inv'
    BY PathInductive, AloneInductive
  <1>3. Inv /\ [Next]_vars => [DownStep]_vars
    <2> SUFFICES ASSUME Inv, [Next]_vars, NEW c \in Caller, Succeeds(c, "Stop")
                 PROVE  adapter = None /\ \A s \in Sup : core[s] # "up"
      BY DEF DownStep
    <2>1. CASE status.state = "stopped"
      BY <2>1 DEF SaidDown, Alive
    <2>2. CASE adapter = None
      BY <2>2, ControlAssumption DEF Holds
    <2> QED BY <2>1, <2>2, StopSucceeds
  <1> HIDE DEF Inv
  <1> QED BY <1>1, <1>2, <1>3, PTL DEF Spec, StopMeansDown, DownStep
=============================================================================
