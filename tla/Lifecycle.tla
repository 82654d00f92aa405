----------------------------- MODULE Lifecycle -----------------------------
(***************************************************************************)
(* What a supervisor shows to the outside: the phases of its life, the     *)
(* status file that it announces some of them in, and the stop request.    *)
(* The control script and the window know no more of a supervisor than     *)
(* this (and whether its process exists).  Supervisor implements it.       *)
(***************************************************************************)
EXTENDS Naturals

CONSTANTS
    Sup,            \* the supervisor processes
    None

VARIABLES
    phase,          \* of each supervisor
    status,         \* the status file: a state, and the supervisor that wrote it
    stop            \* the stop request exists

Phases == {"idle", "launched", "starting", "running", "restarting", "stopping", "failing",
           "ended", "gone"}

Working == {"starting", "running", "restarting", "stopping"}

Init ==
    /\ phase = [s \in Sup |-> "idle"]
    /\ status = [state |-> "absent", by |-> None]
    /\ stop = FALSE

Turn(s, from, to) == phase[s] \in from /\ phase' = [phase EXCEPT ![s] = to]
Tell(s, state) == status' = [state |-> state, by |-> s]

Launch(s)   == Turn(s, {"idle"}, "launched") /\ UNCHANGED <<status, stop>>
Begin(s)    == Turn(s, {"launched"}, "starting") /\ Tell(s, "starting") /\ stop' = FALSE
Announce(s) == Turn(s, {"starting", "restarting"}, "running") /\ Tell(s, "running") /\ UNCHANGED stop
Restart(s)  == ~stop /\ Turn(s, {"running"}, "restarting") /\ Tell(s, "restarting") /\ UNCHANGED stop
TakeStop(s) == stop /\ Turn(s, {"running"}, "stopping") /\ Tell(s, "stopping") /\ UNCHANGED stop
Raise(s)    == Turn(s, Working, "failing") /\ UNCHANGED <<status, stop>>
Stopped(s)  == Turn(s, {"stopping"}, "ended") /\ Tell(s, "stopped") /\ UNCHANGED stop
Failed(s)   == Turn(s, {"failing"}, "ended") /\ Tell(s, "failed") /\ UNCHANGED stop
Finish(s)   == Turn(s, {"ended"}, "gone") /\ stop' = FALSE /\ UNCHANGED status
Crash(s)    == Turn(s, Phases \ {"idle", "gone"}, "gone") /\ UNCHANGED <<status, stop>>

RequestStop == stop' = TRUE /\ UNCHANGED <<phase, status>>

Next ==
    \/ \E s \in Sup :
          \/ Launch(s) \/ Begin(s) \/ Announce(s) \/ Restart(s) \/ TakeStop(s) \/ Raise(s)
          \/ Stopped(s) \/ Failed(s) \/ Finish(s) \/ Crash(s)
    \/ RequestStop

Spec == Init /\ [][Next]_<<phase, status, stop>>

=============================================================================
