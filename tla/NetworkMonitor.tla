--------------------------- MODULE NetworkMonitor ---------------------------
(***************************************************************************)
(* The debounced monitor of the physical network (NetworkMonitor in        *)
(* network_monitor.py): observe, called by the polling loop of run.        *)
(*                                                                         *)
(* _retry_not_before is kept as the time that is left until it; time       *)
(* passes while the loop waits and while a restart is attempted.           *)
(***************************************************************************)
EXTENDS Integers

CONSTANTS
    Signature,      \* the physical networks
    StableSamples,  \* stable_samples
    Interval,       \* poll_interval_seconds
    Cooldown,       \* retry_cooldown_seconds
    MaxAttempt,     \* how long a restart may take (bound)
    None            \* no physical network

(* __init__ refuses fewer than two samples.                                *)
ASSUME MonitorAssumption ==
    /\ StableSamples \in Nat /\ StableSamples >= 2
    /\ Interval \in Nat \ {0} /\ Cooldown \in Nat /\ MaxAttempt \in Nat
    /\ None \notin Signature

VARIABLES
    physical,       \* what a reading of the network gives
    loop,           \* where run is: "poll", "wait", "stopped"
    current,        \* current_signature
    pending,        \* _pending
    count,          \* _pending_count
    retryIn,        \* the time until _retry_not_before, 0 if it is past
    event,          \* of the last MonitorResult
    last, streak,   \* history: the last reading and how often it was repeated
    sinceFailure    \* history: the time since a failed attempt began, capped

history  == <<last, streak>>
debounce == <<pending, count>>
vars     == <<physical, loop, current, debounce, retryIn, event, history, sinceFailure>>

Events == {"unchanged", "pending", "network_unavailable", "restarted", "restart_failed",
           "rate_limited", "baseline_set"}

TypeOK ==
    /\ physical \in Signature \cup {None}
    /\ loop \in {"poll", "wait", "stopped"}
    /\ current \in Signature \cup {None}
    /\ pending \in Signature \cup {None} /\ count \in 0..(StableSamples - 1)
    /\ retryIn \in 0..Cooldown /\ sinceFailure \in 0..Cooldown
    /\ event \in Events
    /\ last \in Signature \cup {None} /\ streak \in 0..StableSamples

Init ==
    /\ physical \in Signature \cup {None}
    /\ loop = "poll"
    /\ current \in Signature \cup {None}
    /\ pending = None /\ count = 0
    /\ retryIn = 0 /\ sinceFailure = Cooldown
    /\ event = "unchanged"
    /\ last = None /\ streak = 0

-----------------------------------------------------------------------------
Less(t, d) == IF t > d THEN t - d ELSE 0
More(t, d) == IF t + d < Cooldown THEN t + d ELSE Cooldown

ClearPending == pending' = None /\ count' = 0

(* A reading, in terms of the history.                                     *)
Record(x) ==
    /\ last' = x
    /\ streak' = IF x = None THEN 0
                 ELSE IF x # last THEN 1
                 ELSE IF streak < StableSamples THEN streak + 1 ELSE streak

(* Nothing, or nothing new, was read.                                      *)
NothingNew ==
    /\ physical \in {None, current}
    /\ ClearPending
    /\ event' = IF physical = None THEN "network_unavailable" ELSE "unchanged"
    /\ UNCHANGED <<current, retryIn, sinceFailure>>

(* Mutant: a change that is declined puts the retry off again.             *)
RateLimitedAgain ==
    /\ physical \notin {None, current}
    /\ retryIn > 0 /\ retryIn' = Cooldown
    /\ ClearPending
    /\ event' = "rate_limited"
    /\ UNCHANGED <<current, sinceFailure>>

(* A change within the cooldown of a failed restart is not even counted.   *)
RateLimited ==
    /\ physical \notin {None, current}
    /\ retryIn > 0
    /\ ClearPending
    /\ event' = "rate_limited"
    /\ UNCHANGED <<current, retryIn, sinceFailure>>

(* Mutant: a different change carries the count of the one before on.      *)
SeenAnyChange == IF pending # None THEN count + 1 ELSE 1

(* How often a change has been seen, this reading included.                *)
Seen == IF physical = pending THEN count + 1 ELSE 1

Changed == physical \notin {None, current} /\ retryIn = 0

Pending ==
    /\ Changed /\ Seen < StableSamples
    /\ pending' = physical /\ count' = Seen
    /\ event' = "pending"
    /\ UNCHANGED <<current, retryIn, sinceFailure>>

(* The first signature of a monitor that was started without one.          *)
BaselineSet ==
    /\ Changed /\ Seen >= StableSamples /\ current = None
    /\ ClearPending
    /\ current' = physical
    /\ event' = "baseline_set"
    /\ UNCHANGED <<retryIn, sinceFailure>>

(* prepare_and_validate and guarded_restart succeed.                       *)
Restarted ==
    /\ Changed /\ Seen >= StableSamples /\ current # None
    /\ ClearPending
    /\ current' = physical
    /\ retryIn' = 0
    /\ event' = "restarted"
    /\ UNCHANGED sinceFailure

(* Mutant: an early end of a failed restart is forgotten at once.          *)
RestartFailedFreely ==
    /\ Changed /\ Seen >= StableSamples /\ current # None
    /\ ClearPending
    /\ \E d \in 0..MaxAttempt : sinceFailure' = More(0, d)
    /\ event' = "restart_failed"
    /\ UNCHANGED <<current, retryIn>>

(* One of them raises, d after the timestamp that the cooldown counts from.*)
RestartFailed ==
    /\ Changed /\ Seen >= StableSamples /\ current # None
    /\ ClearPending
    /\ \E d \in 0..MaxAttempt : retryIn' = Less(Cooldown, d) /\ sinceFailure' = More(0, d)
    /\ event' = "restart_failed"
    /\ UNCHANGED current

(* One turn of run in which the network could be read.                     *)
Observe ==
    /\ loop = "poll" /\ loop' = "wait"
    /\ Record(physical)
    /\ \/ NothingNew \/ RateLimited \/ Pending
       \/ BaselineSet \/ Restarted \/ RestartFailed
    /\ UNCHANGED physical

(* One in which reading it raised: the count is left as it is.             *)
ReadingFails ==
    /\ loop = "poll" /\ loop' = "wait"
    /\ event' = "network_unavailable"
    /\ UNCHANGED <<physical, current, debounce, retryIn, history, sinceFailure>>

Wait ==
    /\ loop = "wait" /\ loop' = "poll"
    /\ retryIn' = Less(retryIn, Interval) /\ sinceFailure' = More(sinceFailure, Interval)
    /\ UNCHANGED <<physical, current, debounce, event, history>>

(* The stop event is set.                                                  *)
Stop ==
    /\ loop = "wait" /\ loop' = "stopped"
    /\ UNCHANGED <<physical, current, debounce, retryIn, event, history, sinceFailure>>

NetworkChanges ==
    /\ physical' \in (Signature \cup {None}) \ {physical}
    /\ UNCHANGED <<loop, current, debounce, retryIn, event, history, sinceFailure>>

Next == Observe \/ ReadingFails \/ Wait \/ Stop \/ NetworkChanges

Spec == Init /\ [][Next]_vars

(* The loop is scheduled; a reading, and a restart, that is tried again    *)
(* and again does not fail every time.                                     *)
FairSpec ==
    /\ Spec
    /\ WF_vars(Wait) /\ WF_vars(Observe \/ ReadingFails)
    /\ SF_vars(Observe) /\ SF_vars(loop = "poll" /\ event' = "restarted" /\ Observe)

-----------------------------------------------------------------------------
(* Properties.                                                             *)

(* The signature only moves to one that the last StableSamples successful  *)
(* readings agreed on.                                                     *)
Debounced == INSTANCE Debounce
OnlyStable == Debounced!Spec

(* No restart is attempted sooner than the cooldown after the beginning of *)
(* one that failed, however the network flaps in between.                  *)
CooldownKept ==
    [][loop = "poll" /\ loop' = "wait" /\ event' \in {"restarted", "restart_failed"}
        => sinceFailure >= Cooldown]_vars

(* A network that stays is adopted in the end.                             *)
NetworkAdopted ==
    \A x \in Signature :
        <>[](physical = x /\ loop # "stopped") => <>[](current = x)

-----------------------------------------------------------------------------
(* The inductive invariant behind OnlyStable: what is counted as pending   *)
(* is the last reading, and never more often than it was read.             *)
CountsReadings ==
    /\ count > 0 => pending = last
    /\ count = 0 => pending = None
    /\ count <= streak

(* The one behind CooldownKept.                                            *)
CoolsDown == retryIn + sinceFailure >= Cooldown

=============================================================================
