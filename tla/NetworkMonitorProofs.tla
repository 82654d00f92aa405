------------------------ MODULE NetworkMonitorProofs ------------------------
(***************************************************************************)
(* Proofs about NetworkMonitor, for every set of networks, every number of *)
(* samples and all periods.                                                *)
(***************************************************************************)
EXTENDS NetworkMonitor, TLAPS

MonitorInv == TypeOK /\ CountsReadings /\ CoolsDown

LEMMA Initially == Init => MonitorInv
  BY MonitorAssumption DEF Init, MonitorInv, TypeOK, CountsReadings, CoolsDown, Events

(* What a reading does to the history: a change that is counted once more  *)
(* is the last reading, which the history counts once more too.            *)
LEMMA Counting ==
    ASSUME MonitorInv, Record(physical), Changed
    PROVE  /\ Seen \in 1..StableSamples
           /\ last' = physical
           /\ streak' \in 1..StableSamples
           /\ Seen <= streak'
  <1>1. physical \in Signature /\ physical # None
    BY MonitorAssumption DEF MonitorInv, TypeOK, Changed
  <1>2. CASE physical = pending
    <2>1. count > 0
      BY <1>1, <1>2 DEF MonitorInv, CountsReadings, TypeOK
    <2>2. physical = last /\ count <= streak
      BY <1>2, <2>1 DEF MonitorInv, CountsReadings
    <2>3. Seen = count + 1
      BY <1>2 DEF Seen
    <2> QED BY <1>1, <2>1, <2>2, <2>3, MonitorAssumption DEF MonitorInv, TypeOK, Record
  <1>3. CASE physical # pending
    BY <1>1, <1>3, MonitorAssumption DEF MonitorInv, TypeOK, Record, Seen
  <1> QED BY <1>2, <1>3

LEMMA Recording ==
    ASSUME MonitorInv, Record(physical)
    PROVE  last' \in Signature \cup {None} /\ streak' \in 0..StableSamples
  BY MonitorAssumption DEF MonitorInv, TypeOK, Record

LEMMA Inductive == MonitorInv /\ [Next]_vars => MonitorInv'
  <1> SUFFICES ASSUME MonitorInv, [Next]_vars
               PROVE  MonitorInv'
    OBVIOUS
  <1> USE MonitorAssumption
  <1>1. CASE Observe
    <2>0. Record(physical) /\ loop' = "wait" /\ physical' = physical
      BY <1>1 DEF Observe
    <2>1. last' \in Signature \cup {None} /\ streak' \in 0..StableSamples
      BY <2>0, Recording
    <2>2. CASE NothingNew
      BY <2>0, <2>1, <2>2 DEF NothingNew, ClearPending, MonitorInv, TypeOK, CountsReadings, CoolsDown, Events
    <2>3. CASE RateLimited
      BY <2>0, <2>1, <2>3 DEF RateLimited, ClearPending, MonitorInv, TypeOK, CountsReadings, CoolsDown, Events
    <2>4. CASE Pending
      <3>1. Seen \in 1..StableSamples /\ last' = physical /\ Seen <= streak' /\ Seen < StableSamples
        BY <2>0, <2>4, Counting DEF Pending
      <3> QED
        BY <2>0, <2>1, <2>4, <3>1 DEF Pending, MonitorInv, TypeOK, CountsReadings, CoolsDown, Events
    <2>5. CASE BaselineSet
      BY <2>0, <2>1, <2>5 DEF BaselineSet, ClearPending, MonitorInv, TypeOK, CountsReadings, CoolsDown, Events
    <2>6. CASE Restarted
      <3>1. retryIn = 0 /\ retryIn' = 0 /\ sinceFailure' = sinceFailure
        BY <2>6 DEF Restarted, Changed
      <3> QED
        BY <2>0, <2>1, <2>6, <3>1 DEF Restarted, ClearPending, MonitorInv, TypeOK, CountsReadings, CoolsDown, Events
    <2>7. CASE RestartFailed
      <3>1. PICK d \in 0..MaxAttempt : retryIn' = Less(Cooldown, d) /\ sinceFailure' = More(0, d)
        BY <2>7 DEF RestartFailed
      <3>2. retryIn' \in 0..Cooldown /\ sinceFailure' \in 0..Cooldown /\ retryIn' + sinceFailure' >= Cooldown
        BY <3>1 DEF Less, More
      <3> QED
        BY <2>0, <2>1, <2>7, <3>2 DEF RestartFailed, ClearPending, MonitorInv, TypeOK, CountsReadings, CoolsDown, Events
    <2> QED BY <1>1, <2>2, <2>3, <2>4, <2>5, <2>6, <2>7 DEF Observe
  <1>2. CASE ReadingFails
    BY <1>2 DEF ReadingFails, debounce, history, MonitorInv, TypeOK, CountsReadings, CoolsDown, Events
  <1>3. CASE Wait
    <2>1. retryIn' \in 0..Cooldown /\ sinceFailure' \in 0..Cooldown /\ retryIn' + sinceFailure' >= Cooldown
      BY <1>3 DEF Wait, Less, More, MonitorInv, TypeOK, CoolsDown
    <2> QED
      BY <1>3, <2>1 DEF Wait, debounce, history, MonitorInv, TypeOK, CountsReadings, CoolsDown
  <1>4. CASE Stop
    BY <1>4 DEF Stop, debounce, history, MonitorInv, TypeOK, CountsReadings, CoolsDown
  <1>5. CASE NetworkChanges
    BY <1>5 DEF NetworkChanges, debounce, history, MonitorInv, TypeOK, CountsReadings, CoolsDown
  <1>6. CASE UNCHANGED vars
    BY <1>6 DEF vars, debounce, history, MonitorInv, TypeOK, CountsReadings, CoolsDown
  <1> QED BY <1>1, <1>2, <1>3, <1>4, <1>5, <1>6 DEF Next

LEMMA Invariance == Spec => []MonitorInv
  BY Initially, Inductive, PTL DEF Spec

(* Every reachable state has the right types.                              *)
THEOREM TypeCorrect == Spec => []TypeOK
  <1>1. MonitorInv => TypeOK
    BY DEF MonitorInv
  <1> QED BY <1>1, Invariance, PTL

(* A step of the monitor is a reading of Debounce, or none.                *)
LEMMA Refinement == MonitorInv /\ [Next]_vars => [Debounced!Next]_<<current, last, streak>>
  <1> SUFFICES ASSUME MonitorInv, [Next]_vars
               PROVE  [Debounced!Next]_<<current, last, streak>>
    OBVIOUS
  <1>1. CASE Observe
    <2>1. physical \in Signature \cup {None} /\ Record(physical)
      BY <1>1 DEF Observe, MonitorInv, TypeOK
    <2>2. last' = physical /\ streak' = Debounced!Streak(physical)
      BY <2>1 DEF Record, Debounced!Streak
    <2>3. UNCHANGED current \/ (streak' = StableSamples /\ current' = physical)
      <3>1. CASE BaselineSet \/ Restarted
        <4>1. Changed /\ Seen >= StableSamples /\ current' = physical
          BY <3>1 DEF BaselineSet, Restarted
        <4>2. Seen \in 1..StableSamples /\ streak' \in 1..StableSamples /\ Seen <= streak'
          BY <2>1, <4>1, Counting
        <4>3. streak' = StableSamples
          BY <4>1, <4>2, MonitorAssumption
        <4> QED BY <4>1, <4>3
      <3>2. CASE NothingNew \/ RateLimited \/ Pending \/ RestartFailed
        BY <3>2 DEF NothingNew, RateLimited, Pending, RestartFailed
      <3> QED BY <1>1, <3>1, <3>2 DEF Observe
    <2>4. Debounced!Read(physical)
      BY <2>2, <2>3 DEF Debounced!Read
    <2> QED BY <2>1, <2>4 DEF Debounced!Next
  <1>2. CASE ReadingFails \/ Wait \/ Stop \/ NetworkChanges \/ UNCHANGED vars
    BY <1>2 DEF ReadingFails, Wait, Stop, NetworkChanges, vars, history
  <1> QED BY <1>1, <1>2 DEF Next

(* The monitor implements Debounce: its signature only moves to one that   *)
(* the last StableSamples readings agreed on.                              *)
THEOREM MovesOnlyToStable == Spec => OnlyStable
  <1>1. Init => Debounced!Init
    BY DEF Init, Debounced!Init
  <1> QED BY <1>1, Refinement, Invariance, PTL DEF Spec, OnlyStable, Debounced!Spec

(* No restart is attempted within the cooldown of one that failed.         *)
THEOREM CooldownIsKept == Spec => CooldownKept
  <1> DEFINE Attempt == loop = "poll" /\ loop' = "wait" /\ event' \in {"restarted", "restart_failed"}
  <1>1. MonitorInv /\ [Next]_vars => [Attempt => sinceFailure >= Cooldown]_vars
    <2> SUFFICES ASSUME MonitorInv, Next, Attempt
                 PROVE  sinceFailure >= Cooldown
      OBVIOUS
    <2>1. Observe
      BY DEF Next, ReadingFails, Wait, Stop, NetworkChanges
    <2>2. Restarted \/ RestartFailed
      BY <2>1 DEF Observe, NothingNew, RateLimited, Pending, BaselineSet
    <2>3. retryIn = 0
      BY <2>2 DEF Restarted, RestartFailed, Changed
    <2> QED BY <2>3, MonitorAssumption DEF MonitorInv, CoolsDown, TypeOK
  <1> QED BY <1>1, Invariance, PTL DEF Spec, CooldownKept
=============================================================================
