------------------------ MODULE WatchdogTimerProofs ------------------------
(* Proofs that the watchdog keeps a healthy core, keeps its post and       *)
(* notices a loss, for every choice of the periods.                        *)
EXTENDS WatchdogTimer, TLAPS

(* Every value a variable takes stays inside its type; the clocks need the *)
(* facts of Clocks, since a timer is bounded by the wall clock only.       *)
LEMMA TypesAndClocksInit == Init => TypeOK /\ Clocks
<1> USE PeriodAssumption DEF PeriodAssumption, Init, Never
<1>1. Init => TypeOK
  <2> SUFFICES ASSUME Init PROVE TypeOK
    OBVIOUS
  <2>1. stateFile \in BOOLEAN /\ cancelFile \in BOOLEAN /\ armed \in BOOLEAN
    OBVIOUS
  <2>2. cancelled \in BOOLEAN /\ heartbeatExpired \in BOOLEAN /\ forcedStop \in BOOLEAN
    OBVIOUS
  <2> QED BY <2>1, <2>2 DEF TypeOK
<1>2. Init => Clocks
  BY DEF Clocks
<1> QED BY <1>1, <1>2

LEMMA TypesAndClocksStep == TypeOK /\ Clocks /\ [Next]_vars => TypeOK' /\ Clocks'
<1> SUFFICES ASSUME TypeOK, Clocks, [Next]_vars PROVE TypeOK' /\ Clocks'
  OBVIOUS
<1> USE PeriodAssumption DEF PeriodAssumption
<1>1. CASE Tick
  BY <1>1 DEF TypeOK, Clocks, Tick, endVars
<1>2. ASSUME NEW d \in 1..MaxNap, Nap(d) PROVE TypeOK' /\ Clocks'
  BY <1>2 DEF TypeOK, Clocks, Nap, supVars, loopVars, endVars
<1>3. CASE StateWritten
  BY <1>3 DEF TypeOK, Clocks, StateWritten, clockVars, loopVars, endVars
<1>4. CASE Beat
  BY <1>4 DEF TypeOK, Clocks, Beat, clockVars, loopVars, endVars
<1>5. CASE Vanish
  BY <1>5 DEF TypeOK, Clocks, Vanish, clockVars, loopVars, endVars
<1>6. CASE Cancel
  BY <1>6 DEF TypeOK, Clocks, Cancel, clockVars, loopVars, endVars
<1>7. CASE CoreEnds
  BY <1>7 DEF TypeOK, Clocks, CoreEnds, clockVars, supVars, loopVars, endVars
<1>8. CASE AwaitState
  <2>1. cancelled' \in BOOLEAN
    BY <1>8, Zenon DEF TypeOK, AwaitState
  <2>2. armed' \in BOOLEAN /\ stateFile' \in BOOLEAN /\ cancelFile' \in BOOLEAN
    BY <1>8, Zenon DEF TypeOK, AwaitState, supVars
  <2>3. heartbeatExpired' \in BOOLEAN /\ forcedStop' \in BOOLEAN
    BY <1>8, Zenon DEF TypeOK, AwaitState
  <2> QED BY <1>8, <2>1, <2>2, <2>3 DEF TypeOK, Clocks, AwaitState, clockVars, supVars
<1>9. CASE Guard
  <2>1. CASE LeaveGuard
    BY <1>9, <2>1 DEF TypeOK, Clocks, Guard, LeaveGuard, clockVars, supVars
  <2>2. CASE JudgeHeartbeat
    BY <1>9, <2>2 DEF TypeOK, Clocks, Guard, JudgeHeartbeat, clockVars, supVars, Never
  <2> QED BY <1>9, <2>1, <2>2 DEF Guard
<1>10. CASE Finish
  BY <1>10 DEF TypeOK, Clocks, Finish, clockVars, supVars, loopVars
<1>11. CASE UNCHANGED vars
  BY <1>11 DEF TypeOK, Clocks, vars, clockVars, supVars, loopVars, endVars
<1> QED BY <1>1, <1>2, <1>3, <1>4, <1>5, <1>6, <1>7, <1>8, <1>9, <1>10, <1>11 DEF Next

(* Type correctness of the timing model, for all periods.                  *)
THEOREM TypeCorrect == Spec => []TypeOK
<1>1. TypeOK /\ Clocks /\ [Next]_vars => (TypeOK /\ Clocks)'
  BY TypesAndClocksStep
<1> QED BY TypesAndClocksInit, <1>1, PTL DEF Spec

-----------------------------------------------------------------------------
LEMMA KeepInvStep ==
  ASSUME RestedMachine, KeepInv, [Next]_vars
  PROVE  KeepInv'
<1> USE PeriodAssumption DEF PeriodAssumption
<1>0. TypeOK' /\ Clocks'
  BY TypesAndClocksStep DEF KeepInv
<1> SUFFICES (Phases /\ StaleExplained /\ Reasons)'
  BY <1>0 DEF KeepInv
<1> USE DEF KeepInv, TypeOK, Clocks, Phases, StaleExplained, Reasons
<1>1. CASE Tick
  BY <1>1 DEF Tick, endVars
<1>2. ASSUME NEW d \in 1..MaxNap, Nap(d) PROVE (Phases /\ StaleExplained /\ Reasons)'
  BY <1>2 DEF Nap, RestedMachine, supVars, loopVars, endVars
<1>3. CASE StateWritten
  BY <1>3 DEF StateWritten, clockVars, loopVars, endVars
<1>4. CASE Beat
  BY <1>4 DEF Beat, clockVars, loopVars, endVars
<1>5. CASE Vanish
  BY <1>5 DEF Vanish, clockVars, loopVars, endVars
<1>6. CASE Cancel
  BY <1>6 DEF Cancel, clockVars, loopVars, endVars
<1>7. CASE CoreEnds
  BY <1>7 DEF CoreEnds, clockVars, supVars, loopVars, endVars
<1>8. CASE AwaitState
  BY <1>8 DEF AwaitState, clockVars, supVars, Never
<1>9. CASE Guard
  <2>1. CASE LeaveGuard
    BY <1>9, <2>1 DEF Guard, LeaveGuard, clockVars, supVars
  <2>2. CASE JudgeHeartbeat
    BY <1>9, <2>2 DEF Guard, JudgeHeartbeat, HeartbeatFresh, clockVars, supVars, Never
  <2> QED BY <1>9, <2>1, <2>2 DEF Guard
<1>10. CASE Finish
  BY <1>10 DEF Finish, clockVars, supVars, loopVars
<1>11. CASE UNCHANGED vars
  BY <1>11 DEF vars, clockVars, supVars, loopVars, endVars
<1> QED BY <1>1, <1>2, <1>3, <1>4, <1>5, <1>6, <1>7, <1>8, <1>9, <1>10, <1>11 DEF Next

LEMMA KeepInvInit == Init => KeepInv
<1>1. Init => TypeOK /\ Clocks
  BY TypesAndClocksInit
<1>2. Init => Phases /\ StaleExplained /\ Reasons
  BY PeriodAssumption DEF PeriodAssumption, Init, Phases, StaleExplained, Reasons, Never
<1> QED BY <1>1, <1>2 DEF KeepInv

LEMMA KeepInvHolds == ASSUME RestedMachine PROVE Spec => []KeepInv
<1>1. KeepInv /\ [Next]_vars => KeepInv'
  BY KeepInvStep
<1> QED BY KeepInvInit, <1>1, PTL DEF Spec

(* On a machine that stays awake long enough for one heartbeat and one     *)
(* look between suspensions, no core is stopped while its supervisor beats *)
(* unless the watchdog's own deadline has come.                            *)
THEOREM HealthyCoreIsKept == ASSUME RestedMachine PROVE Spec => []HealthyCoreKept
<1>1. KeepInv => HealthyCoreKept
  BY PeriodAssumption DEF PeriodAssumption, KeepInv, TypeOK, Reasons, HealthyCoreKept
<1> QED BY <1>1, KeepInvHolds, PTL

(* Under the same condition the watchdog of a serving core never leaves.   *)
THEOREM WatchIsKept == ASSUME RestedMachine PROVE Spec => []WatchKept
<1>1. KeepInv => WatchKept
  BY PeriodAssumption DEF PeriodAssumption, KeepInv, TypeOK, Reasons, Phases, WatchKept
<1> QED BY <1>1, KeepInvHolds, PTL

-----------------------------------------------------------------------------
LEMMA LossInvStep ==
  ASSUME LossInv, [Next]_vars
  PROVE  LossInv'
<1> USE PeriodAssumption DEF PeriodAssumption
<1>0. TypeOK' /\ Clocks'
  BY TypesAndClocksStep DEF LossInv
<1> USE DEF LossInv, TypeOK, Clocks
<1>1. CASE Tick
  BY <1>0, <1>1 DEF Tick, endVars
<1>2. ASSUME NEW d \in 1..MaxNap, Nap(d) PROVE LossInv'
  BY <1>0, <1>2 DEF Nap, supVars, loopVars, endVars
<1>3. CASE StateWritten
  BY <1>0, <1>3 DEF StateWritten, clockVars, loopVars, endVars
<1>4. CASE Beat
  BY <1>0, <1>4 DEF Beat, clockVars, loopVars, endVars
<1>5. CASE Vanish
  BY <1>0, <1>5 DEF Vanish, clockVars, loopVars, endVars
<1>6. CASE Cancel
  BY <1>0, <1>6 DEF Cancel, clockVars, loopVars, endVars
<1>7. CASE CoreEnds
  BY <1>0, <1>7 DEF CoreEnds, clockVars, supVars, loopVars, endVars
<1>8. CASE AwaitState
  BY <1>0, <1>8 DEF AwaitState, clockVars, supVars, Never
<1>9. CASE Guard
  <2>1. CASE LeaveGuard
    BY <1>0, <1>9, <2>1 DEF Guard, LeaveGuard, clockVars, supVars
  <2>2. CASE JudgeHeartbeat
    BY <1>0, <1>9, <2>2 DEF Guard, JudgeHeartbeat, HeartbeatFresh, clockVars, supVars, Never
  <2> QED BY <1>9, <2>1, <2>2 DEF Guard
<1>10. CASE Finish
  BY <1>0, <1>10 DEF Finish, clockVars, supVars, loopVars
<1>11. CASE UNCHANGED vars
  BY <1>0, <1>11 DEF vars, clockVars, supVars, loopVars, endVars
<1> QED BY <1>1, <1>2, <1>3, <1>4, <1>5, <1>6, <1>7, <1>8, <1>9, <1>10, <1>11 DEF Next

LEMMA LossInvInit == Init => LossInv
<1>1. Init => TypeOK /\ Clocks
  BY TypesAndClocksInit
<1> QED BY <1>1, PeriodAssumption DEF PeriodAssumption, Init, LossInv, Never

(* However the machine sleeps, a watchdog at its post has seen the last    *)
(* heartbeat within LossBound ticks of awake time.                         *)
THEOREM LossIsNoticed == Spec => []LossNoticed
<1>1. LossInv /\ [Next]_vars => LossInv'
  BY LossInvStep
<1>2. LossInv => LossNoticed
  BY PeriodAssumption DEF PeriodAssumption, LossInv, TypeOK, Clocks, LossNoticed, LossBound, Never
<1> QED BY LossInvInit, <1>1, <1>2, PTL DEF Spec

=============================================================================
