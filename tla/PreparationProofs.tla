------------------------- MODULE PreparationProofs -------------------------
(***************************************************************************)
(* Proofs about Preparation, for all profiles and addresses and any number *)
(* of changes, failures and supervisors.                                   *)
(***************************************************************************)
EXTENDS Preparation, WellFoundedInduction, TLAPS

Snapping  == {"load", "route", "resolve"}
Making    == {"prepare", "assets", "write", "replace", "validate", "handover", "startCore"}
Filing    == {"write", "replace", "validate"}
Handing   == {"handover", "startCore"}

(* What a supervisor has in its hands at each of its steps.                *)
InHand ==
    /\ pc \in {"route", "resolve", "compare"} \cup Making => snap \in Snapshots
    /\ pc \in Making => snap.proxy # {} /\ purpose \in {"start", "restart"}
    /\ pc \in Making \ {"prepare"} => profile \in Profile
    /\ pc = "compare" => purpose = "observe"

(* Where it has a core, and a snapshot that it compares with.              *)
CoreHeld ==
    /\ pc \in Making \cup Ended => core = None
    /\ pc \in Snapping /\ purpose \in {"start", "restart"} => core = None
    /\ \/ pc \in Snapping /\ purpose \in {"baseline", "observe"}
       \/ pc \in {"monitor", "compare", "restart"}
       => core \in Config /\ current \in Snapshots

(* How far a preparation has come is what is on the disk.                  *)
FilesMade ==
    /\ pc = "assets" => mode = 1
    /\ pc \in {"assets"} \cup Filing => ~complete
    /\ pc \in Filing => \A m \in Modes : m < mode => ~temp[m]
    /\ pc = "validate" => ~temp[mode] /\ dest[mode] = Built
    /\ pc \in Handing => complete /\ dest[Full] = Built
    /\ complete => \A m \in Modes : ~temp[m]
    /\ pc \in {"stopped", "failed"} => \A m \in Modes : dest[m] = None

PreparationInv == TypeOK /\ InHand /\ CoreHeld /\ FilesMade /\ RunsPrepared

-----------------------------------------------------------------------------
(* The sorted addresses have a first one.                                  *)
LEMMA FirstAddress ==
    ASSUME NEW addresses \in SUBSET Nat, addresses # {}
    PROVE  Pinned(addresses) \in addresses
  <1> DEFINE Less == {pair \in Nat \X Nat : pair[1] < pair[2]}
  <1>1. IsWellFoundedOn(Less, Nat)
    BY NatLessThanWellFounded DEF OpToRel
  <1>2. \E a \in addresses : \A b \in addresses : <<b, a>> \notin Less
    <2> HIDE DEF Less
    <2> QED BY <1>1, WFMin
  <1>3. \A a, b \in Nat : <<b, a>> \notin Less => a <= b
    OBVIOUS
  <1> QED BY <1>2, <1>3 DEF Pinned

LEMMA Initially == Init => PreparationInv
  <1> SUFFICES ASSUME Init PROVE PreparationInv
    OBVIOUS
  <1> USE PreparationAssumption DEF Init
  <1>1. stamp \in 0..MaxChange /\ failures \in 0..MaxFailure /\ starts \in 0..MaxStart
    OBVIOUS
  <1>2. temp \in [Modes -> BOOLEAN] /\ dest \in [Modes -> Config \cup {None}]
    OBVIOUS
  <1>3. mode \in Modes /\ written \subseteq Modes /\ count \in 0..2 /\ prepared \in Nat
    BY DEF Modes
  <1>6. pc \in Working \cup Ended
    BY DEF Ended
  <1>7. TypeOK
    BY <1>1, <1>2, <1>3, <1>6 DEF TypeOK
  <1>4. InHand /\ CoreHeld
    BY DEF InHand, CoreHeld, Making, Snapping, Ended
  <1>5. FilesMade /\ RunsPrepared
    BY DEF FilesMade, RunsPrepared, Filing, Handing
  <1> QED BY <1>7, <1>4, <1>5 DEF PreparationInv

-----------------------------------------------------------------------------
(* A step that fails keeps the invariant, if it touches no file of a       *)
(* preparation that came to its end.                                       *)
LEMMA Failing ==
    ASSUME PreparationInv, NEW from, Raise(from),
           failures' \in 0..MaxFailure,
           temp' \in [Modes -> BOOLEAN], complete => temp' = temp,
           dest' \in [Modes -> Config \cup {None}]
    PROVE  PreparationInv'
  <1> USE PreparationAssumption DEF PreparationInv, Raise, Go, sourceVars, coreVars, monitorVars
  <1>1. TypeOK'
    BY DEF TypeOK, Working
  <1>2. InHand' /\ CoreHeld'
    BY DEF InHand, CoreHeld, Making, Snapping, Ended
  <1>3. FilesMade'
    BY DEF FilesMade, Filing, Handing
  <1>4. RunsPrepared'
    BY DEF RunsPrepared
  <1> QED BY <1>1, <1>2, <1>3, <1>4

(* A snapshot that fails ends the supervisor, or only the monitor's look.  *)
LEMMA SnapshotFailing ==
    ASSUME PreparationInv, NEW from \in Snapping, SnapshotFails(from), failures' \in 0..MaxFailure
    PROVE  PreparationInv'
  <1> USE PreparationAssumption DEF PreparationInv
  <1>1. CASE Unseen(from)
    <2> USE <1>1 DEF Unseen, Go, sourceVars, fileVars, coreVars, prepareVars
    <2>1. TypeOK'
      BY DEF TypeOK, Working
    <2>2. InHand' /\ CoreHeld'
      BY DEF InHand, CoreHeld, Making, Snapping, Ended
    <2>3. FilesMade' /\ RunsPrepared'
      BY DEF FilesMade, RunsPrepared, Filing, Handing
    <2> QED BY <2>1, <2>2, <2>3
  <1>2. CASE Raise(from) /\ UNCHANGED fileVars
    BY <1>2, Failing DEF fileVars, TypeOK
  <1> QED BY <1>1, <1>2 DEF SnapshotFails

(* The addresses that a snapshot is taken with: once the core is up, those *)
(* that the snapshot before it had.                                        *)
LEMMA Resolving ==
    ASSUME PreparationInv, Resolve
    PROVE  \E proxy \in SUBSET Nat :
              /\ Detect(proxy)
              /\ purpose \in {"baseline", "observe"} => proxy = current.proxy
  <1> USE PreparationAssumption DEF PreparationInv
  <1>1. CASE purpose \in {"baseline", "observe"}
    BY <1>1 DEF Resolve, CoreHeld, Snapping, Snapshots
  <1>2. CASE purpose \notin {"baseline", "observe"}
    <2>1. PICK seen \in SUBSET Peers, answer \in Answers(snap.profile) :
             Detect(Resolved(snap.profile, seen, answer))
      BY <1>2 DEF Resolve
    <2>2. snap.profile \in Profile
      BY DEF Resolve, InHand, Snapshots
    <2>3. Peers \subseteq Nat /\ answer \subseteq Nat
      BY <2>2 DEF Peers, Answers, TypeOK
    <2>4. Resolved(snap.profile, seen, answer) \in SUBSET Nat
      BY <2>3 DEF Resolved, Usable
    <2> QED BY <1>2, <2>1, <2>4
  <1> QED BY <1>1, <1>2

(* What is built from a snapshot is a configuration.                       *)
LEMMA Building ==
    ASSUME PreparationInv, pc \in Making \ {"prepare"}
    PROVE  Built \in Config
  BY FirstAddress DEF PreparationInv, InHand, TypeOK, Built, Config, Making, Snapshots

(* Every step keeps the invariant.                                         *)
LEMMA Inductive == PreparationInv /\ [Next]_vars => PreparationInv'
  <1> SUFFICES ASSUME PreparationInv, [Next]_vars
               PROVE  PreparationInv'
    OBVIOUS
  <1> USE PreparationAssumption DEF PreparationInv, Go, sourceVars, fileVars, coreVars, prepareVars, monitorVars
  <1>1. CASE Load
    <2>1. CASE Fails("source")
      <3>1. failures' \in 0..MaxFailure /\ failures' # failures
        BY <2>1 DEF Fails, TypeOK
      <3>2. SnapshotFails("load")
        BY <1>1, <3>1 DEF Load
      <3> QED BY <3>1, <3>2, SnapshotFailing DEF Snapping
    <2>2. CASE ~Fails("source")
      <3>0. snap' \in Snapshots
        BY <1>1, <2>2 DEF Load, Snapshots, Chosen, TypeOK
      <3> USE <1>1, <2>2, <3>0 DEF Load
      <3>1. TypeOK'
        BY DEF TypeOK, Working, Ended, InHand, CoreHeld, Snapping, Making
      <3>2. InHand' /\ CoreHeld'
        BY DEF InHand, CoreHeld, Making, Snapping, Ended, TypeOK
      <3>3. FilesMade'
        BY DEF FilesMade, Filing, Handing, Making, Built, Modes, Full, TypeOK
      <3>4. RunsPrepared'
        BY DEF RunsPrepared, InHand, CoreHeld, Making, Handing, Snapping, Ended, FilesMade, Built
      <3> QED BY <3>1, <3>2, <3>3, <3>4
    <2> QED BY <2>1, <2>2
  <1>2. CASE Route
    <2>1. CASE Fails("route")
      <3>1. failures' \in 0..MaxFailure /\ failures' # failures
        BY <2>1 DEF Fails, TypeOK
      <3>2. SnapshotFails("route")
        BY <1>2, <3>1 DEF Route
      <3> QED BY <3>1, <3>2, SnapshotFailing DEF Snapping
    <2>2. CASE ~Fails("route")
      <3>0. snap' \in Snapshots
        BY <1>2, <2>2 DEF Route, Snapshots, InHand, TypeOK
      <3> USE <1>2, <2>2, <3>0 DEF Route
      <3>1. TypeOK'
        BY DEF TypeOK, Working, Ended, InHand, CoreHeld, Snapping, Making
      <3>2. InHand' /\ CoreHeld'
        BY DEF InHand, CoreHeld, Making, Snapping, Ended, TypeOK
      <3>3. FilesMade'
        BY DEF FilesMade, Filing, Handing, Making, Built, Modes, Full, TypeOK
      <3>4. RunsPrepared'
        BY DEF RunsPrepared, InHand, CoreHeld, Making, Handing, Snapping, Ended, FilesMade, Built
      <3> QED BY <3>1, <3>2, <3>3, <3>4
    <2> QED BY <2>1, <2>2
  <1>3. CASE Resolve
    <2>1. PICK proxy \in SUBSET Nat :
             /\ Detect(proxy)
             /\ purpose \in {"baseline", "observe"} => proxy = current.proxy
      BY <1>3, Resolving
    <2>2. CASE proxy = {}
      BY <2>1, <2>2, SnapshotFailing DEF Detect, Snapping, TypeOK
    <2>3. CASE proxy # {}
      <3>0. snap' = [snap EXCEPT !.proxy = proxy] /\ snap' \in Snapshots /\ snap'.proxy = proxy
        BY <1>3, <2>1, <2>3 DEF Detect, Resolve, InHand, Snapshots
      <3> USE <1>3, <2>1, <2>3, <3>0 DEF Detect, Resolve, AfterSnapshot
      <3>1. TypeOK'
        BY DEF TypeOK, Working, Ended, InHand, CoreHeld, Snapping, Making
      <3>2. InHand' /\ CoreHeld'
        BY DEF InHand, CoreHeld, Making, Snapping, Ended, TypeOK
      <3>3. FilesMade'
        BY DEF FilesMade, Filing, Handing, Making, Built, Modes, Full, TypeOK
      <3>4. RunsPrepared'
        BY DEF RunsPrepared, InHand, CoreHeld, Making, Handing, Snapping, Ended, FilesMade, Built
      <3> QED BY <3>1, <3>2, <3>3, <3>4
    <2> QED BY <2>2, <2>3
  <1>4. CASE LoadAgain
    <2>1. CASE Fails("source")
      <3>1. failures' \in 0..MaxFailure /\ failures' # failures
        BY <2>1 DEF Fails, TypeOK
      <3>2. Raise("prepare")
        BY <1>4, <3>1 DEF LoadAgain, GiveUp
      <3>3. temp' \in [Modes -> BOOLEAN] /\ (complete => temp' = temp)
        BY <1>4, <3>1 DEF LoadAgain, fileVars, TypeOK, GiveUp, Raise, FilesMade, Filing
      <3>4. dest' \in [Modes -> Config \cup {None}]
        BY <1>4, <3>1 DEF LoadAgain, fileVars, TypeOK, GiveUp
      <3> QED BY <3>1, <3>2, <3>3, <3>4, Failing
    <2>2. CASE ~Fails("source")
      <3>0. profile' \in Profile /\ mode' \in Modes /\ written' \subseteq Modes /\ prepared' \in Nat
        BY <1>4, <2>2 DEF LoadAgain, Chosen, Modes, TypeOK
      <3> USE <1>4, <2>2, <3>0 DEF LoadAgain
      <3>1. TypeOK'
        BY DEF TypeOK, Working, Ended, InHand, CoreHeld, Snapping, Making
      <3>2. InHand' /\ CoreHeld'
        BY DEF InHand, CoreHeld, Making, Snapping, Ended, TypeOK
      <3>3. FilesMade'
        BY DEF FilesMade, Filing, Handing, Making, Built, Modes, Full, TypeOK
      <3>4. RunsPrepared'
        BY DEF RunsPrepared, InHand, CoreHeld, Making, Handing, Snapping, Ended, FilesMade, Built
      <3> QED BY <3>1, <3>2, <3>3, <3>4
    <2> QED BY <2>1, <2>2
  <1>5. CASE CopyAssets
    <2>1. CASE Fails("asset")
      <3>1. failures' \in 0..MaxFailure /\ failures' # failures
        BY <2>1 DEF Fails, TypeOK
      <3>2. Raise("assets")
        BY <1>5, <3>1 DEF CopyAssets, GiveUp
      <3>3. temp' \in [Modes -> BOOLEAN] /\ (complete => temp' = temp)
        BY <1>5, <3>1 DEF CopyAssets, fileVars, TypeOK, GiveUp, Raise, FilesMade, Filing
      <3>4. dest' \in [Modes -> Config \cup {None}]
        BY <1>5, <3>1 DEF CopyAssets, fileVars, TypeOK, GiveUp
      <3> QED BY <3>1, <3>2, <3>3, <3>4, Failing
    <2>2. CASE ~Fails("asset")
      <3> USE <1>5, <2>2 DEF CopyAssets
      <3>1. TypeOK'
        BY DEF TypeOK, Working, Ended, InHand, CoreHeld, Snapping, Making
      <3>2. InHand' /\ CoreHeld'
        BY DEF InHand, CoreHeld, Making, Snapping, Ended, TypeOK
      <3>3. FilesMade'
        BY DEF FilesMade, Filing, Handing, Making, Built, Modes, Full, TypeOK
      <3>4. RunsPrepared'
        BY DEF RunsPrepared, InHand, CoreHeld, Making, Handing, Snapping, Ended, FilesMade, Built
      <3> QED BY <3>1, <3>2, <3>3, <3>4
    <2> QED BY <2>1, <2>2
  <1>6. CASE WriteTemporary
    <2>1. CASE Fails("disk")
      <3>1. failures' \in 0..MaxFailure /\ failures' # failures
        BY <2>1 DEF Fails, TypeOK
      <3>2. Raise("write")
        BY <1>6, <3>1 DEF WriteTemporary, GiveUp
      <3>3. temp' \in [Modes -> BOOLEAN] /\ (complete => temp' = temp)
        BY <1>6, <3>1 DEF WriteTemporary, fileVars, TypeOK, GiveUp, Raise, FilesMade, Filing
      <3>4. dest' \in [Modes -> Config \cup {None}]
        BY <1>6, <3>1 DEF WriteTemporary, fileVars, TypeOK, GiveUp
      <3> QED BY <3>1, <3>2, <3>3, <3>4, Failing
    <2>2. CASE ~Fails("disk")
      <3> USE <1>6, <2>2 DEF WriteTemporary
      <3>1. TypeOK'
        BY DEF TypeOK, Working, Ended, InHand, CoreHeld, Snapping, Making
      <3>2. InHand' /\ CoreHeld'
        BY DEF InHand, CoreHeld, Making, Snapping, Ended, TypeOK
      <3>3. FilesMade'
        BY DEF FilesMade, Filing, Handing, Making, Built, Modes, Full, TypeOK
      <3>4. RunsPrepared'
        BY DEF RunsPrepared, InHand, CoreHeld, Making, Handing, Snapping, Ended, FilesMade, Built
      <3> QED BY <3>1, <3>2, <3>3, <3>4
    <2> QED BY <2>1, <2>2
  <1>7. CASE Replace
    <2>1. CASE Fails("busy")
      <3>1. failures' \in 0..MaxFailure /\ failures' # failures
        BY <2>1 DEF Fails, TypeOK
      <3>2. Raise("replace")
        BY <1>7, <3>1 DEF Replace, GiveUp
      <3>3. temp' \in [Modes -> BOOLEAN] /\ (complete => temp' = temp)
        BY <1>7, <3>1 DEF Replace, fileVars, TypeOK, GiveUp, Raise, FilesMade, Filing
      <3>4. dest' \in [Modes -> Config \cup {None}]
        BY <1>7, <3>1 DEF Replace, fileVars, TypeOK, GiveUp
      <3> QED BY <3>1, <3>2, <3>3, <3>4, Failing
    <2>2. CASE ~Fails("busy")
      <3>9. Built \in Config
        BY <1>7, <2>2, Building DEF Replace, Making
      <3>10. dest' = [dest EXCEPT ![mode] = Built] /\ temp' = [temp EXCEPT ![mode] = FALSE]
           /\ written' = written \cup {mode} /\ pc' = "validate"
        BY <1>7, <2>2 DEF Replace, Go
      <3>0. dest' \in [Modes -> Config \cup {None}] /\ temp' \in [Modes -> BOOLEAN] /\ written' \subseteq Modes
           /\ pc' \in Working
        BY <3>9, <3>10 DEF TypeOK, Working
      <3> USE <1>7, <2>2, <3>0 DEF Replace
      <3>5. (index \in Profile /\ stamp \in 0..MaxChange /\ v2rayN \in Profile \cup {None}
             /\ failures \in 0..MaxFailure /\ starts \in 0..MaxStart /\ purpose \in {"start", "restart", "baseline", "observe"})'
        BY DEF TypeOK
      <3>6. (temp \in [Modes -> BOOLEAN] /\ dest \in [Modes -> Config \cup {None}]
             /\ core \in Config \cup {None} /\ cached \in BOOLEAN)'
        BY DEF TypeOK
      <3>7. (snap \in Snapshots \cup {None} /\ profile \in Profile \cup {None} /\ mode \in Modes
             /\ written \subseteq Modes /\ prepared \in Nat /\ complete \in BOOLEAN)'
        BY DEF TypeOK
      <3>8. (current \in Snapshots \cup {None} /\ pending \in Snapshots \cup {None}
             /\ count \in 0..2)'
        BY DEF TypeOK
      <3>1. TypeOK'
        BY <3>0, <3>5, <3>6, <3>7, <3>8 DEF TypeOK
      <3>2. InHand' /\ CoreHeld'
        BY DEF InHand, CoreHeld, Making, Snapping, Ended, TypeOK
      <3>3. FilesMade'
        BY DEF FilesMade, Filing, Handing, Making, Built, Modes, Full, TypeOK
      <3>4. RunsPrepared'
        BY DEF RunsPrepared, InHand, CoreHeld, Making, Handing, Snapping, Ended, FilesMade, Built
      <3> QED BY <3>1, <3>2, <3>3, <3>4
    <2> QED BY <2>1, <2>2
  <1>8. CASE Validate
    <2>1. CASE Fails("reject")
      <3>1. failures' \in 0..MaxFailure /\ failures' # failures
        BY <2>1 DEF Fails, TypeOK
      <3>2. Raise("validate")
        BY <1>8, <3>1 DEF Validate, GiveUp
      <3>3. temp' \in [Modes -> BOOLEAN] /\ (complete => temp' = temp)
        BY <1>8, <3>1 DEF Validate, fileVars, TypeOK, GiveUp, Raise, FilesMade, Filing
      <3>4. dest' \in [Modes -> Config \cup {None}]
        BY <1>8, <3>1 DEF Validate, fileVars, TypeOK, GiveUp
      <3> QED BY <3>1, <3>2, <3>3, <3>4, Failing
    <2>2. CASE ~Fails("reject")
      <3>9. complete' \in BOOLEAN /\ pc' \in Working
        BY <1>8, <2>2 DEF Validate, TypeOK, Working
      <3>10. mode' \in Modes
        BY <1>8, <2>2 DEF Validate, Modes, Full, TypeOK
      <3>0. mode' \in Modes /\ complete' \in BOOLEAN /\ pc' \in Working
        BY <3>9, <3>10
      <3> USE <1>8, <2>2, <3>0 DEF Validate
      <3>5. (index \in Profile /\ stamp \in 0..MaxChange /\ v2rayN \in Profile \cup {None}
             /\ failures \in 0..MaxFailure /\ starts \in 0..MaxStart /\ purpose \in {"start", "restart", "baseline", "observe"})'
        BY DEF TypeOK
      <3>6. (temp \in [Modes -> BOOLEAN] /\ dest \in [Modes -> Config \cup {None}]
             /\ core \in Config \cup {None} /\ cached \in BOOLEAN)'
        BY DEF TypeOK
      <3>7. (snap \in Snapshots \cup {None} /\ profile \in Profile \cup {None} /\ mode \in Modes
             /\ written \subseteq Modes /\ prepared \in Nat /\ complete \in BOOLEAN)'
        BY DEF TypeOK
      <3>8. (current \in Snapshots \cup {None} /\ pending \in Snapshots \cup {None}
             /\ count \in 0..2)'
        BY DEF TypeOK
      <3>1. TypeOK'
        BY <3>0, <3>5, <3>6, <3>7, <3>8 DEF TypeOK
      <3>2. InHand' /\ CoreHeld'
        BY DEF InHand, CoreHeld, Making, Snapping, Ended, TypeOK
      <3>3. FilesMade'
        BY DEF FilesMade, Filing, Handing, Making, Built, Modes, Full, TypeOK
      <3>4. RunsPrepared'
        BY DEF RunsPrepared, InHand, CoreHeld, Making, Handing, Snapping, Ended, FilesMade, Built
      <3> QED BY <3>1, <3>2, <3>3, <3>4
    <2> QED BY <2>1, <2>2
  <1>9. CASE Handover
    <2> USE <1>9 DEF Handover
    <2>1. TypeOK'
      BY DEF TypeOK, Working, Ended, InHand, CoreHeld, Snapping, Making
    <2>2. InHand' /\ CoreHeld'
      BY DEF InHand, CoreHeld, Making, Snapping, Ended, TypeOK
    <2>3. FilesMade'
      BY DEF FilesMade, Filing, Handing, Making, Built, Modes, Full, TypeOK
    <2>4. RunsPrepared'
      BY DEF RunsPrepared, InHand, CoreHeld, Making, Handing, Snapping, Ended, FilesMade, Built
    <2> QED BY <2>1, <2>2, <2>3, <2>4
  <1>10. CASE StartCore
    <2>1. CASE Fails("core")
      <3>1. failures' \in 0..MaxFailure /\ failures' # failures
        BY <2>1 DEF Fails, TypeOK
      <3>2. Raise("startCore")
        BY <1>10, <3>1 DEF StartCore, GiveUp
      <3>3. temp' \in [Modes -> BOOLEAN] /\ (complete => temp' = temp)
        BY <1>10, <3>1 DEF StartCore, fileVars, TypeOK, GiveUp, Raise, FilesMade, Filing
      <3>4. dest' \in [Modes -> Config \cup {None}]
        BY <1>10, <3>1 DEF StartCore, fileVars, TypeOK, GiveUp
      <3> QED BY <3>1, <3>2, <3>3, <3>4, Failing
    <2>2. CASE ~Fails("core")
      <3>0. core' \in Config /\ current' \in Snapshots
        BY <1>10, <2>2, Building DEF StartCore, Making, Handing, InHand, FilesMade
      <3> USE <1>10, <2>2, <3>0 DEF StartCore
      <3>1. TypeOK'
        BY DEF TypeOK, Working, Ended, InHand, CoreHeld, Snapping, Making
      <3>2. InHand' /\ CoreHeld'
        BY DEF InHand, CoreHeld, Making, Snapping, Ended, TypeOK
      <3>3. FilesMade'
        BY DEF FilesMade, Filing, Handing, Making, Built, Modes, Full, TypeOK
      <3>4. RunsPrepared'
        BY DEF RunsPrepared, InHand, CoreHeld, Making, Handing, Snapping, Ended, FilesMade, Built
      <3> QED BY <3>1, <3>2, <3>3, <3>4
    <2> QED BY <2>1, <2>2
  <1>11. CASE Observe
    <2> USE <1>11 DEF Observe
    <2>1. TypeOK'
      BY DEF TypeOK, Working, Ended, InHand, CoreHeld, Snapping, Making
    <2>2. InHand' /\ CoreHeld'
      BY DEF InHand, CoreHeld, Making, Snapping, Ended, TypeOK
    <2>3. FilesMade'
      BY DEF FilesMade, Filing, Handing, Making, Built, Modes, Full, TypeOK
    <2>4. RunsPrepared'
      BY DEF RunsPrepared, InHand, CoreHeld, Making, Handing, Snapping, Ended, FilesMade, Built
    <2> QED BY <2>1, <2>2, <2>3, <2>4
  <1>12. CASE Compare
    <2>0. count' \in 0..2 /\ pending' \in Snapshots \cup {None}
      BY <1>12 DEF Compare, TypeOK
    <2> USE <1>12, <2>0 DEF Compare
    <2>1. TypeOK'
      BY DEF TypeOK, Working, Ended, InHand, CoreHeld, Snapping, Making
    <2>2. InHand' /\ CoreHeld'
      BY DEF InHand, CoreHeld, Making, Snapping, Ended, TypeOK
    <2>3. FilesMade'
      BY DEF FilesMade, Filing, Handing, Making, Built, Modes, Full, TypeOK
    <2>4. RunsPrepared'
      BY DEF RunsPrepared, InHand, CoreHeld, Making, Handing, Snapping, Ended, FilesMade, Built
    <2> QED BY <2>1, <2>2, <2>3, <2>4
  <1>13. CASE Restart
    <2> USE <1>13 DEF Restart
    <2>1. TypeOK'
      BY DEF TypeOK, Working, Ended, InHand, CoreHeld, Snapping, Making
    <2>2. InHand' /\ CoreHeld'
      BY DEF InHand, CoreHeld, Making, Snapping, Ended, TypeOK
    <2>3. FilesMade'
      BY DEF FilesMade, Filing, Handing, Making, Built, Modes, Full, TypeOK
    <2>4. RunsPrepared'
      BY DEF RunsPrepared, InHand, CoreHeld, Making, Handing, Snapping, Ended, FilesMade, Built
    <2> QED BY <2>1, <2>2, <2>3, <2>4
  <1>14. CASE End
    <2>0. dest' \in [Modes -> Config \cup {None}]
      BY <1>14 DEF End, TypeOK
    <2> USE <1>14, <2>0 DEF End
    <2>1. TypeOK'
      BY DEF TypeOK, Working, Ended, InHand, CoreHeld, Snapping, Making
    <2>2. InHand' /\ CoreHeld'
      BY DEF InHand, CoreHeld, Making, Snapping, Ended, TypeOK
    <2>3. FilesMade'
      BY DEF FilesMade, Filing, Handing, Making, Built, Modes, Full, TypeOK
    <2>4. RunsPrepared'
      BY DEF RunsPrepared, InHand, CoreHeld, Making, Handing, Snapping, Ended, FilesMade, Built
    <2> QED BY <2>1, <2>2, <2>3, <2>4
  <1>15. CASE Launch
    <2>0. starts' \in 0..MaxStart /\ pc' \in Working
      BY <1>15 DEF Launch, TypeOK, Working
    <2> USE <1>15, <2>0 DEF Launch
    <2>5. (index \in Profile /\ stamp \in 0..MaxChange /\ v2rayN \in Profile \cup {None}
             /\ failures \in 0..MaxFailure /\ starts \in 0..MaxStart /\ purpose \in {"start", "restart", "baseline", "observe"})'
      BY DEF TypeOK
    <2>6. (temp \in [Modes -> BOOLEAN] /\ dest \in [Modes -> Config \cup {None}]
           /\ core \in Config \cup {None} /\ cached \in BOOLEAN)'
      BY DEF TypeOK
    <2>7. (snap \in Snapshots \cup {None} /\ profile \in Profile \cup {None} /\ mode \in Modes
           /\ written \subseteq Modes /\ prepared \in Nat /\ complete \in BOOLEAN)'
      BY DEF TypeOK
    <2>8. (current \in Snapshots \cup {None} /\ pending \in Snapshots \cup {None}
             /\ count \in 0..2)'
      BY DEF TypeOK
    <2>1. TypeOK'
      BY <2>0, <2>5, <2>6, <2>7, <2>8 DEF TypeOK
    <2>2. InHand' /\ CoreHeld'
      BY DEF InHand, CoreHeld, Making, Snapping, Ended, TypeOK
    <2>3. FilesMade'
      BY DEF FilesMade, Filing, Handing, Making, Built, Modes, Full, TypeOK
    <2>4. RunsPrepared'
      BY DEF RunsPrepared, InHand, CoreHeld, Making, Handing, Snapping, Ended, FilesMade, Built
    <2> QED BY <2>1, <2>2, <2>3, <2>4
  <1>16. CASE Stop
    <2> USE <1>16 DEF Stop
    <2>1. TypeOK'
      BY DEF TypeOK, Working, Ended, InHand, CoreHeld, Snapping, Making
    <2>2. InHand' /\ CoreHeld'
      BY DEF InHand, CoreHeld, Making, Snapping, Ended, TypeOK
    <2>3. FilesMade'
      BY DEF FilesMade, Filing, Handing, Making, Built, Modes, Full, TypeOK
    <2>4. RunsPrepared'
      BY DEF RunsPrepared, InHand, CoreHeld, Making, Handing, Snapping, Ended, FilesMade, Built
    <2> QED BY <2>1, <2>2, <2>3, <2>4
  <1>17. CASE Crash
    <2>0. failures' \in 0..MaxFailure
      BY <1>17 DEF Crash, Fails, TypeOK
    <2> USE <1>17, <2>0 DEF Crash, Fails
    <2>1. TypeOK'
      BY DEF TypeOK, Working, Ended, InHand, CoreHeld, Snapping, Making
    <2>2. InHand' /\ CoreHeld'
      BY DEF InHand, CoreHeld, Making, Snapping, Ended, TypeOK
    <2>3. FilesMade'
      BY DEF FilesMade, Filing, Handing, Making, Built, Modes, Full, TypeOK
    <2>4. RunsPrepared'
      BY DEF RunsPrepared, InHand, CoreHeld, Making, Handing, Snapping, Ended, FilesMade, Built
    <2> QED BY <2>1, <2>2, <2>3, <2>4
  <1>18. CASE Change
    <2>0. stamp' \in 0..MaxChange
      BY <1>18 DEF Change, others, TypeOK
    <2> USE <1>18, <2>0 DEF Change, others
    <2>1. TypeOK'
      BY DEF TypeOK, Working, Ended, InHand, CoreHeld, Snapping, Making
    <2>2. InHand' /\ CoreHeld'
      BY DEF InHand, CoreHeld, Making, Snapping, Ended, TypeOK
    <2>3. FilesMade'
      BY DEF FilesMade, Filing, Handing, Making, Built, Modes, Full, TypeOK
    <2>4. RunsPrepared'
      BY DEF RunsPrepared, InHand, CoreHeld, Making, Handing, Snapping, Ended, FilesMade, Built
    <2> QED BY <2>1, <2>2, <2>3, <2>4
  <1>19. CASE Toggle
    <2>0. v2rayN' \in Profile \cup {None}
      BY <1>19 DEF Toggle, others, TypeOK
    <2> USE <1>19, <2>0 DEF Toggle, others
    <2>1. TypeOK'
      BY DEF TypeOK, Working, Ended, InHand, CoreHeld, Snapping, Making
    <2>2. InHand' /\ CoreHeld'
      BY DEF InHand, CoreHeld, Making, Snapping, Ended, TypeOK
    <2>3. FilesMade'
      BY DEF FilesMade, Filing, Handing, Making, Built, Modes, Full, TypeOK
    <2>4. RunsPrepared'
      BY DEF RunsPrepared, InHand, CoreHeld, Making, Handing, Snapping, Ended, FilesMade, Built
    <2> QED BY <2>1, <2>2, <2>3, <2>4
  <1>20. CASE UNCHANGED vars
    BY <1>20 DEF vars, TypeOK, InHand, CoreHeld,
       FilesMade, RunsPrepared, Built
  <1> QED BY <1>1, <1>2, <1>3, <1>4, <1>5, <1>6, <1>7, <1>8, <1>9, <1>10, <1>11, <1>12, <1>13,
            <1>14, <1>15, <1>16, <1>17, <1>18, <1>19, <1>20 DEF Next, Work

THEOREM PreparationInvariant == Spec => []PreparationInv
  BY Initially, Inductive, PTL DEF Spec

-----------------------------------------------------------------------------
(* Every reachable state of _snapshot, prepare_mihomo_configs and _monitor *)
(* has the right types.                                                    *)
THEOREM TypeCorrect == Spec => []TypeOK
  <1>1. PreparationInv => TypeOK
    BY DEF PreparationInv
  <1> QED BY <1>1, PreparationInvariant, PTL

(* The core always runs what the last call of prepare_mihomo_configs has   *)
(* made and validated as a whole, with the address that _monitor holds on  *)
(* to, wherever the calls before it were broken off.                       *)
THEOREM CoreRunsPrepared == Spec => []RunsPrepared
  <1>1. PreparationInv => RunsPrepared
    BY DEF PreparationInv
  <1> QED BY <1>1, PreparationInvariant, PTL

(* After a supervisor whose preparation came to its end, and that ended in *)
(* order, _delete_sensitive_files has left no configuration, and           *)
(* prepare_mihomo_configs no temporary one.                                *)
THEOREM ServiceLeavesNothing == Spec => []CleanAfterService
  <1>1. PreparationInv => CleanAfterService
    BY DEF PreparationInv, FilesMade, CleanAfterService
  <1> QED BY <1>1, PreparationInvariant, PTL
=============================================================================
