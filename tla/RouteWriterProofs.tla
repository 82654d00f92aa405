------------------------- MODULE RouteWriterProofs -------------------------
(***************************************************************************)
(* Proofs about RouteWriter, for any number of windows, routes, updates    *)
(* and backups, and whatever fails.                                        *)
(***************************************************************************)
EXTENDS RouteWriter, TLAPS

Reading == {"backup", "update", "commit"}
Holding == {"select"} \cup Reading
Places  == Holding \cup {"idle", "begin", "trim", "done", "failed"}

Typed ==
    /\ rules \in [Route -> RuleSet]
    /\ marked \in Route \cup {None} /\ gui \in Route \cup {None}
    /\ pc \in [Window -> Places] /\ call \in [Window -> Call]
    /\ backups \in Seq(Backup) /\ replaced \in Backup \cup {None} /\ since \in Nat

(* The lock is held from BEGIN IMMEDIATE to the end of the transaction.    *)
Locked == lock \in Window \cup {None} /\ \A w \in Window : pc[w] \in Holding <=> lock = w

(* What the holder has read is still so.                                   *)
Fresh ==
    \A w \in Window : pc[w] \in Reading =>
        /\ call[w].route \in Route /\ call[w].original = rules[call[w].route]
        /\ marked # None => call[w].route = marked

(* The newest backup is the one of the holder.                             *)
Saved ==
    \A w \in Window : pc[w] \in {"update", "commit"} =>
        /\ Len(backups) > 0
        /\ backups[Len(backups)] = [route |-> call[w].route, rules |-> call[w].original]

(* What was replaced last lies behind the backups written since then.      *)
Kept == replaced # None /\ since < Keep =>
            since < Len(backups) /\ backups[Len(backups) - since] = replaced

RouteWriterInv == Typed /\ Locked /\ Fresh /\ Saved /\ Kept

-----------------------------------------------------------------------------
(* It is Commit that goes from "commit" to "trim".                         *)
LEMMA OnlyCommitCommits ==
    ASSUME RouteWriterInv, Next, NEW w \in Window, Commits(w)
    PROVE  /\ rules' = [rules EXCEPT ![call[w].route] = Updated(call[w].original, call[w].new)]
           /\ UNCHANGED marked
  <1> USE DEF Commits, Go, RouteWriterInv
  <1>1. pc \in [Window -> Places] /\ pc' # pc
    BY DEF Typed
  <1>2. \A r \in Route : ~Edit(r) /\ ~SelectRoute(r)
    BY <1>1 DEF Edit, SelectRoute
  <1>3. ASSUME NEW v \in Window, ReadGui(v) \/ Step(v) \/ Crash(v) PROVE v = w /\ Commit(v)
    BY <1>1, <1>3 DEF ReadGui, Step, Crash, BeginImmediate, Select, WriteBackup, Update, Commit,
        Trim, Report, Fail
  <1>4. Commit(w)
    BY <1>2, <1>3 DEF Next
  <1>5. pc'[w] = "trim"
    OBVIOUS
  <1> QED BY <1>1, <1>4, <1>5 DEF Commit, Fail, database

(* Trimming keeps the newest backups, in their order.                      *)
LEMMA TrimmedKeepsNewest ==
    ASSUME backups \in Seq(Backup)
    PROVE  /\ Trimmed \in Seq(Backup)
           /\ \A k \in Nat : k < Keep /\ k < Len(backups) =>
                 k < Len(Trimmed) /\ Trimmed[Len(Trimmed) - k] = backups[Len(backups) - k]
  <1> USE RouteWriterAssumption
  <1>1. CASE Len(backups) < Keep
    BY <1>1 DEF Trimmed
  <1>2. CASE ~(Len(backups) < Keep)
    <2>1. /\ Trimmed \in Seq(Backup) /\ Len(Trimmed) = Keep
          /\ \A i \in 1..Keep : Trimmed[i] = backups[Len(backups) - Keep + i]
      BY <1>2 DEF Trimmed
    <2> QED BY <2>1, <1>2
  <1> QED BY <1>1, <1>2

LEMMA Initially == Init => RouteWriterInv
  <1> SUFFICES ASSUME Init PROVE RouteWriterInv
    OBVIOUS
  <1> USE RouteWriterAssumption DEF Init
  <1>1. Typed
    BY DEF Typed, Places, Call, NoCall, RuleSet
  <1>2. Locked
    BY DEF Locked, Holding, Reading
  <1>3. Fresh /\ Saved /\ Kept
    BY DEF Fresh, Reading, Saved, Kept
  <1> QED BY <1>1, <1>2, <1>3 DEF RouteWriterInv

(* A failure changes nothing but the lock.                                 *)
LEMMA Failing ==
    ASSUME RouteWriterInv, NEW w \in Window, NEW from, Fail(w, from)
    PROVE  RouteWriterInv'
  <1> USE RouteWriterAssumption DEF RouteWriterInv, Fail, Go, database, history
  <1>1. Typed'
    BY DEF Typed, Places
  <1>2. Locked'
    BY DEF Locked, Typed, Holding, Reading
  <1>3. Fresh' /\ Saved' /\ Kept'
    BY DEF Fresh, Saved, Kept, Typed, Reading
  <1> QED BY <1>1, <1>2, <1>3

LEMMA Inductive == RouteWriterInv /\ [Next]_vars => RouteWriterInv'
  <1> SUFFICES ASSUME RouteWriterInv, [Next]_vars PROVE RouteWriterInv'
    OBVIOUS
  <1> USE RouteWriterAssumption DEF RouteWriterInv, Go, database, history
  <1>1. ASSUME NEW w \in Window, ReadGui(w) PROVE RouteWriterInv'
    <2> USE <1>1 DEF ReadGui
    <2>1. Typed'
      <3>1. PICK new \in Rules : call' = [call EXCEPT ![w] = [NoCall EXCEPT !.new = new, !.gui = gui]]
        OBVIOUS
      <3>2. [NoCall EXCEPT !.new = new, !.gui = gui] \in Call
        BY DEF NoCall, Call, Typed
      <3> QED BY <3>1, <3>2 DEF Typed, Places
    <2>2. Locked'
      BY DEF Locked, Typed, Holding, Reading
    <2>3. Fresh' /\ Saved' /\ Kept'
      BY DEF Fresh, Saved, Kept, Typed, Reading
    <2> QED BY <2>1, <2>2, <2>3
  <1>2. ASSUME NEW w \in Window, BeginImmediate(w) PROVE RouteWriterInv'
    <2>1. CASE Fail(w, "begin")
      BY <2>1, Failing
    <2>2. CASE ~Fail(w, "begin")
      <3> USE <1>2, <2>2 DEF BeginImmediate
      <3>1. Typed'
        BY DEF Typed, Places, Holding
      <3>2. Locked'
        BY DEF Locked, Typed, Holding, Reading
      <3>3. Fresh' /\ Saved' /\ Kept'
        BY DEF Fresh, Saved, Kept, Typed, Reading
      <3> QED BY <3>1, <3>2, <3>3
    <2> QED BY <1>2, <2>1, <2>2 DEF BeginImmediate
  <1>3. ASSUME NEW w \in Window, Select(w) PROVE RouteWriterInv'
    <2>1. CASE Fail(w, "select")
      BY <2>1, Failing
    <2>2. CASE ~Fail(w, "select")
      <3> USE <1>3, <2>2 DEF Select
      <3>1. Selected(w) \in Route
        BY DEF Typed, Selected, Call
      <3>2. Typed'
        BY <3>1 DEF Typed, Places, Holding, Reading, Call
      <3>3. Locked'
        BY DEF Locked, Typed, Holding, Reading
      <3>4. Fresh'
        BY <3>1 DEF Fresh, Locked, Typed, Holding, Reading, Selected, Call
      <3>5. Saved' /\ Kept'
        BY DEF Saved, Kept, Typed
      <3> QED BY <3>2, <3>3, <3>4, <3>5
    <2> QED BY <1>3, <2>1, <2>2 DEF Select
  <1>4. ASSUME NEW w \in Window, WriteBackup(w) PROVE RouteWriterInv'
    <2>1. CASE Fail(w, "backup")
      BY <2>1, Failing
    <2>2. CASE ~Fail(w, "backup")
      <3> DEFINE new == [route |-> call[w].route, rules |-> call[w].original]
      <3>1. new \in Backup
        BY <1>4, <2>2 DEF WriteBackup, Fresh, Reading, Typed, Backup
      <3>2. /\ pc[w] = "backup" /\ pc' = [pc EXCEPT ![w] = "update"]
            /\ backups' = Append(backups, new) /\ since' = since + 1
            /\ UNCHANGED <<rules, marked, lock, gui, call, updates, replaced>>
        BY <1>4, <2>2 DEF WriteBackup
      <3>3. /\ backups' \in Seq(Backup)
            /\ Len(backups') = Len(backups) + 1 /\ backups'[Len(backups')] = new
            /\ \A i \in 1..Len(backups) : backups'[i] = backups[i]
        <4> HIDE DEF new
        <4>1. backups \in Seq(Backup)
          BY DEF Typed
        <4> QED BY <3>1, <3>2, <4>1
      <3> HIDE DEF new
      <3>4. Typed'
        BY <3>2, <3>3 DEF Typed, Places, Holding, Reading
      <3>5. Locked'
        BY <3>2 DEF Locked, Typed, Holding, Reading
      <3>6. Fresh'
        BY <3>2 DEF Fresh, Typed, Reading
      <3>7. Saved'
        <4>1. \A v \in Window : pc'[v] \in {"update", "commit"} => v = w
          BY <3>2, <3>5 DEF Locked, Typed, Holding, Reading
        <4> QED BY <3>2, <3>3, <4>1 DEF Saved, Typed, new
      <3>8. Kept'
        BY <3>2, <3>3 DEF Kept, Typed
      <3> QED BY <3>4, <3>5, <3>6, <3>7, <3>8
    <2> QED BY <1>4, <2>1, <2>2 DEF WriteBackup
  <1>5. ASSUME NEW w \in Window, Update(w) PROVE RouteWriterInv'
    <2>1. CASE Fail(w, "update")
      BY <2>1, Failing
    <2>2. CASE ~Fail(w, "update")
      <3> USE <1>5, <2>2 DEF Update
      <3>1. Typed'
        BY DEF Typed, Places, Holding, Reading
      <3>2. Locked'
        BY DEF Locked, Typed, Holding, Reading
      <3>3. Fresh' /\ Saved' /\ Kept'
        BY DEF Fresh, Saved, Kept, Typed, Reading
      <3> QED BY <3>1, <3>2, <3>3
    <2> QED BY <1>5, <2>1, <2>2 DEF Update
  <1>6. ASSUME NEW w \in Window, Commit(w) PROVE RouteWriterInv'
    <2>1. CASE Fail(w, "commit")
      BY <2>1, Failing
    <2>2. CASE ~Fail(w, "commit")
      <3> USE <1>6, <2>2 DEF Commit
      <3>1. /\ call[w].route \in Route /\ call[w].original = rules[call[w].route]
            /\ call[w].new \in Rules \cup {None} /\ call[w].original \in RuleSet
        BY DEF Fresh, Reading, Typed, Call
      <3>2. Updated(call[w].original, call[w].new) \in RuleSet
        BY <3>1 DEF Updated, RuleSet
      <3>3. Typed'
        BY <3>1, <3>2 DEF Typed, Places, Backup
      <3>4. Locked'
        BY DEF Locked, Typed, Holding, Reading
      <3>5. \A v \in Window : pc'[v] \notin Holding
        BY <3>4 DEF Locked
      <3>6. Fresh' /\ Saved'
        BY <3>5 DEF Fresh, Saved, Holding, Reading
      <3>7. Kept'
        BY <3>1 DEF Saved, Kept, Typed
      <3> QED BY <3>3, <3>4, <3>6, <3>7
    <2> QED BY <1>6, <2>1, <2>2 DEF Commit
  <1>7. ASSUME NEW w \in Window, Trim(w) PROVE RouteWriterInv'
    <2>1. CASE Fail(w, "trim")
      BY <2>1, Failing
    <2>2. CASE ~Fail(w, "trim")
      <3> USE <1>7, <2>2 DEF Trim
      <3>1. /\ backups' = Trimmed /\ backups \in Seq(Backup)
            /\ backups' \in Seq(Backup)
            /\ \A k \in Nat : k < Keep /\ k < Len(backups) =>
                  k < Len(backups') /\ backups'[Len(backups') - k] = backups[Len(backups) - k]
        BY TrimmedKeepsNewest DEF Typed
      <3>2. Typed'
        BY <3>1 DEF Typed, Places
      <3>3. Locked'
        BY DEF Locked, Typed, Holding, Reading
      <3>4. Fresh'
        BY DEF Fresh, Typed, Reading
      <3>5. Len(backups) > 0 => Len(backups') > 0 /\ backups'[Len(backups')] = backups[Len(backups)]
        BY <3>1, 0 \in Nat
      <3>6. Saved'
        BY <3>5 DEF Saved, Typed
      <3>7. Kept'
        BY <3>1 DEF Kept, Typed
      <3> QED BY <3>2, <3>3, <3>4, <3>6, <3>7
    <2> QED BY <1>7, <2>1, <2>2 DEF Trim
  <1>8. ASSUME NEW w \in Window, Report(w) \/ Crash(w) PROVE RouteWriterInv'
    <2> USE <1>8 DEF Report, Crash
    <2>1. Typed'
      <3>1. NoCall \in Call
        BY DEF NoCall, Call
      <3>2. call' = [call EXCEPT ![w] = NoCall] /\ pc' = [pc EXCEPT ![w] = "idle"]
        OBVIOUS
      <3> QED BY <3>1, <3>2 DEF Typed, Places
    <2>2. Locked'
      BY DEF Locked, Typed, Holding, Reading
    <2>3. Fresh' /\ Saved' /\ Kept'
      BY DEF Fresh, Saved, Kept, Typed, Reading
    <2> QED BY <2>1, <2>2, <2>3
  <1>9. ASSUME NEW r \in Route, Edit(r) \/ SelectRoute(r) PROVE RouteWriterInv'
    <2> USE <1>9 DEF Edit, SelectRoute
    <2>1. Typed'
      BY DEF Typed, RuleSet
    <2>2. Locked'
      BY DEF Locked
    <2>3. lock = None => \A v \in Window : pc'[v] \notin Reading
      BY DEF Locked, Holding
    <2>4. Fresh' /\ Saved' /\ Kept'
      BY <2>3 DEF Fresh, Saved, Kept, Reading
    <2> QED BY <2>1, <2>2, <2>4
  <1>10. ASSUME UNCHANGED vars PROVE RouteWriterInv'
    BY <1>10 DEF vars, Typed, Locked, Fresh, Saved, Kept
  <1> QED BY <1>1, <1>2, <1>3, <1>4, <1>5, <1>6, <1>7, <1>8, <1>9, <1>10 DEF Next, Step

(* RouteWriterInv is an invariant of every behaviour.                      *)
THEOREM RouteWriterInvariant == Spec => []RouteWriterInv
  BY Initially, Inductive, PTL DEF Spec

(* Nobody changes the route between the reading and the update of it.      *)
THEOREM NeverConflicts == Spec => []NoConflict
  <1>1. RouteWriterInv => NoConflict
    BY DEF RouteWriterInv, Fresh, Reading, NoConflict
  <1> QED BY RouteWriterInvariant, <1>1, PTL

(* What the last commit has replaced can be restored.                      *)
THEOREM AlwaysRestorable == Spec => []Restorable
  <1>1. RouteWriterInv => Restorable
    BY RouteWriterAssumption DEF RouteWriterInv, Typed, Kept, Restorable, Contains
  <1> QED BY RouteWriterInvariant, <1>1, PTL

(* A commit keeps the rules of the user as they are at that moment.        *)
THEOREM CommitsKeepTheRest == Spec => RestKept
  <1>1. ASSUME RouteWriterInv, [Next]_vars
        PROVE  [\A w \in Window : Commits(w) => \A r \in Route : rules'[r].rest = rules[r].rest]_vars
    <2>1. ASSUME NEW w \in Window, Commits(w), Next, NEW r \in Route
          PROVE  rules'[r].rest = rules[r].rest
      <3>1. /\ rules' = [rules EXCEPT ![call[w].route] = Updated(call[w].original, call[w].new)]
            /\ pc[w] = "commit"
        BY <1>1, <2>1, OnlyCommitCommits DEF Commits
      <3>2. rules \in [Route -> RuleSet] /\ call[w].original = rules[call[w].route]
        BY <1>1, <3>1 DEF RouteWriterInv, Typed, Fresh, Reading
      <3> QED BY <3>1, <3>2 DEF Updated, RuleSet
    <2> QED BY <1>1, <2>1
  <1> QED BY RouteWriterInvariant, <1>1, PTL DEF Spec, RestKept

(* It writes the route that is marked.                                     *)
THEOREM CommitsToActive == Spec => ActiveUpdated
  <1>1. ASSUME RouteWriterInv, [Next]_vars
        PROVE  [\A w \in Window : Commits(w) /\ marked # None => call[w].route = marked]_vars
    BY <1>1 DEF Commits, RouteWriterInv, Fresh, Reading
  <1> QED BY RouteWriterInvariant, <1>1, PTL DEF Spec, ActiveUpdated
=============================================================================
