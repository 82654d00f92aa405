---------------------------- MODULE RouteWriter ----------------------------
(***************************************************************************)
(* Writing the Bridge's rules into v2rayN's database                       *)
(* (v2rayn_route_writer.py), while v2rayN and other windows of the Bridge  *)
(* use that database too.                                                  *)
(*                                                                         *)
(* The rule set of a route is kept as two values: the groups that the      *)
(* Bridge manages, and all the rest.  RouteRules looks into the groups.    *)
(***************************************************************************)
EXTENDS Naturals, SequencesExt

CONSTANTS
    Window,         \* the windows of the Bridge that update the route
    Route,          \* the routes in v2rayN's table
    Rules,          \* what the Bridge may be asked to write
    Version,        \* what the other rules of a route may be
    MaxUpdate,      \* how many updates are attempted (bound)
    Keep,           \* keep
    Faults,         \* what may go wrong, a subset of FaultKinds
    None

FaultKinds == {
    "backup",       \* the backup cannot be written
    "commit",       \* the update or the commit raises
    "trim",         \* an old backup cannot be deleted
    "crash"}        \* the process of a window is killed

ASSUME RouteWriterAssumption ==
    /\ None \notin Window \cup Route \cup Rules
    /\ MaxUpdate \in Nat /\ Keep \in Nat \ {0} /\ Faults \subseteq FaultKinds

VARIABLES
    rules,          \* RoutingItem.ruleSet of each route
    marked,         \* the route with IsActive = 1, or None
    gui,            \* RoutingIndexId in guiNConfig.json, or None
    lock,           \* the window that holds the write lock of the database
    backups,        \* active-route-before-*.json, oldest first
    pc,             \* where each window is in update_active_v2rayn_route
    call,           \* its local variables
    updates,        \* how many updates have been attempted
    replaced,       \* history: what the last commit has replaced
    since           \* history: the backups written since then

database == <<rules, marked, lock>>
history  == <<replaced, since>>
vars == <<database, gui, backups, pc, call, updates, history>>

RuleSet == [bridge : Rules \cup {None}, rest : Version]
Backup  == [route : Route, rules : RuleSet]
Call    == [new : Rules \cup {None}, gui : Route \cup {None}, route : Route \cup {None},
            original : RuleSet \cup {None}]
NoCall  == [new |-> None, gui |-> None, route |-> None, original |-> None]

TypeOK ==
    /\ rules \in [Route -> RuleSet]
    /\ marked \in Route \cup {None} /\ gui \in Route \cup {None}
    /\ lock \in {w \in Window : pc[w] \in {"select", "backup", "update", "commit"}} \cup {None}
    /\ backups \in Seq(Backup) /\ Len(backups) <= MaxUpdate
    /\ pc \in [Window -> {"idle", "begin", "select", "backup", "update", "commit", "trim",
                          "done", "failed"}]
    /\ call \in [Window -> Call]
    /\ replaced \in Backup \cup {None} /\ since \in 0..MaxUpdate

Init ==
    /\ rules \in [Route -> [bridge : {None}, rest : Version]]
    /\ marked \in Route \cup {None} /\ gui \in Route \cup {None}
    /\ lock = None /\ backups = <<>>
    /\ pc = [w \in Window |-> "idle"] /\ call = [w \in Window |-> NoCall]
    /\ updates = 0 /\ replaced = None /\ since = 0

-----------------------------------------------------------------------------
(* update_active_v2rayn_route.                                             *)

Go(w, from, to) == pc[w] = from /\ pc' = [pc EXCEPT ![w] = to]

(* Mutant: an exception leaves the transaction open.                       *)
FailOpen(w, from) ==
    /\ Go(w, from, "failed")
    /\ UNCHANGED <<database, gui, backups, call, updates, history>>

(* An exception: roll back, close, raise.                                  *)
Fail(w, from) ==
    /\ Go(w, from, "failed")
    /\ lock' = IF lock = w THEN None ELSE lock
    /\ UNCHANGED <<rules, marked, gui, backups, call, updates, history>>

(* The configuration of v2rayN is read before the database is opened.      *)
ReadGui(w) ==
    /\ updates < MaxUpdate /\ updates' = updates + 1
    /\ Go(w, "idle", "begin")
    /\ \E new \in Rules : call' = [call EXCEPT ![w] = [NoCall EXCEPT !.new = new, !.gui = gui]]
    /\ UNCHANGED <<database, gui, backups, history>>

(* Mutant: BEGIN, which takes no lock before the first write.              *)
BeginDeferred(w) ==
    /\ Go(w, "begin", "select")
    /\ UNCHANGED <<database, gui, backups, call, updates, history>>

(* BEGIN IMMEDIATE waits 5 s for the write lock.                           *)
BeginImmediate(w) ==
    \/ /\ lock = None /\ lock' = w
       /\ Go(w, "begin", "select")
       /\ UNCHANGED <<rules, marked, gui, backups, call, updates, history>>
    \/ lock # None /\ Fail(w, "begin")

(* Mutant: v2rayN's configuration is asked first.                          *)
SelectedByGui(w) == IF call[w].gui # None THEN call[w].gui ELSE marked

(* _select_active_route.                                                   *)
Selected(w) == IF marked # None THEN marked ELSE call[w].gui

Select(w) ==
    \/ /\ Selected(w) # None
       /\ Go(w, "select", "backup")
       /\ call' = [call EXCEPT ![w].route = Selected(w), ![w].original = rules[Selected(w)]]
       /\ UNCHANGED <<database, gui, backups, updates, history>>
    \/ Selected(w) = None /\ Fail(w, "select")

WriteBackup(w) ==
    \/ /\ Go(w, "backup", "update")
       /\ backups' = Append(backups, [route |-> call[w].route, rules |-> call[w].original])
       /\ since' = since + 1
       /\ UNCHANGED <<database, gui, call, updates, replaced>>
    \/ "backup" \in Faults /\ Fail(w, "backup")

(* Only if the route is as it was read; this takes the lock if need be.    *)
Update(w) ==
    LET unchanged == rules[call[w].route] = call[w].original IN
    \/ /\ Go(w, "update", "commit")
       /\ lock \in {None, w} /\ unchanged
       /\ lock' = w
       /\ UNCHANGED <<rules, marked, gui, backups, call, updates, history>>
    \/ /\ Fail(w, "update")
       /\ lock \notin {None, w} \/ ~unchanged \/ "commit" \in Faults

(* Mutant: the Bridge's groups are all that is written.                    *)
UpdatedAlone(original, new) ==
    [bridge |-> new, rest |-> CHOOSE v \in Version : TRUE]

(* The managed groups, followed by the retained items.                     *)
Updated(original, new) == [original EXCEPT !.bridge = new]

Commit(w) ==
    \/ /\ Go(w, "commit", "trim")
       /\ rules' = [rules EXCEPT ![call[w].route] = Updated(call[w].original, call[w].new)]
       /\ replaced' = [route |-> call[w].route, rules |-> rules[call[w].route]] /\ since' = 0
       /\ lock' = None
       /\ UNCHANGED <<marked, gui, backups, call, updates>>
    \/ "commit" \in Faults /\ Fail(w, "commit")

(* Mutant: sorted the wrong way round.                                     *)
TrimmedNewest == SubSeq(backups, 1, IF Len(backups) < Keep THEN Len(backups) ELSE Keep)

(* _trim_backups keeps the newest.                                         *)
Trimmed == SubSeq(backups, IF Len(backups) < Keep THEN 1 ELSE Len(backups) - Keep + 1,
                  Len(backups))

Trim(w) ==
    \/ /\ Go(w, "trim", "done")
       /\ backups' = Trimmed
       /\ UNCHANGED <<database, gui, call, updates, history>>
    \/ "trim" \in Faults /\ Len(backups) > Keep /\ Fail(w, "trim")

(* The window shows the outcome.                                           *)
Report(w) ==
    /\ pc[w] \in {"done", "failed"} /\ pc' = [pc EXCEPT ![w] = "idle"]
    /\ call' = [call EXCEPT ![w] = NoCall]
    /\ UNCHANGED <<database, gui, backups, updates, history>>

(* SQLite undoes what was not committed.                                   *)
Crash(w) ==
    /\ "crash" \in Faults /\ pc[w] \notin {"idle", "done", "failed"}
    /\ pc' = [pc EXCEPT ![w] = "idle"] /\ call' = [call EXCEPT ![w] = NoCall]
    /\ lock' = IF lock = w THEN None ELSE lock
    /\ UNCHANGED <<rules, marked, gui, backups, updates, history>>

Step(w) ==
    \/ BeginImmediate(w) \/ Select(w) \/ WriteBackup(w) \/ Update(w) \/ Commit(w)
    \/ Trim(w) \/ Report(w)

-----------------------------------------------------------------------------
(* v2rayN.  Its own transactions are short, and wait for the lock.         *)

(* The user edits a route, the Bridge's groups included.                   *)
Edit(r) ==
    /\ lock = None
    /\ \E b \in {rules[r].bridge, None}, v \in Version :
          rules' = [rules EXCEPT ![r] = [bridge |-> b, rest |-> v]]
    /\ UNCHANGED <<marked, lock, gui, backups, pc, call, updates, history>>

(* The user selects another route.  Some versions of v2rayN mark it in the *)
(* database, others only in their configuration.                           *)
SelectRoute(r) ==
    /\ \/ marked # None /\ lock = None /\ marked' = r /\ UNCHANGED gui
       \/ marked = None /\ gui' = r /\ UNCHANGED marked
    /\ UNCHANGED <<rules, lock, backups, pc, call, updates, history>>

Next ==
    \/ \E w \in Window : ReadGui(w) \/ Step(w) \/ Crash(w)
    \/ \E r \in Route : Edit(r) \/ SelectRoute(r)

Spec == Init /\ [][Next]_vars

-----------------------------------------------------------------------------
(* Properties.                                                             *)

Commits(w) == pc[w] = "commit" /\ pc'[w] = "trim"

(* A commit leaves the rules of the user alone, those included that he has *)
(* edited in v2rayN since the update was begun.                            *)
RestKept ==
    [][\A w \in Window : Commits(w) => \A r \in Route : rules'[r].rest = rules[r].rest]_vars

(* The write lock is taken early enough: between the reading of the route  *)
(* and the update of it nobody changes it, so the user never sees the      *)
(* error that says so.                                                     *)
NoConflict == \A w \in Window : pc[w] = "update" => rules[call[w].route] = call[w].original

(* If the database says which route is active, that one is written.        *)
ActiveUpdated ==
    [][\A w \in Window : Commits(w) /\ marked # None => call[w].route = marked]_vars

(* What the last commit has replaced can be restored from a backup, until  *)
(* as many updates as backups are kept have been begun and given up.       *)
Restorable == replaced # None /\ since < Keep => Contains(backups, replaced)

(* An update that reports a failure has not changed the database.          *)
AllOrNothing ==
    [][\A w \in Window : pc[w] # "failed" /\ pc'[w] = "failed" /\ call[w].route # None =>
          rules[call[w].route] = call[w].original]_vars
=============================================================================
