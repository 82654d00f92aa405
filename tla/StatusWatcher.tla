--------------------------- MODULE StatusWatcher ---------------------------
(***************************************************************************)
(* How the window follows the status file: _write_atomic_json              *)
(* (mihomo_supervisor.py), StatusFileWatcher.poll and what _poll_status    *)
(* shows of its result (tun_gui/app.py), while supervisors come and go.    *)
(*                                                                         *)
(* poll() takes the signature of the file and then opens it, so a writer   *)
(* may come in between.  A writer that readers keep from replacing the     *)
(* file writes into it in the end, and then it is seen empty.              *)
(***************************************************************************)
EXTENDS Naturals

CONSTANTS
    MaxVersion,     \* how often the file is written (bound)
    MaxRun,         \* how many supervisors there are (bound)
    MaxRetries,     \* max_retries
    None

ASSUME WatcherAssumption == MaxVersion \in Nat /\ MaxRun \in Nat \ {0} /\ MaxRetries \in Nat \ {0}

VARIABLES
    file,           \* the status file, or None
    writing,        \* what is being written, or None
    attempt,        \* its attempt; the two after the last are the direct write
    written,        \* how many versions have been written or begun
    run, alive,     \* the current supervisor, and whether its process exists
    pc,             \* "idle", or "read" between stat and read_text
    stat,           \* signature
    signature,      \* _signature
    value,          \* _value
    shown,          \* the state that the window shows
    lines           \* how many lines of the log report each version as a failure

writerVars == <<file, writing, attempt, written, run, alive>>
windowVars == <<pc, stat, signature, value, shown, lines>>
vars == <<writerVars, windowVars>>

Active == {"starting", "running", "restarting", "stopping"}
State  == {"running", "stopped", "failed"}
Status == [version : 1..MaxVersion, state : State, by : 1..MaxRun, whole : BOOLEAN]

(* No two contents share modification time and size.                       *)
Signature(f) == <<f.version, f.whole>>

TypeOK ==
    /\ file \in Status \cup {None} /\ writing \in Status \cup {None}
    /\ attempt \in 1..(MaxRetries + 2)
    /\ written \in 0..MaxVersion /\ run \in 1..MaxRun /\ alive \in BOOLEAN
    /\ pc \in {"idle", "read"}
    /\ {stat, signature} \subseteq ((1..written) \X BOOLEAN) \cup {None}
    /\ value \in Status \cup {None} /\ (value = None <=> signature = None)
    /\ shown \in State \cup {"not-started", "stale"}
    /\ lines \in [1..MaxVersion -> 0..MaxVersion]

Init ==
    /\ file = None /\ writing = None /\ attempt = 1 /\ written = 0 /\ run = 1 /\ alive = TRUE
    /\ pc = "idle" /\ stat = None /\ signature = None /\ value = None
    /\ shown = "not-started" /\ lines = [v \in 1..MaxVersion |-> 0]

-----------------------------------------------------------------------------
(* _poll_status.                                                           *)

(* status_is_live.                                                         *)
Live(s) == s.state \in Active => s.by = run /\ alive

(* What is shown of a status, at every poll.                               *)
Label(s) ==
    IF s = None THEN "not-started" ELSE IF Live(s) THEN s.state ELSE "stale"

(* Mutant: only what has changed is shown.                                 *)
RenderChanged(s, changed) ==
    /\ shown' = IF changed THEN Label(s) ELSE shown
    /\ lines' = IF changed /\ s # None /\ Label(s) = "failed"
                THEN [lines EXCEPT ![s.version] = @ + 1] ELSE lines

(* Show it; log a failure that is news.                                    *)
Render(s, changed) ==
    /\ shown' = Label(s)
    /\ lines' = IF changed /\ s # None /\ Label(s) = "failed"
                THEN [lines EXCEPT ![s.version] = @ + 1] ELSE lines

-----------------------------------------------------------------------------
(* StatusFileWatcher.poll.                                                 *)

(* The file is gone.                                                       *)
Absent ==
    /\ pc = "idle" /\ file = None
    /\ signature' = None /\ value' = None
    /\ Render(None, signature # None)
    /\ UNCHANGED <<writerVars, pc, stat>>

Unchanged ==
    /\ pc = "idle" /\ file # None /\ Signature(file) = signature
    /\ Render(value, FALSE)
    /\ UNCHANGED <<writerVars, pc, stat, signature, value>>

Stat ==
    /\ pc = "idle" /\ file # None /\ Signature(file) # signature
    /\ pc' = "read" /\ stat' = Signature(file)
    /\ UNCHANGED <<writerVars, signature, value, shown, lines>>

(* An empty file is no JSON; one that is being replaced may not open.      *)
Readable == {file # None /\ file.whole} \cup {FALSE : w \in {writing} \ {None}}

(* Mutant: a version that cannot be read is not looked at again.           *)
ReadCached ==
    /\ pc = "read" /\ pc' = "idle"
    /\ \E readable \in Readable :
          LET content == IF readable THEN file ELSE value IN
          /\ value' = content /\ Render(content, readable)
          /\ signature' = IF content = None THEN None ELSE stat
    /\ UNCHANGED <<writerVars, stat>>

(* What cannot be read is tried again at the next poll.                    *)
Read ==
    /\ pc = "read" /\ pc' = "idle"
    /\ \E readable \in Readable :
          LET content == IF readable THEN file ELSE value IN
          /\ value' = content /\ Render(content, readable)
          /\ signature' = IF readable THEN stat ELSE signature
    /\ UNCHANGED <<writerVars, stat>>

Poll == Absent \/ Unchanged \/ Stat \/ Read

-----------------------------------------------------------------------------
(* The supervisors and the control script.                                 *)

(* _write_status.  What is first announced is that the supervisor runs;    *)
(* the last word is how it ended.                                          *)
BeginWrite ==
    /\ alive /\ writing = None /\ written < MaxVersion
    /\ (file # None /\ file.by = run) => file.state \in Active
    /\ written' = written + 1 /\ attempt' = 1
    /\ \E s \in State :
          writing' = [version |-> written + 1, state |-> s, by |-> run, whole |-> TRUE]
    /\ UNCHANGED <<file, run, alive, windowVars>>

(* os.replace.                                                             *)
Replace ==
    /\ writing # None /\ attempt <= MaxRetries
    /\ file' = writing /\ writing' = None
    /\ UNCHANGED <<attempt, written, run, alive, windowVars>>

(* Somebody reads the file at the moment: the window or a script.          *)
Retry ==
    /\ writing # None /\ attempt <= MaxRetries
    /\ attempt' = attempt + 1
    /\ UNCHANGED <<file, writing, written, run, alive, windowVars>>

(* Mutant: after the last attempt nothing is written.                      *)
TruncateNever ==
    /\ writing # None /\ attempt = MaxRetries + 1
    /\ attempt' = attempt + 1 /\ writing' = None
    /\ UNCHANGED <<file, written, run, alive, windowVars>>

(* write_text opens the file itself, which readers do not prevent, ...     *)
Truncate ==
    /\ writing # None /\ attempt = MaxRetries + 1
    /\ attempt' = attempt + 1 /\ file' = [writing EXCEPT !.whole = FALSE]
    /\ UNCHANGED <<writing, written, run, alive, windowVars>>

(* ... and fills it.                                                       *)
Fill ==
    /\ writing # None /\ attempt = MaxRetries + 2
    /\ file' = writing /\ writing' = None
    /\ UNCHANGED <<attempt, written, run, alive, windowVars>>

Write == Replace \/ Retry \/ Truncate \/ Fill

(* The process ends, or is killed; a write that it has begun is lost.      *)
Exit ==
    /\ alive /\ alive' = FALSE /\ writing' = None
    /\ UNCHANGED <<file, attempt, written, run, windowVars>>

(* Start moves the status of the previous supervisor away.                 *)
Start ==
    /\ ~alive /\ run < MaxRun
    /\ run' = run + 1 /\ alive' = TRUE /\ file' = None
    /\ UNCHANGED <<writing, attempt, written, windowVars>>

Next ==
    \/ Absent \/ Unchanged \/ Stat \/ Read
    \/ BeginWrite \/ Replace \/ Retry \/ Truncate \/ Fill
    \/ Exit \/ Start

Spec == Init /\ [][Next]_vars

(* The window polls every 750 ms, and a write goes on.                     *)
FairSpec == Spec /\ WF_vars(Poll) /\ WF_vars(Write)

-----------------------------------------------------------------------------
(* Properties.                                                             *)

(* A status that a living supervisor reports gets into the file as a       *)
(* whole, however often readers are in the way.                            *)
StatusLands == \A v \in 1..MaxVersion :
    writing # None /\ writing.version = v
        ~> \/ ~alive
           \/ file # None /\ file.whole /\ file.version >= v

(* The window shows the last status: neither an unreadable file nor a      *)
(* replacement between stat and read makes it miss a version for good.     *)
CatchesUp == \A v \in 1..MaxVersion :
    file # None /\ file.whole /\ file.version = v
        ~> \/ file = None \/ ~file.whole \/ file.version # v
           \/ value = file

(* The window does not go on showing as active a supervisor that is gone.  *)
StaleShown == ~alive ~> alive \/ shown \notin Active

(* Each failure is logged once.                                            *)
LoggedOnce == \A v \in 1..MaxVersion : lines[v] <= 1
=============================================================================
