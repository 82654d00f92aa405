---------------------------- MODULE Connections ----------------------------
(***************************************************************************)
(* The connection monitor of the window: the worker that samples the       *)
(* controller of the core (_monitor_loop in app.py), the accumulator that  *)
(* turns samples into rates and a list of recent connections, and the      *)
(* window's thread, which takes the results from a queue and feeds the     *)
(* traffic snapshot (monitor.py, app.py).                                  *)
(*                                                                         *)
(* Upload and download are one counter, and a rate is the number of bytes  *)
(* that it counts: what it is divided by is the time between the same two  *)
(* samples.                                                                *)
(***************************************************************************)
EXTENDS SequencesExt

CONSTANTS
    MaxId,          \* how many connections are opened at most (bound)
    Tun,            \* those that come in through the TUN adapter
    MaxBytes,       \* how many bytes a connection transfers at most (bound)
    MaxQueue,       \* how far the window's thread may lag behind (bound)
    MaxSequence,    \* how many numbers are given out at most (bound)
    HistoryLimit,   \* history_limit
    PerSource,      \* RECENT_PER_SOURCE
    MayFail         \* whether the controller may be unavailable

Id == 1..MaxId

ASSUME ConnectionsAssumption ==
    /\ MaxId \in Nat /\ Tun \subseteq Id /\ MaxBytes \in Nat
    /\ MaxQueue \in Nat \ {0} /\ MaxSequence \in Nat
    /\ HistoryLimit \in Nat /\ PerSource \in Nat /\ MayFail \in BOOLEAN

VARIABLES
    opened,         \* connections 1..opened have been opened
    live,           \* those that are open
    bytes,          \* what each of them has transferred
    up,             \* the controller answers
    previous,       \* _previous: the counters of the last sample, <<>> if there is none
    recent,         \* _recent, oldest first
    sequence,       \* _sequence
    queue,          \* _cmd_queue, as far as the monitor is concerned
    shown,          \* the message that the window shows
    capturing,      \* the traffic snapshot is active
    seen,           \* the connections it has counted
    moved,          \* history: bytes since the last attempt to sample
    lastMoved,      \* history: bytes between the last two attempts
    now, before,    \* history: what the last attempt sampled, and the one before
    window          \* history: what was sampled since the snapshot was started

world    == <<opened, live, bytes, up>>
monitor  == <<previous, recent, sequence>>
snapshot == <<capturing, seen>>
history  == <<moved, lastMoved, now, before, window>>
vars     == <<world, monitor, queue, shown, snapshot, history>>

Entry == [id : Id, sequence : 1..MaxSequence, active : BOOLEAN, rate : 0..MaxBytes]
Unavailable == [kind |-> "monitor-unavailable"]

Init ==
    /\ opened = 0 /\ live = {} /\ bytes = [c \in Id |-> 0] /\ up \in {TRUE, ~MayFail}
    /\ previous = <<>> /\ recent = <<>> /\ sequence = 0
    /\ queue = <<>> /\ shown = Unavailable
    /\ capturing = FALSE /\ seen = {}
    /\ moved = [c \in Id |-> 0] /\ lastMoved = [c \in Id |-> 0]
    /\ now = {} /\ before = {} /\ window = {}

-----------------------------------------------------------------------------
(* ConnectionAccumulator.update.                                           *)

(* The first sample of a connection says nothing about its speed.          *)
Rate(c) == IF c \in DOMAIN previous THEN bytes[c] - previous[c] ELSE 0

Item(c, n) == [id |-> c, sequence |-> n, active |-> TRUE, rate |-> Rate(c)]

Closed(e) == [id |-> e.id, sequence |-> e.sequence, active |-> FALSE, rate |-> 0]

Known == {recent[i].id : i \in DOMAIN recent}

(* A connection of the list keeps its place and its number; if it is not   *)
(* in the sample it is closed and has no rate.                             *)
Refreshed ==
    [i \in DOMAIN recent |->
        IF recent[i].id \in live THEN Item(recent[i].id, recent[i].sequence)
        ELSE Closed(recent[i])]

(* The new ones get the next numbers, at the end.                          *)
Added(order) == [k \in DOMAIN order |-> Item(order[k], sequence + k)]

Trimmed(list) ==
    IF Len(list) <= HistoryLimit THEN list
    ELSE SubSeq(list, Len(list) - HistoryLimit + 1, Len(list))

(* One tab: the entries of one source with the highest numbers.            *)
Tab(list, source) ==
    LET all == Reverse(SelectSeq(list, LAMBDA e : e.id \in source))
    IN  SubSeq(all, 1, IF Len(all) < PerSource THEN Len(all) ELSE PerSource)

Message(list) ==
    [kind |-> "monitor", active |-> live,
     tun |-> Tab(list, Tun), mixed |-> Tab(list, Id \ Tun)]

(* The worker reads the controller and passes the result on.  Nothing but  *)
(* the queue is shared, so this is one step.  The connections come in any  *)
(* order.                                                                  *)
Sample ==
    /\ up /\ Len(queue) < MaxQueue
    /\ \E order \in SetToSeqs(live \ Known) :
          LET list == Trimmed(Refreshed \o Added(order))
          IN  /\ sequence + Len(order) <= MaxSequence
              /\ recent' = list /\ sequence' = sequence + Len(order)
              /\ queue' = Append(queue, Message(list))
    /\ previous' = [c \in live |-> bytes[c]]
    /\ now' = live /\ before' = now
    /\ lastMoved' = moved /\ moved' = [c \in Id |-> 0]
    /\ window' = IF capturing THEN window \cup live ELSE window
    /\ UNCHANGED <<world, shown, snapshot>>

(* Mutant: the rates are not reset.                                        *)
ReadingFailsOnly ==
    /\ MayFail /\ Len(queue) < MaxQueue
    /\ queue' = Append(queue, Unavailable)
    /\ now' = {} /\ before' = now
    /\ lastMoved' = moved /\ moved' = [c \in Id |-> 0]
    /\ UNCHANGED <<world, monitor, shown, snapshot, window>>

(* Mutant: the window is not told.                                         *)
ReadingFailsSilently ==
    /\ MayFail /\ Len(queue) < MaxQueue
    /\ previous' = <<>>
    /\ now' = {} /\ before' = now
    /\ lastMoved' = moved /\ moved' = [c \in Id |-> 0]
    /\ UNCHANGED <<world, recent, sequence, queue, shown, snapshot, window>>

(* The controller cannot be read: reset_rates.                             *)
ReadingFails ==
    /\ MayFail /\ Len(queue) < MaxQueue
    /\ previous' = <<>>
    /\ queue' = Append(queue, Unavailable)
    /\ now' = {} /\ before' = now
    /\ lastMoved' = moved /\ moved' = [c \in Id |-> 0]
    /\ UNCHANGED <<world, recent, sequence, shown, snapshot, window>>

-----------------------------------------------------------------------------
(* The window.                                                             *)

Active(message) == IF message.kind = "monitor" THEN message.active ELSE {}

(* Mutant: only the newest message is worth looking at.                    *)
PollNewest ==
    /\ queue # <<>>
    /\ shown' = Last(queue)
    /\ seen' = IF capturing THEN seen \cup Active(Last(queue)) ELSE seen
    /\ queue' = <<>>
    /\ UNCHANGED <<world, monitor, capturing, history>>

(* _poll_queue handles all that has arrived before it gives the thread up. *)
PollQueue ==
    /\ queue # <<>>
    /\ shown' = Last(queue)
    /\ seen' = IF capturing THEN seen \cup UNION {Active(queue[i]) : i \in DOMAIN queue}
               ELSE seen
    /\ queue' = <<>>
    /\ UNCHANGED <<world, monitor, capturing, history>>

StartSnapshot ==
    /\ capturing' = TRUE /\ seen' = {} /\ window' = {}
    /\ UNCHANGED <<world, monitor, queue, shown, moved, lastMoved, now, before>>

StopSnapshot ==
    /\ capturing /\ capturing' = FALSE
    /\ UNCHANGED <<world, monitor, queue, shown, seen, history>>

(* start() and stop().                                                     *)
ClearSnapshot ==
    /\ capturing' = FALSE /\ seen' = {} /\ window' = {}
    /\ UNCHANGED <<world, monitor, queue, shown, moved, lastMoved, now, before>>

-----------------------------------------------------------------------------
(* The core.                                                               *)

Open ==
    /\ opened < MaxId
    /\ opened' = opened + 1 /\ live' = live \cup {opened + 1}
    /\ UNCHANGED <<bytes, up, monitor, queue, shown, snapshot, history>>

Transfer(c) ==
    /\ c \in live /\ bytes[c] < MaxBytes
    /\ bytes' = [bytes EXCEPT ![c] = @ + 1] /\ moved' = [moved EXCEPT ![c] = @ + 1]
    /\ UNCHANGED <<opened, live, up, monitor, queue, shown, snapshot, lastMoved, now, before, window>>

Close(c) ==
    /\ c \in live
    /\ live' = live \ {c}
    /\ UNCHANGED <<opened, bytes, up, monitor, queue, shown, snapshot, history>>

(* The core comes or goes, and its connections with it.                    *)
ComeOrGo ==
    /\ MayFail
    /\ up' = ~up /\ live' = {}
    /\ UNCHANGED <<opened, bytes, monitor, queue, shown, snapshot, history>>

Next ==
    \/ Sample \/ ReadingFails
    \/ PollQueue \/ StartSnapshot \/ StopSnapshot \/ ClearSnapshot
    \/ Open \/ ComeOrGo \/ \E c \in Id : Transfer(c) \/ Close(c)

Spec == Init /\ [][Next]_vars

(* The worker and the window's thread run: while the core is gone, the     *)
(* worker's next round fails.                                              *)
FairSpec == Spec /\ WF_vars(~up /\ ReadingFails) /\ WF_vars(PollQueue)

-----------------------------------------------------------------------------
(* Properties.                                                             *)

TypeOK ==
    /\ opened \in 0..MaxId /\ live \subseteq 1..opened
    /\ bytes \in [Id -> 0..MaxBytes] /\ up \in BOOLEAN
    /\ DOMAIN previous \subseteq Id /\ previous \in [DOMAIN previous -> 0..MaxBytes]
    /\ recent \in Seq(Entry) /\ Len(recent) <= HistoryLimit
    /\ sequence \in 0..MaxSequence /\ Len(queue) <= MaxQueue
    /\ \A i \in DOMAIN queue : Active(queue[i]) \subseteq Id
    /\ capturing \in BOOLEAN /\ seen \subseteq Id /\ window \subseteq Id
    /\ moved \in [Id -> Nat] /\ lastMoved \in [Id -> Nat]
    /\ now \subseteq Id /\ before \subseteq Id

(* A rate counts what the connection has transferred between the last two  *)
(* samples, if it was in both of them, and nothing otherwise: not what it  *)
(* transferred before it was noticed, nor while nobody could look.         *)
RatesOfInterval ==
    now # {} => \A i \in DOMAIN recent :
        recent[i].rate = IF recent[i].id \in now \cap before
                         THEN lastMoved[recent[i].id] ELSE 0

(* Whatever was sampled while the snapshot runs is counted, once the       *)
(* window has caught up.                                                   *)
CaptureComplete == capturing /\ queue = <<>> => window \subseteq seen

(* The window does not go on showing the speed of a core that is gone.     *)
OutageShown == ~up ~> up \/ shown = Unavailable

(* The snapshot accumulates every connection that was observed until it    *)
(* was stopped.                                                            *)
CapturesUntilStop == queue = <<>> => window \subseteq seen

(* The two tabs are independent: each of them has as many rows as its own  *)
(* source has open connections to fill them with.                          *)
IndependentTabs ==
    shown # Unavailable =>
        \A tab \in {<<shown.tun, Tun>>, <<shown.mixed, Id \ Tun>>} :
            Len(tab[1]) < PerSource =>
                shown.active \cap tab[2] \subseteq {tab[1][i].id : i \in DOMAIN tab[1]}
=============================================================================
