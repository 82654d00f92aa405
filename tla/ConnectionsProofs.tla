------------------------ MODULE ConnectionsProofs ------------------------
(***************************************************************************)
(* Proofs about Connections, for any number of connections, any length of  *)
(* the history and of the queue, and any bound on the bytes.               *)
(***************************************************************************)
EXTENDS Connections, SequenceTheorems, FiniteSetTheorems, TLAPS

(* The counters that the accumulator keeps are those of the last sample:   *)
(* what a connection transferred since is what it counts more by now.      *)
Counters ==
    /\ DOMAIN previous = now
    /\ \A c \in now : previous[c] + moved[c] = bytes[c]

(* What was sampled and is not yet counted is on its way in the queue.     *)
Pending ==
    capturing => window \subseteq seen \cup UNION {Active(queue[i]) : i \in DOMAIN queue}

Queued == queue \in Seq(Range(queue))

ConnectionsInv == TypeOK /\ Queued /\ Counters /\ Pending /\ RatesOfInterval

(* Entries that say what a sample taken now has to say.                    *)
Fresh == {e \in Entry : e.rate = IF e.id \in live \cap now THEN moved[e.id] ELSE 0}

-----------------------------------------------------------------------------
(* The list of recent connections.                                         *)

(* The difference of two counters is what was moved between two samples.   *)
LEMMA RateIsMoved ==
    ASSUME TypeOK, Counters, NEW c \in Id
    PROVE  /\ Rate(c) \in 0..MaxBytes
           /\ Rate(c) = IF c \in now THEN moved[c] ELSE 0
  <1> USE ConnectionsAssumption
  <1>1. CASE c \in now
    <2>1. /\ previous[c] \in 0..MaxBytes /\ bytes[c] \in 0..MaxBytes /\ moved[c] \in Nat
          /\ previous[c] + moved[c] = bytes[c] /\ c \in DOMAIN previous
      BY <1>1 DEF TypeOK, Counters
    <2> QED BY <1>1, <2>1 DEF Rate
  <1>2. CASE c \notin now
    BY <1>2 DEF Rate, Counters
  <1> QED BY <1>1, <1>2

LEMMA ItemIsFresh ==
    ASSUME TypeOK, Counters, NEW c \in live, NEW n \in 1..MaxSequence
    PROVE  Item(c, n) \in Fresh
  <1>1. c \in Id
    BY ConnectionsAssumption DEF TypeOK, Id
  <1> QED BY <1>1, RateIsMoved DEF Item, Fresh, Entry

LEMMA RefreshedIsFresh ==
    ASSUME TypeOK, Counters
    PROVE  Refreshed \in Seq(Fresh)
  <1>1. recent \in Seq(Entry) /\ Len(recent) \in Nat /\ DOMAIN recent = 1..Len(recent)
    BY DEF TypeOK
  <1>2. ASSUME NEW i \in 1..Len(recent)
        PROVE  Refreshed[i] \in Fresh
    <2>1. recent[i] \in Entry
      BY <1>1, <1>2
    <2>2. CASE recent[i].id \in live
      BY <1>1, <1>2, <2>1, <2>2, ItemIsFresh DEF Refreshed, Entry
    <2>3. CASE recent[i].id \notin live
      BY <1>1, <1>2, <2>1, <2>3, ConnectionsAssumption DEF Refreshed, Closed, Fresh, Entry
    <2> QED BY <2>2, <2>3
  <1>3. Refreshed = [i \in 1..Len(recent) |-> Refreshed[i]]
    BY <1>1 DEF Refreshed
  <1> HIDE DEF Refreshed
  <1> QED BY <1>1, <1>2, <1>3

LEMMA LiveIsFinite ==
    ASSUME TypeOK
    PROVE  IsFiniteSet(live)
  <1>1. opened \in Int /\ live \subseteq 1..opened
    BY ConnectionsAssumption DEF TypeOK
  <1>2. IsFiniteSet(1..opened)
    BY <1>1, FS_Interval
  <1> QED BY <1>1, <1>2, FS_Subset

(* An order of the new connections is a sequence of them.                  *)
LEMMA OrderIsASequence ==
    ASSUME TypeOK, NEW order \in SetToSeqs(live \ Known)
    PROVE  order \in Seq(live)
  <1>1. IsFiniteSet(live \ Known)
    BY LiveIsFinite, FS_Subset
  <1>2. Cardinality(live \ Known) \in Nat
    BY <1>1, FS_CardinalityType
  <1>3. order \in [1..Cardinality(live \ Known) -> live \ Known]
    BY DEF SetToSeqs
  <1>4. PICK n \in Nat : order \in [1..n -> live \ Known]
    BY <1>2, <1>3
  <1>5. order \in Seq(live \ Known)
    BY <1>4, SeqDef
  <1> QED BY <1>5, SeqMonotonic

LEMMA AddedIsFresh ==
    ASSUME TypeOK, Counters, NEW order \in Seq(live),
           sequence + Len(order) <= MaxSequence
    PROVE  Added(order) \in Seq(Fresh)
  <1>1. /\ Len(order) \in Nat /\ DOMAIN order = 1..Len(order)
        /\ sequence \in Nat /\ MaxSequence \in Nat
    BY ConnectionsAssumption DEF TypeOK
  <1>2. ASSUME NEW k \in 1..Len(order)
        PROVE  Item(order[k], sequence + k) \in Fresh
    <2>1. order[k] \in live /\ sequence + k \in 1..MaxSequence
      BY <1>1, <1>2
    <2> QED BY <2>1, ItemIsFresh
  <1> QED BY <1>1, <1>2 DEF Added

(* What is left of a list when its head is cut off is as good as the list. *)
LEMMA TrimmedKeeps ==
    ASSUME NEW S, NEW list \in Seq(S)
    PROVE  /\ Trimmed(list) \in Seq(S)
           /\ Len(Trimmed(list)) <= HistoryLimit
  <1> USE ConnectionsAssumption
  <1>1. CASE Len(list) <= HistoryLimit
    BY <1>1 DEF Trimmed
  <1>2. CASE ~(Len(list) <= HistoryLimit)
    <2> DEFINE m == Len(list) - HistoryLimit + 1
    <2>1. m \in Int /\ Len(list) \in Int /\ \A i \in m..Len(list) : list[i] \in S
      BY <1>2
    <2>2. Trimmed(list) = SubSeq(list, m, Len(list))
      BY <1>2 DEF Trimmed
    <2>3. /\ SubSeq(list, m, Len(list)) \in Seq(S)
          /\ Len(SubSeq(list, m, Len(list))) =
               IF m <= Len(list) THEN Len(list) - m + 1 ELSE 0
      <3> HIDE DEF m
      <3> QED BY <2>1, SubSeqProperties
    <2>4. Len(SubSeq(list, m, Len(list))) <= HistoryLimit
      BY <1>2, <2>3
    <2> QED BY <2>2, <2>3, <2>4
  <1> QED BY <1>1, <1>2

LEMMA Listing ==
    ASSUME TypeOK, Counters, NEW order \in SetToSeqs(live \ Known),
           sequence + Len(order) <= MaxSequence
    PROVE  /\ Trimmed(Refreshed \o Added(order)) \in Seq(Fresh)
           /\ Len(Trimmed(Refreshed \o Added(order))) <= HistoryLimit
  <1>1. Added(order) \in Seq(Fresh)
    BY OrderIsASequence, AddedIsFresh
  <1>2. Refreshed \o Added(order) \in Seq(Fresh)
    BY <1>1, RefreshedIsFresh, ConcatProperties
  <1> QED BY <1>2, TrimmedKeeps

-----------------------------------------------------------------------------
(* The queue.                                                              *)

(* What is in the queue stays in it until the window takes all of it.      *)
LEMMA Appending ==
    ASSUME Queued, NEW message
    PROVE  LET q == Append(queue, message)
           IN  /\ q \in Seq(Range(q)) /\ Len(q) = Len(queue) + 1
               /\ Len(queue) \in Nat /\ DOMAIN q = 1..(Len(queue) + 1)
               /\ DOMAIN queue = 1..Len(queue)
               /\ \A i \in DOMAIN queue : q[i] = queue[i]
               /\ q[Len(queue) + 1] = message
  <1> DEFINE T == Range(queue) \cup {message}
             q == Append(queue, message)
  <1>1. queue \in Seq(T)
    <2>1. Range(queue) \subseteq T
      OBVIOUS
    <2>2. queue \in Seq(Range(queue))
      BY DEF Queued
    <2> HIDE DEF T
    <2> QED BY <2>1, <2>2
  <1>2. message \in T
    OBVIOUS
  <1>3. q \in Seq(T)
    <2> HIDE DEF T
    <2> QED BY <1>1, <1>2, AppendProperties
  <1>4. q \in Seq(Range(q))
    <2> HIDE DEF T, q
    <2> QED BY <1>3, SeqOfRange
  <1>5. /\ Len(q) = Len(queue) + 1 /\ Len(queue) \in Nat
        /\ DOMAIN q = 1..(Len(queue) + 1) /\ DOMAIN queue = 1..Len(queue)
        /\ \A i \in DOMAIN queue : q[i] = queue[i]
        /\ q[Len(queue) + 1] = message
    <2> HIDE DEF T
    <2> QED BY <1>1, <1>2
  <1> QED BY <1>4, <1>5

(* One more message brings what it has, and takes nothing away.            *)
LEMMA AppendingBrings ==
    ASSUME Queued, NEW message
    PROVE  LET q == Append(queue, message)
           IN  UNION {Active(q[i]) : i \in DOMAIN q}
                 = Active(message) \cup UNION {Active(queue[i]) : i \in DOMAIN queue}
  <1> DEFINE q == Append(queue, message)
             n == Len(queue) + 1
  <1>1. /\ n \in DOMAIN q /\ q[n] = message
        /\ \A i \in DOMAIN q : i \in DOMAIN queue \/ i = n
        /\ \A i \in DOMAIN queue : i \in DOMAIN q /\ q[i] = queue[i]
    BY Appending
  <1> HIDE DEF q, n
  <1>2. UNION {Active(q[i]) : i \in DOMAIN q}
          = Active(message) \cup UNION {Active(queue[i]) : i \in DOMAIN queue}
    BY <1>1
  <1> QED BY <1>2 DEF q

LEMMA MessageIsActive ==
    ASSUME NEW list
    PROVE  Active(Message(list)) = live
  BY DEF Active, Message

LEMMA UnavailableIsNot == Active(Unavailable) = {}
  BY DEF Active, Unavailable

-----------------------------------------------------------------------------
(* The invariant.                                                          *)

LEMMA Initially == Init => ConnectionsInv
  <1> SUFFICES ASSUME Init PROVE ConnectionsInv
    OBVIOUS
  <1> USE ConnectionsAssumption DEF Init
  <1>1. TypeOK
    <2>1. up \in BOOLEAN
      OBVIOUS
    <2>2. previous \in [DOMAIN previous -> 0..MaxBytes] /\ DOMAIN previous = {}
      OBVIOUS
    <2>3. recent \in Seq(Entry) /\ Len(recent) = 0 /\ Len(queue) = 0 /\ DOMAIN queue = {}
      OBVIOUS
    <2>4. bytes \in [Id -> 0..MaxBytes] /\ moved \in [Id -> Nat] /\ lastMoved \in [Id -> Nat]
      OBVIOUS
    <2>5. opened \in 0..MaxId /\ sequence \in 0..MaxSequence
      OBVIOUS
    <2>7. /\ live \subseteq 1..opened /\ capturing \in BOOLEAN /\ seen \subseteq Id
          /\ window \subseteq Id /\ now \subseteq Id /\ before \subseteq Id
      OBVIOUS
    <2>6. 0 <= HistoryLimit /\ 0 <= MaxQueue
      OBVIOUS
    <2> HIDE DEF Init
    <2> QED BY <2>1, <2>2, <2>3, <2>4, <2>5, <2>6, <2>7 DEF TypeOK
  <1>2. Queued /\ Counters /\ Pending /\ RatesOfInterval
    BY DEF Queued, Counters, Pending, RatesOfInterval
  <1> QED BY <1>1, <1>2 DEF ConnectionsInv

(* A sample whose list is the one that the accumulator makes.              *)
LEMMA Sampling ==
    ASSUME ConnectionsInv, Sample
    PROVE  ConnectionsInv'
  <1> USE ConnectionsAssumption DEF ConnectionsInv, world, snapshot
  <1>1. PICK order \in SetToSeqs(live \ Known) :
           /\ sequence + Len(order) <= MaxSequence
           /\ recent' = Trimmed(Refreshed \o Added(order))
           /\ sequence' = sequence + Len(order)
           /\ queue' = Append(queue, Message(Trimmed(Refreshed \o Added(order))))
    BY DEF Sample
  <1>2. recent' \in Seq(Fresh) /\ Len(recent') <= HistoryLimit
    BY <1>1, Listing
  <1>3. PICK message : queue' = Append(queue, message) /\ Active(message) = live
    BY <1>1, MessageIsActive
  <1>4. Len(order) \in Nat
    BY OrderIsASequence
  <1>5. Len(queue) < MaxQueue
    BY DEF Sample
  <1>6. /\ previous' = [c \in live |-> bytes[c]] /\ now' = live /\ before' = now
        /\ lastMoved' = moved /\ moved' = [c \in Id |-> 0]
        /\ window' = IF capturing THEN window \cup live ELSE window
        /\ UNCHANGED <<opened, live, bytes, up, shown, capturing, seen>>
    BY DEF Sample
  <1>7. live \subseteq Id
    BY DEF TypeOK, Id
  <1>8. TypeOK'
    <2>1. recent' \in Seq(Entry)
      <3>1. Fresh \subseteq Entry
        BY DEF Fresh
      <3> QED BY <1>2, <3>1, SeqMonotonic
    <2>2. sequence' \in 0..MaxSequence
      BY <1>1, <1>4 DEF TypeOK
    <2>3. Len(queue') <= MaxQueue
      BY <1>3, <1>5, Appending
    <2>4. \A i \in DOMAIN queue' : Active(queue'[i]) \subseteq Id
      <3>1. \A i \in DOMAIN queue' : i \in DOMAIN queue \/ queue'[i] = message
        BY <1>3, Appending
      <3>2. \A i \in DOMAIN queue : queue'[i] = queue[i]
        BY <1>3, Appending
      <3> QED BY <1>3, <1>7, <3>1, <3>2 DEF TypeOK
    <2>5. previous' \in [live -> 0..MaxBytes] /\ DOMAIN previous' = live
      BY <1>6, <1>7 DEF TypeOK
    <2>6. UNCHANGED <<opened, live, bytes, up, capturing, seen>>
      BY <1>6
    <2>7. window' \subseteq Id /\ now' \subseteq Id /\ before' \subseteq Id
      BY <1>6, <1>7 DEF TypeOK
    <2>8. moved' \in [Id -> Nat] /\ lastMoved' \in [Id -> Nat]
      BY <1>6 DEF TypeOK
    <2> QED BY <1>2, <1>7, <2>1, <2>2, <2>3, <2>4, <2>5, <2>6, <2>7, <2>8 DEF TypeOK
  <1>9. Queued'
    BY <1>3, Appending DEF Queued
  <1>10. Counters'
    <2>1. \A c \in live : bytes[c] \in Nat /\ moved'[c] = 0
      BY <1>6, <1>7 DEF TypeOK
    <2> QED BY <1>6, <2>1 DEF Counters
  <1>11. Pending'
    <2>1. UNION {Active(queue'[i]) : i \in DOMAIN queue'}
            = live \cup UNION {Active(queue[i]) : i \in DOMAIN queue}
      BY <1>3, AppendingBrings
    <2> DEFINE coming == UNION {Active(queue[i]) : i \in DOMAIN queue}
    <2>2. capturing => window \subseteq seen \cup coming
      BY DEF Pending
    <2>3. (UNION {Active(queue[i]) : i \in DOMAIN queue})' = live \cup coming
      BY <2>1
    <2> HIDE DEF coming
    <2>4. capturing' => window' \subseteq seen' \cup (live \cup coming)
      BY <1>6, <2>2
    <2> QED BY <2>3, <2>4 DEF Pending
  <1>12. RatesOfInterval'
    <2>1. \A i \in DOMAIN recent' : recent'[i] \in Fresh
      BY <1>2
    <2> QED BY <1>6, <2>1 DEF RatesOfInterval, Fresh
  <1> QED BY <1>8, <1>9, <1>10, <1>11, <1>12

LEMMA Failing ==
    ASSUME ConnectionsInv, ReadingFails
    PROVE  ConnectionsInv'
  <1> USE ConnectionsAssumption DEF ConnectionsInv, world, snapshot
  <1>1. /\ Len(queue) < MaxQueue /\ queue' = Append(queue, Unavailable)
        /\ previous' = <<>> /\ now' = {} /\ before' = now
        /\ lastMoved' = moved /\ moved' = [c \in Id |-> 0]
        /\ UNCHANGED <<opened, live, bytes, up, recent, sequence, capturing, seen, window>>
    BY DEF ReadingFails
  <1>2. TypeOK'
    <2>1. Len(queue') <= MaxQueue
      BY <1>1, Appending
    <2>2. \A i \in DOMAIN queue' : Active(queue'[i]) \subseteq Id
      <3>1. \A i \in DOMAIN queue' : i \in DOMAIN queue \/ queue'[i] = Unavailable
        BY <1>1, Appending
      <3>2. \A i \in DOMAIN queue : queue'[i] = queue[i]
        BY <1>1, Appending
      <3> QED BY <3>1, <3>2, UnavailableIsNot DEF TypeOK
    <2>3. previous' \in [DOMAIN previous' -> 0..MaxBytes] /\ DOMAIN previous' = {}
      BY <1>1
    <2>4. moved' \in [Id -> Nat] /\ lastMoved' \in [Id -> Nat]
      BY <1>1 DEF TypeOK
    <2> QED BY <1>1, <2>1, <2>2, <2>3, <2>4 DEF TypeOK
  <1>3. Queued'
    BY <1>1, Appending DEF Queued
  <1>4. Counters' /\ RatesOfInterval'
    BY <1>1 DEF Counters, RatesOfInterval
  <1>5. Pending'
    <2>1. UNION {Active(queue'[i]) : i \in DOMAIN queue'}
            = Active(Unavailable) \cup UNION {Active(queue[i]) : i \in DOMAIN queue}
      BY <1>1, AppendingBrings
    <2>2. (UNION {Active(queue[i]) : i \in DOMAIN queue})'
            = UNION {Active(queue[i]) : i \in DOMAIN queue}
      BY <2>1, UnavailableIsNot
    <2> QED BY <1>1, <2>2 DEF Pending
  <1> QED BY <1>2, <1>3, <1>4, <1>5

(* The window takes everything off the queue, and counts it.               *)
LEMMA Polling ==
    ASSUME ConnectionsInv, PollQueue
    PROVE  ConnectionsInv'
  <1> USE ConnectionsAssumption DEF ConnectionsInv, world, monitor, history
  <1>1. /\ queue' = <<>>
        /\ seen' = IF capturing THEN seen \cup UNION {Active(queue[i]) : i \in DOMAIN queue}
                   ELSE seen
        /\ UNCHANGED <<opened, live, bytes, up, previous, recent, sequence, capturing,
                       moved, lastMoved, now, before, window>>
    BY DEF PollQueue
  <1>2. TypeOK'
    <2>1. seen' \subseteq Id
      BY <1>1 DEF TypeOK
    <2>2. Len(queue') = 0 /\ DOMAIN queue' = {}
      BY <1>1
    <2> QED BY <1>1, <2>1, <2>2 DEF TypeOK
  <1>3. Queued' /\ Counters' /\ RatesOfInterval'
    BY <1>1 DEF Queued, Counters, RatesOfInterval
  <1>4. Pending'
    BY <1>1 DEF Pending
  <1> QED BY <1>2, <1>3, <1>4

(* The window starts, stops and clears a snapshot.                         *)
LEMMA Capturing ==
    ASSUME ConnectionsInv, StartSnapshot \/ StopSnapshot \/ ClearSnapshot
    PROVE  ConnectionsInv'
  <1> USE ConnectionsAssumption DEF ConnectionsInv, world, monitor, history
  <1>1. /\ UNCHANGED <<opened, live, bytes, up, previous, recent, sequence, queue,
                       moved, lastMoved, now, before>>
        /\ capturing' \in BOOLEAN /\ seen' \subseteq Id /\ window' \subseteq Id
        /\ capturing' => window' = {}
    BY DEF StartSnapshot, StopSnapshot, ClearSnapshot, TypeOK
  <1>2. TypeOK'
    BY <1>1 DEF TypeOK
  <1>3. Queued' /\ Counters' /\ RatesOfInterval'
    BY <1>1 DEF Queued, Counters, RatesOfInterval
  <1>4. Pending'
    BY <1>1 DEF Pending
  <1> QED BY <1>2, <1>3, <1>4

(* Connections come, transfer and go.                                      *)
LEMMA Working ==
    ASSUME ConnectionsInv,
           Open \/ ComeOrGo \/ \E c \in Id : Transfer(c) \/ Close(c)
    PROVE  ConnectionsInv'
  <1> USE ConnectionsAssumption DEF ConnectionsInv, monitor, snapshot, history
  <1>1. UNCHANGED <<previous, recent, sequence, queue, capturing, seen,
                    lastMoved, now, before, window>>
    BY DEF Open, ComeOrGo, Transfer, Close
  <1>2. Queued' /\ RatesOfInterval' /\ Pending'
    BY <1>1 DEF Queued, RatesOfInterval, Pending
  <1>3. CASE Open
    <2>1. UNCHANGED <<bytes, up, moved>>
      BY <1>3 DEF Open
    <2>2. opened' \in 0..MaxId /\ live' \subseteq 1..opened'
      BY <1>3 DEF Open, TypeOK
    <2>3. TypeOK' /\ Counters'
      BY <1>1, <2>1, <2>2 DEF TypeOK, Counters
    <2> QED BY <1>2, <2>3
  <1>4. CASE ComeOrGo
    BY <1>1, <1>2, <1>4 DEF ComeOrGo, TypeOK, Counters
  <1>5. ASSUME NEW c \in Id, Transfer(c)
        PROVE  ConnectionsInv'
    <2>1. /\ UNCHANGED <<opened, live, up>> /\ bytes[c] \in Nat /\ bytes[c] < MaxBytes
          /\ bytes' = [bytes EXCEPT ![c] = bytes[c] + 1]
          /\ moved' = [moved EXCEPT ![c] = moved[c] + 1]
      BY <1>5 DEF Transfer, TypeOK
    <2>7. bytes \in [Id -> 0..MaxBytes] /\ moved \in [Id -> Nat]
      BY DEF TypeOK
    <2>2. /\ bytes \in [Id -> 0..MaxBytes] /\ moved \in [Id -> Nat]
          /\ bytes[c] + 1 \in 0..MaxBytes /\ moved[c] + 1 \in Nat
      BY <2>1, <2>7
    <2>6. bytes' \in [Id -> 0..MaxBytes] /\ moved' \in [Id -> Nat]
      BY <2>1, <2>2
    <2>3. TypeOK'
      BY <1>1, <2>1, <2>6 DEF TypeOK
    <2>4. ASSUME NEW d \in now
          PROVE  previous[d] + moved'[d] = bytes'[d]
      <3>1. /\ d \in Id /\ previous[d] \in Nat /\ moved[d] \in Nat /\ bytes[d] \in Nat
            /\ previous[d] + moved[d] = bytes[d]
        <4>1. d \in Id /\ d \in DOMAIN previous
          BY <2>4 DEF TypeOK, Counters
        <4>2. previous[d] \in Nat /\ moved[d] \in Nat /\ bytes[d] \in Nat
          BY <4>1 DEF TypeOK
        <4> QED BY <2>4, <4>1, <4>2 DEF Counters
      <3>2. CASE d = c
        BY <2>1, <2>2, <3>1, <3>2
      <3>3. CASE d # c
        BY <2>1, <2>2, <3>1, <3>3
      <3> QED BY <3>2, <3>3
    <2>5. Counters'
      BY <1>1, <2>4 DEF Counters
    <2> QED BY <1>2, <2>3, <2>5
  <1>6. ASSUME NEW c \in Id, Close(c)
        PROVE  ConnectionsInv'
    BY <1>1, <1>2, <1>6 DEF Close, TypeOK, Counters
  <1> QED BY <1>3, <1>4, <1>5, <1>6

LEMMA Inductive == ConnectionsInv /\ [Next]_vars => ConnectionsInv'
  <1> SUFFICES ASSUME ConnectionsInv, [Next]_vars
               PROVE  ConnectionsInv'
    OBVIOUS
  <1>1. CASE UNCHANGED vars
    BY <1>1 DEF ConnectionsInv, TypeOK, Queued, Counters, Pending, RatesOfInterval,
                vars, world, monitor, snapshot, history
  <1>2. CASE Next
    BY <1>2, Sampling, Failing, Polling, Capturing, Working DEF Next
  <1> QED BY <1>1, <1>2

-----------------------------------------------------------------------------
(* The theorems.                                                           *)

(* Every variable has its type: the numbers and the rates of the list stay *)
(* in their ranges, whatever the controller answers, and no list is longer *)
(* than the history.                                                       *)
THEOREM TypeCorrect == Spec => []TypeOK
  <1>1. ConnectionsInv => TypeOK
    BY DEF ConnectionsInv
  <1> QED BY Initially, Inductive, <1>1, PTL DEF Spec

(* A rate counts what was transferred between the last two samples of the  *)
(* controller, through every outage, reopening and trimming of the list.   *)
THEOREM RatesAreOfInterval == Spec => []RatesOfInterval
  <1>1. ConnectionsInv => RatesOfInterval
    BY DEF ConnectionsInv
  <1> QED BY Initially, Inductive, <1>1, PTL DEF Spec

(* A running snapshot has counted every connection that was sampled since  *)
(* it was started, whenever the window has emptied its queue.              *)
THEOREM CaptureIsComplete == Spec => []CaptureComplete
  <1>1. ConnectionsInv => CaptureComplete
    BY DEF ConnectionsInv, Pending, CaptureComplete
  <1> QED BY Initially, Inductive, <1>1, PTL DEF Spec
=============================================================================
