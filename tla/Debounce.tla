----------------------------- MODULE Debounce -----------------------------
(***************************************************************************)
(* What a debounced monitor promises: the signature it works with only     *)
(* ever moves to one that the last StableSamples readings agreed on.  How  *)
(* a monitor keeps track of the readings, when it declines to move, and    *)
(* what it costs to move, is left open.                                    *)
(***************************************************************************)
EXTENDS Naturals

CONSTANTS
    Signature,      \* the physical networks
    StableSamples,  \* how many readings have to agree
    None            \* no physical network

VARIABLES
    current,        \* the signature the monitor works with
    last,           \* the last reading
    streak          \* how many readings in a row gave last (up to StableSamples)

Streak(x) == IF x = None THEN 0
             ELSE IF x # last THEN 1
             ELSE IF streak < StableSamples THEN streak + 1 ELSE streak

Init ==
    /\ current \in Signature \cup {None}
    /\ last = None /\ streak = 0

Read(x) ==
    /\ last' = x
    /\ streak' = Streak(x)
    /\ \/ UNCHANGED current
       \/ streak' = StableSamples /\ current' = x

Next == \E x \in Signature \cup {None} : Read(x)

Spec == Init /\ [][Next]_<<current, last, streak>>

=============================================================================
