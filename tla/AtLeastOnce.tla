----------------------------- MODULE AtLeastOnce -----------------------------
(***************************************************************************)
(* What the event consumers promise to the services that use them: a       *)
(* message that was accepted is settled (never delivered again) only after *)
(* it was processed, written to the dead letter queue, or dropped by the   *)
(* retention of the stream.  It may be processed, and dead-lettered, any   *)
(* number of times.                                                        *)
(***************************************************************************)
CONSTANT Messages

VARIABLES accepted, dropped, applied, dead, settled

vars == <<accepted, dropped, applied, dead, settled>>

Init ==
    /\ accepted = {} /\ dropped = {}
    /\ applied = {} /\ dead = {} /\ settled = {}

\* The stream takes m; its retention may drop entries D at the same time.
Accept(m, D) ==
    /\ m \in Messages \ accepted
    /\ D \subseteq accepted \cup {m}
    /\ accepted' = accepted \cup {m}
    /\ dropped' = dropped \cup D
    /\ UNCHANGED <<applied, dead, settled>>

\* The group is created at the end of the stream and skips what is in it.
Skip(D) ==
    /\ D \subseteq accepted
    /\ dropped' = dropped \cup D
    /\ UNCHANGED <<accepted, applied, dead, settled>>

Apply(m) ==
    /\ m \in accepted
    /\ applied' = applied \cup {m}
    /\ UNCHANGED <<accepted, dropped, dead, settled>>

DeadLetter(m) ==
    /\ m \in accepted
    /\ dead' = dead \cup {m}
    /\ UNCHANGED <<accepted, dropped, applied, settled>>

Settle(S) ==
    /\ S \subseteq applied \cup dead \cup dropped
    /\ settled' = settled \cup S
    /\ UNCHANGED <<accepted, dropped, applied, dead>>

Next ==
    \/ \E m \in Messages : Apply(m) \/ DeadLetter(m)
    \/ \E m \in Messages, D \in SUBSET Messages : Accept(m, D)
    \/ \E D \in SUBSET Messages : Skip(D) \/ Settle(D)

Spec == Init /\ [][Next]_vars
=============================================================================
