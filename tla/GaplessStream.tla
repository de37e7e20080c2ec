--------------------------- MODULE GaplessStream ---------------------------
(***************************************************************************)
(* What a terminal stream promises to its reader, whatever becomes of the  *)
(* connections in between: the events of a session reach the reader in     *)
(* the order they were produced, none twice, and one is left out only      *)
(* when the next one the reader needs is no longer kept.                   *)
(***************************************************************************)
EXTENDS Naturals, Sequences

VARIABLES produced,  \* the number of events of the session so far
          dropped,   \* the events up to this one are no longer kept
          received   \* the events the reader was shown, in order

vars == <<produced, dropped, received>>

LastReceived == IF received = <<>> THEN 0 ELSE received[Len(received)]

Init == produced = 0 /\ dropped = 0 /\ received = <<>>

\* The session produces one event; the oldest ones may be forgotten.
Produce ==
    /\ produced' = produced + 1
    /\ dropped' \in dropped .. produced'
    /\ UNCHANGED received

Forget ==
    /\ dropped' \in dropped .. produced
    /\ UNCHANGED <<produced, received>>

Receive ==
    /\ LastReceived < produced
    /\ received' = Append(received, LastReceived + 1)
    /\ UNCHANGED <<produced, dropped>>

\* The reader goes on after a gap, but only where its next event is gone.
Skip ==
    /\ LastReceived + 1 <= dropped
    /\ \E s \in LastReceived + 2 .. produced : received' = Append(received, s)
    /\ UNCHANGED <<produced, dropped>>

Next == Produce \/ Forget \/ Receive \/ Skip

Spec == Init /\ [][Next]_vars

=============================================================================
