---------------------------- MODULE MCOwnedLock ----------------------------
(* Instances of OwnedLock for TLC.                                         *)
EXTENDS OwnedLock, TLC

CONSTANTS A, B, C, D

OnlyA == {A}

TwoProcs == {A, B}

FourProcs == {A, B, C, D}

\* A process outside Procs died: before it could write its record, or after.
Abandoned == [owner |-> [id |-> <<"gone", 0>>, created_at |-> 0 - (StaleMs + 1)], mtime |-> 0 - (StaleMs + 1)]

OnlyAbandoned == {Abandoned}

NoRecord == [owner |-> NoOwner, mtime |-> 0 - (StaleMs + 1)]

CleanStart == {NoDir}

AnyStart == {NoDir, Abandoned, NoRecord}

Symmetric == Permutations(Procs)

=============================================================================
