-------------------------- MODULE MCTerminalStream --------------------------
(* Instances of TerminalStream for TLC.                                    *)
EXTENDS TerminalStream

TwoConns == {1, 2}

\* Output, and the states, leases and inputs that share its numbers.
BothKinds == {"output", "lifecycle"}

OutputOnly == {"output"}

\* To a client that accepts every kind the kinds are the same.
OneKind == {"event"}

=============================================================================
