------------------------ MODULE MCTerminalSupervisor ------------------------
(* Instances of TerminalSupervisor for TLC.                                *)
EXTENDS TerminalSupervisor

CONSTANTS phone, tablet

TwoSessions == 1 .. 2

TwoDevices == {phone, tablet}

OneRequest == {"create"}

OneInput == {"text"}

=============================================================================
