----------------------------- MODULE MCWaveLoop -----------------------------
EXTENDS WaveLoop

CONSTANTS a, b, c

\* Three tasks: one shape in which two of them clash, one in which one waits for another.
MCGraphs == {[before |-> {}, clash |-> {<<b, c>>}],
             [before |-> {<<a, b>>}, clash |-> {}]}

=============================================================================
