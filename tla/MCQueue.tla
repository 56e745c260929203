------------------------------- MODULE MCQueue ------------------------------
\* Two threads add three jobs; one thread waits for its jobs, the other does not.
EXTENDS Queue

CONSTANTS main, logger, j1, j2, j3

PlanOf == [a \in {main, logger} |-> IF a = main THEN <<j1, j2>> ELSE <<j3>>]
=============================================================================
