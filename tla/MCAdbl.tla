------------------------------- MODULE MCAdbl -------------------------------
\* Two threads that use one session.
EXTENDS Adbl

CONSTANTS u1, u2

MCPlan == [u \in Users |-> IF u = u1 THEN <<"ins", "set">> ELSE <<"ins_or_set", "del">>]
OnePlan == [u \in Users |-> <<"ins">>]
=============================================================================
