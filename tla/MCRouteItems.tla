---------------------------- MODULE MCRouteItems ----------------------------
(***************************************************************************)
(* The instance of RouteItems for TLC: a pool with an old-version member     *)
(* and two uuids, a second instance of our own module, and an indirect       *)
(* module B.                                                                *)
(***************************************************************************)
EXTENDS RouteItems, TLC

CONSTANTS A, B, Me, U1, U2

MCRemoteEnds == {[name |-> A, uuid |-> 0], [name |-> A, uuid |-> 1],
                 [name |-> A, uuid |-> 2], [name |-> Me, uuid |-> 1]}
\* Processes of the present version only.
MCUuidEnds == {[name |-> A, uuid |-> 1], [name |-> A, uuid |-> 2]}
MCUuidName == 1 :> U1 @@ 2 :> U2
MCLists == {{}, {B}, {A, B}}

\* No definition tells the addresses of connections apart.
ConnSymmetry == Permutations(Conns)
=============================================================================
