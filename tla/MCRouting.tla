----------------------------- MODULE MCRouting ------------------------------
(***************************************************************************)
(* Three nodes; the links form a path or a triangle.                        *)
(***************************************************************************)
EXTENDS Routing, TLC

CONSTANTS a, b, c

PathLinks == {{a, b}, {b, c}}
TriangleLinks == {{a, b}, {b, c}, {a, c}}
=============================================================================
