------------------------------ MODULE MCChain -------------------------------
(***************************************************************************)
(* Three nodes on a path: requests between the ends are forwarded.          *)
(***************************************************************************)
EXTENDS Chain, TLC

CONSTANTS a, b, c

PathLinks == {{a, b}, {b, c}}
PathHops ==
  a :> (a :> {} @@ b :> {b} @@ c :> {b}) @@
  b :> (a :> {a} @@ b :> {} @@ c :> {c}) @@
  c :> (a :> {b} @@ b :> {b} @@ c :> {})
=============================================================================
