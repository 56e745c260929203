----------------------------- MODULE SortedMap ------------------------------
(***************************************************************************)
(* What a user of CapeMap expects: a set of keys, and an iteration that    *)
(* returns every key once, in order, while the user may take the key it    *)
(* stands at out of the map.  CapeMap.tla is shown to implement this       *)
(* module.                                                                 *)
(***************************************************************************)
EXTENDS Integers

VARIABLES keys,    \* the keys in the map
          dir,     \* the direction of the iteration, or "none"
          ahead    \* the keys it has still to return

MapInit == keys = {} /\ dir = "none" /\ ahead = {}

Change ==
  /\ dir = "none"
  /\ \/ \E k \in keys' : keys' = keys \union {k}
     \/ \E k \in keys : keys' = keys \ {k}
  /\ UNCHANGED <<dir, ahead>>

Clear == dir = "none" /\ keys' = {} /\ UNCHANGED <<dir, ahead>>

Begin == dir = "none" /\ dir' \in {"forw", "prev"} /\ ahead' = keys /\ UNCHANGED keys

(* The next key is returned: the nearest one in the direction. *)
IsNearest(k) == \A j \in ahead : IF dir = "forw" THEN k <= j ELSE j <= k
Step == /\ \E k \in ahead : IsNearest(k) /\ ahead' = ahead \ {k}
        /\ UNCHANGED <<keys, dir>>

(* A key that was returned is taken out. *)
Take == /\ dir # "none"
        /\ \E k \in keys \ ahead : keys' = keys \ {k}
        /\ UNCHANGED <<dir, ahead>>

End == dir # "none" /\ dir' = "none" /\ ahead' = {} /\ UNCHANGED keys

MapNext == Change \/ Clear \/ Begin \/ Step \/ Take \/ End

MapSpec == MapInit /\ [][MapNext]_<<keys, dir, ahead>>
=============================================================================
