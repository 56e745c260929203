------------------------------ MODULE TaskTree ------------------------------
(***************************************************************************)
(* What the designer of a workflow expects of the processes that run it:   *)
(* a process completes its steps one after the other, a step may start     *)
(* child processes, and it is completed only when every child it started   *)
(* has completed all of its own steps or was removed.  Users may remove a  *)
(* process with all below it, or move it to another step.  Flow.tla is     *)
(* shown to implement this module.                                         *)
(***************************************************************************)
EXTENDS Naturals, Sequences

VARIABLES
  tree,    \* the processes: how many steps each has and has completed, which
           \* step of which process started it, and whether it was removed
  edits    \* how many processes users removed or moved

TreeInit == tree = <<>> /\ edits = 0

Whole(c) == tree[c].done = tree[c].len

(* A process begins, for a user or as the child of a step. *)
Begin(len, parent) ==
  /\ parent # 0 => ~ Whole(parent) /\ ~ tree[parent].removed
  /\ tree' = Append(tree, [len |-> len, done |-> 0, parent |-> parent, removed |-> FALSE,
                           by |-> IF parent = 0 THEN 0
                                  ELSE tree[parent].done + 1])

(* A process completes its next step; the children of the step are through. *)
Complete(p) ==
  /\ ~ Whole(p) /\ ~ tree[p].removed
  /\ \A c \in DOMAIN tree :
       tree[c].parent = p /\ tree[c].by = tree[p].done + 1 => Whole(c) \/ tree[c].removed
  /\ tree' = [tree EXCEPT ![p].done = @ + 1]

(* Several processes may begin at once: the abort sequences. *)
BeginMany ==
  /\ Len(tree') > Len(tree)
  /\ SubSeq(tree', 1, Len(tree)) = tree
  /\ \A c \in Len(tree) + 1 .. Len(tree') :
       tree'[c].done = 0 /\ tree'[c].parent = 0

(* Nobody stays below a process that is removed. *)
Edited(p, done, removed) ==
  /\ tree' = [c \in DOMAIN tree |->
                [tree[c] EXCEPT !.done = IF c = p THEN done ELSE @,
                                !.removed = @ \/ c \in removed]]
  /\ \A c \in DOMAIN tree :
       tree[c].parent # 0 /\ tree'[tree[c].parent].removed => tree'[c].removed

Remove(p) == \E removed \in SUBSET (DOMAIN tree) : p \in removed /\ Edited(p, tree[p].done, removed)

(* Steps that are to be done again lose their children. *)
MoveTo(p, done) ==
  \E removed \in SUBSET (DOMAIN tree \ {p}) :
    /\ Edited(p, done, removed)
    /\ \A c \in DOMAIN tree :
         tree[c].parent = p /\ tree[c].by > done => Whole(c) \/ tree'[c].removed

TreeNext ==
  \/ /\ UNCHANGED edits
     /\ \/ \E p \in DOMAIN tree : Complete(p)
        \/ \E p \in DOMAIN tree \union {0} :
             /\ Len(tree') = Len(tree) + 1
             /\ Begin(tree'[Len(tree')].len, p)
        \/ BeginMany
  \/ /\ edits' = edits + 1
     /\ \E p \in DOMAIN tree :
          Remove(p) \/ \E done \in 0 .. tree[p].len - 1 : MoveTo(p, done)

TreeSpec == TreeInit /\ [][TreeNext]_<<tree, edits>>
=============================================================================
