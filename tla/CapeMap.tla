------------------------------ MODULE CapeMap -------------------------------
(***************************************************************************)
(* The map of cape (libs/cape/src/stc/cape_map.c): a binary tree of nodes  *)
(* that point to their children and to their parent, and the cursor that   *)
(* walks over it.                                                          *)
(*                                                                         *)
(* Every map of the programs is one of these: the routing table, the data  *)
(* trees, the headers of requests.  The pointers are modelled; a value     *)
(* goes with its key and is left out.  mem holds the nodes that are        *)
(* allocated, so that a pointer to a freed node shows.                     *)
(*                                                                         *)
(* The tree is not balanced: cape_map_node_insert calls the rebalancing    *)
(* for the new leaf only, where there is nothing to rotate.  The rotations *)
(* and the heights are left out for this reason.                           *)
(***************************************************************************)
EXTENDS Integers, FiniteSets

CONSTANTS Keys,        \* the keys
          Nodes,       \* addresses of nodes
          NoNode,      \* NULL
          EraseDirs,   \* directions in which an iteration takes keys out
          MaxRefused   \* bound: insertions of a key that is there

ASSUME MapAssumption ==
  /\ Keys \subseteq Int /\ Nodes \subseteq Nat /\ NoNode \notin Nodes
  /\ EraseDirs \subseteq {"forw", "prev"} /\ MaxRefused \in Nat

VARIABLES
  mem,       \* the allocated nodes
  root,
  size,
  cursor,    \* CapeMapCursor
  stands,    \* whether the last step of the cursor returned its node
  refused    \* history: insertions that were refused

vars == <<mem, root, size, cursor, stands, refused>>
tree == <<mem, root, size, refused>>

NoCursor == [node |-> NoNode, dir |-> "none", pos |-> -1]

Init ==
  /\ mem = << >> /\ root = NoNode /\ size = 0
  /\ cursor = NoCursor /\ stands = FALSE /\ refused = 0

-----------------------------------------------------------------------------
(* Walking. *)

MostLeft(n) ==
  LET f[x \in DOMAIN mem] == IF mem[x].left = NoNode THEN x ELSE f[mem[x].left]
  IN IF n = NoNode THEN NoNode ELSE f[n]

MostRight(n) ==
  LET f[x \in DOMAIN mem] == IF mem[x].right = NoNode THEN x ELSE f[mem[x].right]
  IN IF n = NoNode THEN NoNode ELSE f[n]

(* The first ancestor of which the walk comes up on the given side. *)
Ancestor(n, side) ==
  LET f[x \in DOMAIN mem] ==
        IF mem[x].parent = NoNode THEN NoNode
        ELSE IF mem[mem[x].parent][side] = x THEN mem[x].parent ELSE f[mem[x].parent]
  IN f[n]

NodeNext(n) == IF mem[n].right # NoNode THEN MostLeft(mem[n].right) ELSE Ancestor(n, "left")
NodePrev(n) == IF mem[n].left # NoNode THEN MostRight(mem[n].left) ELSE Ancestor(n, "right")

(* Where the search for a key ends: its node, or the one to hang it under. *)
Side(n, k) == IF k < mem[n].key THEN "left" ELSE "right"
SearchEnd(k) ==
  LET f[x \in DOMAIN mem] ==
        IF mem[x].key = k \/ mem[x][Side(x, k)] = NoNode THEN x ELSE f[mem[x][Side(x, k)]]
  IN f[root]

Find(k) ==
  IF root # NoNode /\ mem[SearchEnd(k)].key = k THEN SearchEnd(k) ELSE NoNode

-----------------------------------------------------------------------------
(* Insertion. *)

Unused == CHOOSE n \in Nodes \ DOMAIN mem : \A m \in Nodes \ DOMAIN mem : n <= m
NodeNew(k, parent) == [key |-> k, left |-> NoNode, right |-> NoNode, parent |-> parent]
With(heap, n, node) == [x \in DOMAIN heap \union {n} |-> IF x = n THEN node ELSE heap[x]]

(* The size counts a refused insertion, too. *)
Insert(k) ==
  /\ cursor = NoCursor
  /\ Nodes # DOMAIN mem
  /\ LET at == SearchEnd(k)
     IN IF root = NoNode
        THEN /\ mem' = With(mem, Unused, NodeNew(k, NoNode))
             /\ root' = Unused
             /\ size' = 1
             /\ UNCHANGED refused
        ELSE /\ size' = size + 1
             /\ UNCHANGED root
             /\ IF mem[at].key = k
                THEN /\ refused < MaxRefused
                     /\ refused' = refused + 1
                     /\ UNCHANGED mem
                ELSE /\ mem' = [With(mem, Unused, NodeNew(k, at)) EXCEPT ![at][Side(at, k)] = Unused]
                     /\ UNCHANGED refused
  /\ UNCHANGED <<cursor, stands>>

-----------------------------------------------------------------------------
(* Removal. *)

(* cape_map_node_delete__one_child: the child takes the place of the node. *)
OneChild(heap, n, child) ==
  [x \in DOMAIN heap \ {n} |->
     IF x = heap[n].parent
     THEN [heap[x] EXCEPT ![IF heap[x].left = n THEN "left" ELSE "right"] = child]
     ELSE IF x = child THEN [heap[x] EXCEPT !.parent = heap[n].parent]
     ELSE heap[x]]

(* With two children the node exchanges its data with the next one, and     *)
(* that one is removed in its place.                                        *)
Leaves(n) ==
  IF mem[n].left # NoNode /\ mem[n].right # NoNode THEN MostLeft(mem[n].right) ELSE n
\* Mutant: the next one is removed without the exchange.
NotExchanged(n) == mem
Exchanged(n) ==
  [mem EXCEPT ![n].key = mem[Leaves(n)].key, ![Leaves(n)].key = mem[n].key]

(* cape_map_extract, and the node that leaves the tree is freed. *)
Extract(n) ==
  LET v == Leaves(n)
      child == IF mem[v].left # NoNode THEN mem[v].left ELSE mem[v].right
  IN /\ mem' = OneChild(Exchanged(n), v, child)
     /\ root' = IF mem[v].parent = NoNode THEN child ELSE root
     /\ size' = size - 1
     /\ UNCHANGED refused

Erase(k) ==
  /\ cursor = NoCursor
  /\ Find(k) # NoNode
  /\ Extract(Find(k))
  /\ UNCHANGED <<cursor, stands>>

Clear ==
  /\ cursor = NoCursor
  /\ mem' = << >> /\ root' = NoNode /\ size' = 0 /\ refused' = 0
  /\ UNCHANGED <<cursor, stands>>

-----------------------------------------------------------------------------
(* The cursor. *)

CursorAt(dir, first, last) ==
  [node |-> IF dir = "forw" THEN first ELSE last, dir |-> dir, pos |-> -1]

CursorInit(dir) ==
  /\ cursor = NoCursor
  /\ cursor' = CursorAt(dir, MostLeft(root), MostRight(root))
  /\ stands' = FALSE
  /\ UNCHANGED tree

(* cape_map_cursor_next or _prev, as the direction is: the first step       *)
(* returns the node the cursor was given.                                   *)
CursorStep ==
  /\ cursor.node # NoNode
  /\ LET c == IF cursor.pos < 0 THEN cursor.node
              ELSE IF cursor.dir = "forw" THEN NodeNext(cursor.node) ELSE NodePrev(cursor.node)
     IN /\ cursor' = [cursor EXCEPT !.node = c, !.pos = @ + 1]
        /\ stands' = (c # NoNode)
  /\ UNCHANGED tree

\* Mutant: the cursor goes on to the node after.
StepOn(c) == [cursor EXCEPT !.node = IF c.dir = "forw" THEN NodeNext(c.node) ELSE NodePrev(c.node),
                            !.pos = @ - 1]

(* Before the node is taken out, the cursor goes back to the one before.    *)
StepBack(c) == [cursor EXCEPT !.node = IF c.dir = "forw" THEN NodePrev(c.node) ELSE NodeNext(c.node),
                              !.pos = @ - 1]

(* cape_map_cursor_extract: without one before, the cursor begins again.    *)
CursorExtract ==
  /\ stands /\ cursor.dir \in EraseDirs
  /\ Extract(cursor.node)
  /\ cursor' = IF StepBack(cursor).node # NoNode THEN StepBack(cursor)
               ELSE CursorAt(cursor.dir, MostLeft(root)', MostRight(root)')
  /\ stands' = FALSE

CursorDel == cursor # NoCursor /\ cursor' = NoCursor /\ stands' = FALSE /\ UNCHANGED tree

-----------------------------------------------------------------------------
Next ==
  \/ \E k \in Keys : Insert(k) \/ Erase(k)
  \/ Clear
  \/ \E dir \in {"forw", "prev"} : CursorInit(dir)
  \/ CursorStep \/ CursorExtract \/ CursorDel

Spec == Init /\ [][Next]_vars

-----------------------------------------------------------------------------
(* Properties. *)

(* The variables have their types. *)
TypeOK ==
  /\ DOMAIN mem \subseteq Nodes
  /\ \A n \in DOMAIN mem :
       mem[n] \in [key : Keys, left : Nodes \union {NoNode}, right : Nodes \union {NoNode},
                   parent : Nodes \union {NoNode}]
  /\ root \in Nodes \union {NoNode}
  /\ size \in Int /\ refused \in 0 .. MaxRefused
  /\ cursor \in [node : Nodes \union {NoNode}, dir : {"forw", "prev", "none"}, pos : Int]
  /\ stands \in BOOLEAN

Present == {mem[n].key : n \in DOMAIN mem}

(* Between the steps of an iteration the cursor points to a node that is    *)
(* still allocated, however many nodes were taken out and data exchanged,   *)
(* and its position is the number of keys that were returned and are left   *)
(* (cape_map_cursor_extract, which moves the cursor before it extracts).    *)
Before(k) == {j \in Present : IF cursor.dir = "forw" THEN j < k ELSE j > k}
CursorIsExact ==
  cursor.node # NoNode =>
    /\ cursor.node \in DOMAIN mem
    /\ cursor.pos = IF cursor.pos < 0 THEN -1 ELSE Cardinality(Before(mem[cursor.node].key))
    /\ cursor.pos < 0 => Before(mem[cursor.node].key) = {}

(* "This class implements a balanced binary tree" (cape_map.h:8): the       *)
(* depth of the two sides of a node differs by one at most.                 *)
Height ==
  LET f[n \in DOMAIN mem \union {NoNode}] ==
        IF n = NoNode THEN 0
        ELSE 1 + IF f[mem[n].left] > f[mem[n].right] THEN f[mem[n].left] ELSE f[mem[n].right]
  IN f
Balanced ==
  \A n \in DOMAIN mem : Height[mem[n].left] - Height[mem[n].right] \in {-1, 0, 1}

(* Seen from outside the tree is a sorted set, and an iteration returns     *)
(* every key of it once, in order, whatever it takes out on its way.        *)
Ahead ==
  IF cursor.node = NoNode THEN {}
  ELSE IF cursor.pos < 0 THEN Present
  ELSE {k \in Present : k # mem[cursor.node].key /\ k \notin Before(mem[cursor.node].key)}
SM == INSTANCE SortedMap WITH keys <- Present, dir <- cursor.dir, ahead <- Ahead
ImplementsSortedMap == SM!MapSpec
=============================================================================
