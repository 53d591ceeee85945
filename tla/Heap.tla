-------------------------------- MODULE Heap --------------------------------
(***************************************************************************)
(* The binary heap of heap.c, as routing.c uses it: pointers to nodes,     *)
(* compared by the distance each node has at that moment.                  *)
(*                                                                         *)
(* A heap is its array and the number of nodes in it.  What a slot past    *)
(* that number holds matters: bubble_down takes slots for inner nodes that *)
(* have no children, and compares with what was left there.                *)
(***************************************************************************)
EXTENDS Integers

CONSTANT node_size     \* slots of the array

Left(i)   == 2 * i + 1
Right(i)  == 2 * i + 2
Parent(i) == IF i = 0 THEN 0 ELSE (i - 1) \div 2     \* (0 - 1) / 2 is 0 in C

\* One slot too few: with n nodes, slot n / 2 has no child.
IsLeaf(h, i) == i > h.num_nodes \div 2

Swap(nodes, i, j) == [nodes EXCEPT ![i] = nodes[j], ![j] = nodes[i]]
Greater(distance, x, y) == distance[x] > distance[y]

\* A turn of the loop of bubble_up, with the node at slot i ...
UpFrom(distance, at) ==
  IF Greater(distance, at.nodes[Parent(at.i)], at.nodes[at.i])
  THEN [nodes |-> Swap(at.nodes, Parent(at.i), at.i), i |-> Parent(at.i)]
  ELSE at

\* ... which runs at most as often as it can go up.
BubbleUp(h, distance, index) ==
  LET up[k \in 0 .. index] ==
        IF k = 0 THEN [nodes |-> h.nodes, i |-> index] ELSE UpFrom(distance, up[k - 1])
  IN  [h EXCEPT !.nodes = up[index].nodes]

\* Defect for ShortestUnlessLost: the children are not compared.
LeftChild(h, nodes, distance, i) == Left(i)

\* The child that bubble_down compares with.
MaxChild(h, nodes, distance, i) ==
  IF Greater(distance, nodes[Left(i)], nodes[Right(i)]) /\ Right(i) < h.num_nodes
  THEN Right(i) ELSE Left(i)

\* A turn of the loop of bubble_down, which runs until it breaks or has come to a leaf.
DownFrom(h, distance, at) ==
  LET child == MaxChild(h, at.nodes, distance, at.i) IN
  IF ~IsLeaf(h, at.i) /\ Greater(distance, at.nodes[at.i], at.nodes[child])
  THEN [nodes |-> Swap(at.nodes, at.i, child), i |-> child]
  ELSE at

BubbleDown(h, distance, index) ==
  LET down[k \in 0 .. h.num_nodes] ==
        IF k = 0 THEN [nodes |-> h.nodes, i |-> index] ELSE DownFrom(h, distance, down[k - 1])
  IN  [h EXCEPT !.nodes = down[h.num_nodes].nodes]

\* Nothing is entered into a heap that is full.
Push(h, distance, x) ==
  IF h.num_nodes = node_size THEN h
  ELSE LET placed == [h EXCEPT !.nodes[h.num_nodes] = x]
       IN  [BubbleUp(placed, distance, h.num_nodes) EXCEPT !.num_nodes = h.num_nodes + 1]

Top(h) == h.nodes[0]

\* Defect for HeapHoldsReached: the slot after the last one goes to the front.
PopPastEnd(h, distance) ==
  LET last == h.num_nodes - 1 IN
  IF last = 0 THEN [h EXCEPT !.num_nodes = 0]
  ELSE BubbleDown([nodes |-> [h.nodes EXCEPT ![0] = h.nodes[last + 1]], num_nodes |-> last],
                  distance, 0)

\* The last node goes to the front, and stays behind in its old slot.
Pop(h, distance) ==
  LET last == h.num_nodes - 1 IN
  IF last = 0 THEN [h EXCEPT !.num_nodes = 0]
  ELSE BubbleDown([nodes |-> [h.nodes EXCEPT ![0] = h.nodes[last]], num_nodes |-> last],
                  distance, 0)

InHeap(h) == {h.nodes[i] : i \in 0..(h.num_nodes - 1)}

\* Defect for SearchEnds: the node is pushed once more.
UpdateByPush(h, distance, x) == Push(h, distance, x)

\* The first slot with the node is moved up or down; a node that is not there
\* is pushed.
Update(h, distance, x) ==
  IF x \notin InHeap(h) THEN Push(h, distance, x)
  ELSE LET i == CHOOSE i \in 0..(h.num_nodes - 1) :
                  h.nodes[i] = x /\ \A j \in 0..(i - 1) : h.nodes[j] # x
       IN  IF IsLeaf(h, i) THEN BubbleUp(h, distance, i)
           ELSE BubbleUp(BubbleDown(h, distance, i), distance, i)
=============================================================================
