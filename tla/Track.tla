------------------------------- MODULE Track -------------------------------
(***************************************************************************)
(* The layout (track_node.h, the tables of track_data/) and the walks over *)
(* it that routes and reservations are made of (location.c,                *)
(* tasks/track_server.c).                                                  *)
(*                                                                         *)
(* A node is a place and a direction of travel; its Reverse is the same    *)
(* place in the other direction.  An edge is a node and a direction: every *)
(* node has one ahead, a branch has a curved one too, an exit has none.    *)
(* Two edges that are each other's reverse are one piece of rail.          *)
(***************************************************************************)
EXTENDS Integers, Sequences

CONSTANTS
  Nodes,
  NodeType(_),      \* "sensor", "branch", "merge", "enter" or "exit"
  Reverse(_),       \* the same place, in the other direction
  Dest(_),          \* where an edge leads
  Dist(_),          \* its length
  ReverseEdge(_)    \* the same rail, in the other direction

DIR_AHEAD  == "ahead"      \* also DIR_STRAIGHT
DIR_CURVED == "curved"

SWITCH_STRAIGHT == "straight"
SWITCH_CURVED   == "curved"

IsExit(n)   == NodeType(n) = "exit"
IsBranch(n) == NodeType(n) = "branch"
Sensors     == {n \in Nodes : NodeType(n) = "sensor"}
Branches    == {n \in Nodes : IsBranch(n)}

Edges == {e \in Nodes \X {DIR_AHEAD, DIR_CURVED} :
            ~IsExit(e[1]) /\ (e[2] = DIR_CURVED => IsBranch(e[1]))}
Src(e) == e[1]

SwitchTables == [Branches -> {SWITCH_STRAIGHT, SWITCH_CURVED}]

ASSUME NodesAssumption ==
  \A n \in Nodes :
    /\ NodeType(n) \in {"sensor", "branch", "merge", "enter", "exit"}
    /\ Reverse(n) \in Nodes
    /\ Reverse(Reverse(n)) = n

ASSUME EdgesAssumption ==
  \A e \in Edges : LET r == ReverseEdge(e) IN
    /\ Dest(e) \in Nodes
    /\ Dist(e) \in Nat \ {0}
    /\ r \in Edges /\ r # e /\ ReverseEdge(r) = e
    /\ Dist(r) = Dist(e)
    /\ Src(r) = Reverse(Dest(e)) /\ Dest(r) = Reverse(Src(e))

-----------------------------------------------------------------------------

\* Defect for ReservationsFollowTurnouts: the two directions are mixed up.
AheadMixedUp(table, n) ==
  IF IsBranch(n) /\ table[n] = SWITCH_STRAIGHT THEN <<n, DIR_CURVED>> ELSE <<n, DIR_AHEAD>>

\* The edge a train takes from a node that is not an exit.
Ahead(table, n) ==
  IF IsBranch(n) /\ table[n] # SWITCH_STRAIGHT THEN <<n, DIR_CURVED>> ELSE <<n, DIR_AHEAD>>

\* A location is a node and a distance past it; the same place told from the
\* last node before it, or NotOnTrack if that is past an exit.
Points     == [node : Nodes, offset : Nat]
NotOnTrack == [node |-> "none", offset |-> 0]

Normalize(table, location) ==
  LET norm[at \in Points] ==
        IF IsExit(at.node) THEN NotOnTrack
        ELSE LET e == Ahead(table, at.node) IN
             IF at.offset < Dist(e) THEN at
             ELSE norm[[node |-> Dest(e), offset |-> at.offset - Dist(e)]]
  IN  norm[location]

FromBranch(e) == IsBranch(Src(e))
Longer(x, y)  == IF x > y THEN x ELSE y

\* How far a reservation goes on an edge: a piece past a branch is taken whole,
\* so that no train stands on the switch ...
StopOffset(e, start, length) ==
  IF FromBranch(e) \/ length + start > Dist(e) THEN Dist(e) ELSE length + start

\* Defect for ClearOfSwitches: no more than what was asked for.
LengthLeftAsked(e, start, length, branch_safety) ==
  length - (StopOffset(e, start, length) - start)

\* ... and what is left to take after it: at least branch_safety past a branch.
LengthLeft(e, start, length, branch_safety) ==
  LET left == length - (StopOffset(e, start, length) - start)
  IN  IF FromBranch(e) THEN Longer(left, branch_safety) ELSE left

\* A piece of a reservation: left is what is still missing after it, total the
\* length up to it.
Piece(e, start, length, total, branch_safety) ==
  LET stop == StopOffset(e, start, length) IN
  [edge |-> e, start |-> start, stop |-> stop,
   left  |-> LengthLeft(e, start, length, branch_safety),
   total |-> total + (stop - start)]

\* The first pieces of a walk that never ends, each on the edge ahead of the one
\* before ...
Along(table, position, wanted, branch_safety, most) ==
  LET piece[i \in 1 .. most] ==
        IF i = 1
        THEN Piece(Ahead(table, position.node), position.offset, wanted, 0, branch_safety)
        ELSE LET p == piece[i - 1]
             IN  Piece(Ahead(table, Dest(p.edge)), 0, p.left, p.total, branch_safety)
  IN  piece

\* ... and those up to where the length is used up or the track ends, at most as
\* many as there is room for.
Ends(p) == p.left <= 0 \/ IsExit(Dest(p.edge))

Walk(table, position, wanted, branch_safety, most) ==
  LET piece == Along(table, position, wanted, branch_safety, most)
      last  == CHOOSE n \in 1 .. most :
                 Ends(piece[n]) /\ \A i \in 1 .. n - 1 : ~Ends(piece[i])
  IN  IF wanted <= 0 THEN << >> ELSE [i \in 1 .. last |-> piece[i]]

Pieces == {p \in [edge : Edges, start : Nat, stop : Nat, left : Int, total : Nat] :
             p.start <= p.stop /\ p.stop <= Dist(p.edge)}
=============================================================================
