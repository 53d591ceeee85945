-------------------------- MODULE TrackServerProofs --------------------------
(* Proofs about TrackServer, and about the walks by which the track server *)
(* answers its queries, for every layout, set of trains and table size     *)
(* that satisfy the assumptions of Track, TrackServer and Distances.       *)
EXTENDS TrackServer, TrackQueries, WellFoundedInduction, FiniteSetTheorems, TLAPS

-----------------------------------------------------------------------------
(* normalize_location: a recursive function of the distance, which the     *)
(* facts about it are proved of by induction over the distance.            *)

\* Induction, by sets of numbers: a set of them has a least one.
LEMMA LeastElement ==
  ASSUME NEW T \in SUBSET Nat, T # {}
  PROVE  \E x \in T : \A y \in T : x <= y
<1>1. PICK x \in T : \A y \in T : ~(<<y, x>> \in OpToRel(<, Nat))
  BY WFMin, NatLessThanWellFounded
<1>2. \A y \in T : y < x => <<y, x>> \in OpToRel(<, Nat)
  BY DEF OpToRel
<1>3. x \in Nat /\ \A y \in T : y \in Nat /\ ~(y < x)
  BY <1>1, <1>2
<1>4. \A y \in T : x <= y
  BY <1>3
<1>5. QED
  BY <1>4

\* ... and what holds of every number if it holds of those before it, holds of all.
LEMMA StrongInduction ==
  ASSUME NEW T \in SUBSET Nat, \A n \in Nat : (\A k \in 0 .. n - 1 : k \in T) => n \in T
  PROVE  T = Nat
<1> DEFINE B == {n \in Nat : n \notin T}
<1> SUFFICES ASSUME B # {} PROVE FALSE
  OBVIOUS
<1>1. PICK b \in B : \A y \in B : b <= y
  <2>1. B \in SUBSET Nat
    OBVIOUS
  <2> HIDE DEF B
  <2>2. QED
    BY <2>1, LeastElement
<1>2. \A k \in 0 .. b - 1 : k \in T
  BY <1>1
<1>3. QED
  BY <1>1, <1>2

\* Where a train goes from a node that is not an exit.
LEMMA AheadOK ==
  ASSUME NEW turnouts \in SwitchTables, NEW n \in Nodes, ~IsExit(n)
  PROVE  /\ Ahead(turnouts, n) \in Edges /\ Src(Ahead(turnouts, n)) = n
         /\ Dest(Ahead(turnouts, n)) \in Nodes /\ Dist(Ahead(turnouts, n)) \in Nat \ {0}
         /\ IsBranch(n) =>
              (Ahead(turnouts, n)[2] = DIR_CURVED) = (turnouts[n] = SWITCH_CURVED)
<1>1. Ahead(turnouts, n) \in Edges /\ Src(Ahead(turnouts, n)) = n
  BY DEF Ahead, Edges, Src, IsExit, IsBranch, DIR_AHEAD, DIR_CURVED
<1>2. IsBranch(n) => (Ahead(turnouts, n)[2] = DIR_CURVED) = (turnouts[n] = SWITCH_CURVED)
  <2> SUFFICES ASSUME IsBranch(n)
               PROVE  (Ahead(turnouts, n)[2] = DIR_CURVED) = (turnouts[n] = SWITCH_CURVED)
    OBVIOUS
  <2>1. turnouts[n] \in {SWITCH_STRAIGHT, SWITCH_CURVED}
    BY DEF SwitchTables, Branches
  <2>2. CASE turnouts[n] = SWITCH_STRAIGHT
    BY <2>2 DEF Ahead, SWITCH_STRAIGHT, SWITCH_CURVED, DIR_AHEAD, DIR_CURVED
  <2>3. CASE turnouts[n] = SWITCH_CURVED
    BY <2>3 DEF Ahead, SWITCH_STRAIGHT, SWITCH_CURVED, DIR_AHEAD, DIR_CURVED
  <2>4. QED
    BY <2>1, <2>2, <2>3
<1>3. QED
  BY <1>1, <1>2, EdgesAssumption

\* What normalize_location does on one edge, given what it does on the next.
Beyond(turnouts, l) ==
  [node   |-> Dest(Ahead(turnouts, l.node)),
   offset |-> l.offset - Dist(Ahead(turnouts, l.node))]

\* One edge on, g is asked.
OneEdge(turnouts, g, l) ==
  IF IsExit(l.node) THEN NotOnTrack
  ELSE IF l.offset < Dist(Ahead(turnouts, l.node)) THEN l
  ELSE g[Beyond(turnouts, l)]

\* What it can return.
Answers == Points \cup {NotOnTrack}

\* It is g, for offsets up to m.
NormsUpTo(turnouts, g, m) ==
  \A l \in Points : l.offset <= m => g[l] = OneEdge(turnouts, g, l)

\* What lies beyond an edge is nearer.
LEMMA BeyondOK ==
  ASSUME NEW turnouts \in SwitchTables, NEW l \in Points, ~IsExit(l.node),
         ~(l.offset < Dist(Ahead(turnouts, l.node)))
  PROVE  /\ Beyond(turnouts, l) \in Points
         /\ Beyond(turnouts, l).offset \in 0 .. l.offset - 1
         /\ l.offset \in Nat \ {0}
         /\ Beyond(turnouts, l).offset = l.offset - Dist(Ahead(turnouts, l.node))
         /\ Beyond(turnouts, l).node = Dest(Ahead(turnouts, l.node))
<1>1. l.node \in Nodes /\ l.offset \in Nat
  BY DEF Points
<1>2. Dest(Ahead(turnouts, l.node)) \in Nodes /\ Dist(Ahead(turnouts, l.node)) \in Nat \ {0}
  BY <1>1, AheadOK
<1>3. l.offset - Dist(Ahead(turnouts, l.node)) \in 0 .. l.offset - 1
  BY <1>1, <1>2
<1>4. QED
  BY <1>1, <1>2, <1>3 DEF Beyond, Points

\* There is no more than one such function ...
LEMMA NormsAgree ==
  ASSUME NEW turnouts \in SwitchTables, NEW g, NEW h, NEW m \in Nat, NEW k \in Nat,
         NormsUpTo(turnouts, g, m), NormsUpTo(turnouts, h, k)
  PROVE  \A l \in Points : l.offset <= m /\ l.offset <= k => g[l] = h[l]
<1> DEFINE T == {n \in Nat : \A l \in Points : l.offset = n /\ n <= m /\ n <= k => g[l] = h[l]}
<1>1. ASSUME NEW n \in Nat, \A j \in 0 .. n - 1 : j \in T PROVE n \in T
  <2> SUFFICES ASSUME NEW l \in Points, l.offset = n, n <= m, n <= k PROVE g[l] = h[l]
    OBVIOUS
  <2>1. g[l] = OneEdge(turnouts, g, l) /\ h[l] = OneEdge(turnouts, h, l)
    BY DEF NormsUpTo
  <2>2. CASE IsExit(l.node) \/ l.offset < Dist(Ahead(turnouts, l.node))
    BY <2>1, <2>2 DEF OneEdge
  <2>3. CASE ~IsExit(l.node) /\ ~(l.offset < Dist(Ahead(turnouts, l.node)))
    <3> DEFINE b == Beyond(turnouts, l)
    <3>1. b \in Points /\ b.offset \in 0 .. n - 1
      BY <2>3, BeyondOK
    <3> HIDE DEF b
    <3>2. b.offset <= m /\ b.offset <= k
      BY <3>1
    <3>3. g[b] = h[b]
      BY <1>1, <3>1, <3>2
    <3>4. QED
      BY <2>1, <2>3, <3>3 DEF OneEdge, b
  <2>4. QED
    BY <2>2, <2>3
<1>2. T = Nat
  <2>1. T \in SUBSET Nat
    OBVIOUS
  <2> HIDE DEF T
  <2>2. QED
    BY <1>1, <2>1, StrongInduction
<1>3. \A l \in Points : l.offset \in Nat
  BY DEF Points
<1>4. QED
  BY <1>2, <1>3

\* ... and there is one, for any distance.
LEMMA NormsExist ==
  ASSUME NEW turnouts \in SwitchTables
  PROVE  \A m \in Nat : \E g \in [Points -> Answers] : NormsUpTo(turnouts, g, m)
<1> DEFINE T == {m \in Nat : \E g \in [Points -> Answers] : NormsUpTo(turnouts, g, m)}
<1>0. \A l \in Points : l.offset \in Nat
  BY DEF Points
<1>1. ASSUME NEW m \in Nat, \A j \in 0 .. m - 1 : j \in T PROVE m \in T
  <2>1. PICK g \in [Points -> Answers] : \A l \in Points : l.offset < m => g[l] = OneEdge(turnouts, g, l)
    <3>1. CASE m = 0
      <4>1. [l \in Points |-> NotOnTrack] \in [Points -> Answers]
        BY DEF Answers
      <4>2. \A l \in Points : ~(l.offset < 0)
        BY <1>0
      <4>3. QED
        BY <3>1, <4>1, <4>2
    <3>2. CASE m # 0
      <4>1. m - 1 \in 0 .. m - 1
        BY <3>2
      <4>2. PICK g \in [Points -> Answers] : NormsUpTo(turnouts, g, m - 1)
        BY <1>1, <4>1
      <4>3. \A l \in Points : l.offset < m => l.offset <= m - 1
        BY <1>0
      <4>4. QED
        BY <4>2, <4>3 DEF NormsUpTo
    <3>3. QED
      BY <3>1, <3>2
  <2> DEFINE h == [l \in Points |-> IF l.offset < m THEN g[l] ELSE OneEdge(turnouts, g, l)]
  <2>2. \A l \in Points : OneEdge(turnouts, g, l) \in Answers
    <3>1. TAKE l \in Points
    <3>2. ~IsExit(l.node) /\ ~(l.offset < Dist(Ahead(turnouts, l.node))) => Beyond(turnouts, l) \in Points
      BY BeyondOK
    <3>3. QED
      BY <3>2 DEF OneEdge, Answers
  <2>3. h \in [Points -> Answers]
    BY <2>2
  <2>4. NormsUpTo(turnouts, h, m)
    <3> SUFFICES ASSUME NEW l \in Points, l.offset <= m PROVE h[l] = OneEdge(turnouts, h, l)
      BY DEF NormsUpTo
    <3>1. h[l] = OneEdge(turnouts, g, l)
      BY <2>1
    <3>2. CASE IsExit(l.node) \/ l.offset < Dist(Ahead(turnouts, l.node))
      BY <3>1, <3>2 DEF OneEdge
    <3>3. CASE ~IsExit(l.node) /\ ~(l.offset < Dist(Ahead(turnouts, l.node)))
      <4> DEFINE b == Beyond(turnouts, l)
      <4>1. b \in Points /\ b.offset \in 0 .. l.offset - 1
        BY <3>3, BeyondOK
      <4> HIDE DEF b
      <4>2. b.offset < m
        BY <1>0, <4>1
      <4>3. h[b] = g[b]
        BY <4>1, <4>2
      <4> HIDE DEF h
      <4>4. QED
        BY <3>1, <3>3, <4>3 DEF OneEdge, b
    <3>4. QED
      BY <3>2, <3>3
  <2> HIDE DEF h
  <2>5. QED
    BY <2>3, <2>4
<1>2. T = Nat
  <2>1. T \in SUBSET Nat
    OBVIOUS
  <2> HIDE DEF T
  <2>2. QED
    BY <1>1, <2>1, StrongInduction
<1>3. QED
  BY <1>2

\* The function that Normalize is defined by exists: its equation holds.
LEMMA NormalizeRec ==
  ASSUME NEW turnouts \in SwitchTables, NEW l \in Points
  PROVE  Normalize(turnouts, l) =
           IF IsExit(l.node) THEN NotOnTrack
           ELSE IF l.offset < Dist(Ahead(turnouts, l.node)) THEN l
           ELSE Normalize(turnouts, Beyond(turnouts, l))
<1> DEFINE F(f) == [at \in Points |->
        IF IsExit(at.node) THEN NotOnTrack
        ELSE LET e == Ahead(turnouts, at.node) IN
             IF at.offset < Dist(e) THEN at
             ELSE f[[node |-> Dest(e), offset |-> at.offset - Dist(e)]]]
           h == CHOOSE f : f = F(f)
           best(m) == CHOOSE g : NormsUpTo(turnouts, g, m)
           w == [at \in Points |-> best(at.offset)[at]]
<1>0. \A at \in Points : at.offset \in Nat
  BY DEF Points
<1>1. \A m \in Nat : NormsUpTo(turnouts, best(m), m)
  BY NormsExist
<1>2. \A at \in Points : w[at] = OneEdge(turnouts, w, at)
  <2>1. TAKE at \in Points
  <2>2. w[at] = best(at.offset)[at]
    OBVIOUS
  <2>3. best(at.offset)[at] = OneEdge(turnouts, best(at.offset), at)
    <3> HIDE DEF best
    <3>1. QED
      BY <1>0, <1>1 DEF NormsUpTo
  <2>4. CASE IsExit(at.node) \/ at.offset < Dist(Ahead(turnouts, at.node))
    <3> HIDE DEF best
    <3>1. QED
      BY <2>2, <2>3, <2>4 DEF OneEdge
  <2>5. CASE ~IsExit(at.node) /\ ~(at.offset < Dist(Ahead(turnouts, at.node)))
    <3> DEFINE b == Beyond(turnouts, at)
    <3>1. b \in Points /\ b.offset \in 0 .. at.offset - 1
      BY <2>5, BeyondOK
    <3>2. w[b] = best(b.offset)[b]
      BY <3>1
    <3> HIDE DEF b, best
    <3>3. b.offset \in Nat /\ at.offset \in Nat /\ b.offset <= at.offset
      BY <1>0, <3>1
    <3>4. best(b.offset)[b] = best(at.offset)[b]
      BY <1>1, <3>1, <3>3, NormsAgree
    <3> HIDE DEF w
    <3>5. QED
      BY <2>2, <2>3, <2>5, <3>2, <3>4 DEF OneEdge, b
  <2>6. QED
    BY <2>4, <2>5
<1>3. w = F(w)
  <2> HIDE DEF best
  <2>1. \A at \in Points : w[at] = F(w)[at]
    <3> HIDE DEF w
    <3>1. QED
      BY <1>2 DEF OneEdge, Beyond
  <2>2. DOMAIN w = Points /\ w = [at \in Points |-> w[at]]
    OBVIOUS
  <2>3. F(w) = [at \in Points |-> F(w)[at]]
    OBVIOUS
  <2> HIDE DEF w, F
  <2>4. QED
    BY <2>1, <2>2, <2>3
<1>4. h = F(h)
  <2> HIDE DEF w, F
  <2>1. QED
    BY <1>3
<1>5. \A at \in Points : h[at] = F(h)[at]
  BY <1>4
<1>6. \A at \in Points : F(h)[at] = OneEdge(turnouts, h, at)
  <2> HIDE DEF h
  <2>1. QED
    BY DEF OneEdge, Beyond
<1>7. \A at : Normalize(turnouts, at) = h[at]
  BY DEF Normalize
<1> HIDE DEF F, h
<1>8. h[l] = OneEdge(turnouts, h, l)
  BY <1>5, <1>6
<1>9. QED
  BY <1>7, <1>8 DEF OneEdge

-----------------------------------------------------------------------------
(* reservations_for_track: a walk, as a chain of pieces.                   *)

\* Where a location is found to be.
LEMMA NormalizeOK ==
  ASSUME NEW turnouts \in SwitchTables, NEW l \in Points
  PROVE  LET n == Normalize(turnouts, l) IN
         n # NotOnTrack =>
           n \in Points /\ ~IsExit(n.node) /\ n.offset < Dist(Ahead(turnouts, n.node))
<1> DEFINE Found(n) == n # NotOnTrack =>
             n \in Points /\ ~IsExit(n.node) /\ n.offset < Dist(Ahead(turnouts, n.node))
           T == {m \in Nat : \A at \in Points : at.offset = m => Found(Normalize(turnouts, at))}
<1>1. ASSUME NEW m \in Nat, \A j \in 0 .. m - 1 : j \in T PROVE m \in T
  <2> SUFFICES ASSUME NEW at \in Points, at.offset = m PROVE Found(Normalize(turnouts, at))
    OBVIOUS
  <2>1. CASE IsExit(at.node) \/ at.offset < Dist(Ahead(turnouts, at.node))
    BY <2>1, NormalizeRec
  <2>2. CASE ~IsExit(at.node) /\ ~(at.offset < Dist(Ahead(turnouts, at.node)))
    <3> DEFINE b == Beyond(turnouts, at)
    <3>1. b \in Points /\ b.offset \in 0 .. m - 1
      BY <2>2, BeyondOK
    <3>2. Normalize(turnouts, at) = Normalize(turnouts, b)
      BY <2>2, NormalizeRec
    <3> HIDE DEF b
    <3> HIDE DEF Found
    <3>3. Found(Normalize(turnouts, b))
      BY <1>1, <3>1
    <3>4. QED
      BY <3>2, <3>3
  <2>3. QED
    BY <2>1, <2>2
<1>2. T = Nat
  <2>1. T \in SUBSET Nat
    OBVIOUS
  <2> HIDE DEF T
  <2>2. QED
    BY <1>1, <2>1, StrongInduction
<1>3. l.offset \in Nat
  BY DEF Points
<1> HIDE DEF Found
<1>4. Found(Normalize(turnouts, l))
  BY <1>2, <1>3
<1>5. QED
  BY <1>4 DEF Found

\* One piece, of an edge e that is free from start on; total is what comes before it.
LEMMA PieceOK ==
  ASSUME NEW e \in Edges, NEW s \in Nat, s < Dist(e), NEW length \in Nat \ {0},
         NEW total \in Nat, NEW safety \in Nat \ {0},
         NEW p, p = Piece(e, s, length, total, safety)
  PROVE  /\ p \in Pieces /\ p.edge = e /\ p.start = s
         /\ p.total = total + (p.stop - s)
         /\ p.left >= length - (p.stop - s)
         /\ p.left > 0 => p.stop = Dist(e)
         /\ FromBranch(e) => p.left >= safety /\ p.stop = Dist(e)
<1>1. Dist(e) \in Nat \ {0}
  BY EdgesAssumption
<1>2. /\ p.edge = e /\ p.start = s /\ p.stop = StopOffset(e, s, length)
      /\ p.left = LengthLeft(e, s, length, safety) /\ p.total = total + (p.stop - s)
      /\ p = [edge |-> p.edge, start |-> p.start, stop |-> p.stop, left |-> p.left, total |-> p.total]
  BY DEF Piece
<1>3. /\ p.stop \in Nat /\ s <= p.stop /\ p.stop <= Dist(e)
      /\ p.stop = Dist(e) \/ (~FromBranch(e) /\ p.stop = length + s)
      /\ FromBranch(e) => p.stop = Dist(e)
  BY <1>1, <1>2 DEF StopOffset
<1>4. CASE FromBranch(e)
  <2>1. p.left = Longer(length - (p.stop - s), safety)
    BY <1>2, <1>4 DEF LengthLeft
  <2>2. p.left \in Int /\ p.left >= safety /\ p.left >= length - (p.stop - s)
    BY <1>3, <2>1 DEF Longer
  <2>3. p.total \in Nat
    BY <1>2, <1>3
  <2>4. p \in Pieces
    BY <1>2, <1>3, <2>2, <2>3 DEF Pieces
  <2>5. QED
    BY <1>2, <1>3, <1>4, <2>2, <2>4
<1>5. CASE ~FromBranch(e)
  <2>1. p.left = length - (p.stop - s)
    BY <1>2, <1>5 DEF LengthLeft
  <2>2. p.left \in Int /\ (p.left > 0 => p.stop = Dist(e))
    BY <1>3, <2>1
  <2>3. p.total \in Nat
    BY <1>2, <1>3
  <2>4. p \in Pieces
    BY <1>2, <1>3, <2>2, <2>3 DEF Pieces
  <2>5. QED
    BY <1>2, <1>3, <1>5, <2>1, <2>2, <2>4
<1>6. QED
  BY <1>4, <1>5

\* The piece after another, and the first.
Onward(turnouts, p, safety) == Piece(Ahead(turnouts, Dest(p.edge)), 0, p.left, p.total, safety)
\* The piece a walk begins with.
First(turnouts, position, wanted, safety) ==
  Piece(Ahead(turnouts, position.node), position.offset, wanted, 0, safety)

\* The function that Along is defined by exists: its equation holds.
LEMMA AlongRec ==
  ASSUME NEW turnouts, NEW position, NEW wanted, NEW safety, NEW most \in Nat
  PROVE  LET a == Along(turnouts, position, wanted, safety, most) IN
         \A i \in 1 .. most :
           a[i] = IF i = 1 THEN First(turnouts, position, wanted, safety)
                  ELSE Onward(turnouts, a[i - 1], safety)
<1> DEFINE first == First(turnouts, position, wanted, safety)
           Good(g, m) == \A i \in 1 .. m :
             g[i] = IF i = 1 THEN first ELSE Onward(turnouts, g[i - 1], safety)
           T == {m \in Nat : \E g : Good(g, m)}
<1>1. ASSUME NEW m \in Nat, \A j \in 0 .. m - 1 : j \in T PROVE m \in T
  <2>1. CASE m = 0
    BY <2>1
  <2>2. CASE m # 0
    <3>1. m - 1 \in T
      BY <1>1, <2>2
    <3>2. PICK g : Good(g, m - 1)
      BY <3>1
    <3> DEFINE h == [i \in 1 .. m |-> IF i <= m - 1 THEN g[i]
                                      ELSE IF i = 1 THEN first ELSE Onward(turnouts, g[i - 1], safety)]
    <3>3. Good(h, m)
      <4> SUFFICES ASSUME NEW i \in 1 .. m
                   PROVE  h[i] = IF i = 1 THEN first ELSE Onward(turnouts, h[i - 1], safety)
        OBVIOUS
      <4>1. i # 1 => i - 1 \in 1 .. m - 1 /\ i - 1 \in 1 .. m /\ i - 1 <= m - 1
        OBVIOUS
      <4>2. i # 1 => h[i - 1] = g[i - 1]
        BY <4>1
      <4>3. i <= m - 1 => i \in 1 .. m - 1
        OBVIOUS
      <4>4. h[i] = IF i <= m - 1 THEN g[i]
                   ELSE IF i = 1 THEN first ELSE Onward(turnouts, g[i - 1], safety)
        OBVIOUS
      <4> HIDE DEF h, first
      <4>5. QED
        BY <3>2, <4>1, <4>2, <4>3, <4>4
    <3> HIDE DEF h, Good
    <3>4. QED
      BY <3>3
  <2>3. QED
    BY <2>1, <2>2
<1>2. T = Nat
  <2>1. T \in SUBSET Nat
    OBVIOUS
  <2> HIDE DEF T
  <2>2. QED
    BY <1>1, <2>1, StrongInduction
<1>3. PICK g : Good(g, most)
  BY <1>2
<1> DEFINE F(f) == [i \in 1 .. most |->
        IF i = 1
        THEN Piece(Ahead(turnouts, position.node), position.offset, wanted, 0, safety)
        ELSE LET p == f[i - 1]
             IN  Piece(Ahead(turnouts, Dest(p.edge)), 0, p.left, p.total, safety)]
           w == [i \in 1 .. most |-> g[i]]
           h == CHOOSE f : f = F(f)
<1>4. w = F(w)
  <2>1. \A i \in 1 .. most : i # 1 => i - 1 \in 1 .. most /\ w[i - 1] = g[i - 1]
    OBVIOUS
  <2>2. \A i \in 1 .. most : w[i] = IF i = 1 THEN first ELSE Onward(turnouts, w[i - 1], safety)
    <3>1. \A i \in 1 .. most : w[i] = g[i]
      OBVIOUS
    <3> HIDE DEF w, first
    <3>2. QED
      BY <1>3, <2>1, <3>1
  <2>3. DOMAIN w = 1 .. most /\ w = [i \in 1 .. most |-> w[i]]
    OBVIOUS
  <2> HIDE DEF w
  <2>4. QED
    BY <2>2, <2>3 DEF Onward, First
<1>5. h = F(h)
  <2> HIDE DEF w, F
  <2>1. QED
    BY <1>4
<1>6. \A i \in 1 .. most : h[i] = F(h)[i]
  BY <1>5
<1>7. \A i \in 1 .. most : F(h)[i] = IF i = 1 THEN first ELSE Onward(turnouts, h[i - 1], safety)
  <2> HIDE DEF h
  <2>1. QED
    BY DEF Onward, First
<1>8. Along(turnouts, position, wanted, safety, most) = h
  BY DEF Along
<1> HIDE DEF F, h
<1>9. QED
  BY <1>6, <1>7, <1>8

\* An edge from a branch is the one that the turnout leads to.
OnItsWay(turnouts, e) ==
  IsBranch(Src(e)) => (e[2] = DIR_CURVED) = (turnouts[Src(e)] = SWITCH_CURVED)

\* What Walk returns for a location on the track, if the walk ends within the table:
\* pieces, the first at the location and each on the edge ahead of the one before,
\* taken to its end; at least safety is still missing after a piece past a branch.
WalkFacts(turnouts, walk, safety) ==
  /\ walk \in Seq(Pieces) /\ Len(walk) \in Nat \ {0}
  /\ Ends(walk[Len(walk)])
  /\ \A i \in 1 .. Len(walk) :
       /\ OnItsWay(turnouts, walk[i].edge)
       /\ FromBranch(walk[i].edge) => walk[i].left >= safety
  /\ \A i \in 1 .. Len(walk) - 1 :
       /\ walk[i].stop = Dist(walk[i].edge)
       /\ walk[i + 1].start = 0
       /\ Src(walk[i + 1].edge) = Dest(walk[i].edge)
       /\ walk[i + 1].left >= walk[i].left - walk[i + 1].stop

\* A walk that ends within the table is one.
LEMMA WalkOK ==
  ASSUME NEW turnouts \in SwitchTables, NEW position \in Points,
         ~IsExit(position.node), position.offset < Dist(Ahead(turnouts, position.node)),
         NEW wanted \in Nat \ {0}, NEW safety \in Nat \ {0}, NEW most \in Nat,
         \E n \in 1 .. most : Ends(Along(turnouts, position, wanted, safety, most)[n])
  PROVE  /\ WalkFacts(turnouts, Walk(turnouts, position, wanted, safety, most), safety)
         /\ Len(Walk(turnouts, position, wanted, safety, most)) <= most
<1> DEFINE a == Along(turnouts, position, wanted, safety, most)
           Last(n) == Ends(a[n]) /\ \A i \in 1 .. n - 1 : ~Ends(a[i])
           last == CHOOSE n \in 1 .. most : Last(n)
           walk == Walk(turnouts, position, wanted, safety, most)
<1>1. \A i \in 1 .. most : a[i] = IF i = 1 THEN First(turnouts, position, wanted, safety)
                                  ELSE Onward(turnouts, a[i - 1], safety)
  BY AlongRec
<1>2. last \in 1 .. most /\ Last(last)
  <2> HIDE DEF a
  <2> DEFINE S == {n \in 1 .. most : Ends(a[n])}
  <2>1. S # {} /\ S \in SUBSET Nat
    BY DEF a
  <2>2. PICK n \in S : \A j \in S : n <= j
    <3> HIDE DEF S
    <3>1. QED
      BY <2>1, LeastElement
  <2>3. n \in 1 .. most /\ Ends(a[n])
    OBVIOUS
  <2>4. \A i \in 1 .. n - 1 : i \in 1 .. most /\ ~(n <= i)
    BY <2>3
  <2>5. \A i \in 1 .. n - 1 : ~Ends(a[i])
    BY <2>2, <2>4
  <2> HIDE DEF S
  <2>6. \E m \in 1 .. most : Last(m)
    BY <2>3, <2>5
  <2> HIDE DEF Last
  <2>7. QED
    BY <2>6
<1>3. walk = [i \in 1 .. last |-> a[i]]
  <2>1. ~(wanted <= 0)
    OBVIOUS
  <2>2. QED
    BY <2>1 DEF Walk
<1> HIDE DEF a, last, walk
<1> USE DEF Last
<1>4. last \in Nat \ {0} /\ walk \in [1 .. last -> {a[i] : i \in 1 .. last}] /\ Len(walk) = last
      /\ \A i \in 1 .. last : walk[i] = a[i]
  <2>1. last \in Nat \ {0}
    BY <1>2
  <2>2. walk \in Seq({a[i] : i \in 1 .. last})
    BY <1>3, <2>1
  <2>3. DOMAIN walk = 1 .. last
    BY <1>3
  <2>4. QED
    BY <1>3, <2>1, <2>2, <2>3
\* Each piece but the last leads on to an edge that it does not use up.
<1> DEFINE Fine(i) ==
      /\ a[i] \in Pieces /\ OnItsWay(turnouts, a[i].edge)
      /\ a[i].left > 0 => a[i].stop = Dist(a[i].edge)
      /\ FromBranch(a[i].edge) => a[i].left >= safety
      /\ i # 1 => /\ a[i].start = 0 /\ Src(a[i].edge) = Dest(a[i - 1].edge)
                  /\ a[i].left >= a[i - 1].left - a[i].stop
<1>5. \A i \in 1 .. last : Fine(i)
  <2> DEFINE T == {j \in Nat : j + 1 \in 1 .. last => Fine(j + 1)}
  <2>1. ASSUME NEW j \in Nat, \A k \in 0 .. j - 1 : k \in T PROVE j \in T
    <3> SUFFICES ASSUME j + 1 \in 1 .. last PROVE Fine(j + 1)
      OBVIOUS
    <3>1. j + 1 \in 1 .. most
      BY <1>2
    <3>2. CASE j = 0
      <4> DEFINE e == Ahead(turnouts, position.node)
      <4>1. position.node \in Nodes /\ position.offset \in Nat
        BY DEF Points
      <4>2. e \in Edges /\ OnItsWay(turnouts, e)
        BY <4>1, AheadOK DEF OnItsWay
      <4>3. a[1] = Piece(e, position.offset, wanted, 0, safety)
        BY <1>1, <3>1, <3>2 DEF First
      <4> HIDE DEF e
      <4>4. position.offset < Dist(e) /\ 0 \in Nat
        BY DEF e
      <4>5. /\ a[1] \in Pieces /\ a[1].edge = e
            /\ a[1].left > 0 => a[1].stop = Dist(e)
            /\ FromBranch(e) => a[1].left >= safety
        BY <4>1, <4>2, <4>3, <4>4, PieceOK
      <4>6. QED
        BY <3>2, <4>2, <4>5
    <3>3. CASE j # 0
      <4>0. j \in Nat \ {0} /\ j \in 1 .. last /\ j - 1 \in 0 .. j - 1 /\ (j - 1) + 1 = j
            /\ j + 1 # 1 /\ (j + 1) - 1 = j /\ j \in 1 .. last - 1
        BY <1>4, <3>3, SMTT(20)
      <4>1. Fine(j)
        <5>1. j - 1 \in T
          BY <2>1, <4>0
        <5> HIDE DEF Fine
        <5>2. QED
          BY <4>0, <5>1
      <4>2. ~Ends(a[j])
        BY <1>2, <4>0
      <4> DEFINE e == Ahead(turnouts, Dest(a[j].edge))
                 left == a[j].left
                 sum  == a[j].total
      <4>3. a[j].edge \in Edges /\ left \in Nat \ {0} /\ sum \in Nat /\ ~IsExit(Dest(a[j].edge))
        <5>1. a[j].edge \in Edges /\ left \in Int /\ sum \in Nat
          BY <4>1 DEF Pieces
        <5>2. QED
          BY <4>2, <5>1 DEF Ends
      <4>4. Dest(a[j].edge) \in Nodes
        BY <4>3, EdgesAssumption
      <4>5. e \in Edges /\ OnItsWay(turnouts, e) /\ Src(e) = Dest(a[j].edge) /\ Dist(e) \in Nat \ {0}
        BY <4>3, <4>4, AheadOK DEF OnItsWay
      <4>6. a[j + 1] = Piece(e, 0, left, sum, safety)
        BY <1>1, <3>1, <4>0 DEF Onward
      <4> HIDE DEF e, left, sum
      <4>7. 0 \in Nat /\ 0 < Dist(e)
        BY <4>5
      <4>8. /\ a[j + 1] \in Pieces /\ a[j + 1].edge = e /\ a[j + 1].start = 0
            /\ a[j + 1].left >= left - (a[j + 1].stop - 0)
            /\ a[j + 1].left > 0 => a[j + 1].stop = Dist(e)
            /\ FromBranch(e) => a[j + 1].left >= safety
        BY <4>3, <4>5, <4>6, <4>7, PieceOK
      <4>9. left \in Int /\ a[j + 1].stop \in Int
        BY <4>3, <4>8 DEF Pieces
      <4>10. a[j + 1].left >= a[j].left - a[j + 1].stop
        BY <4>8, <4>9 DEF left
      <4>11. QED
        BY <4>0, <4>5, <4>8, <4>10
    <3>4. QED
      BY <3>2, <3>3
  <2>2. T = Nat
    <3>1. T \in SUBSET Nat
      OBVIOUS
    <3> HIDE DEF T
    <3>2. QED
      BY <2>1, <3>1, StrongInduction
  <2> HIDE DEF Fine
  <2>3. \A i \in 1 .. last : i - 1 \in Nat /\ (i - 1) + 1 = i
    BY <1>4
  <2>4. QED
    BY <2>2, <2>3
<1>6. walk \in Seq(Pieces)
  <2>1. \A i \in 1 .. last : a[i] \in Pieces
    BY <1>5
  <2>2. QED
    BY <1>3, <1>4, <2>1
<1>7. Ends(walk[Len(walk)])
  <2>1. last \in 1 .. last
    BY <1>4
  <2>2. QED
    BY <1>2, <1>4, <2>1
<1>8. ASSUME NEW i \in 1 .. Len(walk)
      PROVE  /\ OnItsWay(turnouts, walk[i].edge)
             /\ FromBranch(walk[i].edge) => walk[i].left >= safety
  BY <1>4, <1>5
<1>9. ASSUME NEW i \in 1 .. Len(walk) - 1
      PROVE  /\ walk[i].stop = Dist(walk[i].edge)
             /\ walk[i + 1].start = 0
             /\ Src(walk[i + 1].edge) = Dest(walk[i].edge)
             /\ walk[i + 1].left >= walk[i].left - walk[i + 1].stop
  <2>1. i \in 1 .. last /\ i + 1 \in 1 .. last /\ i + 1 # 1 /\ (i + 1) - 1 = i /\ i \in 1 .. last - 1
    BY <1>4
  <2>2. walk[i] = a[i] /\ walk[i + 1] = a[i + 1]
    BY <1>4, <2>1
  <2>3. Fine(i)
    BY <1>5, <2>1
  <2>4. Fine(i + 1)
    BY <1>5, <2>1
  <2>5. a[i].left > 0
    <3>1. ~Ends(a[i])
      BY <1>2, <2>1
    <3>2. a[i].left \in Int
      BY <2>3 DEF Pieces
    <3>3. QED
      BY <3>1, <3>2 DEF Ends
  <2>6. QED
    BY <2>1, <2>2, <2>3, <2>4, <2>5
<1>10. last <= most
  BY <1>2
<1> HIDE DEF Fine
<1>11. QED
  BY <1>4, <1>6, <1>7, <1>8, <1>9, <1>10 DEF WalkFacts, walk

-----------------------------------------------------------------------------
(* Reservations: forward and reverse, and no collision.                    *)

\* No train is in another's way only because every piece is on the list of its
\* edge and on that of the reverse edge.
IInv == TypeOK /\ ListsMatchTables /\ ForwardAndReverse /\ NoCollision

-----------------------------------------------------------------------------
(* Edges, pieces and segments.                                             *)

\* A segment in use lies on an edge, a free one on none.
LEMMA SegmentFacts ==
  ASSUME NEW s \in Segments
  PROVE  /\ s.edge # NoEdge =>
              /\ s.edge \in Edges /\ s.start \in Nat /\ s.stop \in Nat
              /\ ReverseEdge(s.edge) \in Edges
              /\ ReverseEdge(ReverseEdge(s.edge)) = s.edge
              /\ Dist(s.edge) \in Nat /\ Dist(ReverseEdge(s.edge)) = Dist(s.edge)
         /\ s.edge = NoEdge => s.edge \notin Edges
<1>1. NoEdge \notin Edges
  BY RequestsAssumption
<1>2. ASSUME s.edge # NoEdge
      PROVE  s \in [edge : Edges, start : Nat, stop : Nat]
  BY <1>2 DEF Segments, Free
<1>3. ASSUME s.edge # NoEdge
      PROVE  s.edge \in Edges /\ s.start \in Nat /\ s.stop \in Nat
  BY <1>2, <1>3
<1>4. QED
  BY <1>1, <1>3, EdgesAssumption

\* What a piece of a walk becomes in the table: itself in the odd slots, and
\* in the even slots the same rail measured from its other end
\* (reservation_insert, track_server.c:261-277).
LEMMA NewSegmentFacts ==
  ASSUME NEW walk \in Seq(Pieces), NEW i \in 1 .. (2 * Len(walk))
  PROVE  /\ NewSegment(walk, i) \in [edge : Edges, start : Nat, stop : Nat]
         /\ \E k \in DOMAIN walk :
              \/ /\ i % 2 = 1 /\ i = 2 * k - 1
                 /\ NewSegment(walk, i) =
                      [edge |-> walk[k].edge, start |-> walk[k].start, stop |-> walk[k].stop]
              \/ /\ i % 2 # 1 /\ i = 2 * k
                 /\ NewSegment(walk, i) =
                      [edge  |-> ReverseEdge(walk[k].edge),
                       start |-> Dist(walk[k].edge) - walk[k].stop,
                       stop  |-> Dist(walk[k].edge) - walk[k].start]
<1>1. Len(walk) \in Nat /\ i \in Nat
  OBVIOUS
<1>2. ASSUME NEW k \in DOMAIN walk
      PROVE  /\ walk[k].edge \in Edges /\ walk[k].start \in Nat /\ walk[k].stop \in Nat
             /\ walk[k].start <= walk[k].stop /\ walk[k].stop <= Dist(walk[k].edge)
             /\ ReverseEdge(walk[k].edge) \in Edges /\ Dist(walk[k].edge) \in Nat
  BY EdgesAssumption DEF Pieces
<1>3. CASE i % 2 = 1
  <2> DEFINE k == (i + 1) \div 2
  <2>1. k \in 1 .. Len(walk) /\ i = 2 * k - 1
    BY <1>1, <1>3
  <2>2. k \in DOMAIN walk
    BY <2>1
  <2>3. NewSegment(walk, i) =
          [edge |-> walk[k].edge, start |-> walk[k].start, stop |-> walk[k].stop]
    BY <1>3 DEF NewSegment
  <2>4. NewSegment(walk, i) \in [edge : Edges, start : Nat, stop : Nat]
    BY <1>2, <2>2, <2>3
  <2>5. QED
    BY <1>3, <2>1, <2>2, <2>3, <2>4
<1>4. CASE i % 2 # 1
  <2> DEFINE k == i \div 2
  <2>1. k \in 1 .. Len(walk) /\ i = 2 * k
    BY <1>1, <1>4
  <2>2. k \in DOMAIN walk
    BY <2>1
  <2>3. NewSegment(walk, i) =
          [edge  |-> ReverseEdge(walk[k].edge),
           start |-> Dist(walk[k].edge) - walk[k].stop,
           stop  |-> Dist(walk[k].edge) - walk[k].start]
    BY <1>4 DEF NewSegment
  <2>4. NewSegment(walk, i) \in [edge : Edges, start : Nat, stop : Nat]
    BY <1>2, <2>2, <2>3
  <2>5. QED
    BY <1>4, <2>1, <2>2, <2>3, <2>4
<1>5. QED
  BY <1>3, <1>4

-----------------------------------------------------------------------------
(* clear_train_reservations and reservation_insert.                        *)

\* What the tables and the lists hold after a request was granted: the train's
\* table holds its new pieces and nothing else, and the lists have followed
\* (track_server.c:121-147, 240-297).  That nothing of the old reservation is
\* left rests on ListsMatchTables: the search finds every segment in use.
LEMMA Inserted ==
  ASSUME TypeOK, ListsMatchTables, NEW train \in Trains, NEW walk \in Seq(Pieces),
         2 * Len(walk) <= SEGMENTS_PER_TRAIN, ClearAndInsert(train, walk)
  PROVE  /\ \A t \in Trains \ {train} : train_reservations'[t] = train_reservations[t]
         /\ \A i \in Slots : train_reservations'[train][i] =
              IF i \in 1 .. (2 * Len(walk)) THEN NewSegment(walk, i) ELSE Free
         /\ train_reservations' \in [Trains -> [Slots -> Segments]]
         /\ reservation_node' \in [Edges -> SUBSET (Trains \X Slots)]
         /\ ListsMatchTables'
<1> DEFINE new == 1 .. (2 * Len(walk))
<1> DEFINE T == train_reservations
<1>1. new \subseteq Slots
  BY RequestsAssumption DEF Slots
<1>2. T \in [Trains -> [Slots -> Segments]] /\ reservation_node \in [Edges -> SUBSET (Trains \X Slots)]
  BY DEF TypeOK
<1>3. T' = [T EXCEPT ![train] =
        [i \in Slots |-> IF i \in new THEN NewSegment(walk, i)
                         ELSE IF Linked(train, i) THEN Free ELSE T[train][i]]]
  BY DEF ClearAndInsert
<1>4. \A t \in Trains \ {train} : T'[t] = T[t]
  BY <1>2, <1>3
<1>5. \A i \in Slots : T'[train][i] =
        IF i \in new THEN NewSegment(walk, i) ELSE IF Linked(train, i) THEN Free ELSE T[train][i]
  BY <1>2, <1>3
<1>6. \A i \in Slots : ~Linked(train, i) => T[train][i].edge = NoEdge
  <2> SUFFICES ASSUME NEW i \in Slots, ~Linked(train, i), T[train][i].edge # NoEdge
               PROVE  FALSE
    OBVIOUS
  <2>1. T[train][i].edge \in Edges
    BY <1>2, SegmentFacts
  <2>2. <<train, i>> \in reservation_node[T[train][i].edge]
    BY <2>1 DEF ListsMatchTables
  <2>3. QED
    BY <2>2 DEF Linked
<1>7. \A s \in Segments : s.edge = NoEdge => s = Free
  <2> SUFFICES ASSUME NEW s \in Segments, s.edge = NoEdge, s # Free PROVE FALSE
    OBVIOUS
  <2>1. s \in [edge : Edges, start : Nat, stop : Nat]
    BY DEF Segments
  <2>2. s.edge \in Edges
    BY <2>1
  <2>3. QED
    BY <2>2, RequestsAssumption
<1>8. \A i \in Slots : T'[train][i] = IF i \in new THEN NewSegment(walk, i) ELSE Free
  <2> SUFFICES ASSUME NEW i \in Slots
               PROVE  T'[train][i] = IF i \in new THEN NewSegment(walk, i) ELSE Free
    OBVIOUS
  <2>1. T[train][i] \in Segments
    BY <1>2
  <2>2. ~Linked(train, i) => T[train][i] = Free
    BY <1>6, <1>7, <2>1
  <2>3. QED
    BY <1>5, <2>2
<1>9. \A i \in new : NewSegment(walk, i) \in [edge : Edges, start : Nat, stop : Nat]
  BY NewSegmentFacts
<1>10. T' \in [Trains -> [Slots -> Segments]]
  <2>1. [i \in Slots |-> IF i \in new THEN NewSegment(walk, i)
                         ELSE IF Linked(train, i) THEN Free ELSE T[train][i]]
          \in [Slots -> Segments]
    BY <1>2, <1>9 DEF Segments
  <2>2. QED
    BY <1>2, <1>3, <2>1
<1>11. reservation_node' = [e \in Edges |->
         {x \in reservation_node[e] :
            ~(x[1] = train /\ Linked(train, x[2]) /\ T[train][x[2]].edge = e)}
         \cup {<<train, i>> : i \in {j \in new : NewSegment(walk, j).edge = e}}]
  BY DEF ClearAndInsert
<1>12. reservation_node' \in [Edges -> SUBSET (Trains \X Slots)]
  <2>1. ASSUME NEW e \in Edges
        PROVE  {<<train, i>> : i \in {j \in new : NewSegment(walk, j).edge = e}}
                 \subseteq Trains \X Slots
    BY <1>1
  <2>2. ASSUME NEW e \in Edges PROVE reservation_node[e] \subseteq Trains \X Slots
    BY <1>2
  <2>3. QED
    BY <1>11, <2>1, <2>2
<1>13. ListsMatchTables'
  <2> SUFFICES ASSUME NEW e \in Edges, NEW t \in Trains, NEW i \in Slots
               PROVE  <<t, i>> \in reservation_node'[e] <=> T'[t][i].edge = e
    BY DEF ListsMatchTables
  <2>1. <<t, i>> \in reservation_node'[e] <=>
          \/ /\ <<t, i>> \in reservation_node[e]
             /\ ~(t = train /\ Linked(train, i) /\ T[train][i].edge = e)
          \/ t = train /\ i \in new /\ NewSegment(walk, i).edge = e
    BY <1>11
  <2>2. <<t, i>> \in reservation_node[e] <=> T[t][i].edge = e
    BY DEF ListsMatchTables
  <2>3. NoEdge # e
    BY RequestsAssumption
  <2>4. CASE t # train
    BY <1>4, <2>1, <2>2, <2>4
  <2>5. CASE t = train
    <3>1. T[train][i].edge = e => Linked(train, i)
      BY <2>2, <2>3, <2>5 DEF Linked
    <3>2. <<t, i>> \in reservation_node'[e] <=> i \in new /\ NewSegment(walk, i).edge = e
      BY <2>1, <2>2, <2>5, <3>1
    <3>3. i \notin new => T'[train][i].edge # e
      BY <1>8, <2>3 DEF Free
    <3>4. i \in new => T'[train][i] = NewSegment(walk, i)
      BY <1>8
    <3>5. QED
      BY <2>5, <3>2, <3>3, <3>4
  <2>6. QED
    BY <2>4, <2>5
<1>14. QED
  BY <1>4, <1>8, <1>10, <1>12, <1>13

\* The new pieces come in pairs, and the other trains' tables are as they were.
LEMMA InsertedPairs ==
  ASSUME IInv, NEW train \in Trains, NEW walk \in Seq(Pieces),
         2 * Len(walk) <= SEGMENTS_PER_TRAIN, ClearAndInsert(train, walk)
  PROVE  ForwardAndReverse'
<1> DEFINE new == 1 .. (2 * Len(walk))
<1> DEFINE T == train_reservations
<1>1. /\ \A t \in Trains \ {train} : T'[t] = T[t]
      /\ \A i \in Slots : T'[train][i] = IF i \in new THEN NewSegment(walk, i) ELSE Free
  BY Inserted DEF IInv
<1>2. new \subseteq Slots
  BY RequestsAssumption DEF Slots
<1> DEFINE Pair(s, r) == /\ r.edge  = ReverseEdge(s.edge)
                         /\ r.start = Dist(s.edge) - s.stop
                         /\ r.stop  = Dist(s.edge) - s.start
<1> SUFFICES ASSUME NEW t \in Trains, NEW i \in Slots, T'[t][i].edge # NoEdge
             PROVE  \E j \in Slots : Pair(T'[t][i], T'[t][j])
  BY DEF ForwardAndReverse, Held
<1>3. CASE t # train
  <2>1. T'[t] = T[t]
    BY <1>1, <1>3
  <2>2. \E j \in Slots : Pair(T[t][i], T[t][j])
    BY <2>1 DEF IInv, ForwardAndReverse, Held
  <2>3. QED
    BY <2>1, <2>2
<1>4. CASE t = train
  <2>1. i \in new /\ T'[t][i] = NewSegment(walk, i)
    BY <1>1, <1>4 DEF Free
  <2>2. PICK k \in DOMAIN walk :
          \/ /\ i % 2 = 1 /\ i = 2 * k - 1
             /\ NewSegment(walk, i) =
                  [edge |-> walk[k].edge, start |-> walk[k].start, stop |-> walk[k].stop]
          \/ /\ i % 2 # 1 /\ i = 2 * k
             /\ NewSegment(walk, i) =
                  [edge  |-> ReverseEdge(walk[k].edge),
                   start |-> Dist(walk[k].edge) - walk[k].stop,
                   stop  |-> Dist(walk[k].edge) - walk[k].start]
    BY <2>1, NewSegmentFacts
  <2>3. k \in 1 .. Len(walk) /\ Len(walk) \in Nat
    OBVIOUS
  <2>4. /\ walk[k].edge \in Edges /\ walk[k].start \in Nat /\ walk[k].stop \in Nat
    BY DEF Pieces
  <2>5. /\ Dist(walk[k].edge) \in Nat
        /\ Dist(ReverseEdge(walk[k].edge)) = Dist(walk[k].edge)
        /\ ReverseEdge(ReverseEdge(walk[k].edge)) = walk[k].edge
    BY <2>4, EdgesAssumption
  <2>6. CASE i % 2 = 1
    <3> DEFINE n == i + 1
    <3>0. i = 2 * k - 1
      BY <2>2, <2>6, Zenon
    <3>1. n \in new /\ n % 2 # 1 /\ n \div 2 = k
      BY <2>3, <3>0
    <3>2. T'[t][n] = [edge  |-> ReverseEdge(walk[k].edge),
                          start |-> Dist(walk[k].edge) - walk[k].stop,
                          stop  |-> Dist(walk[k].edge) - walk[k].start]
      BY <1>1, <1>2, <1>4, <3>1 DEF NewSegment
    <3>3. T'[t][i] = [edge |-> walk[k].edge, start |-> walk[k].start, stop |-> walk[k].stop]
      BY <2>1, <2>2, <2>6
    <3>4. QED
      BY <1>2, <3>1, <3>2, <3>3
  <2>7. CASE i % 2 # 1
    <3>1. i - 1 \in new /\ (i - 1) % 2 = 1 /\ ((i - 1) + 1) \div 2 = k
      BY <2>2, <2>3, <2>7
    <3>2. T'[t][i - 1] =
            [edge |-> walk[k].edge, start |-> walk[k].start, stop |-> walk[k].stop]
      BY <1>1, <1>2, <1>4, <3>1 DEF NewSegment
    <3>3. T'[t][i] = [edge  |-> ReverseEdge(walk[k].edge),
                      start |-> Dist(walk[k].edge) - walk[k].stop,
                      stop  |-> Dist(walk[k].edge) - walk[k].start]
      BY <2>1, <2>2, <2>7
    <3>4. Pair(T'[t][i], T'[t][i - 1])
      BY <2>4, <2>5, <3>2, <3>3
    <3>5. QED
      BY <1>2, <3>1, <3>4
  <2>8. QED
    BY <2>6, <2>7
<1>5. QED
  BY <1>3, <1>4

-----------------------------------------------------------------------------
(* Two trains never hold a common point of a rail.                         *)

\* Two parts of one edge with no point in common.
Apart(s, r) == s.stop < r.start \/ r.stop < s.start

\* A piece that no other train's segment crosses is apart from each of them, on
\* its edge and, measured from the other end, on the reverse edge: what holds
\* the reverse edge holds the edge too (track_server.c:149-165).
LEMMA VerifiedApart ==
  ASSUME IInv, NEW train \in Trains, NEW walk \in Seq(Pieces),
         \A k \in DOMAIN walk : Available(train, walk[k]),
         NEW i \in 1 .. (2 * Len(walk)), NEW u \in Trains \ {train}, NEW j \in Slots,
         train_reservations[u][j].edge = NewSegment(walk, i).edge
  PROVE  Apart(NewSegment(walk, i), train_reservations[u][j])
<1> DEFINE T == train_reservations
<1> DEFINE r == T[u][j]
<1>1. PICK k \in DOMAIN walk :
        \/ NewSegment(walk, i) =
             [edge |-> walk[k].edge, start |-> walk[k].start, stop |-> walk[k].stop]
        \/ NewSegment(walk, i) =
             [edge  |-> ReverseEdge(walk[k].edge),
              start |-> Dist(walk[k].edge) - walk[k].stop,
              stop  |-> Dist(walk[k].edge) - walk[k].start]
  BY NewSegmentFacts
<1> DEFINE p == walk[k]
<1>2. p.edge \in Edges /\ p.start \in Nat /\ p.stop \in Nat
  BY DEF Pieces
<1>3. /\ Dist(p.edge) \in Nat /\ ReverseEdge(p.edge) \in Edges
      /\ Dist(ReverseEdge(p.edge)) = Dist(p.edge) /\ ReverseEdge(ReverseEdge(p.edge)) = p.edge
  BY <1>2, EdgesAssumption
<1>4. \A n \in Slots : T[u][n] \in Segments
  BY DEF IInv, TypeOK
<1>5. NoEdge \notin Edges
  BY RequestsAssumption
<1>6. \A n \in Slots : T[u][n].edge = p.edge => Apart(p, T[u][n])
  <2> SUFFICES ASSUME NEW n \in Slots, T[u][n].edge = p.edge PROVE Apart(p, T[u][n])
    OBVIOUS
  <2>1. <<u, n>> \in reservation_node[p.edge]
    BY <1>2 DEF IInv, ListsMatchTables
  <2>2. ~Crosses(p.start, p.stop, T[u][n])
    BY <2>1 DEF Available
  <2>3. T[u][n].start \in Nat /\ T[u][n].stop \in Nat
    BY <1>2, <1>4, <1>5, SegmentFacts
  <2>4. QED
    BY <1>2, <2>2, <2>3 DEF Crosses, Apart
<1>7. CASE NewSegment(walk, i) = [edge |-> p.edge, start |-> p.start, stop |-> p.stop]
  BY <1>6, <1>7 DEF Apart
<1>8. CASE NewSegment(walk, i) = [edge  |-> ReverseEdge(p.edge),
                                  start |-> Dist(p.edge) - p.stop,
                                  stop  |-> Dist(p.edge) - p.start]
  <2>1. r.edge = ReverseEdge(p.edge)
    BY <1>8
  <2>2. r.edge # NoEdge /\ r.start \in Nat /\ r.stop \in Nat
    BY <1>3, <1>4, <1>5, <2>1, SegmentFacts
  <2>3. PICK n \in Slots : /\ T[u][n].edge  = ReverseEdge(r.edge)
                           /\ T[u][n].start = Dist(r.edge) - r.stop
                           /\ T[u][n].stop  = Dist(r.edge) - r.start
    BY <2>2 DEF IInv, ForwardAndReverse, Held
  <2>4. Apart(p, T[u][n])
    BY <1>3, <1>6, <2>1, <2>3
  <2>5. p.stop < Dist(p.edge) - r.stop \/ Dist(p.edge) - r.start < p.start
    BY <1>3, <2>1, <2>3, <2>4 DEF Apart
  <2>6. Dist(p.edge) - p.start < r.start \/ r.stop < Dist(p.edge) - p.stop
    BY <1>2, <1>3, <2>2, <2>5
  <2>7. QED
    BY <1>8, <2>6 DEF Apart
<1>9. QED
  BY <1>1, <1>7, <1>8

\* A reservation that was verified is granted without a collision.
LEMMA InsertedApart ==
  ASSUME IInv, NEW train \in Trains, NEW walk \in Seq(Pieces),
         \A k \in DOMAIN walk : Available(train, walk[k]),
         2 * Len(walk) <= SEGMENTS_PER_TRAIN, ClearAndInsert(train, walk)
  PROVE  NoCollision'
<1> DEFINE new == 1 .. (2 * Len(walk))
<1> DEFINE T == train_reservations
<1>1. /\ \A t \in Trains \ {train} : T'[t] = T[t]
      /\ \A i \in Slots : T'[train][i] = IF i \in new THEN NewSegment(walk, i) ELSE Free
  BY Inserted DEF IInv
<1>2. ASSUME NEW u \in Trains \ {train}, NEW i \in Slots, NEW j \in Slots,
             T'[train][i].edge # NoEdge, T'[train][i].edge = T'[u][j].edge
      PROVE  Apart(T'[train][i], T'[u][j])
  <2>1. i \in new /\ T'[train][i] = NewSegment(walk, i)
    BY <1>1, <1>2 DEF Free
  <2>2. T'[u] = T[u]
    BY <1>1
  <2>3. T[u][j].edge = NewSegment(walk, i).edge
    BY <1>2, <2>1, <2>2
  <2>4. Apart(NewSegment(walk, i), T[u][j])
    BY <2>1, <2>3, VerifiedApart
  <2>5. QED
    BY <2>1, <2>2, <2>4
<1> SUFFICES ASSUME NEW t \in Trains, NEW u \in Trains, NEW i \in Slots, NEW j \in Slots,
                    t # u, T'[t][i].edge # NoEdge, T'[u][j].edge # NoEdge,
                    T'[t][i].edge = T'[u][j].edge
             PROVE  Apart(T'[t][i], T'[u][j])
  BY DEF NoCollision, Held, Apart
<1>3. CASE t = train
  BY <1>2, <1>3
<1>4. CASE u = train
  <2>1. Apart(T'[u][j], T'[t][i])
    BY <1>2, <1>4
  <2>2. QED
    BY <2>1 DEF Apart
<1>5. CASE t # train /\ u # train
  <2>1. T'[t] = T[t] /\ T'[u] = T[u]
    BY <1>1, <1>5
  <2>2. QED
    BY <2>1 DEF IInv, NoCollision, Held, Apart
<1>6. QED
  BY <1>3, <1>4, <1>5

-----------------------------------------------------------------------------
(* The steps of the server.                                                *)

\* The server starts with no train on the track.
LEMMA InitIInv ==
  Init => IInv
<1> SUFFICES ASSUME Init PROVE IInv
  OBVIOUS
<1>1. NoEdge \notin Edges
  BY RequestsAssumption
<1>2. \A t \in Trains, i \in Slots : train_reservations[t][i] = Free
  BY DEF Init
<1>3. \A t \in Trains, i \in Slots : train_reservations[t][i].edge = NoEdge
  BY <1>2 DEF Free
<1>4. TypeOK
  <2>1. train_reservations \in [Trains -> [Slots -> Segments]]
    BY DEF Init, Segments
  <2>2. QED
    BY <2>1 DEF Init, TypeOK
<1>5. ListsMatchTables
  BY <1>1, <1>3 DEF Init, ListsMatchTables
<1>6. ForwardAndReverse /\ NoCollision
  BY <1>3 DEF ForwardAndReverse, NoCollision, Held
<1>7. QED
  BY <1>4, <1>5, <1>6 DEF IInv

\* A step that leaves the tables and the lists alone.
LEMMA Untouched ==
  ASSUME IInv, TypeOK', UNCHANGED <<train_reservations, reservation_node>>
  PROVE  IInv'
BY DEF IInv, ListsMatchTables, ForwardAndReverse, NoCollision, Held

\* A request is refused (track_server.c:174-237).
LEMMA RefuseStep ==
  ASSUME IInv, NEW train \in Trains, NEW code \in {-1, -2}, Refuse(train, code)
  PROVE  IInv'
<1>1. TypeOK'
  <2>1. status' \in [Trains -> {0, -1, -2}]
    BY DEF Refuse, IInv, TypeOK
  <2>2. QED
    BY <2>1 DEF Refuse, IInv, TypeOK
<1>2. QED
  BY <1>1, Untouched DEF Refuse

\* A walk that was verified is entered (track_server.c:240-297).
LEMMA GrantStep ==
  ASSUME IInv, NEW train \in Trains, NEW walk \in Seq(Pieces),
         2 * Len(walk) <= SEGMENTS_PER_TRAIN, Verify(train, walk) = 0, Grant(train, walk)
  PROVE  IInv'
<1>1. ClearAndInsert(train, walk)
  BY DEF Grant
<1>2. \A k \in DOMAIN walk : Available(train, walk[k])
  BY DEF Verify
<1>3. /\ train_reservations' \in [Trains -> [Slots -> Segments]]
      /\ reservation_node' \in [Edges -> SUBSET (Trains \X Slots)]
      /\ ListsMatchTables'
  BY <1>1, Inserted DEF IInv
<1>4. status' \in [Trains -> {0, -1, -2}] /\ thrown' \in [Trains -> SUBSET Branches]
  BY DEF Grant, IInv, TypeOK
<1>5. TypeOK'
  BY <1>3, <1>4 DEF Grant, IInv, TypeOK
<1>6. ForwardAndReverse' /\ NoCollision'
  BY <1>1, <1>2, InsertedPairs, InsertedApart
<1>7. QED
  BY <1>3, <1>5, <1>6 DEF IInv

\* What Walk returns for a request: pieces that fit the train's table.
LEMMA RequestWalk ==
  ASSUME NEW turnouts \in SwitchTables, NEW train \in Trains, NEW location \in Locations,
         NEW length \in Lengths, NEW position, position = Normalize(turnouts, location),
         position # NotOnTrack,
         NEW walk, walk = Walk(turnouts, position, length, BranchSafety(train), MostPieces)
  PROVE  /\ WalkFacts(turnouts, walk, BranchSafety(train))
         /\ Len(walk) <= MostPieces /\ 2 * Len(walk) <= SEGMENTS_PER_TRAIN
<1>1. /\ BranchSafety(train) \in Nat \ {0} /\ length \in Nat \ {0}
      /\ SEGMENTS_PER_TRAIN \in Nat /\ MostPieces \in Nat /\ 2 * MostPieces <= SEGMENTS_PER_TRAIN
  BY RequestsAssumption DEF MostPieces
<1>2. location \in Points
  BY RequestsAssumption DEF Locations, Points, Sensors
<1>3. /\ position \in Points /\ ~IsExit(position.node)
      /\ position.offset < Dist(Ahead(turnouts, position.node))
  BY <1>2, NormalizeOK
<1>4. \E n \in 1 .. MostPieces :
        Ends(Along(turnouts, position, length, BranchSafety(train), MostPieces)[n])
  BY WalksAssumption
<1>5. WalkFacts(turnouts, walk, BranchSafety(train)) /\ Len(walk) <= MostPieces
  BY <1>1, <1>3, <1>4, WalkOK
<1>6. Len(walk) \in Nat
  BY <1>5 DEF WalkFacts
<1>7. QED
  BY <1>1, <1>5, <1>6

\* TRACK_OP_RESERVATION, whatever comes of it: a refusal, or the grant of a walk
\* that was verified.
LEMMA RequestCases ==
  ASSUME TypeOK, NEW train \in Trains, NEW location \in Locations, NEW length \in Lengths,
         Request(train, location, length)
  PROVE  \/ \E code \in {-1, -2} : Refuse(train, code)
         \/ \E walk : /\ WalkFacts(switch_table, walk, BranchSafety(train))
                      /\ Len(walk) <= MostPieces /\ 2 * Len(walk) <= SEGMENTS_PER_TRAIN
                      /\ Verify(train, walk) = 0 /\ Grant(train, walk)
<1>1. PICK position : position = Normalize(switch_table, location)
  OBVIOUS
<1>2. PICK walk : walk = Walk(switch_table, position, length, BranchSafety(train), MostPieces)
  OBVIOUS
<1>3. \/ position = NotOnTrack /\ Refuse(train, -1)
      \/ position # NotOnTrack /\ Verify(train, walk) # 0 /\ Refuse(train, Verify(train, walk))
      \/ position # NotOnTrack /\ Verify(train, walk) = 0 /\ Grant(train, walk)
  BY <1>1, <1>2 DEF Request
<1>4. Verify(train, walk) \in {0, -1, -2}
  BY DEF Verify
<1>5. position # NotOnTrack =>
        /\ WalkFacts(switch_table, walk, BranchSafety(train))
        /\ Len(walk) <= MostPieces /\ 2 * Len(walk) <= SEGMENTS_PER_TRAIN
  BY <1>1, <1>2, RequestWalk DEF TypeOK
<1>6. QED
  BY <1>3, <1>4, <1>5

\* So the lists, the tables and the pairs survive a request, and no trains collide.
LEMMA RequestStep ==
  ASSUME IInv, NEW train \in Trains, NEW location \in Locations, NEW length \in Lengths,
         Request(train, location, length)
  PROVE  IInv'
<1>1. ASSUME NEW walk, WalkFacts(switch_table, walk, BranchSafety(train)),
             2 * Len(walk) <= SEGMENTS_PER_TRAIN, Verify(train, walk) = 0, Grant(train, walk)
      PROVE  IInv'
  <2>1. walk \in Seq(Pieces)
    BY <1>1 DEF WalkFacts
  <2>2. QED
    BY <1>1, <2>1, GrantStep
<1>2. QED
  BY <1>1, RequestCases, RefuseStep DEF IInv

\* A turn-out is thrown, by a train or by somebody else: no reservation moves.
LEMMA ThrowStep ==
  ASSUME IInv, NEW n \in Branches, NEW direction \in {SWITCH_STRAIGHT, SWITCH_CURVED},
         Throw(n, direction)
  PROVE  IInv'
<1>1. switch_table' \in SwitchTables
  BY DEF Throw, IInv, TypeOK, SwitchTables
<1>2. thrown' \in [Trains -> SUBSET Branches]
  BY DEF Throw, IInv, TypeOK
<1>3. TypeOK'
  BY <1>1, <1>2 DEF Throw, IInv, TypeOK
<1>4. QED
  BY <1>3, Untouched DEF Throw

\* Every step of the server keeps the invariant.
LEMMA Step ==
  IInv /\ [Next]_vars => IInv'
<1> SUFFICES ASSUME IInv, [Next]_vars PROVE IInv'
  OBVIOUS
<1>1. CASE \E train \in Trains, location \in Locations, length \in Lengths :
             Request(train, location, length)
  BY <1>1, RequestStep
<1>2. CASE \E train \in Trains, n \in Branches, next_node \in Nodes :
             SwitchDirection(train, n, next_node)
  <2>1. PICK train \in Trains, n \in Branches, next_node \in Nodes :
          SwitchDirection(train, n, next_node)
    BY <1>2
  <2>2. PICK direction \in {SWITCH_STRAIGHT, SWITCH_CURVED} : Throw(n, direction)
    BY <2>1 DEF SwitchDirection
  <2>3. QED
    BY <2>2, ThrowStep
<1>3. CASE \E n \in Branches, direction \in {SWITCH_STRAIGHT, SWITCH_CURVED} :
             SwitchReport(n, direction)
  BY <1>3, ThrowStep DEF SwitchReport
<1>4. CASE UNCHANGED vars
  <2>1. TypeOK'
    BY <1>4 DEF vars, IInv, TypeOK
  <2>2. QED
    BY <1>4, <2>1, Untouched DEF vars
<1>5. QED
  BY <1>1, <1>2, <1>3, <1>4 DEF Next

-----------------------------------------------------------------------------
(* The theorems.                                                           *)

\* The invariant holds of every reachable state, for every layout.
THEOREM Invariance ==
  Spec => []IInv
BY InitIInv, Step, PTL DEF Spec

\* The variables have their types: Verify answers 0, -1 or -2 and never the -3
\* that reservation_verify has for an exit.
THEOREM Typing ==
  Spec => []TypeOK
<1>1. IInv => TypeOK
  BY DEF IInv
<1>2. QED
  BY <1>1, Invariance, PTL

\* The lists of the edges hold what the tables of the trains hold: no segment
\* is left behind on a list, whatever was granted, refused and thrown before.
THEOREM Lists ==
  Spec => []ListsMatchTables
<1>1. IInv => ListsMatchTables
  BY DEF IInv
<1>2. QED
  BY <1>1, Invariance, PTL

\* What a train holds in one direction it holds in the other.
THEOREM Pairs ==
  Spec => []ForwardAndReverse
<1>1. IInv => ForwardAndReverse
  BY DEF IInv
<1>2. QED
  BY <1>1, Invariance, PTL

\* No two trains ever hold a common point of a rail, whichever way they go.
THEOREM Separation ==
  Spec => []NoCollision
<1>1. IInv => NoCollision
  BY DEF IInv
<1>2. QED
  BY <1>1, Invariance, PTL

-----------------------------------------------------------------------------
(* What a train holds: a reservation it was granted as a whole, along the  *)
(* turnouts as they lay, that no later step takes apart.                   *)

\* What the properties say of a train, of its table of segments.
ForwardOf(segments, i) == segments[2 * i - 1]
\* How many pieces the table holds.
CountOf(segments) ==
  LET held == {i \in 1 .. MostPieces : segments[2 * i - 1].edge # NoEdge}
  IN  IF held = {} THEN 0 ELSE CHOOSE n \in held : \A i \in held : i <= n
\* The way from piece i to the end of each later piece, as the server adds it up.
UpTo(segments, i) ==
  LET upto[n \in 0 .. MostPieces] ==
        IF n <= i THEN 0 ELSE upto[n - 1] + segments[2 * n - 1].stop
  IN  upto

\* The pieces lie end to end, the train keeps clear of the turnouts it stands before.
Clear(segments, safety) ==
  /\ \A i \in 1 .. CountOf(segments) - 1 :
       /\ ForwardOf(segments, i).stop = Dist(ForwardOf(segments, i).edge)
       /\ ForwardOf(segments, i + 1).start = 0
       /\ Src(ForwardOf(segments, i + 1).edge) = Dest(ForwardOf(segments, i).edge)
  /\ CountOf(segments) > 0 => ~FromBranch(ForwardOf(segments, CountOf(segments)).edge)
  /\ \A i \in 1 .. CountOf(segments) : FromBranch(ForwardOf(segments, i).edge) =>
       UpTo(segments, i)[CountOf(segments)] >= safety

\* They follow the turnouts, but for those that have been thrown since.
Follows(segments, turnouts, excused) ==
  \A i \in 1 .. CountOf(segments) :
    LET n == Src(ForwardOf(segments, i).edge) IN
    IsBranch(n) /\ n \notin excused =>
      (ForwardOf(segments, i).edge[2] = DIR_CURVED) = (turnouts[n] = SWITCH_CURVED)

\* A table has no hole in it.
NoHole(segments) ==
  /\ CountOf(segments) \in 0 .. MostPieces
  /\ \A i \in 1 .. MostPieces : segments[2 * i - 1].edge # NoEdge <=> i <= CountOf(segments)

\* What holds of a train ...
ReservationOK(t) ==
  /\ NoHole(train_reservations[t])
  /\ Clear(train_reservations[t], BranchSafety(t))
  /\ Follows(train_reservations[t], switch_table, thrown[t])

\* ... holds of all.
ReservationsOK == \A t \in Trains : ReservationOK(t)

\* That is what the properties say.
LEMMA ReservationsSay ==
  ReservationsOK => ClearOfSwitches /\ ReservationsFollowTurnouts
<1> SUFFICES ASSUME ReservationsOK PROVE ClearOfSwitches /\ ReservationsFollowTurnouts
  OBVIOUS
<1>1. ASSUME NEW t \in Trains PROVE Count(t) = CountOf(train_reservations[t])
  BY DEF Count, CountOf, Held
<1>2. ASSUME NEW t, NEW i PROVE Forward(t, i) = ForwardOf(train_reservations[t], i)
  BY DEF Forward, ForwardOf
<1>3. ASSUME NEW t \in Trains, NEW i
      PROVE  After(t, i) = UpTo(train_reservations[t], i)[CountOf(train_reservations[t])]
  BY <1>1 DEF After, UpTo, Forward
<1>4. ClearOfSwitches
  BY <1>1, <1>2, <1>3 DEF ReservationsOK, ReservationOK, Clear, ClearOfSwitches
<1>5. ReservationsFollowTurnouts
  BY <1>1, <1>2 DEF ReservationsOK, ReservationOK, Follows, ReservationsFollowTurnouts
<1>6. QED
  BY <1>4, <1>5

\* A table whose first n pieces are in use and no other has n pieces.
LEMMA CountIs ==
  ASSUME NEW segments, NEW n \in 0 .. MostPieces, MostPieces \in Nat,
         \A i \in 1 .. MostPieces : segments[2 * i - 1].edge # NoEdge <=> i <= n
  PROVE  CountOf(segments) = n
<1> DEFINE held == {i \in 1 .. MostPieces : segments[2 * i - 1].edge # NoEdge}
<1>1. held = 1 .. n
  OBVIOUS
<1>2. CASE n = 0
  BY <1>1, <1>2 DEF CountOf
<1>3. CASE n # 0
  <2>1. n \in held /\ \A i \in held : i <= n
    BY <1>1, <1>3
  <2>2. \A m \in held : (\A i \in held : i <= m) => m = n
    BY <1>1, <2>1
  <2>3. CountOf(segments) = CHOOSE m \in held : \A i \in held : i <= m
    BY <2>1 DEF CountOf
  <2> HIDE DEF held
  <2>4. (CHOOSE m \in held : \A i \in held : i <= m) = n
    BY <2>1, <2>2
  <2>5. QED
    BY <2>3, <2>4
<1>4. QED
  BY <1>2, <1>3

\* The function that After is defined by exists.
LEMMA UpToRec ==
  ASSUME NEW segments, NEW i \in Nat, MostPieces \in Nat,
         \A n \in 1 .. MostPieces : segments[2 * n - 1].stop \in Nat
  PROVE  \A n \in 0 .. MostPieces :
           /\ UpTo(segments, i)[n] \in Nat
           /\ UpTo(segments, i)[n] =
                IF n <= i THEN 0 ELSE UpTo(segments, i)[n - 1] + segments[2 * n - 1].stop
<1> DEFINE Good(g, m) == \A n \in 0 .. m :
             /\ g[n] \in Nat
             /\ g[n] = IF n <= i THEN 0 ELSE g[n - 1] + segments[2 * n - 1].stop
           T == {m \in Nat : m <= MostPieces => \E g : Good(g, m)}
<1>1. ASSUME NEW m \in Nat, \A j \in 0 .. m - 1 : j \in T PROVE m \in T
  <2> SUFFICES ASSUME m <= MostPieces PROVE \E g : Good(g, m)
    OBVIOUS
  <2>1. CASE m = 0
    <3> DEFINE h == [n \in 0 .. 0 |-> 0]
    <3>1. Good(h, 0)
      OBVIOUS
    <3> HIDE DEF Good, h
    <3>2. QED
      BY <2>1, <3>1
  <2>2. CASE m # 0
    <3>1. m - 1 \in 0 .. m - 1 /\ m - 1 <= MostPieces
      BY <2>2
    <3>2. PICK g : Good(g, m - 1)
      <4> HIDE DEF Good
      <4>1. m - 1 \in T
        <5> HIDE DEF T
        <5>1. QED
          BY <1>1, <3>1
      <4>2. QED
        BY <3>1, <4>1
    <3> DEFINE h == [n \in 0 .. m |-> IF n <= m - 1 THEN g[n]
                                      ELSE IF n <= i THEN 0 ELSE g[n - 1] + segments[2 * n - 1].stop]
    <3>3. Good(h, m)
      <4> SUFFICES ASSUME NEW n \in 0 .. m
                   PROVE  /\ h[n] \in Nat
                          /\ h[n] = IF n <= i THEN 0 ELSE h[n - 1] + segments[2 * n - 1].stop
        OBVIOUS
      <4>1. n # 0 => n - 1 \in 0 .. m - 1 /\ n - 1 \in 0 .. m /\ n - 1 <= m - 1
        OBVIOUS
      <4>2. n # 0 => h[n - 1] = g[n - 1] /\ g[n - 1] \in Nat /\ segments[2 * n - 1].stop \in Nat
        BY <3>2, <4>1
      <4>3. n <= m - 1 => n \in 0 .. m - 1
        OBVIOUS
      <4>4. h[n] = IF n <= m - 1 THEN g[n]
                   ELSE IF n <= i THEN 0 ELSE g[n - 1] + segments[2 * n - 1].stop
        OBVIOUS
      <4>5. n = 0 => n <= i
        OBVIOUS
      <4> HIDE DEF h
      <4>6. QED
        BY <3>2, <4>2, <4>3, <4>4, <4>5
    <3> HIDE DEF h, Good
    <3>4. QED
      BY <3>3
  <2>3. QED
    BY <2>1, <2>2
<1>2. T = Nat
  <2>1. T \in SUBSET Nat
    OBVIOUS
  <2> HIDE DEF T
  <2>2. QED
    BY <1>1, <2>1, StrongInduction
<1>3. PICK g : Good(g, MostPieces)
  <2> HIDE DEF Good
  <2>1. MostPieces \in T
    BY <1>2
  <2>2. MostPieces <= MostPieces
    OBVIOUS
  <2>3. QED
    BY <2>1, <2>2
<1> DEFINE F(f) == [n \in 0 .. MostPieces |->
                      IF n <= i THEN 0 ELSE f[n - 1] + segments[2 * n - 1].stop]
           w == [n \in 0 .. MostPieces |-> g[n]]
           h == CHOOSE f : f = F(f)
<1>4. w = F(w)
  <2>1. \A n \in 0 .. MostPieces : ~(n <= i) => n - 1 \in 0 .. MostPieces /\ w[n - 1] = g[n - 1]
    OBVIOUS
  <2>2. \A n \in 0 .. MostPieces : w[n] = g[n]
    OBVIOUS
  <2>3. w = [n \in 0 .. MostPieces |-> w[n]]
    OBVIOUS
  <2> HIDE DEF w
  <2>4. \A n \in 0 .. MostPieces : w[n] = IF n <= i THEN 0 ELSE w[n - 1] + segments[2 * n - 1].stop
    BY <1>3, <2>1, <2>2
  <2>5. QED
    BY <2>3, <2>4
<1>5. h = F(h)
  <2> HIDE DEF w, F
  <2>1. QED
    BY <1>4
<1>6. \A n \in 0 .. MostPieces : h[n] = IF n <= i THEN 0 ELSE h[n - 1] + segments[2 * n - 1].stop
  <2>1. \A n \in 0 .. MostPieces : h[n] = F(h)[n]
    BY <1>5
  <2>2. \A n \in 0 .. MostPieces : F(h)[n] = IF n <= i THEN 0 ELSE h[n - 1] + segments[2 * n - 1].stop
    <3> HIDE DEF h
    <3>1. QED
      OBVIOUS
  <2> HIDE DEF h, F
  <2>3. QED
    BY <2>1, <2>2
<1>7. UpTo(segments, i) = h
  BY DEF UpTo
<1> HIDE DEF F, h
<1> DEFINE S == {m \in Nat : m <= MostPieces => h[m] \in Nat}
<1>8. ASSUME NEW m \in Nat, \A j \in 0 .. m - 1 : j \in S PROVE m \in S
  <2> SUFFICES ASSUME m <= MostPieces PROVE h[m] \in Nat
    OBVIOUS
  <2>1. ~(m <= i) => m - 1 \in S /\ m - 1 <= MostPieces /\ m \in 1 .. MostPieces
    BY <1>8
  <2>2. ~(m <= i) => h[m - 1] \in Nat /\ segments[2 * m - 1].stop \in Nat
    BY <2>1
  <2>3. m \in 0 .. MostPieces
    OBVIOUS
  <2>4. QED
    BY <1>6, <2>2, <2>3
<1>9. S = Nat
  <2>1. S \in SUBSET Nat
    OBVIOUS
  <2> HIDE DEF S
  <2>2. QED
    BY <1>8, <2>1, StrongInduction
<1>10. QED
  BY <1>6, <1>7, <1>9

\* The table of a train whose walk was verified and entered is a reservation.
LEMMA EnteredOK ==
  ASSUME NEW turnouts \in SwitchTables, NEW walk, NEW safety \in Nat \ {0},
         WalkFacts(turnouts, walk, safety), Len(walk) <= MostPieces,
         \A i \in DOMAIN walk : IsExit(Dest(walk[i].edge)) => walk[i].left = 0,
         NEW segments, \A i \in Slots : segments[i] =
           IF i \in 1 .. (2 * Len(walk)) THEN NewSegment(walk, i) ELSE Free
  PROVE  /\ CountOf(segments) = Len(walk)
         /\ NoHole(segments) /\ Clear(segments, safety) /\ Follows(segments, turnouts, {})
<1> DEFINE n == Len(walk)
<1>1. /\ MostPieces \in Nat /\ n \in Nat \ {0} /\ n \in 0 .. MostPieces /\ n \in 1 .. n
      /\ \A i \in 1 .. MostPieces : 2 * i - 1 \in Slots
  BY RequestsAssumption DEF MostPieces, Slots, WalkFacts
<1>2. \A i \in 1 .. n : /\ walk[i] \in Pieces /\ walk[i].edge \in Edges /\ walk[i].edge # NoEdge
                        /\ walk[i].stop \in Nat /\ walk[i].left \in Int
  <2>1. \A i \in 1 .. n : walk[i] \in Pieces
    BY DEF WalkFacts
  <2>2. QED
    BY <2>1, RequestsAssumption DEF Pieces
<1>3. ASSUME NEW i \in 1 .. n
      PROVE  /\ segments[2 * i - 1].edge = walk[i].edge
             /\ segments[2 * i - 1].start = walk[i].start
             /\ segments[2 * i - 1].stop = walk[i].stop
  <2>1. /\ 2 * i - 1 \in Slots /\ 2 * i - 1 \in 1 .. (2 * n)
        /\ (2 * i - 1) % 2 = 1 /\ ((2 * i - 1) + 1) \div 2 = i
    BY <1>1
  <2>2. segments[2 * i - 1] = NewSegment(walk, 2 * i - 1)
    BY <2>1
  <2>3. NewSegment(walk, 2 * i - 1) =
          [edge |-> walk[i].edge, start |-> walk[i].start, stop |-> walk[i].stop]
    BY <2>1 DEF NewSegment
  <2>4. QED
    BY <2>2, <2>3
<1>4. ASSUME NEW i \in 1 .. MostPieces, ~(i <= n)
      PROVE  segments[2 * i - 1].edge = NoEdge /\ segments[2 * i - 1].stop \in Nat
  <2>1. 2 * i - 1 \in Slots /\ 2 * i - 1 \notin 1 .. (2 * n)
    BY <1>1, <1>4
  <2>2. QED
    BY <2>1 DEF Free
<1>5. \A i \in 1 .. MostPieces : /\ segments[2 * i - 1].edge # NoEdge <=> i <= n
                                 /\ segments[2 * i - 1].stop \in Nat
  <2>1. TAKE i \in 1 .. MostPieces
  <2>2. CASE i <= n
    <3>1. i \in 1 .. n
      BY <1>1, <2>2
    <3>2. QED
      BY <1>2, <1>3, <2>2, <3>1
  <2>3. CASE ~(i <= n)
    BY <1>4, <2>3
  <2>4. QED
    BY <2>2, <2>3
<1>6. CountOf(segments) = n
  BY <1>1, <1>5, CountIs
<1>7. NoHole(segments)
  BY <1>1, <1>5, <1>6 DEF NoHole
<1>8. \A i \in 1 .. MostPieces : segments[2 * i - 1].stop \in Nat
  BY <1>5
<1>9. /\ Ends(walk[n])
      /\ \A i \in 1 .. n :
           /\ OnItsWay(turnouts, walk[i].edge)
           /\ FromBranch(walk[i].edge) => walk[i].left >= safety
      /\ \A i \in 1 .. n - 1 :
           /\ walk[i].stop = Dist(walk[i].edge)
           /\ walk[i + 1].start = 0
           /\ Src(walk[i + 1].edge) = Dest(walk[i].edge)
           /\ walk[i + 1].left >= walk[i].left - walk[i + 1].stop
  BY DEF WalkFacts
<1>10. walk[n].left <= 0
  <2>1. n \in DOMAIN walk
    BY <1>1 DEF WalkFacts
  <2>2. QED
    BY <1>9, <2>1 DEF Ends
<1> HIDE DEF n
\* What is missing after a piece is reserved after it.
<1>11. ASSUME NEW i \in 1 .. n
       PROVE  UpTo(segments, i)[n] >= walk[i].left
  <2> DEFINE u == UpTo(segments, i)
  <2>0. i \in Nat
    BY <1>1
  <2>1. \A k \in 0 .. MostPieces :
          /\ u[k] \in Nat
          /\ u[k] = IF k <= i THEN 0 ELSE u[k - 1] + segments[2 * k - 1].stop
    BY <1>1, <1>8, <2>0, UpToRec
  <2> HIDE DEF u
  <2> DEFINE T == {k \in Nat : k \in i .. n => u[k] >= walk[i].left - walk[k].left}
  <2>2. ASSUME NEW k \in Nat, \A j \in 0 .. k - 1 : j \in T PROVE k \in T
    <3> SUFFICES ASSUME k \in i .. n PROVE u[k] >= walk[i].left - walk[k].left
      OBVIOUS
    <3>1. CASE k = i
      BY <1>1, <1>2, <2>1, <3>1
    <3>2. CASE k # i
      <4>1. k - 1 \in 0 .. k - 1 /\ k - 1 \in i .. n /\ k - 1 \in 1 .. n - 1 /\ (k - 1) + 1 = k
            /\ k \in 1 .. n /\ k - 1 \in 1 .. n /\ k \in 0 .. MostPieces /\ k - 1 \in 0 .. MostPieces /\ ~(k <= i)
        BY <1>1, <3>2
      <4> HIDE DEF T
      <4>2. u[k - 1] >= walk[i].left - walk[k - 1].left
        <5>1. k - 1 \in T
          BY <2>2, <4>1
        <5>2. QED
          BY <4>1, <5>1 DEF T
      <4>3. walk[k].left >= walk[k - 1].left - walk[k].stop
        BY <1>9, <4>1
      <4>4. u[k] = u[k - 1] + walk[k].stop
        BY <1>3, <2>1, <4>1
      <4>5. /\ u[k - 1] \in Nat /\ walk[k].stop \in Nat /\ walk[k].left \in Int
            /\ walk[k - 1].left \in Int /\ walk[i].left \in Int
        BY <1>2, <2>1, <4>1
      <4>6. \A a, s, x, y, z \in Int : a >= x - y /\ z >= y - s => a + s >= x - z
        OBVIOUS
      <4>7. u[k - 1] \in Int /\ walk[k].stop \in Int
        BY <4>5
      <4>8. u[k - 1] + walk[k].stop >= walk[i].left - walk[k].left
        BY <4>2, <4>3, <4>5, <4>6, <4>7, Zenon
      <4>9. QED
        BY <4>4, <4>8, Zenon
    <3>3. QED
      BY <3>1, <3>2
  <2>3. T = Nat
    <3>1. T \in SUBSET Nat
      OBVIOUS
    <3> HIDE DEF T
    <3>2. QED
      BY <2>2, <3>1, StrongInduction
  <2>4. n \in i .. n /\ n \in Nat /\ n \in 0 .. MostPieces
    BY <1>1
  <2>5. u[n] >= walk[i].left - walk[n].left
    BY <2>3, <2>4
  <2>6. u[n] \in Nat /\ walk[i].left \in Int /\ walk[n].left \in Int
    BY <1>1, <1>2, <2>1, <2>4
  <2>7. u[n] >= walk[i].left
    BY <1>10, <2>5, <2>6
  <2>8. QED
    BY <2>7 DEF u
<1>12. ASSUME NEW i \in 1 .. n, FromBranch(walk[i].edge)
       PROVE  UpTo(segments, i)[n] >= safety
  <2>1. UpTo(segments, i)[n] \in Nat
    <3>1. i \in Nat /\ n \in 0 .. MostPieces
      BY <1>1
    <3>2. QED
      BY <1>1, <1>8, <3>1, UpToRec
  <2>2. walk[i].left >= safety /\ walk[i].left \in Int
    BY <1>2, <1>9, <1>12
  <2>3. QED
    BY <1>11, <2>1, <2>2
<1>13. ~FromBranch(walk[n].edge)
  <2>1. walk[n].left \in Int /\ (FromBranch(walk[n].edge) => walk[n].left >= safety)
    BY <1>1, <1>2, <1>9
  <2>2. QED
    BY <1>10, <2>1
<1>14. ASSUME NEW i \in 1 .. n
       PROVE  /\ ForwardOf(segments, i).edge = walk[i].edge
              /\ ForwardOf(segments, i).start = walk[i].start
              /\ ForwardOf(segments, i).stop = walk[i].stop
  BY <1>3 DEF ForwardOf
<1>15. Clear(segments, safety)
  <2>1. ASSUME NEW i \in 1 .. n - 1
        PROVE  /\ ForwardOf(segments, i).stop = Dist(ForwardOf(segments, i).edge)
               /\ ForwardOf(segments, i + 1).start = 0
               /\ Src(ForwardOf(segments, i + 1).edge) = Dest(ForwardOf(segments, i).edge)
    <3>1. i \in 1 .. n /\ i + 1 \in 1 .. n
      BY <1>1
    <3>2. QED
      BY <1>9, <1>14, <3>1
  <2>2. ~FromBranch(ForwardOf(segments, n).edge)
    BY <1>1, <1>13, <1>14
  <2>3. \A i \in 1 .. n : FromBranch(ForwardOf(segments, i).edge) => UpTo(segments, i)[n] >= safety
    BY <1>12, <1>14
  <2>4. QED
    BY <1>6, <2>1, <2>2, <2>3 DEF Clear
<1>16. Follows(segments, turnouts, {})
  BY <1>6, <1>9, <1>14 DEF Follows, OnItsWay
<1>17. QED
  BY <1>6, <1>7, <1>15, <1>16 DEF n

\* The server starts with nothing reserved.
LEMMA InitReservations ==
  Init => ReservationsOK
<1> SUFFICES ASSUME Init, NEW t \in Trains PROVE ReservationOK(t)
  BY DEF ReservationsOK
<1> DEFINE segments == train_reservations[t]
<1>1. MostPieces \in Nat /\ \A i \in 1 .. MostPieces : 2 * i - 1 \in Slots
  BY RequestsAssumption DEF MostPieces, Slots
<1>2. \A i \in 1 .. MostPieces : segments[2 * i - 1].edge = NoEdge
  BY <1>1 DEF Init, Free
<1> HIDE DEF segments
<1>3. 0 \in 0 .. MostPieces /\ \A i \in 1 .. MostPieces : segments[2 * i - 1].edge # NoEdge <=> i <= 0
  BY <1>1, <1>2
<1>4. CountOf(segments) = 0
  BY <1>1, <1>3, CountIs
<1>5. NoHole(segments)
  BY <1>3, <1>4 DEF NoHole
<1>6. Clear(segments, BranchSafety(t)) /\ Follows(segments, switch_table, thrown[t])
  BY <1>4 DEF Clear, Follows
<1>7. QED
  BY <1>5, <1>6 DEF ReservationOK, segments

\* A reservation that was granted is whole; those of the others stay as they are.
LEMMA GrantReservations ==
  ASSUME IInv, ReservationsOK, NEW train \in Trains, NEW walk,
         WalkFacts(switch_table, walk, BranchSafety(train)),
         Len(walk) <= MostPieces, 2 * Len(walk) <= SEGMENTS_PER_TRAIN,
         Verify(train, walk) = 0, Grant(train, walk)
  PROVE  /\ ReservationsOK'
         /\ CountOf(train_reservations'[train]) > 0
         /\ \A t \in Trains \ {train} : train_reservations'[t] = train_reservations[t]
<1>1. walk \in Seq(Pieces) /\ Len(walk) \in Nat \ {0}
  BY DEF WalkFacts
<1>2. /\ \A t \in Trains \ {train} : train_reservations'[t] = train_reservations[t]
      /\ \A i \in Slots : train_reservations'[train][i] =
           IF i \in 1 .. (2 * Len(walk)) THEN NewSegment(walk, i) ELSE Free
  BY <1>1, Inserted DEF IInv, Grant
<1>3. switch_table \in SwitchTables /\ switch_table' = switch_table
      /\ thrown' = [thrown EXCEPT ![train] = {}] /\ thrown \in [Trains -> SUBSET Branches]
  BY DEF IInv, TypeOK, Grant
<1>4. \A i \in DOMAIN walk : IsExit(Dest(walk[i].edge)) => walk[i].left = 0
  BY DEF Verify
<1>5. BranchSafety(train) \in Nat \ {0}
  BY RequestsAssumption
<1>6. PICK segments : segments = train_reservations'[train]
  OBVIOUS
<1>7. /\ CountOf(segments) = Len(walk)
      /\ NoHole(segments) /\ Clear(segments, BranchSafety(train))
      /\ Follows(segments, switch_table, {})
  BY <1>2, <1>3, <1>4, <1>5, <1>6, EnteredOK
<1>8. ReservationOK(train)'
  <2>1. thrown'[train] = {}
    BY <1>3
  <2>2. QED
    BY <1>3, <1>6, <1>7, <2>1 DEF ReservationOK
<1>9. ASSUME NEW t \in Trains, t # train PROVE ReservationOK(t)'
  <2>1. thrown'[t] = thrown[t]
    BY <1>3, <1>9
  <2>2. train_reservations'[t] = train_reservations[t]
    BY <1>2, <1>9
  <2>3. ReservationOK(t)
    BY DEF ReservationsOK
  <2>4. QED
    BY <1>3, <2>1, <2>2, <2>3 DEF ReservationOK
<1>10. ReservationsOK'
  BY <1>8, <1>9 DEF ReservationsOK
<1>11. QED
  BY <1>1, <1>2, <1>6, <1>7, <1>10

\* A turn-out that is thrown in what a train has reserved is one of those in thrown:
\* node_is_reserved finds the edge on which the train goes on from it, as the lists
\* hold what the tables hold (track_server.c:299-320).
LEMMA ThrowReservations ==
  ASSUME IInv, ReservationsOK, NEW n \in Branches,
         NEW direction \in {SWITCH_STRAIGHT, SWITCH_CURVED}, Throw(n, direction)
  PROVE  ReservationsOK'
<1> SUFFICES ASSUME NEW t \in Trains PROVE ReservationOK(t)'
  BY DEF ReservationsOK
<1>1. /\ train_reservations' = train_reservations
      /\ switch_table' = [switch_table EXCEPT ![n] = direction]
      /\ thrown'[t] = IF switch_table[n] # direction /\ NodeIsReserved(t, n)
                      THEN thrown[t] \cup {n} ELSE thrown[t]
      /\ switch_table \in [Branches -> {SWITCH_STRAIGHT, SWITCH_CURVED}]
      /\ train_reservations \in [Trains -> [Slots -> Segments]]
  BY DEF Throw, IInv, TypeOK, SwitchTables
<1>2. PICK segments : segments = train_reservations[t]
  OBVIOUS
<1>3. NoHole(segments) /\ Clear(segments, BranchSafety(t)) /\ Follows(segments, switch_table, thrown[t])
  BY <1>2 DEF ReservationsOK, ReservationOK
<1>4. ASSUME NEW i \in 1 .. CountOf(segments), Src(ForwardOf(segments, i).edge) = n
      PROVE  NodeIsReserved(t, n)
  <2>1. MostPieces \in Nat /\ \A j \in 1 .. MostPieces : 2 * j - 1 \in Slots
    BY RequestsAssumption DEF MostPieces, Slots
  <2>2. CountOf(segments) \in 0 .. MostPieces /\ i \in 1 .. MostPieces /\ i <= CountOf(segments)
    BY <1>3, <2>1 DEF NoHole
  <2>3. segments[2 * i - 1].edge # NoEdge /\ 2 * i - 1 \in Slots
    BY <1>3, <2>1, <2>2 DEF NoHole
  <2> DEFINE e == segments[2 * i - 1].edge
  <2>4. e \in Edges
    BY <1>1, <1>2, <2>3, SegmentFacts
  <2>5. <<t, 2 * i - 1>> \in reservation_node[e]
    BY <1>2, <2>3, <2>4 DEF IInv, ListsMatchTables
  <2>6. Src(e) = n
    BY <1>4 DEF ForwardOf
  <2> HIDE DEF e
  <2>7. \E x \in reservation_node[e] : x[1] = t
    <3>1. <<t, 2 * i - 1>>[1] = t
      OBVIOUS
    <3>2. QED
      BY <2>5, <3>1
  <2>8. QED
    BY <2>4, <2>6, <2>7 DEF NodeIsReserved
<1>5. Follows(segments, switch_table', thrown'[t])
  <2> SUFFICES ASSUME NEW i \in 1 .. CountOf(segments), NEW m, m = Src(ForwardOf(segments, i).edge),
                      IsBranch(m), m \notin thrown'[t]
               PROVE  (ForwardOf(segments, i).edge[2] = DIR_CURVED) = (switch_table'[m] = SWITCH_CURVED)
    BY DEF Follows
  <2>1. m \notin thrown[t]
    BY <1>1
  <2>2. (ForwardOf(segments, i).edge[2] = DIR_CURVED) = (switch_table[m] = SWITCH_CURVED)
    BY <1>3, <2>1 DEF Follows
  <2>3. CASE m # n
    <3>1. switch_table'[m] = switch_table[m]
      BY <1>1, <2>3
    <3>2. QED
      BY <2>2, <3>1
  <2>4. CASE m = n
    <3>1. NodeIsReserved(t, n)
      BY <1>4, <2>4
    <3>2. switch_table[n] = direction
      BY <1>1, <2>4, <3>1
    <3>3. switch_table' = switch_table
      BY <1>1, <3>2
    <3>4. QED
      BY <2>2, <3>3
  <2>5. QED
    BY <2>3, <2>4
<1>6. QED
  BY <1>1, <1>2, <1>3, <1>5 DEF ReservationOK

\* A step that changes no reservation and no turn-out.
LEMMA ReservationsUntouched ==
  ASSUME ReservationsOK, UNCHANGED <<train_reservations, switch_table, thrown>>
  PROVE  ReservationsOK'
<1>1. ASSUME NEW t \in Trains PROVE ReservationOK(t)'
  <2>1. ReservationOK(t)
    BY DEF ReservationsOK
  <2>2. QED
    BY <2>1 DEF ReservationOK
<1>2. QED
  BY <1>1 DEF ReservationsOK

\* A step is a request of the train.
Asks(t) == \E location \in Locations, length \in Lengths : Request(t, location, length)

\* A step changes what a train has reserved only if it grants the train's own request,
\* and leaves none that has something without.
Keeps ==
  \A t \in Trains :
    /\ train_reservations'[t] # train_reservations[t] => status'[t] = 0 /\ Asks(t)
    /\ Count(t) > 0 => Count(t)' > 0

\* The count is that of the table, before and after a step.
LEMMA CountPrimed ==
  \A t : /\ Count(t) = CountOf(train_reservations[t])
         /\ Count(t)' = CountOf(train_reservations'[t])
BY DEF Count, CountOf, Held

\* A grant puts a verified walk in, a refusal changes nothing, and a turnout that is
\* thrown is excused.
LEMMA ReservationsStep ==
  ASSUME IInv, ReservationsOK, [Next]_vars
  PROVE  ReservationsOK' /\ Keeps
<1>1. ASSUME UNCHANGED train_reservations PROVE Keeps
  <2>1. \A t \in Trains : train_reservations'[t] = train_reservations[t]
    BY <1>1
  <2>2. \A t \in Trains : Count(t)' = Count(t)
    BY <2>1, CountPrimed
  <2>3. QED
    BY <2>1, <2>2 DEF Keeps
<1>2. ASSUME NEW train \in Trains, NEW walk, Asks(train),
             WalkFacts(switch_table, walk, BranchSafety(train)),
             Len(walk) <= MostPieces, 2 * Len(walk) <= SEGMENTS_PER_TRAIN,
             Verify(train, walk) = 0, Grant(train, walk)
      PROVE  ReservationsOK' /\ Keeps
  <2>1. /\ ReservationsOK' /\ CountOf(train_reservations'[train]) > 0
        /\ \A t \in Trains \ {train} : train_reservations'[t] = train_reservations[t]
    BY <1>2, GrantReservations
  <2>2. status'[train] = 0
    BY <1>2 DEF Grant, IInv, TypeOK
  <2>3. ASSUME NEW t \in Trains, t # train
        PROVE  train_reservations'[t] = train_reservations[t] /\ Count(t)' = Count(t)
    <3>1. train_reservations'[t] = train_reservations[t]
      BY <2>1, <2>3
    <3>2. QED
      BY <3>1, CountPrimed
  <2>4. Count(train)' > 0
    BY <2>1, CountPrimed
  <2>5. Keeps
    BY <1>2, <2>2, <2>3, <2>4 DEF Keeps
  <2>6. QED
    BY <2>1, <2>5
<1>3. ASSUME NEW train \in Trains, NEW code, Refuse(train, code)
      PROVE  ReservationsOK' /\ Keeps
  BY <1>1, <1>3, ReservationsUntouched DEF Refuse
<1>4. ASSUME NEW n \in Branches, NEW direction \in {SWITCH_STRAIGHT, SWITCH_CURVED},
             Throw(n, direction)
      PROVE  ReservationsOK' /\ Keeps
  <2>1. ReservationsOK'
    BY <1>4, ThrowReservations
  <2>2. QED
    BY <1>1, <1>4, <2>1 DEF Throw
<1>5. CASE \E train \in Trains, location \in Locations, length \in Lengths :
             Request(train, location, length)
  <2>1. PICK train \in Trains, location \in Locations, length \in Lengths :
          Request(train, location, length)
    BY <1>5
  <2>2. TypeOK /\ Asks(train)
    BY <2>1 DEF IInv, Asks
  <2>3. QED
    BY <1>2, <1>3, <2>1, <2>2, RequestCases
<1>6. CASE \E train \in Trains, n \in Branches, next_node \in Nodes :
             SwitchDirection(train, n, next_node)
  <2>1. PICK train \in Trains, n \in Branches, next_node \in Nodes :
          SwitchDirection(train, n, next_node)
    BY <1>6
  <2>2. PICK direction \in {SWITCH_STRAIGHT, SWITCH_CURVED} : Throw(n, direction)
    BY <2>1 DEF SwitchDirection
  <2>3. QED
    BY <1>4, <2>2
<1>7. CASE \E n \in Branches, direction \in {SWITCH_STRAIGHT, SWITCH_CURVED} :
             SwitchReport(n, direction)
  BY <1>4, <1>7 DEF SwitchReport
<1>8. CASE UNCHANGED vars
  BY <1>1, <1>8, ReservationsUntouched DEF vars
<1>9. QED
  BY <1>5, <1>6, <1>7, <1>8 DEF Next

\* Every train's table, which no step leaves half filled, is a walk the server verified.
THEOREM InductiveReservations ==
  Spec => [](IInv /\ ReservationsOK)
<1>1. Init => IInv /\ ReservationsOK
  BY InitIInv, InitReservations
<1>2. IInv /\ ReservationsOK /\ [Next]_vars => (IInv /\ ReservationsOK)'
  BY Step, ReservationsStep
<1>3. QED
  BY <1>1, <1>2, PTL DEF Spec

\* A train's reservation is without a gap, does not end on an edge that leaves a
\* switch, and goes the train's safety distance beyond every switch it passes.
THEOREM NoTrainOnASwitch ==
  Spec => []ClearOfSwitches
<1>1. ReservationsOK => ClearOfSwitches
  BY ReservationsSay
<1>2. QED
  BY <1>1, InductiveReservations, PTL

\* A reservation leaves every switch the way it lies, unless the switch was thrown
\* after the reservation was made.
THEOREM FollowedTurnouts ==
  Spec => []ReservationsFollowTurnouts
<1>1. ReservationsOK => ReservationsFollowTurnouts
  BY ReservationsSay
<1>2. QED
  BY <1>1, InductiveReservations, PTL

\* Only a train's own request, granted, changes what it has reserved.
THEOREM ChangedByOwnRequest ==
  Spec => [][Keeps]_vars
<1>1. IInv /\ ReservationsOK /\ [Next]_vars => [Keeps]_vars
  BY ReservationsStep
<1>2. QED
  BY <1>1, InductiveReservations, PTL DEF Spec

-----------------------------------------------------------------------------
(* The server as a RailReservations.                                       *)

\* What a train's table holds, one by one.
LEMMA RailsOfHas ==
  ASSUME NEW segments, NEW s
  PROVE  s \in RailsOf(segments) <=>
           \E i \in Slots : segments[i].edge # NoEdge /\ s = segments[i]
BY DEF RailsOf

\* A server at its start has reserved nothing.
LEMMA InitPromise == Init => Promise!Init
<1> SUFFICES ASSUME Init PROVE Promise!Init
  OBVIOUS
<1>1. status = [t \in Trains |-> -1]
  BY DEF Init
<1>2. ASSUME NEW t \in Trains PROVE RailsOf(train_reservations[t]) = {}
  <2>1. \A i \in Slots : train_reservations[t][i].edge = NoEdge
    BY DEF Init, Free
  <2>2. \A s : s \notin RailsOf(train_reservations[t])
    BY <2>1, RailsOfHas
  <2>3. QED
    BY <2>2
<1>3. [t \in Trains |-> RailsOf(train_reservations[t])] = [t \in Trains |-> {}]
  BY <1>2
<1>4. QED
  BY <1>1, <1>3 DEF Promise!Init

\* The tables and the answers as they were are no step of it.
LEMMA PromiseStays ==
  ASSUME UNCHANGED <<train_reservations, status>>
  PROVE  UNCHANGED Promise!vars
BY DEF Promise!vars

\* A refusal leaves what the trains hold.
LEMMA RefusePromise ==
  ASSUME NEW train \in Trains, NEW code \in {-1, -2}, Refuse(train, code)
  PROVE  Promise!Next
<1>1. status' = [status EXCEPT ![train] = code] /\ train_reservations' = train_reservations
  BY DEF Refuse
<1>2. Promise!Refuse(train)
  BY <1>1 DEF Promise!Refuse
<1>3. QED
  BY <1>2 DEF Promise!Next

\* A grant gives the train pieces of rail that none of the others holds, as the lists are
\* in order before it and the segments in pairs and apart after it.
LEMMA GrantPromise ==
  ASSUME IInv, IInv', NEW train \in Trains, NEW walk,
         WalkFacts(switch_table, walk, BranchSafety(train)),
         2 * Len(walk) <= SEGMENTS_PER_TRAIN, Grant(train, walk)
  PROVE  Promise!Next
<1> DEFINE T == train_reservations
           H == [t \in Trains |-> RailsOf(T[t])]
<1>1. PICK U : U = T'
  OBVIOUS
<1>2. walk \in Seq(Pieces) /\ Len(walk) \in Nat \ {0}
  BY DEF WalkFacts
<1>3. /\ \A t \in Trains \ {train} : U[t] = T[t]
      /\ \A i \in Slots : U[train][i] =
           IF i \in 1 .. (2 * Len(walk)) THEN NewSegment(walk, i) ELSE Free
      /\ U \in [Trains -> [Slots -> Segments]]
  BY <1>1, <1>2, Inserted DEF IInv, Grant
<1>4. PICK K : K = [t \in Trains |-> RailsOf(U[t])]
  OBVIOUS
<1>5. \A t \in Trains : K[t] = RailsOf(U[t]) /\ H[t] = RailsOf(T[t])
  BY <1>4
<1>6. K = [H EXCEPT ![train] = K[train]]
  <2>1. \A t \in Trains : t # train => K[t] = H[t]
    BY <1>3, <1>5
  <2>2. QED
    BY <1>4, <2>1
<1> HIDE DEF H
<1>7. K[train] # {}
  <2>1. 1 \in Slots /\ 1 \in 1 .. (2 * Len(walk))
    BY <1>2, RequestsAssumption DEF Slots
  <2>2. NewSegment(walk, 1) \in [edge : Edges, start : Nat, stop : Nat]
    BY <1>2, <2>1, NewSegmentFacts
  <2>3. U[train][1] = NewSegment(walk, 1)
    BY <1>3, <2>1
  <2>4. U[train][1].edge # NoEdge
    BY <2>2, <2>3, RequestsAssumption
  <2>5. U[train][1] \in RailsOf(U[train])
    BY <2>1, <2>4, RailsOfHas
  <2>6. QED
    BY <1>5, <2>5
<1>8. ASSUME NEW s \in K[train] PROVE s \in Rails /\ Mirror(s) \in K[train]
  <2>1. PICK i \in Slots : U[train][i].edge # NoEdge /\ s = U[train][i]
    BY <1>5, RailsOfHas
  <2>2. s \in Segments
    BY <1>3, <2>1
  <2>3. s \in Rails
    BY <2>1, <2>2 DEF Segments, Free, Rails
  <2>4. PICK j \in Slots : /\ U[train][j].edge  = ReverseEdge(s.edge)
                           /\ U[train][j].start = Dist(s.edge) - s.stop
                           /\ U[train][j].stop  = Dist(s.edge) - s.start
    BY <1>1, <2>1 DEF IInv, ForwardAndReverse, Held
  <2>5. U[train][j].edge # NoEdge /\ U[train][j] \in Segments
    <3>1. ReverseEdge(s.edge) \in Edges
      BY <2>1, <2>2, SegmentFacts
    <3>2. QED
      BY <1>3, <2>4, <3>1, RequestsAssumption
  <2>6. U[train][j] \in Rails
    BY <2>5 DEF Segments, Free, Rails
  <2>7. U[train][j] = Mirror(s)
    BY <2>4, <2>6 DEF Rails, Mirror
  <2>8. Mirror(s) \in RailsOf(U[train])
    BY <2>5, <2>7, RailsOfHas
  <2>9. QED
    BY <1>5, <2>3, <2>8
<1>9. ASSUME NEW u \in Trains \ {train}, NEW s \in K[train], NEW r \in H[u] PROVE ~Clash(s, r)
  <2>1. PICK i \in Slots : U[train][i].edge # NoEdge /\ s = U[train][i]
    BY <1>5, RailsOfHas
  <2>2. PICK j \in Slots : U[u][j].edge # NoEdge /\ r = U[u][j]
    BY <1>3, <1>5, RailsOfHas
  <2>3. s.edge = r.edge => s.stop < r.start \/ r.stop < s.start
    BY <1>1, <2>1, <2>2 DEF IInv, NoCollision, Held
  <2>4. QED
    BY <2>3 DEF Clash
<1>10. status' = [status EXCEPT ![train] = 0]
  BY DEF Grant
<1>11. H' = K
  BY <1>1, <1>4 DEF H
<1>12. Promise!Grant(train)
  <2>1. K[train] \subseteq Rails /\ \A s \in K[train] : Mirror(s) \in K[train]
    BY <1>8
  <2>2. \A u \in Trains \ {train} : \A s \in K[train], r \in H[u] : ~Clash(s, r)
    BY <1>9
  <2>3. /\ H' = [H EXCEPT ![train] = H'[train]]
        /\ H'[train] # {} /\ H'[train] \subseteq Rails
        /\ \A s \in H'[train] : Mirror(s) \in H'[train]
        /\ \A u \in Trains \ {train} : \A s \in H'[train], r \in H[u] : ~Clash(s, r)
    BY <1>6, <1>7, <1>11, <2>1, <2>2
  <2>4. QED
    BY <1>10, <2>3 DEF Promise!Grant, H
<1>13. QED
  BY <1>12 DEF Promise!Next

\* Every step of the server is one of RailReservations, or none that it can tell.
LEMMA StepPromise ==
  IInv /\ IInv' /\ [Next]_vars => [Promise!Next]_(Promise!vars)
<1> SUFFICES ASSUME IInv, IInv', [Next]_vars PROVE [Promise!Next]_(Promise!vars)
  OBVIOUS
<1>1. CASE \E train \in Trains, location \in Locations, length \in Lengths :
             Request(train, location, length)
  <2>1. PICK train \in Trains, location \in Locations, length \in Lengths :
          Request(train, location, length)
    BY <1>1
  <2>2. CASE \E code \in {-1, -2} : Refuse(train, code)
    BY <2>2, RefusePromise
  <2>3. CASE \E walk : /\ WalkFacts(switch_table, walk, BranchSafety(train))
                       /\ Len(walk) <= MostPieces /\ 2 * Len(walk) <= SEGMENTS_PER_TRAIN
                       /\ Verify(train, walk) = 0 /\ Grant(train, walk)
    BY <2>3, GrantPromise
  <2>4. QED
    BY <2>1, <2>2, <2>3, RequestCases DEF IInv
<1>2. CASE \E train \in Trains, n \in Branches, next_node \in Nodes :
             SwitchDirection(train, n, next_node)
  <2>1. UNCHANGED <<train_reservations, status>>
    BY <1>2 DEF SwitchDirection, Throw
  <2>2. QED
    BY <2>1, PromiseStays
<1>3. CASE \E n \in Branches, direction \in {SWITCH_STRAIGHT, SWITCH_CURVED} :
             SwitchReport(n, direction)
  <2>1. UNCHANGED <<train_reservations, status>>
    BY <1>3 DEF SwitchReport, Throw
  <2>2. QED
    BY <2>1, PromiseStays
<1>4. CASE UNCHANGED vars
  BY <1>4, PromiseStays DEF vars
<1>5. QED
  BY <1>1, <1>2, <1>3, <1>4 DEF Next

\* The server is a RailReservations: whatever is asked of it and thrown, trains hold
\* pieces of rail in both directions, no two with a point in common, and only a grant of
\* the train's own request changes what it holds, to something in place of something.
THEOREM PromiseKept ==
  Spec => KeepsItsPromise
<1>1. Init => Promise!Init
  BY InitPromise
<1>2. IInv /\ IInv' /\ [Next]_vars => [Promise!Next]_(Promise!vars)
  BY StepPromise
<1>3. QED
  BY <1>1, <1>2, Invariance, PTL DEF Spec, KeepsItsPromise, Promise!Spec
-----------------------------------------------------------------------------
(* The queries of distance and sensor: a walk has told the way.            *)

\* A distance past a node: on the edge ahead, or as far past its end.
LEMMA AtRec ==
  ASSUME NEW turnouts \in SwitchTables, NEW n \in Nodes, NEW x \in Nat
  PROVE  At(turnouts, n, x) =
           IF IsExit(n) THEN NotOnTrack
           ELSE IF x < Dist(Ahead(turnouts, n)) THEN [node |-> n, offset |-> x]
           ELSE At(turnouts, Dest(Ahead(turnouts, n)), x - Dist(Ahead(turnouts, n)))
<1> DEFINE l == [node |-> n, offset |-> x]
<1>1. l \in Points /\ l.node = n /\ l.offset = x
  BY DEF Points
<1> HIDE DEF l
<1>2. Normalize(turnouts, l) = IF IsExit(n) THEN NotOnTrack
        ELSE IF x < Dist(Ahead(turnouts, n)) THEN l
        ELSE Normalize(turnouts, Beyond(turnouts, l))
  BY <1>1, NormalizeRec
<1>3. Beyond(turnouts, l) = [node |-> Dest(Ahead(turnouts, n)), offset |-> x - Dist(Ahead(turnouts, n))]
  BY <1>1 DEF Beyond
<1>4. QED
  BY <1>2, <1>3 DEF At, l

\* The way from s leads past n, after the distance d.
Way(turnouts, s, n, d) ==
  /\ s \in Nodes /\ n \in Nodes /\ d \in Nat
  /\ \A x \in Nat : At(turnouts, s, d + x) = At(turnouts, n, x)

\* It leads past where it starts ...
LEMMA WayStarts ==
  ASSUME NEW turnouts, NEW s \in Nodes
  PROVE  Way(turnouts, s, s, 0)
BY DEF Way

\* From one distance to another there is nothing on it but the edge ahead of n.
OnEdge(turnouts, s, n, from, to) ==
  \A x \in from .. to - 1 : At(turnouts, s, x) = [node |-> n, offset |-> x - from]

\* ... and if past a node, then past the end of the edge ahead, and there is nothing
\* but that edge between.
LEMMA WayOn ==
  ASSUME NEW turnouts \in SwitchTables, NEW s, NEW n, NEW d, Way(turnouts, s, n, d), ~IsExit(n)
  PROVE  /\ Way(turnouts, s, Dest(Ahead(turnouts, n)), d + Dist(Ahead(turnouts, n)))
         /\ Dist(Ahead(turnouts, n)) \in Nat \ {0}
         /\ OnEdge(turnouts, s, n, d, d + Dist(Ahead(turnouts, n)))
<1> DEFINE e == Ahead(turnouts, n)
<1>0. s \in Nodes /\ n \in Nodes /\ d \in Nat
  BY DEF Way
<1>1. Dest(e) \in Nodes /\ Dist(e) \in Nat \ {0}
  BY <1>0, AheadOK
<1>2. ASSUME NEW x \in Nat
      PROVE  At(turnouts, s, (d + Dist(e)) + x) = At(turnouts, Dest(e), x)
  <2>1. At(turnouts, s, d + (Dist(e) + x)) = At(turnouts, n, Dist(e) + x)
    <3>1. Dist(e) + x \in Nat
      BY <1>1
    <3>2. QED
      BY <3>1 DEF Way
  <2>2. At(turnouts, n, Dist(e) + x) = At(turnouts, Dest(e), (Dist(e) + x) - Dist(e))
    <3>1. Dist(e) + x \in Nat /\ ~(Dist(e) + x < Dist(e))
      BY <1>1
    <3> HIDE DEF e
    <3>2. QED
      BY <1>0, <3>1, AtRec DEF e
  <2>3. d + (Dist(e) + x) = (d + Dist(e)) + x /\ (Dist(e) + x) - Dist(e) = x
    BY <1>0, <1>1
  <2>4. QED
    BY <2>1, <2>2, <2>3
<1>3. ASSUME NEW x \in d .. d + Dist(e) - 1
      PROVE  At(turnouts, s, x) = [node |-> n, offset |-> x - d]
  <2>1. x - d \in Nat /\ d + (x - d) = x /\ x - d < Dist(e)
    BY <1>0, <1>1
  <2>2. At(turnouts, s, x) = At(turnouts, n, x - d)
    BY <2>1 DEF Way
  <2>3. QED
    BY <1>0, <2>1, <2>2, AtRec
<1>4. d + Dist(e) \in Nat
  BY <1>0, <1>1
<1>5. QED
  BY <1>0, <1>1, <1>2, <1>3, <1>4 DEF Way, OnEdge

\* At the start of an edge one is there, and past an exit nowhere.
LEMMA WayTo ==
  ASSUME NEW turnouts \in SwitchTables, NEW s, NEW n, NEW d, Way(turnouts, s, n, d)
  PROVE  At(turnouts, s, d) = IF IsExit(n) THEN NotOnTrack ELSE [node |-> n, offset |-> 0]
<1>1. n \in Nodes /\ d \in Nat /\ At(turnouts, s, d + 0) = At(turnouts, n, 0) /\ d + 0 = d
  BY DEF Way
<1>2. ~IsExit(n) => 0 < Dist(Ahead(turnouts, n))
  BY <1>1, AheadOK
<1>3. QED
  BY <1>1, <1>2, AtRec

\* What a way that leads back to its start has not come past by then it never will.
LEMMA NeverInLoop ==
  ASSUME NEW turnouts \in SwitchTables, NEW s, NEW d, Way(turnouts, s, s, d), d # 0, NEW place,
         \A x \in 0 .. d - 1 : At(turnouts, s, x) # place
  PROVE  \A x \in Nat : At(turnouts, s, x) # place
<1> DEFINE T == {x \in Nat : At(turnouts, s, x) # place}
<1>0. d \in Nat \ {0}
  BY DEF Way
<1>1. ASSUME NEW x \in Nat, \A k \in 0 .. x - 1 : k \in T PROVE x \in T
  <2>1. CASE x < d
    BY <1>0, <2>1
  <2>2. CASE ~(x < d)
    <3>1. x - d \in 0 .. x - 1 /\ x - d \in Nat /\ d + (x - d) = x
      BY <1>0, <2>2
    <3>2. At(turnouts, s, x) = At(turnouts, s, x - d)
      BY <3>1 DEF Way
    <3>3. QED
      BY <1>1, <3>1, <3>2
  <2>3. QED
    BY <2>1, <2>2
<1>2. T = Nat
  <2>1. T \in SUBSET Nat
    OBVIOUS
  <2> HIDE DEF T
  <2>2. QED
    BY <1>1, <2>1, StrongInduction
<1>3. QED
  BY <1>2

\* The place of a node.
Spot(n) == [node |-> n, offset |-> 0]
\* There is a sensor at the distance x past s.
SensorAt(turnouts, s, x) == \E m \in Sensors : At(turnouts, s, x) = Spot(m)
\* The turnouts as a request wants them taken.
AskedTurnouts(turnouts, r) ==
  [b \in Branches |-> IF r.direction = AsTheyLie THEN turnouts[b] ELSE r.direction]

\* No sensor is nearer than d.
NoSensorBefore(turnouts, s, d) == \A x \in 1 .. d - 1 : ~SensorAt(turnouts, s, x)

\* A walk from s that is at n after d: it is on the way, and has come past nothing that
\* would have ended it.
GoalWay(turnouts, s, goal, n, d) ==
  /\ Way(turnouts, s, n, d)
  /\ \A x \in 0 .. d - 1 : At(turnouts, s, x) # Spot(goal)

\* The way from s leads past n after d, and there is no sensor on it before ...
SensorWay(turnouts, s, n, d) ==
  /\ Way(turnouts, s, n, d)
  /\ NoSensorBefore(turnouts, s, d)
  /\ d = 0 \/ n \notin Sensors

\* A walk that has come to n, after d, is on the way that was asked for.
OnTheWay(turnouts, r, n, d) ==
  /\ r.operation = "distance"    => Way(turnouts, r.start, n, d)
  /\ r.operation = "until goal"  => GoalWay(turnouts, r.start, r.goal, n, d + r.offset)
  /\ r.operation = "next sensor" => SensorWay(AskedTurnouts(turnouts, r), r.start, n, d)

\* What an answer tells.
DistanceTold(turnouts, r, a) ==
  a \notin {NoAnswer, <<0>>, <<Loop>>} => At(turnouts, r.start, a[1]) = At(turnouts, r.goal, 0)

\* What an answer says of the way to a goal ...
GoalTold(turnouts, r, a) ==
  /\ a[1] \in 1 .. r.stop_dist - 1 =>
       At(turnouts, r.start, r.offset + a[1]) = At(turnouts, r.goal, r.goal_offset)
  /\ a[1] = r.stop_dist /\ r.goal_offset = 0 =>
       \A x \in 1 .. r.stop_dist - 1 :
         At(turnouts, r.start, r.offset + x) # At(turnouts, r.goal, r.goal_offset)

\* ... and to the next sensor, which lies d away.
SensorTold(turnouts, s, d, a) ==
  /\ NoSensorBefore(turnouts, s, d)
  /\ IF a = <<NoSensor>> THEN At(turnouts, s, d) = NotOnTrack
     ELSE At(turnouts, s, d) = Spot(a[1])

\* What an answer says of the way.
Told(turnouts, r, d, a) ==
  /\ r.operation = "distance" => DistanceTold(turnouts, r, a)
  /\ r.operation = "until goal" /\ a # NoAnswer => GoalTold(turnouts, r, a)
  /\ r.operation = "next sensor" /\ a # NoAnswer =>
       SensorTold(AskedTurnouts(turnouts, r), r.start, d, a)

\* That is what the property says.
LEMMA ToldIs == WalksTellTheWay <=> Told(table, request, walked, answer)
<1>1. SensorIsNext <=> (request.operation = "next sensor" /\ answer # NoAnswer =>
                           SensorTold(AskedTurnouts(table, request), request.start, walked, answer))
  BY DEF SensorIsNext, SensorTold, NoSensorBefore, SensorAt, AskedTurnouts, Spot
<1>2. GoalIsThere <=> /\ request.operation = "until goal" /\ answer # NoAnswer =>
                           GoalTold(table, request, answer)
                      /\ request.operation = "distance" => DistanceTold(table, request, answer)
  BY DEF GoalIsThere, GoalTold, DistanceTold
<1>3. QED
  BY <1>1, <1>2 DEF WalksTellTheWay, Told

\* The three kinds of requests, one by one.
DistanceRequests == [operation : {"distance"}, start : Nodes, goal : Nodes]
GoalRequests ==
  [operation : {"until goal"}, start : Sensors, offset : StartOffsets,
   goal : Goals, goal_offset : GoalOffsets, stop_dist : StopDists]
SensorRequests == [operation : {"next sensor"}, start : Sensors, direction : Directions]

\* A request is of its kind.
LEMMA RequestOK ==
  ASSUME NEW r \in Requests
  PROVE  /\ r.operation = "distance" => r \in DistanceRequests
         /\ r.operation = "until goal" => r \in GoalRequests
         /\ r.operation = "next sensor" => r \in SensorRequests
         /\ r.operation # "route"
<1>1. r \in DistanceRequests \/ r \in GoalRequests \/ r \in SensorRequests
  BY DEF Requests, DistanceRequests, GoalRequests, SensorRequests
<1>2. r \in DistanceRequests => r.operation = "distance"
  BY DEF DistanceRequests
<1>3. r \in GoalRequests => r.operation = "until goal"
  BY DEF GoalRequests
<1>4. r \in SensorRequests => r.operation = "next sensor"
  BY DEF SensorRequests
<1> HIDE DEF DistanceRequests, GoalRequests, SensorRequests
<1>5. QED
  BY <1>1, <1>2, <1>3, <1>4

\* The directions asked for are turn-outs.
LEMMA AskedTurnoutsOK ==
  ASSUME NEW turnouts \in SwitchTables, NEW r \in SensorRequests
  PROVE  /\ AskedTurnouts(turnouts, r) \in SwitchTables
         /\ AskedTurnouts(turnouts, r) =
              IF r.direction = AsTheyLie THEN turnouts ELSE [b \in Branches |-> r.direction]
<1>1. r.direction \in {AsTheyLie, SWITCH_STRAIGHT, SWITCH_CURVED}
  BY DEF SensorRequests, Directions
<1>2. CASE r.direction = AsTheyLie
  <2>1. AskedTurnouts(turnouts, r) = [b \in Branches |-> turnouts[b]]
    BY <1>2 DEF AskedTurnouts
  <2>2. turnouts = [b \in Branches |-> turnouts[b]]
    BY DEF SwitchTables
  <2>3. QED
    BY <1>2, <2>1, <2>2
<1>3. CASE r.direction # AsTheyLie
  <2>1. AskedTurnouts(turnouts, r) = [b \in Branches |-> r.direction]
    BY <1>3 DEF AskedTurnouts
  <2>2. [b \in Branches |-> r.direction] \in SwitchTables
    BY <1>1, <1>3 DEF SwitchTables
  <2>3. QED
    BY <1>3, <2>1, <2>2
<1>4. QED
  BY <1>2, <1>3

\* A goal is no exit: a train can be on the spot.
LEMMA AtGoal ==
  ASSUME NEW turnouts \in SwitchTables, NEW n \in Goals
  PROVE  n \in Nodes /\ ~IsExit(n) /\ At(turnouts, n, 0) = Spot(n)
<1>1. n \in Nodes /\ ~IsExit(n)
  BY DEF Goals, IsExit
<1>2. 0 < Dist(Ahead(turnouts, n))
  BY <1>1, AheadOK
<1>3. QED
  BY <1>1, <1>2, AtRec DEF Spot

\* There is track past a sensor.
LEMMA SensorNoExit ==
  ASSUME NEW n \in Sensors
  PROVE  n \in Nodes /\ ~IsExit(n)
BY DEF Sensors, IsExit


\* One edge on, a walk is still on its way, if it was not at what it looks for.
LEMMA GoalWayOn ==
  ASSUME NEW turnouts \in SwitchTables, NEW s, NEW goal, NEW n, NEW d,
         GoalWay(turnouts, s, goal, n, d), ~IsExit(n), n # goal
  PROVE  GoalWay(turnouts, s, goal, Dest(Ahead(turnouts, n)), d + Dist(Ahead(turnouts, n)))
<1> DEFINE e == Ahead(turnouts, n)
<1>0. d \in Nat
  BY DEF GoalWay, Way
<1>2. /\ Way(turnouts, s, Dest(e), d + Dist(e))
      /\ Dist(e) \in Nat \ {0}
      /\ OnEdge(turnouts, s, n, d, d + Dist(e))
  BY WayOn DEF GoalWay
<1>4. ASSUME NEW x \in 0 .. d + Dist(e) - 1
      PROVE  At(turnouts, s, x) # Spot(goal)
  <2>1. CASE x < d
    <3>1. x \in 0 .. d - 1
      BY <2>1, <1>0
    <3>2. QED
      BY <3>1 DEF GoalWay
  <2>2. CASE ~(x < d)
    <3>1. x \in d .. d + Dist(e) - 1
      BY <2>2, <1>0, <1>2
    <3>2. At(turnouts, s, x) = [node |-> n, offset |-> x - d]
      BY <1>0, <1>2, <3>1 DEF OnEdge
    <3>3. QED
      BY <3>2 DEF Spot
  <2>3. QED
    BY <2>1, <2>2
<1> HIDE DEF e
<1>5. QED
  BY <1>0, <1>2, <1>4 DEF GoalWay, e

\* The same for the next sensor.
LEMMA SensorWayOn ==
  ASSUME NEW turnouts \in SwitchTables, NEW s, NEW n, NEW d,
         SensorWay(turnouts, s, n, d), ~IsExit(n)
  PROVE  /\ Way(turnouts, s, Dest(Ahead(turnouts, n)), d + Dist(Ahead(turnouts, n)))
         /\ NoSensorBefore(turnouts, s, d + Dist(Ahead(turnouts, n)))
<1> DEFINE e == Ahead(turnouts, n)
<1>0. d \in Nat
  BY DEF SensorWay, Way
<1>2. /\ Way(turnouts, s, Dest(e), d + Dist(e))
      /\ Dist(e) \in Nat \ {0}
      /\ OnEdge(turnouts, s, n, d, d + Dist(e))
  BY WayOn DEF SensorWay
<1>4. ASSUME NEW x \in 1 .. d + Dist(e) - 1
      PROVE  ~SensorAt(turnouts, s, x)
  <2>1. CASE x < d
    <3>1. x \in 1 .. d - 1
      BY <2>1, <1>0
    <3>2. QED
      BY <3>1 DEF SensorWay, NoSensorBefore
  <2>2. CASE ~(x < d)
    <3>1. x \in d .. d + Dist(e) - 1
      BY <2>2, <1>0, <1>2
    <3>2. At(turnouts, s, x) = [node |-> n, offset |-> x - d]
      BY <1>0, <1>2, <3>1 DEF OnEdge
    <3>3. ASSUME NEW m \in Sensors, At(turnouts, s, x) = Spot(m) PROVE FALSE
      <4>1. n = m /\ x - d = 0
        BY <3>2, <3>3 DEF Spot
      <4>2. d = 0
        BY <4>1 DEF SensorWay
      <4>3. QED
        BY <4>1, <4>2
    <3>4. QED
      BY <3>3 DEF SensorAt
  <2>3. QED
    BY <2>1, <2>2
<1> HIDE DEF e
<1>5. QED
  BY <1>0, <1>2, <1>4 DEF NoSensorBefore, e

\* What a request for a goal gives.
LEMMA GoalRequestOK ==
  ASSUME NEW r \in GoalRequests
  PROVE  /\ r.start \in Sensors /\ r.goal \in Goals
         /\ r.offset \in Nat /\ r.goal_offset \in Nat /\ r.stop_dist \in Nat
         /\ r.operation = "until goal"
BY DistancesAssumption DEF GoalRequests

\* A walk that has come to the goal tells where it is.
LEMMA GoalFoundTold ==
  ASSUME NEW turnouts \in SwitchTables, NEW r \in GoalRequests, NEW d \in Int,
         GoalWay(turnouts, r.start, r.goal, r.goal, d + r.offset),
         NEW far, far = Smaller(Longer(0, d + r.goal_offset), r.stop_dist)
  PROVE  GoalTold(turnouts, r, <<far>>)
<1>0. /\ r.offset \in Nat /\ r.goal_offset \in Nat /\ r.stop_dist \in Nat /\ r.goal \in Goals
      /\ d + r.offset \in Nat
  BY GoalRequestOK DEF GoalWay, Way
<1>1. far \in Nat /\ (far < r.stop_dist /\ far # 0 => far = d + r.goal_offset)
        /\ (far = r.stop_dist /\ r.stop_dist # 0 => r.stop_dist <= d + r.goal_offset)
  BY <1>0 DEF Smaller, Longer
<1>2. ASSUME far \in 1 .. r.stop_dist - 1
      PROVE  At(turnouts, r.start, r.offset + far) = At(turnouts, r.goal, r.goal_offset)
  <2>1. r.offset + far = (d + r.offset) + r.goal_offset
    BY <1>0, <1>1, <1>2
  <2>2. At(turnouts, r.start, (d + r.offset) + r.goal_offset) = At(turnouts, r.goal, r.goal_offset)
    BY <1>0 DEF GoalWay, Way
  <2>3. QED
    BY <2>1, <2>2
<1>3. ASSUME far = r.stop_dist, r.goal_offset = 0, NEW x \in 1 .. r.stop_dist - 1
      PROVE  At(turnouts, r.start, r.offset + x) # At(turnouts, r.goal, r.goal_offset)
  <2>1. r.offset + x \in 0 .. (d + r.offset) - 1
    BY <1>0, <1>1, <1>3
  <2>2. At(turnouts, r.start, r.offset + x) # Spot(r.goal)
    BY <2>1 DEF GoalWay
  <2>3. At(turnouts, r.goal, 0) = Spot(r.goal)
    BY <1>0, AtGoal
  <2>4. QED
    BY <1>3, <2>2, <2>3
<1>4. QED
  BY <1>2, <1>3 DEF GoalTold

\* One that has come as far as the stopping distance, or round to its start, has not
\* come past the goal, and will not.
LEMMA GoalFarTold ==
  ASSUME NEW turnouts \in SwitchTables, NEW r \in GoalRequests, NEW n, NEW d \in Int,
         GoalWay(turnouts, r.start, r.goal, n, d + r.offset), d + r.offset # 0,
         n = r.start \/ d >= r.stop_dist
  PROVE  GoalTold(turnouts, r, <<r.stop_dist>>)
<1>0. /\ r.offset \in Nat /\ r.goal_offset \in Nat /\ r.stop_dist \in Nat /\ r.goal \in Goals
      /\ d + r.offset \in Nat
  BY GoalRequestOK DEF GoalWay, Way
<1>1. ASSUME NEW x \in 1 .. r.stop_dist - 1
      PROVE  At(turnouts, r.start, r.offset + x) # Spot(r.goal)
  <2>1. CASE d >= r.stop_dist
    <3>1. r.offset + x \in 0 .. (d + r.offset) - 1
      BY <1>0, <2>1
    <3>2. QED
      BY <3>1 DEF GoalWay
  <2>2. CASE n = r.start
    <3>1. PICK far, s, place : far = d + r.offset /\ s = r.start /\ place = Spot(r.goal)
      OBVIOUS
    <3>2. Way(turnouts, s, s, far) /\ far # 0 /\ \A y \in 0 .. far - 1 : At(turnouts, s, y) # place
      BY <2>2, <3>1 DEF GoalWay
    <3>3. \A y \in Nat : At(turnouts, s, y) # place
      BY <3>2, NeverInLoop
    <3>4. r.offset + x \in Nat
      BY <1>0
    <3>5. QED
      BY <3>1, <3>3, <3>4
  <2>3. QED
    BY <2>1, <2>2
<1>2. At(turnouts, r.goal, 0) = Spot(r.goal)
  BY <1>0, AtGoal
<1>3. r.stop_dist \notin 1 .. r.stop_dist - 1
  BY <1>0
<1>4. QED
  BY <1>1, <1>2, <1>3 DEF GoalTold

\* The end of the track tells nothing.
LEMMA GoalOffTold ==
  ASSUME NEW turnouts, NEW r \in GoalRequests
  PROVE  GoalTold(turnouts, r, <<0>>)
<1>1. r.stop_dist \in Nat
  BY GoalRequestOK
<1>2. QED
  BY <1>1 DEF GoalTold

\* A walk that comes to a sensor tells it ...
LEMMA SensorFoundTold ==
  ASSUME NEW turnouts \in SwitchTables, NEW s, NEW n \in Sensors, NEW d, Way(turnouts, s, n, d),
         NoSensorBefore(turnouts, s, d)
  PROVE  SensorTold(turnouts, s, d, <<n>>)
<1>1. n \in Nodes /\ ~IsExit(n)
  BY SensorNoExit
<1>2. At(turnouts, s, d) = Spot(n)
  BY <1>1, WayTo DEF Spot
<1>3. <<n>> # <<NoSensor>>
  BY <1>1, DistancesAssumption
<1>4. QED
  BY <1>2, <1>3 DEF SensorTold

\* ... and one that leaves the track tells that there is none.
LEMMA SensorOffTold ==
  ASSUME NEW turnouts \in SwitchTables, NEW s, NEW n, NEW d, SensorWay(turnouts, s, n, d), IsExit(n)
  PROVE  SensorTold(turnouts, s, d, <<NoSensor>>)
<1>1. At(turnouts, s, d) = NotOnTrack
  BY WayTo DEF SensorWay
<1>2. QED
  BY <1>1 DEF SensorTold, SensorWay


\* A walk knows where it is until it is answered, and has told the way then.
WalkInv ==
  /\ table \in SwitchTables
  /\ request \in Requests \cup {ForRoute}
  /\ request \in Requests => current \in Nodes /\ walked \in Int
  /\ request \in Requests /\ answer = NoAnswer => OnTheWay(table, request, current, walked)
  /\ Told(table, request, walked, answer)

\* It holds when the request is taken ...
LEMMA WalkInitInv == QueriesInit => WalkInv
<1> SUFFICES ASSUME QueriesInit PROVE WalkInv
  OBVIOUS
<1>1. CASE NoWalk
  <2>1. table \in SwitchTables /\ request = ForRoute /\ answer = NoAnswer
    BY <1>1 DEF NoWalk, SwitchTables, SWITCH_STRAIGHT
  <2>2. request.operation = "route"
    BY <2>1 DEF ForRoute
  <2>3. request \notin Requests
    BY <2>2, RequestOK
  <2>4. QED
    BY <2>1, <2>2, <2>3 DEF WalkInv, Told
<1>2. CASE WalkInit
  <2>1. /\ table \in SwitchTables /\ request \in Requests /\ answer = NoAnswer
        /\ current = request.start /\ walked = StartDistance
    BY <1>2 DEF WalkInit
  <2>2. Told(table, request, walked, answer)
    <3>1. request.operation = "distance" => DistanceTold(table, request, answer)
      BY <2>1 DEF DistanceTold
    <3>2. QED
      BY <2>1, <3>1 DEF Told
  <2>3. ASSUME request.operation = "distance"
        PROVE  current \in Nodes /\ walked \in Int /\ Way(table, request.start, current, walked)
    <3>1. current \in Nodes /\ walked = 0
      BY <2>1, <2>3, RequestOK DEF StartDistance, DistanceRequests
    <3>2. QED
      BY <2>1, <3>1, WayStarts
  <2>4. ASSUME request.operation = "until goal"
        PROVE  /\ current \in Nodes /\ walked \in Int
               /\ GoalWay(table, request.start, request.goal, current, walked + request.offset)
    <3>1. current \in Nodes /\ walked = 0 - request.offset /\ request.offset \in Nat
      BY <2>1, <2>4, RequestOK, GoalRequestOK, SensorNoExit DEF StartDistance
    <3>2. walked \in Int /\ walked + request.offset = 0
      BY <3>1
    <3>3. Way(table, request.start, current, 0)
      BY <2>1, <3>1, WayStarts
    <3>4. QED
      BY <3>1, <3>2, <3>3 DEF GoalWay
  <2>5. ASSUME request.operation = "next sensor"
        PROVE  /\ current \in Nodes /\ walked \in Int
               /\ SensorWay(AskedTurnouts(table, request), request.start, current, walked)
    <3>1. current \in Nodes /\ walked = 0
      <4>1. request.start \in Sensors
        BY <2>1, <2>5, RequestOK DEF SensorRequests
      <4>2. QED
        BY <2>1, <2>5, <4>1, SensorNoExit DEF StartDistance
    <3>2. NoSensorBefore(AskedTurnouts(table, request), request.start, 0)
      BY DEF NoSensorBefore
    <3>3. QED
      BY <2>1, <3>1, <3>2, WayStarts DEF SensorWay
  <2>6. request.operation \in {"distance", "until goal", "next sensor"}
    BY <2>1 DEF Requests
  <2>7. OnTheWay(table, request, current, walked)
    BY <2>3, <2>4, <2>5 DEF OnTheWay
  <2>8. current \in Nodes /\ walked \in Int
    BY <2>3, <2>4, <2>5, <2>6
  <2>9. QED
    BY <2>1, <2>2, <2>7, <2>8 DEF WalkInv
<1>3. QED
  BY <1>1, <1>2 DEF QueriesInit

\* ... of a walk that is not answered ...
LEMMA AskedFor ==
  ASSUME WalkInv, NEW operation \in {"distance", "until goal", "next sensor"}, Asked(operation)
  PROVE  /\ request \in Requests /\ table \in SwitchTables /\ current \in Nodes /\ walked \in Int
         /\ request.operation = operation /\ answer = NoAnswer
         /\ OnTheWay(table, request, current, walked)
<1>1. request.operation = operation /\ answer = NoAnswer
  BY DEF Asked
<1>2. request # ForRoute
  <2>1. ForRoute.operation = "route" /\ operation # "route"
    BY DEF ForRoute
  <2>2. QED
    BY <1>1, <2>1
<1>3. QED
  BY <1>1, <1>2 DEF WalkInv

\* Of a request that is answered only what is told is to be shown.
LEMMA AnswerInv ==
  ASSUME WalkInv, request \in Requests, NEW x, AnswerWith(x), Told(table, request, walked, <<x>>)
  PROVE  WalkInv'
<1>1. /\ answer' = <<x>> /\ table' = table /\ request' = request
      /\ current' = current /\ walked' = walked
  BY DEF AnswerWith
<1>2. answer' # NoAnswer
  BY <1>1 DEF NoAnswer
<1>3. /\ table \in SwitchTables /\ request \in Requests /\ current \in Nodes /\ walked \in Int
  BY DEF WalkInv
<1>4. Told(table, request, walked, answer)'
  BY <1>1
<1>5. QED
  BY <1>1, <1>2, <1>3, <1>4 DEF WalkInv

\* ... and of the answers that end a walk where it is.
LEMMA AnswersWalk ==
  ASSUME WalkInv, DistanceFound \/ DistanceOffTrack \/ GoalFound \/ GoalOffTrack \/ SensorOffTrack
  PROVE  WalkInv'
<1>1. CASE DistanceFound
  <2>1. /\ request \in Requests /\ table \in SwitchTables /\ request.operation = "distance"
        /\ OnTheWay(table, request, current, walked) /\ current = request.goal
    BY <1>1, AskedFor DEF DistanceFound
  <2>2. Way(table, request.start, request.goal, walked)
    BY <2>1 DEF OnTheWay
  <2>3. At(table, request.start, walked) = At(table, request.goal, 0)
    <3>1. walked \in Nat /\ At(table, request.start, walked + 0) = At(table, request.goal, 0)
      BY <2>2 DEF Way
    <3>2. QED
      BY <3>1
  <2>4. Told(table, request, walked, <<walked>>)
    BY <2>1, <2>3 DEF Told, DistanceTold
  <2>5. QED
    BY <1>1, <2>1, <2>4, AnswerInv DEF DistanceFound
<1>2. CASE DistanceOffTrack
  <2>1. request \in Requests /\ request.operation = "distance"
    BY <1>2, AskedFor DEF DistanceOffTrack
  <2>2. Told(table, request, walked, <<0>>)
    BY <2>1 DEF Told, DistanceTold
  <2>3. QED
    BY <1>2, <2>1, <2>2, AnswerInv DEF DistanceOffTrack
<1>3. CASE GoalFound
  <2>1. /\ request \in Requests /\ table \in SwitchTables /\ request.operation = "until goal"
        /\ OnTheWay(table, request, current, walked) /\ current = request.goal /\ walked \in Int
    BY <1>3, AskedFor DEF GoalFound
  <2>2. GoalWay(table, request.start, request.goal, request.goal, walked + request.offset)
    BY <2>1 DEF OnTheWay
  <2>3. PICK far : far = Smaller(Longer(0, walked + request.goal_offset), request.stop_dist)
    OBVIOUS
  <2>4. GoalTold(table, request, <<far>>)
    BY <2>1, <2>2, <2>3, RequestOK, GoalFoundTold
  <2>5. Told(table, request, walked, <<far>>)
    BY <2>1, <2>4 DEF Told
  <2>6. QED
    BY <1>3, <2>1, <2>3, <2>5, AnswerInv DEF GoalFound
<1>4. CASE GoalOffTrack
  <2>1. request \in Requests /\ request.operation = "until goal"
    BY <1>4, AskedFor DEF GoalOffTrack
  <2>2. GoalTold(table, request, <<0>>)
    BY <2>1, RequestOK, GoalOffTold
  <2>3. Told(table, request, walked, <<0>>)
    BY <2>1, <2>2 DEF Told
  <2>4. QED
    BY <1>4, <2>1, <2>3, AnswerInv DEF GoalOffTrack
<1>5. CASE SensorOffTrack
  <2>1. /\ request \in Requests /\ table \in SwitchTables /\ request.operation = "next sensor"
        /\ OnTheWay(table, request, current, walked) /\ IsExit(current)
    BY <1>5, AskedFor DEF SensorOffTrack
  <2>2. PICK tt : tt = AskedTurnouts(table, request)
    OBVIOUS
  <2>3. SensorWay(tt, request.start, current, walked) /\ tt \in SwitchTables
    BY <2>1, <2>2, RequestOK, AskedTurnoutsOK DEF OnTheWay
  <2>4. SensorTold(tt, request.start, walked, <<NoSensor>>)
    BY <2>1, <2>3, SensorOffTold
  <2>5. Told(table, request, walked, <<NoSensor>>)
    BY <2>1, <2>2, <2>4 DEF Told
  <2>6. QED
    BY <1>5, <2>1, <2>5, AnswerInv DEF SensorOffTrack
<1>6. QED
  BY <1>1, <1>2, <1>3, <1>4, <1>5

\* One edge on; what is then to be shown of the walk.
LEMMA WalkOnInv ==
  ASSUME WalkInv, request \in Requests, NEW tt \in SwitchTables, ~IsExit(current), WalkOn(tt),
         NEW n, NEW d, n = Dest(Ahead(tt, current)), d = walked + Dist(Ahead(tt, current)),
         answer' = NoAnswer => OnTheWay(table, request, n, d),
         Told(table, request, d, answer')
  PROVE  WalkInv'
<1>1. table \in SwitchTables /\ current \in Nodes /\ walked \in Int
  BY DEF WalkInv
<1>2. n \in Nodes /\ d \in Int
  BY <1>1, AheadOK
<1>3. table' = table /\ request' = request /\ current' = n /\ walked' = d
  BY DEF WalkOn
<1>4. OnTheWay(table, request, current, walked)' <=> OnTheWay(table, request, n, d)
  BY <1>3
<1>5. Told(table, request, walked, answer)' <=> Told(table, request, d, answer')
  BY <1>3
<1>6. QED
  BY <1>1, <1>2, <1>3, <1>4, <1>5 DEF WalkInv

\* The distance to a node: one edge on.
LEMMA DistanceOnInv ==
  ASSUME WalkInv, DistanceOn
  PROVE  WalkInv'
<1> DEFINE n == Dest(Ahead(table, current))
           d == walked + Dist(Ahead(table, current))
<1>1. /\ request \in Requests /\ table \in SwitchTables /\ request.operation = "distance"
      /\ OnTheWay(table, request, current, walked) /\ ~IsExit(current) /\ WalkOn(table)
      /\ answer' \in {<<Loop>>, NoAnswer}
  BY AskedFor DEF DistanceOn
<1>2. Way(table, request.start, n, d)
  <2>1. Way(table, request.start, current, walked)
    BY <1>1 DEF OnTheWay
  <2>2. QED
    BY <1>1, <2>1, WayOn
<1> HIDE DEF n, d
<1>3. OnTheWay(table, request, n, d)
  BY <1>1, <1>2 DEF OnTheWay
<1>4. Told(table, request, d, answer')
  BY <1>1 DEF Told, DistanceTold
<1>5. QED
  BY <1>1, <1>3, <1>4, WalkOnInv DEF n, d

\* Sums of distances: w may be below 0, since the start's offset o is taken off.
LEMMA Sums ==
  ASSUME NEW w \in Int, NEW o \in Nat, w + o \in Nat, NEW k \in Nat \ {0}
  PROVE  (w + o) + k = (w + k) + o /\ (w + k) + o # 0 /\ w + k \in Int
OBVIOUS

\* The distance to a goal: one edge on.
LEMMA GoalOnInv ==
  ASSUME WalkInv, GoalOn
  PROVE  WalkInv'
<1> DEFINE n == Dest(Ahead(table, current))
           d == walked + Dist(Ahead(table, current))
<1>1. /\ request \in Requests /\ table \in SwitchTables /\ request.operation = "until goal"
      /\ OnTheWay(table, request, current, walked) /\ ~IsExit(current) /\ WalkOn(table)
      /\ current # request.goal /\ walked \in Int /\ current \in Nodes
  BY AskedFor DEF GoalOn
<1>2. request \in GoalRequests /\ request.offset \in Nat
  BY <1>1, RequestOK, GoalRequestOK
<1>3. Dist(Ahead(table, current)) \in Nat \ {0}
  BY <1>1, AheadOK
<1>4. GoalWay(table, request.start, request.goal, n, d + request.offset) /\ d + request.offset # 0
  <2>1. PICK far, s, goal : /\ far = walked + request.offset /\ s = request.start
                            /\ goal = request.goal
    OBVIOUS
  <2>2. GoalWay(table, s, goal, current, far) /\ far \in Nat
    BY <1>1, <2>1 DEF OnTheWay, GoalWay, Way
  <2>3. GoalWay(table, s, goal, n, far + Dist(Ahead(table, current)))
    BY <1>1, <2>1, <2>2, GoalWayOn
  <2>4. far + Dist(Ahead(table, current)) = d + request.offset /\ d + request.offset # 0
    BY <1>1, <1>2, <1>3, <2>1, <2>2, Sums
  <2> HIDE DEF d, n
  <2>5. QED
    BY <2>1, <2>3, <2>4
<1>5. current' = n /\ walked' = d /\ d \in Int
  <2>1. current' = n /\ walked' = d
    BY <1>1 DEF WalkOn
  <2>2. walked + request.offset \in Nat
    BY <1>1 DEF OnTheWay, GoalWay, Way
  <2>3. d \in Int
    BY <1>1, <1>2, <1>3, <2>2, Sums
  <2> HIDE DEF d, n
  <2>4. QED
    BY <2>1, <2>3
<1>6. answer' = IF FarAway(n, d) THEN <<request.stop_dist>> ELSE NoAnswer
  BY <1>5 DEF GoalOn
<1> HIDE DEF n, d
<1>7. OnTheWay(table, request, n, d)
  BY <1>1, <1>4 DEF OnTheWay
<1>8. Told(table, request, d, answer')
  <2>1. CASE FarAway(n, d)
    <3>1. n = request.start \/ d >= request.stop_dist
      BY <2>1 DEF FarAway
    <3>2. GoalTold(table, request, <<request.stop_dist>>)
      BY <1>1, <1>2, <1>4, <1>5, <3>1, GoalFarTold
    <3>3. QED
      BY <1>1, <1>6, <2>1, <3>2 DEF Told
  <2>2. CASE ~FarAway(n, d)
    BY <1>1, <1>6, <2>2 DEF Told
  <2>3. QED
    BY <2>1, <2>2
<1>9. QED
  BY <1>1, <1>7, <1>8, WalkOnInv DEF n, d

\* The next sensor: one edge on, and perhaps there.
LEMMA SensorOnInv ==
  ASSUME WalkInv, SensorOn
  PROVE  WalkInv'
<1>1. /\ request \in Requests /\ table \in SwitchTables /\ request.operation = "next sensor"
      /\ OnTheWay(table, request, current, walked) /\ ~IsExit(current) /\ WalkOn(Turnouts)
      /\ walked \in Int /\ current \in Nodes
  BY AskedFor DEF SensorOn
<1>2. PICK tt : tt = AskedTurnouts(table, request)
  OBVIOUS
<1>3. request \in SensorRequests /\ tt \in SwitchTables /\ Turnouts = tt
  BY <1>1, <1>2, RequestOK, AskedTurnoutsOK DEF Turnouts
<1> DEFINE n == Dest(Ahead(tt, current))
           d == walked + Dist(Ahead(tt, current))
<1>5. SensorWay(tt, request.start, current, walked)
  BY <1>1, <1>2 DEF OnTheWay
<1>6. /\ Way(tt, request.start, n, d)
      /\ NoSensorBefore(tt, request.start, d)
  <2>1. PICK s, from, far : s = request.start /\ from = current /\ far = walked
    OBVIOUS
  <2>2. SensorWay(tt, s, from, far) /\ ~IsExit(from)
    BY <1>1, <1>5, <2>1
  <2>3. /\ Way(tt, s, Dest(Ahead(tt, from)), far + Dist(Ahead(tt, from)))
        /\ NoSensorBefore(tt, s, far + Dist(Ahead(tt, from)))
    BY <1>3, <2>2, SensorWayOn
  <2>4. QED
    BY <2>1, <2>3
<1>7. WalkOn(tt) /\ current' = n /\ walked' = d
  BY <1>1, <1>3 DEF WalkOn
<1>8. answer' = IF n \in Sensors THEN <<n>> ELSE NoAnswer
  BY <1>7 DEF SensorOn
<1> HIDE DEF n, d
<1>9. answer' = NoAnswer => OnTheWay(table, request, n, d)
  <2>1. SUFFICES ASSUME answer' = NoAnswer PROVE OnTheWay(table, request, n, d)
    OBVIOUS
  <2>2. n \notin Sensors
    BY <1>8, <2>1 DEF NoAnswer
  <2>3. SensorWay(tt, request.start, n, d)
    BY <1>6, <2>2 DEF SensorWay
  <2>4. QED
    BY <1>1, <1>2, <2>3 DEF OnTheWay
<1>10. Told(table, request, d, answer')
  <2>1. CASE n \in Sensors
    <3>1. SensorTold(tt, request.start, d, <<n>>)
      BY <1>3, <1>6, <2>1, SensorFoundTold
    <3>2. QED
      BY <1>1, <1>2, <1>8, <2>1, <3>1 DEF Told
  <2>2. CASE n \notin Sensors
    BY <1>1, <1>8, <2>2 DEF Told
  <2>3. QED
    BY <2>1, <2>2
<1>11. QED
  BY <1>1, <1>3, <1>7, <1>9, <1>10, WalkOnInv DEF n, d

\* Every step keeps it.
LEMMA WalkStepInv == WalkInv /\ [QueriesNext]_queryVars => WalkInv'
<1> SUFFICES ASSUME WalkInv, [QueriesNext]_queryVars PROVE WalkInv'
  OBVIOUS
<1>1. CASE WalkTurn
  BY <1>1, AnswersWalk, DistanceOnInv, GoalOnInv, SensorOnInv DEF WalkTurn
<1>2. CASE UNCHANGED walkVars
  <2>1. /\ answer' = answer /\ table' = table /\ request' = request
        /\ current' = current /\ walked' = walked
    BY <1>2 DEF walkVars
  <2>2. Told(table, request, walked, answer)' <=> Told(table, request, walked, answer)
    BY <2>1
  <2>3. OnTheWay(table, request, current, walked)' <=> OnTheWay(table, request, current, walked)
    BY <2>1
  <2>4. QED
    BY <2>1, <2>2, <2>3 DEF WalkInv
<1>3. WalkTurn \/ UNCHANGED walkVars
  BY DEF QueriesNext, Done, queryVars
<1>4. QED
  BY <1>1, <1>2, <1>3

\* The distances and the next sensor that the train controller is told are those of the
\* way a train takes from where it is, as normalize_location follows it: no edge is left
\* out or counted twice, and no sensor passed over.
THEOREM WalksTell == QueriesSpec => []WalksTellTheWay
<1>1. WalkInv => WalksTellTheWay
  BY ToldIs DEF WalkInv
<1>2. QED
  BY <1>1, WalkInitInv, WalkStepInv, PTL DEF QueriesSpec

-----------------------------------------------------------------------------
(* The heap of a search (heap.c): what is in it has been reached, and so   *)
(* has what bubble_down finds after its end, if it takes it.               *)

\* The arrays of a heap, and the distances of nodes.
Arrays == [0 .. TRACK_MAX - 1 -> Nodes]
Distant == [Nodes -> 0 .. UNREACHED]

\* The first n slots hold nodes that have been reached.
HoldsReached(nodes, n, far) == \A j \in 0 .. n - 1 : far[nodes[j]] < UNREACHED

\* A heap, as a record that need not be looked into.
HeapOf(a, n) == [nodes |-> a, num_nodes |-> n]

\* Two nodes change places.
LEMMA SwapOK ==
  ASSUME NEW a \in Arrays, NEW x \in 0 .. TRACK_MAX - 1, NEW y \in 0 .. TRACK_MAX - 1
  PROVE  /\ Swap(a, x, y) \in Arrays
         /\ Swap(a, x, y)[x] = a[y] /\ Swap(a, x, y)[y] = a[x]
         /\ \A z \in 0 .. TRACK_MAX - 1 : z # x /\ z # y => Swap(a, x, y)[z] = a[z]
BY DEF Swap, Arrays

\* A function that takes its steps within a set ...
Steps(f, D, first, step, most) ==
  /\ f \in [0 .. most -> D]
  /\ f[0] = first
  /\ \A k \in 1 .. most : f[k] = step[f[k - 1]]

\* ... exists, as far as one likes.
LEMMA StepsExist ==
  ASSUME NEW D, NEW first \in D, NEW step \in [D -> D], NEW most \in Nat
  PROVE  \E f : Steps(f, D, first, step, most)
<1> DEFINE Good(f, m) == f[0] = first /\ \A k \in 1 .. m : f[k] = step[f[k - 1]]
           T == {m \in Nat : \E f \in [0 .. m -> D] : Good(f, m)}
<1>1. ASSUME NEW m \in Nat, \A j \in 0 .. m - 1 : j \in T PROVE m \in T
  <2>1. CASE m = 0
    <3>1. [k \in 0 .. 0 |-> first] \in [0 .. 0 -> D] /\ Good([k \in 0 .. 0 |-> first], 0)
      OBVIOUS
    <3>2. QED
      BY <2>1, <3>1
  <2>2. CASE m # 0
    <3>1. m - 1 \in T
      BY <1>1, <2>2
    <3>2. PICK f \in [0 .. m - 1 -> D] : Good(f, m - 1)
      BY <3>1
    <3> DEFINE g == [k \in 0 .. m |-> IF k <= m - 1 THEN f[k] ELSE step[f[m - 1]]]
    <3>3. m - 1 \in 0 .. m - 1 /\ f[m - 1] \in D
      BY <2>2
    <3>4. g \in [0 .. m -> D]
      BY <3>3
    <3>5. \A k \in 0 .. m - 1 : g[k] = f[k]
      OBVIOUS
    <3>6. g[m] = step[f[m - 1]]
      OBVIOUS
    <3> HIDE DEF g
    <3>7. Good(g, m)
      BY <2>2, <3>2, <3>3, <3>5, <3>6
    <3>8. QED
      BY <3>4, <3>7
  <2>3. QED
    BY <2>1, <2>2
<1>2. T = Nat
  <2>1. T \in SUBSET Nat
    OBVIOUS
  <2> HIDE DEF T
  <2>2. QED
    BY <1>1, <2>1, StrongInduction
<1>3. PICK f \in [0 .. most -> D] : Good(f, most)
  BY <1>2
<1>4. Steps(f, D, first, step, most)
  BY <1>3 DEF Steps
<1>5. QED
  BY <1>4

\* A run of bubble_up's loop: its state after each turn, which is one of D.
UpRun(far, a, num, index, D, w) ==
  /\ w \in [0 .. index -> D]
  /\ w[0] = [nodes |-> a, i |-> index]
  /\ \A k \in 1 .. index : w[k] = UpFrom(far, w[k - 1])
  /\ BubbleUp(HeapOf(a, num), far, index) = HeapOf(w[index].nodes, num)

\* There is one, if no turn leads out of D.
LEMMA UpTurns ==
  ASSUME NEW far, NEW a, NEW num, NEW index \in Nat, NEW D, [nodes |-> a, i |-> index] \in D,
         \A at \in D : UpFrom(far, at) \in D
  PROVE  \E w : UpRun(far, a, num, index, D, w)
<1> DEFINE first == [nodes |-> a, i |-> index]
           G(f) == [k \in 0 .. index |-> IF k = 0 THEN first ELSE UpFrom(far, f[k - 1])]
           h == CHOOSE f : f = G(f)
<1>1. first \in D
  OBVIOUS
<1> HIDE DEF first
<1> DEFINE step == [at \in D |-> UpFrom(far, at)]
<1>2. step \in [D -> D] /\ \A at \in D : step[at] = UpFrom(far, at)
  OBVIOUS
<1> HIDE DEF step
<1>3. PICK w : Steps(w, D, first, step, index)
  BY <1>1, <1>2, StepsExist
<1>4. /\ w \in [0 .. index -> D]
      /\ w[0] = first /\ \A k \in 1 .. index : w[k] = step[w[k - 1]]
  BY <1>3 DEF Steps
<1>5. \A k \in 1 .. index : w[k] = UpFrom(far, w[k - 1])
  <2> SUFFICES ASSUME NEW k \in 1 .. index PROVE w[k] = UpFrom(far, w[k - 1])
    OBVIOUS
  <2>1. w[k - 1] \in D
    BY <1>4
  <2>2. QED
    BY <1>2, <1>4, <2>1
<1>6. w = G(w)
  <2>1. \A k \in 0 .. index : w[k] = G(w)[k]
    BY <1>4, <1>5
  <2>2. w = [k \in 0 .. index |-> w[k]] /\ G(w) = [k \in 0 .. index |-> G(w)[k]]
    BY <1>4
  <2> HIDE DEF G
  <2>3. QED
    BY <2>1, <2>2
<1>7. h = G(h)
  <2> HIDE DEF G
  <2>1. QED
    BY <1>6
<1>8. h = [k \in 0 .. index |-> h[k]]
  <2>1. h = [k \in 0 .. index |-> G(h)[k]]
    BY <1>7
  <2>2. QED
    BY <1>7, <2>1
<1>9. h[0] = first /\ \A k \in 1 .. index : h[k] = UpFrom(far, h[k - 1])
  <2>1. \A k \in 0 .. index : h[k] = G(h)[k]
    BY <1>7
  <2> HIDE DEF h
  <2>2. QED
    BY <2>1
<1>10. BubbleUp(HeapOf(a, num), far, index) = HeapOf(h[index].nodes, num)
  BY DEF BubbleUp, first, HeapOf
<1> HIDE DEF h, G
<1>11. h \in [0 .. index -> D]
  <2> DEFINE T == {k \in Nat : k \in 0 .. index => h[k] \in D}
  <2>1. ASSUME NEW k \in Nat, \A j \in 0 .. k - 1 : j \in T PROVE k \in T
    <3>1. CASE k = 0
      BY <1>1, <1>9, <3>1
    <3>2. CASE k # 0
      <4> SUFFICES ASSUME k \in 0 .. index PROVE h[k] \in D
        OBVIOUS
      <4>1. k - 1 \in 0 .. k - 1 /\ k - 1 \in 0 .. index /\ k \in 1 .. index
        BY <3>2
      <4>2. h[k - 1] \in D
        BY <2>1, <4>1
      <4>3. QED
        BY <1>9, <4>1, <4>2
    <3>3. QED
      BY <3>1, <3>2
  <2>2. T = Nat
    <3>1. T \in SUBSET Nat
      OBVIOUS
    <3> HIDE DEF T
    <3>2. QED
      BY <2>1, <3>1, StrongInduction
  <2>3. \A k \in 0 .. index : h[k] \in D
    BY <2>2
  <2> HIDE DEF T
  <2>4. QED
    BY <1>8, <2>3
<1>12. QED
  BY <1>9, <1>10, <1>11 DEF first, UpRun

\* A run of bubble_down's loop.
DownRun(far, a, n, index, D, w) ==
  /\ w \in [0 .. n -> D]
  /\ w[0] = [nodes |-> a, i |-> index]
  /\ \A k \in 1 .. n : w[k] = DownFrom(HeapOf(a, n), far, w[k - 1])
  /\ BubbleDown(HeapOf(a, n), far, index) = HeapOf(w[n].nodes, n)

\* There is one, too.
LEMMA DownTurns ==
  ASSUME NEW far, NEW a, NEW n \in Nat, NEW index, NEW D, [nodes |-> a, i |-> index] \in D,
         \A at \in D : DownFrom(HeapOf(a, n), far, at) \in D
  PROVE  \E w : DownRun(far, a, n, index, D, w)
<1> DEFINE first == [nodes |-> a, i |-> index]
           G(f) == [k \in 0 .. n |-> IF k = 0 THEN first ELSE DownFrom(HeapOf(a, n), far, f[k - 1])]
           h == CHOOSE f : f = G(f)
<1>1. first \in D
  OBVIOUS
<1> HIDE DEF first
<1> DEFINE step == [at \in D |-> DownFrom(HeapOf(a, n), far, at)]
<1>2. step \in [D -> D] /\ \A at \in D : step[at] = DownFrom(HeapOf(a, n), far, at)
  OBVIOUS
<1> HIDE DEF step
<1>3. PICK w : Steps(w, D, first, step, n)
  BY <1>1, <1>2, StepsExist
<1>4. /\ w \in [0 .. n -> D]
      /\ w[0] = first /\ \A k \in 1 .. n : w[k] = step[w[k - 1]]
  BY <1>3 DEF Steps
<1>5. \A k \in 1 .. n : w[k] = DownFrom(HeapOf(a, n), far, w[k - 1])
  <2> SUFFICES ASSUME NEW k \in 1 .. n PROVE w[k] = DownFrom(HeapOf(a, n), far, w[k - 1])
    OBVIOUS
  <2>1. w[k - 1] \in D
    BY <1>4
  <2>2. QED
    BY <1>2, <1>4, <2>1
<1>6. w = G(w)
  <2>1. \A k \in 0 .. n : w[k] = G(w)[k]
    BY <1>4, <1>5
  <2>2. w = [k \in 0 .. n |-> w[k]] /\ G(w) = [k \in 0 .. n |-> G(w)[k]]
    BY <1>4
  <2> HIDE DEF G
  <2>3. QED
    BY <2>1, <2>2
<1>7. h = G(h)
  <2> HIDE DEF G
  <2>1. QED
    BY <1>6
<1>8. h = [k \in 0 .. n |-> h[k]]
  <2>1. h = [k \in 0 .. n |-> G(h)[k]]
    BY <1>7
  <2>2. QED
    BY <1>7, <2>1
<1>9. h[0] = first /\ \A k \in 1 .. n : h[k] = DownFrom(HeapOf(a, n), far, h[k - 1])
  <2>1. \A k \in 0 .. n : h[k] = G(h)[k]
    BY <1>7
  <2> HIDE DEF h
  <2>2. QED
    BY <2>1
<1>10. BubbleDown(HeapOf(a, n), far, index) = HeapOf(h[n].nodes, n)
  BY DEF BubbleDown, first, HeapOf
<1> HIDE DEF h, G
<1>11. h \in [0 .. n -> D]
  <2> DEFINE T == {k \in Nat : k \in 0 .. n => h[k] \in D}
  <2>1. ASSUME NEW k \in Nat, \A j \in 0 .. k - 1 : j \in T PROVE k \in T
    <3>1. CASE k = 0
      BY <1>1, <1>9, <3>1
    <3>2. CASE k # 0
      <4> SUFFICES ASSUME k \in 0 .. n PROVE h[k] \in D
        OBVIOUS
      <4>1. k - 1 \in 0 .. k - 1 /\ k - 1 \in 0 .. n /\ k \in 1 .. n
        BY <3>2
      <4>2. h[k - 1] \in D
        BY <2>1, <4>1
      <4>3. QED
        BY <1>9, <4>1, <4>2
    <3>3. QED
      BY <3>1, <3>2
  <2>2. T = Nat
    <3>1. T \in SUBSET Nat
      OBVIOUS
    <3> HIDE DEF T
    <3>2. QED
      BY <2>1, <3>1, StrongInduction
  <2>3. \A k \in 0 .. n : h[k] \in D
    BY <2>2
  <2> HIDE DEF T
  <2>4. QED
    BY <1>8, <2>3
<1>12. QED
  BY <1>9, <1>10, <1>11 DEF first, DownRun

\* Where a bubble can be, in a heap of n nodes: everywhere up to the slot after ...
Bubbles(n, far) ==
  {at \in [nodes : Arrays, i : 0 .. TRACK_MAX - 1] : HoldsReached(at.nodes, n, far)}

\* A parent comes before its child.
LEMMA ParentOK ==
  ASSUME NEW x \in Nat
  PROVE  Parent(x) \in 0 .. x
BY DEF Parent

\* A node moves up in the place of one that is as far.
LEMMA UpFromOK ==
  ASSUME NEW n \in 0 .. TRACK_MAX, NEW far \in Distant, NEW at \in Bubbles(n, far), at.i < n
  PROVE  UpFrom(far, at) \in Bubbles(n, far) /\ UpFrom(far, at).i \in 0 .. at.i
<1>1. PICK a \in Arrays, x \in 0 .. TRACK_MAX - 1 : at = [nodes |-> a, i |-> x]
  BY DEF Bubbles
<1>2. at.nodes = a /\ at.i = x /\ HoldsReached(a, n, far)
  BY <1>1 DEF Bubbles
<1>3. PICK y \in 0 .. x : y = Parent(x)
  BY ParentOK
<1>4. y \in 0 .. TRACK_MAX - 1 /\ y < n
  BY <1>2, RoutingAssumption
<1>5. HoldsReached(Swap(a, y, x), n, far)
  <2> SUFFICES ASSUME NEW z \in 0 .. n - 1 PROVE far[Swap(a, y, x)[z]] < UNREACHED
    BY DEF HoldsReached
  <2>1. z \in 0 .. TRACK_MAX - 1
    BY RoutingAssumption
  <2>2. Swap(a, y, x)[z] \in {a[z], a[x], a[y]}
    <3>1. /\ Swap(a, y, x)[y] = a[x] /\ Swap(a, y, x)[x] = a[y]
          /\ z # x /\ z # y => Swap(a, y, x)[z] = a[z]
      BY <1>4, <2>1, SwapOK
    <3>2. QED
      BY <3>1
  <2>3. x \in 0 .. n - 1 /\ y \in 0 .. n - 1
    BY <1>2, <1>4
  <2>4. QED
    BY <1>2, <2>2, <2>3 DEF HoldsReached
<1>6. Swap(a, y, x) \in Arrays
  BY <1>4, SwapOK
<1>7. UpFrom(far, at) = at \/ UpFrom(far, at) = [nodes |-> Swap(a, y, x), i |-> y]
  BY <1>2, <1>3 DEF UpFrom
<1>8. [nodes |-> Swap(a, y, x), i |-> y] \in Bubbles(n, far)
  BY <1>4, <1>5, <1>6 DEF Bubbles
<1>9. QED
  BY <1>2, <1>7, <1>8

\* bubble_up, whatever slots there are after the last one.
LEMMA BubbleUpOK ==
  ASSUME NEW n \in 0 .. TRACK_MAX, NEW far \in Distant, NEW a \in Arrays, NEW num,
         NEW index \in 0 .. n - 1, HoldsReached(a, n, far)
  PROVE  \E b \in Arrays :
           /\ BubbleUp(HeapOf(a, num), far, index)
                = HeapOf(b, num)
           /\ HoldsReached(b, n, far)
<1> DEFINE D == {at \in Bubbles(n, far) : at.i < n}
<1>1. index \in Nat /\ index \in 0 .. TRACK_MAX - 1 /\ index < n
  BY RoutingAssumption
<1>2. [nodes |-> a, i |-> index] \in D
  BY <1>1 DEF Bubbles
<1>3. \A at \in D : UpFrom(far, at) \in D
  <2> SUFFICES ASSUME NEW at \in D PROVE UpFrom(far, at) \in D
    OBVIOUS
  <2>1. at \in Bubbles(n, far) /\ at.i < n /\ at.i \in Nat
    BY DEF Bubbles
  <2>2. UpFrom(far, at) \in Bubbles(n, far) /\ UpFrom(far, at).i \in 0 .. at.i
    BY <2>1, UpFromOK
  <2>3. QED
    BY <2>1, <2>2
<1>4. \A at \in D : at.nodes \in Arrays /\ HoldsReached(at.nodes, n, far)
  BY DEF Bubbles
<1> HIDE DEF D
<1>5. PICK w : UpRun(far, a, num, index, D, w)
  BY <1>1, <1>2, <1>3, UpTurns
<1>6. w[index] \in D /\ BubbleUp(HeapOf(a, num), far, index) = HeapOf(w[index].nodes, num)
  BY <1>1, <1>5 DEF UpRun
<1>7. QED
  BY <1>4, <1>6

\* A child of a slot that is no leaf for bubble_down is at most two past the end.
LEMMA ChildOK ==
  ASSUME NEW n \in Nat \ {0}, NEW x \in Nat, ~(x > n \div 2)
  PROVE  x < n /\ Left(x) \in 0 .. n + 1 /\ Right(x) \in 0 .. n + 2
BY DEF Left, Right

\* A node moves down in the place of one that is nearer, which has been reached then,
\* whether it is in the heap or after its end.
LEMMA DownFromOK ==
  ASSUME NEW n \in Nat \ {0}, n + 3 <= TRACK_MAX, NEW far \in Distant,
         NEW at \in Bubbles(n, far), NEW b
  PROVE  DownFrom(HeapOf(b, n), far, at) \in Bubbles(n, far)
<1> DEFINE h == HeapOf(b, n)
<1>1. PICK a \in Arrays, x \in 0 .. TRACK_MAX - 1 : at = [nodes |-> a, i |-> x]
  BY DEF Bubbles
<1>2. at.nodes = a /\ at.i = x /\ HoldsReached(a, n, far)
  BY <1>1 DEF Bubbles
<1>3. h.num_nodes = n
  BY DEF HeapOf
<1> HIDE DEF h
<1>4. CASE ~IsLeaf(h, x) /\ Greater(far, a[x], a[MaxChild(h, a, far, x)])
  <2>1. ~(x > n \div 2)
    BY <1>3, <1>4 DEF IsLeaf
  <2>2. x < n /\ Left(x) \in 0 .. n + 1 /\ Right(x) \in 0 .. n + 2
    BY <2>1, ChildOK
  <2>3. PICK c \in 0 .. TRACK_MAX - 1 : c = MaxChild(h, a, far, x)
    <3>1. Left(x) \in 0 .. TRACK_MAX - 1 /\ Right(x) \in 0 .. TRACK_MAX - 1
      BY <2>2, RoutingAssumption
    <3>2. QED
      BY <3>1 DEF MaxChild
  <2>4. a[c] \in Nodes /\ a[x] \in Nodes /\ far[a[c]] \in Nat /\ far[a[x]] \in Nat
    BY RoutingAssumption DEF Arrays, Distant
  <2>5. far[a[c]] < far[a[x]]
    BY <1>4, <2>3, <2>4 DEF Greater
  <2>6. far[a[x]] < UNREACHED
    BY <1>2, <2>2 DEF HoldsReached
  <2>7. far[a[c]] < UNREACHED
    BY <2>4, <2>5, <2>6, RoutingAssumption
  <2>8. HoldsReached(Swap(a, x, c), n, far)
    <3> SUFFICES ASSUME NEW z \in 0 .. n - 1 PROVE far[Swap(a, x, c)[z]] < UNREACHED
      BY DEF HoldsReached
    <3>1. z \in 0 .. TRACK_MAX - 1
      BY RoutingAssumption
    <3>2. /\ Swap(a, x, c)[c] = a[x] /\ Swap(a, x, c)[x] = a[c]
          /\ z # x /\ z # c => Swap(a, x, c)[z] = a[z]
      BY <3>1, SwapOK
    <3>3. far[a[z]] < UNREACHED
      BY <1>2 DEF HoldsReached
    <3>4. QED
      BY <2>6, <2>7, <3>2, <3>3
  <2>9. Swap(a, x, c) \in Arrays
    BY SwapOK
  <2>10. DownFrom(h, far, at) = [nodes |-> Swap(a, x, c), i |-> c]
    BY <1>2, <1>4, <2>3 DEF DownFrom
  <2>11. [nodes |-> Swap(a, x, c), i |-> c] \in Bubbles(n, far)
    BY <2>8, <2>9 DEF Bubbles
  <2>12. QED
    BY <2>10, <2>11 DEF h
<1>5. CASE ~(~IsLeaf(h, x) /\ Greater(far, a[x], a[MaxChild(h, a, far, x)]))
  <2>1. DownFrom(h, far, at) = at
    BY <1>2, <1>5 DEF DownFrom
  <2>2. QED
    BY <2>1 DEF h
<1>6. QED
  BY <1>4, <1>5

\* bubble_down, whatever is left in the slots after the last one.
LEMMA BubbleDownOK ==
  ASSUME NEW n \in Nat \ {0}, n + 3 <= TRACK_MAX, NEW far \in Distant, NEW a \in Arrays,
         NEW index \in 0 .. n - 1, HoldsReached(a, n, far)
  PROVE  \E b \in Arrays :
           /\ BubbleDown(HeapOf(a, n), far, index)
                = HeapOf(b, n)
           /\ HoldsReached(b, n, far)
<1>1. n \in Nat /\ index \in 0 .. TRACK_MAX - 1
  BY RoutingAssumption
<1>2. [nodes |-> a, i |-> index] \in Bubbles(n, far)
  BY <1>1 DEF Bubbles
<1>3. PICK w : DownRun(far, a, n, index, Bubbles(n, far), w)
  BY <1>1, <1>2, DownFromOK, DownTurns
<1>4. w[n] \in Bubbles(n, far) /\ BubbleDown(HeapOf(a, n), far, index) = HeapOf(w[n].nodes, n)
  BY <1>1, <1>3 DEF DownRun
<1>5. QED
  BY <1>4 DEF Bubbles

\* Bubbles move nodes, and take none out of the array.
LEMMA BubblesCount ==
  ASSUME NEW a, NEW n, NEW far, NEW i
  PROVE  /\ \E b : BubbleUp(HeapOf(a, n), far, i) = HeapOf(b, n)
         /\ \E b : BubbleDown(HeapOf(a, n), far, i) = HeapOf(b, n)
<1> DEFINE h  == HeapOf(a, n)
           up == CHOOSE f : f = [k \in 0 .. i |->
                   IF k = 0 THEN [nodes |-> a, i |-> i] ELSE UpFrom(far, f[k - 1])]
           down == CHOOSE f : f = [k \in 0 .. n |->
                   IF k = 0 THEN [nodes |-> a, i |-> i] ELSE DownFrom(h, far, f[k - 1])]
<1>1. BubbleUp(h, far, i) = HeapOf(up[i].nodes, n)
  BY DEF BubbleUp, HeapOf
<1>2. BubbleDown(h, far, i) = HeapOf(down[n].nodes, n)
  BY DEF BubbleDown, HeapOf
<1>3. QED
  BY <1>1, <1>2

\* heap_push makes a heap of n nodes one of n + 1, unless it is full.
LEMMA PushCounts ==
  ASSUME NEW a, NEW n, NEW far, NEW x
  PROVE  /\ n = TRACK_MAX => Push(HeapOf(a, n), far, x) = HeapOf(a, n)
         /\ n # TRACK_MAX =>
              \E b : Push(HeapOf(a, n), far, x) = HeapOf(b, n + 1)
<1> DEFINE h == HeapOf(a, n)
           placed == [h EXCEPT !.nodes[h.num_nodes] = x]
<1>1. n = TRACK_MAX => Push(h, far, x) = h
  BY DEF Push, HeapOf
<1>2. ASSUME n # TRACK_MAX PROVE \E b : Push(h, far, x) = HeapOf(b, n + 1)
  <2>1. PICK c : c = [a EXCEPT ![n] = x]
    OBVIOUS
  <2>2. placed = HeapOf(c, n)
    BY <2>1 DEF HeapOf
  <2>3. Push(h, far, x) = [BubbleUp(placed, far, n) EXCEPT !.num_nodes = n + 1]
    BY <1>2 DEF Push, HeapOf
  <2> HIDE DEF placed
  <2>4. PICK b : BubbleUp(HeapOf(c, n), far, n) = HeapOf(b, n)
    BY BubblesCount
  <2>5. Push(h, far, x) = HeapOf(b, n + 1)
    BY <2>2, <2>3, <2>4 DEF HeapOf
  <2>6. QED
    BY <2>5
<1>3. QED
  BY <1>1, <1>2

\* A node that has been reached is entered.
LEMMA PushOK ==
  ASSUME NEW a \in Arrays, NEW n \in 0 .. TRACK_MAX, n + 4 <= TRACK_MAX, NEW far \in Distant,
         HoldsReached(a, n, far), NEW x \in Nodes, far[x] < UNREACHED
  PROVE  \E b \in Arrays :
           /\ Push(HeapOf(a, n), far, x) = HeapOf(b, n + 1)
           /\ HoldsReached(b, n + 1, far)
<1> DEFINE h == HeapOf(a, n)
           placed == [h EXCEPT !.nodes[h.num_nodes] = x]
           c == [a EXCEPT ![n] = x]
<1>1. placed = HeapOf(c, n)
  BY DEF HeapOf
<1>2. c \in Arrays /\ n \in 0 .. TRACK_MAX - 1 /\ n # TRACK_MAX
  BY RoutingAssumption DEF Arrays
<1>3. HoldsReached(c, n + 1, far)
  <2> SUFFICES ASSUME NEW z \in 0 .. n PROVE far[c[z]] < UNREACHED
    BY RoutingAssumption DEF HoldsReached
  <2>1. c[n] = x /\ (z # n => c[z] = a[z])
    BY <1>2 DEF Arrays
  <2>2. z # n => far[a[z]] < UNREACHED
    BY DEF HoldsReached
  <2> HIDE DEF c
  <2>3. QED
    BY <2>1, <2>2
<1>4. Push(h, far, x) = [BubbleUp(placed, far, n) EXCEPT !.num_nodes = n + 1]
  BY <1>2 DEF Push, HeapOf
<1> HIDE DEF c, placed
<1>5. n + 1 \in 0 .. TRACK_MAX /\ n \in 0 .. (n + 1) - 1
  BY RoutingAssumption
<1>6. PICK b \in Arrays : /\ BubbleUp(placed, far, n) = HeapOf(b, n)
                          /\ HoldsReached(b, n + 1, far)
  BY <1>1, <1>2, <1>3, <1>5, BubbleUpOK
<1>7. Push(h, far, x) = HeapOf(b, n + 1)
  BY <1>4, <1>6 DEF HeapOf
<1>8. QED
  BY <1>6, <1>7

\* The first node is taken off.
LEMMA PopOK ==
  ASSUME NEW a \in Arrays, NEW n \in Nat \ {0}, n + 2 <= TRACK_MAX, NEW far \in Distant,
         HoldsReached(a, n, far)
  PROVE  \E b \in Arrays :
           /\ Pop(HeapOf(a, n), far) = HeapOf(b, n - 1)
           /\ HoldsReached(b, n - 1, far)
<1> DEFINE h == HeapOf(a, n)
           c == [a EXCEPT ![0] = a[n - 1]]
<1>1. CASE n = 1
  <2>1. Pop(h, far) = HeapOf(a, 0)
    BY <1>1 DEF Pop, HeapOf
  <2>2. HoldsReached(a, 0, far)
    BY DEF HoldsReached
  <2>3. QED
    BY <1>1, <2>1, <2>2
<1>2. CASE n # 1
  <2>1. n - 1 \in Nat \ {0} /\ (n - 1) + 3 <= TRACK_MAX /\ 0 \in 0 .. (n - 1) - 1
    BY <1>2, RoutingAssumption
  <2>2. c \in Arrays /\ \A z \in 0 .. n - 2 : z # 0 => c[z] = a[z]
    BY <2>1, RoutingAssumption DEF Arrays
  <2>3. c[0] = a[n - 1]
    BY <2>1, RoutingAssumption DEF Arrays
  <2>4. Pop(h, far) = BubbleDown(HeapOf(c, n - 1), far, 0)
    BY <1>2 DEF Pop, HeapOf
  <2> HIDE DEF c
  <2>5. HoldsReached(c, n - 1, far)
    <3> SUFFICES ASSUME NEW z \in 0 .. n - 2 PROVE far[c[z]] < UNREACHED
      BY DEF HoldsReached
    <3>1. n - 1 \in 0 .. n - 1 /\ z \in 0 .. n - 1
      OBVIOUS
    <3>2. QED
      BY <2>2, <2>3, <3>1 DEF HoldsReached
  <2>6. PICK m : m = n - 1
    OBVIOUS
  <2>7. PICK b \in Arrays : /\ BubbleDown(HeapOf(c, m), far, 0)
                                 = HeapOf(b, m)
                            /\ HoldsReached(b, m, far)
    BY <2>1, <2>2, <2>5, <2>6, BubbleDownOK
  <2>8. QED
    BY <2>4, <2>6, <2>7
<1>3. QED
  BY <1>1, <1>2

\* heap_update keeps the number of nodes, or is a push.
LEMMA UpdateCounts ==
  ASSUME NEW a, NEW n, NEW far, NEW x
  PROVE  \/ Update(HeapOf(a, n), far, x) = Push(HeapOf(a, n), far, x)
         \/ \E b : Update(HeapOf(a, n), far, x) = HeapOf(b, n)
<1> DEFINE h == HeapOf(a, n)
<1>1. CASE x \notin InHeap(h)
  BY <1>1 DEF Update
<1>2. CASE x \in InHeap(h)
  <2>1. PICK i : i = CHOOSE k \in 0..(h.num_nodes - 1) :
                  h.nodes[k] = x /\ \A j \in 0..(k - 1) : h.nodes[j] # x
    OBVIOUS
  <2>2. \/ Update(h, far, x) = BubbleUp(h, far, i)
        \/ Update(h, far, x) = BubbleUp(BubbleDown(h, far, i), far, i)
    <3> HIDE DEF h
    <3>1. QED
      BY <1>2, <2>1 DEF Update
  <2>3. PICK c : BubbleDown(h, far, i) = HeapOf(c, n)
    BY BubblesCount
  <2>4. PICK b : BubbleUp(HeapOf(c, n), far, i) = HeapOf(b, n)
    BY BubblesCount
  <2>5. PICK d : BubbleUp(h, far, i) = HeapOf(d, n)
    BY BubblesCount
  <2>6. QED
    BY <2>2, <2>3, <2>4, <2>5
<1>3. QED
  BY <1>1, <1>2

\* A node that has come nearer is moved to its place, or entered again.
LEMMA UpdateOK ==
  ASSUME NEW a \in Arrays, NEW n \in 0 .. TRACK_MAX, n + 3 <= TRACK_MAX, NEW far \in Distant,
         HoldsReached(a, n, far), NEW x \in Nodes, far[x] < UNREACHED,
         Update(HeapOf(a, n), far, x).num_nodes <= TRACK_MAX - 3
  PROVE  \E b \in Arrays, m \in {n, n + 1} :
           /\ Update(HeapOf(a, n), far, x) = HeapOf(b, m)
           /\ HoldsReached(b, m, far)
<1> DEFINE h == HeapOf(a, n)
<1>0. n # TRACK_MAX
  BY RoutingAssumption
<1>1. CASE x \notin InHeap(h)
  <2>1. Update(h, far, x) = Push(h, far, x)
    BY <1>1 DEF Update
  <2>2. PICK b : Push(h, far, x) = HeapOf(b, n + 1)
    BY <1>0, PushCounts
  <2>3. n + 4 <= TRACK_MAX
    BY <2>1, <2>2, RoutingAssumption DEF HeapOf
  <2>4. QED
    BY <2>1, <2>3, PushOK
<1>2. CASE x \in InHeap(h)
  <2>1. PICK i : i = CHOOSE k \in 0..(h.num_nodes - 1) :
                  h.nodes[k] = x /\ \A j \in 0..(k - 1) : h.nodes[j] # x
    OBVIOUS
  <2>2. i \in 0 .. n - 1
    <3> DEFINE S == {k \in 0 .. n - 1 : a[k] = x}
    <3>1. S \in SUBSET Nat /\ S # {}
      BY <1>2 DEF InHeap, HeapOf
    <3> HIDE DEF S
    <3>2. PICK k \in S : \A j \in S : k <= j
      BY <3>1, LeastElement
    <3>3. k \in 0 .. n - 1 /\ a[k] = x /\ \A j \in 0 .. (k - 1) : a[j] # x
      <4>1. k \in 0 .. n - 1 /\ a[k] = x
        BY <3>2 DEF S
      <4>2. ASSUME NEW j \in 0 .. (k - 1), a[j] = x PROVE FALSE
        <5>1. j \in 0 .. n - 1 /\ ~(k <= j)
          BY <4>1
        <5>2. QED
          BY <3>2, <4>2, <5>1 DEF S
      <4>3. QED
        BY <4>1, <4>2
    <3>4. \E j \in 0 .. n - 1 : a[j] = x /\ \A l \in 0 .. (j - 1) : a[l] # x
      BY <3>3
    <3>5. QED
      BY <2>1, <3>4 DEF HeapOf
  <2>3. n \in Nat \ {0}
    BY <2>2
  <2>4. \/ Update(h, far, x) = BubbleUp(h, far, i)
        \/ Update(h, far, x) = BubbleUp(BubbleDown(h, far, i), far, i)
    <3> HIDE DEF h
    <3>1. QED
      BY <1>2, <2>1 DEF Update
  <2>5. PICK c \in Arrays : /\ BubbleDown(h, far, i) = HeapOf(c, n)
                            /\ HoldsReached(c, n, far)
    BY <2>2, <2>3, BubbleDownOK
  <2>6. PICK b \in Arrays : /\ BubbleUp(h, far, i) = HeapOf(b, n)
                            /\ HoldsReached(b, n, far)
    BY <2>2, BubbleUpOK
  <2>7. PICK d \in Arrays : /\ BubbleUp(HeapOf(c, n), far, i) = HeapOf(d, n)
                            /\ HoldsReached(d, n, far)
    <3>1. c \in Arrays /\ HoldsReached(c, n, far)
      BY <2>5
    <3>2. QED
      BY <2>2, <3>1, BubbleUpOK
  <2>8. QED
    BY <2>4, <2>5, <2>6, <2>7
<1>3. QED
  BY <1>1, <1>2

-----------------------------------------------------------------------------
(* mark_path, one way at a time: what it has reached hangs together.       *)

\* How a train gets from n to m on the rails that are not in T: if m is n in the other
\* direction by reversing, else along an edge.
Leads(T, n, m) ==
  IF m = Reverse(n) THEN <<n, DIR_CURVED>> \notin T
  ELSE \/ ~IsExit(n)  /\ m = Dest(<<n, DIR_AHEAD>>)  /\ <<n, DIR_AHEAD>>  \notin T
       \/ IsBranch(n) /\ m = Dest(<<n, DIR_CURVED>>) /\ <<n, DIR_CURVED>> \notin T

\* Where nodes are reached from, and whether they have been visited.
Froms == [Nodes -> Nodes \cup {None}]
Seens == [Nodes -> BOOLEAN]

\* What has been reached hangs together: there is a way to each node from the one it
\* was reached from, which is visited and nearer, and so on back to the start.
Tree(s, T, far, from, seen) ==
  /\ far[s] = 0
  /\ \A m \in Nodes : from[m] # None =>
       seen[from[m]] = TRUE /\ far[from[m]] < far[m] /\ Leads(T, from[m], m)
  /\ \A m \in Nodes : far[m] < UNREACHED => m = s \/ from[m] # None

\* What mark_path has written so far.
Marks(far, h, from) == [distance |-> far, heap |-> h, previous |-> from]

\* It is all right: the heap fits and holds what was reached, which hangs together.
MarksOK(s, T, r, seen) ==
  \E far \in Distant, a \in Arrays, n \in Nat, from \in Froms :
    /\ r = Marks(far, HeapOf(a, n), from)
    /\ n + 3 <= TRACK_MAX
    /\ HoldsReached(a, n, far)
    /\ Tree(s, T, far, from, seen)

\* A heap of at least n nodes, whatever they are.
AtLeast(r, n) ==
  \E far, a, m, from : r = Marks(far, HeapOf(a, m), from) /\ m \in Nat /\ n <= m

\* The parts of it.
LEMMA MarksFields ==
  ASSUME NEW far, NEW a, NEW n, NEW from
  PROVE  /\ Marks(far, HeapOf(a, n), from).distance = far
         /\ Marks(far, HeapOf(a, n), from).heap = HeapOf(a, n)
         /\ Marks(far, HeapOf(a, n), from).heap.num_nodes = n
         /\ Marks(far, HeapOf(a, n), from).previous = from
BY DEF Marks, HeapOf

\* What Relax writes of a node: how far it is, and where it is reached from.
Nearer(far, v, way) == [far EXCEPT ![way.to] = far[v] + way.far]
Behind(from, v, way) == [from EXCEPT ![way.to] = v]

\* What Relax does, if it does something.
LEMMA RelaxIs ==
  ASSUME NEW far, NEW a, NEW n, NEW from, NEW v, NEW way, NEW seen
  PROVE  \/ Relax(Marks(far, HeapOf(a, n), from), v, way, seen) = Marks(far, HeapOf(a, n), from)
         \/ /\ ~seen[way.to] /\ ~(far[way.to] <= far[v] + way.far) /\ way.free
            /\ \/ /\ from[way.to] = None
                  /\ Relax(Marks(far, HeapOf(a, n), from), v, way, seen) =
                       Marks(Nearer(far, v, way), Push(HeapOf(a, n), Nearer(far, v, way), way.to),
                             Behind(from, v, way))
               \/ /\ from[way.to] # None
                  /\ Relax(Marks(far, HeapOf(a, n), from), v, way, seen) =
                       Marks(Nearer(far, v, way), Update(HeapOf(a, n), Nearer(far, v, way), way.to),
                             Behind(from, v, way))
<1>0. PICK r : r = Marks(far, HeapOf(a, n), from)
  OBVIOUS
<1>1. r.distance = far /\ r.heap = HeapOf(a, n) /\ r.previous = from
  BY <1>0, MarksFields
<1>2. CASE seen[way.to] \/ far[way.to] <= far[v] + way.far \/ ~way.free
  BY <1>0, <1>1, <1>2 DEF Relax
<1>3. CASE ~(seen[way.to] \/ far[way.to] <= far[v] + way.far \/ ~way.free)
  <2>1. Relax(r, v, way, seen) =
          Marks(Nearer(far, v, way),
                IF from[way.to] = None THEN Push(HeapOf(a, n), Nearer(far, v, way), way.to)
                ELSE Update(HeapOf(a, n), Nearer(far, v, way), way.to),
                Behind(from, v, way))
    BY <1>1, <1>3 DEF Relax, Marks, Nearer, Behind
  <2>2. QED
    BY <1>0, <1>3, <2>1
<1>4. QED
  BY <1>2, <1>3

\* A turn only adds to the heap.
LEMMA RelaxGrows ==
  ASSUME NEW r, NEW k \in Nat, AtLeast(r, k), NEW v, NEW way, NEW seen
  PROVE  AtLeast(Relax(r, v, way, seen), k)
<1>1. PICK far, a, n, from : r = Marks(far, HeapOf(a, n), from) /\ n \in Nat /\ k <= n
  BY DEF AtLeast
<1>2. PICK now : now = Nearer(far, v, way)
  OBVIOUS
<1>3. PICK to : to = Behind(from, v, way)
  OBVIOUS
<1>4. \/ Relax(r, v, way, seen) = r
      \/ Relax(r, v, way, seen) = Marks(now, Push(HeapOf(a, n), now, way.to), to)
      \/ Relax(r, v, way, seen) = Marks(now, Update(HeapOf(a, n), now, way.to), to)
  BY <1>1, <1>2, <1>3, RelaxIs
<1>5. PICK b, m : Push(HeapOf(a, n), now, way.to) = HeapOf(b, m) /\ m \in Nat /\ k <= m
  <2>1. CASE n = TRACK_MAX
    BY <1>1, <2>1, PushCounts
  <2>2. CASE n # TRACK_MAX
    <3>1. PICK b : Push(HeapOf(a, n), now, way.to) = HeapOf(b, n + 1)
      BY <2>2, PushCounts
    <3>2. n + 1 \in Nat /\ k <= n + 1
      BY <1>1
    <3>3. QED
      BY <3>1, <3>2
  <2>3. QED
    BY <2>1, <2>2
<1>6. PICK c, l : Update(HeapOf(a, n), now, way.to) = HeapOf(c, l) /\ l \in Nat /\ k <= l
  BY <1>1, <1>5, UpdateCounts
<1>7. QED
  BY <1>1, <1>4, <1>5, <1>6 DEF AtLeast

\* The tree with a way more, to a node that has not been visited.
LEMMA TreeGrows ==
  ASSUME NEW s \in Nodes, NEW T, NEW far \in Distant, NEW from \in Froms, NEW seen \in Seens,
         Tree(s, T, far, from, seen), NEW v \in Nodes, seen[v] = TRUE,
         NEW way, way.to \in Nodes, way.far \in Nat \ {0}, Leads(T, v, way.to),
         ~seen[way.to], ~(far[way.to] <= far[v] + way.far)
  PROVE  /\ Nearer(far, v, way) \in Distant /\ Behind(from, v, way) \in Froms
         /\ Nearer(far, v, way)[way.to] < UNREACHED
         /\ \A m \in Nodes : far[m] < UNREACHED => Nearer(far, v, way)[m] < UNREACHED
         /\ Tree(s, T, Nearer(far, v, way), Behind(from, v, way), seen)
<1>1. PICK x, w, d : x = way.to /\ w = way.far /\ d = far[v] + w
  OBVIOUS
<1>2. PICK now : now = Nearer(far, v, way)
  OBVIOUS
<1>3. PICK to : to = Behind(from, v, way)
  OBVIOUS
<1>4. /\ far[v] \in 0 .. UNREACHED /\ far[x] \in 0 .. UNREACHED /\ w \in Nat \ {0}
      /\ x \in Nodes /\ UNREACHED \in Nat
  BY <1>1, RoutingAssumption DEF Distant
<1>5. d \in 0 .. UNREACHED /\ d < UNREACHED /\ far[v] < d /\ d < far[x] /\ d # 0
  BY <1>1, <1>4
<1>6. now = [far EXCEPT ![x] = d] /\ to = [from EXCEPT ![x] = v]
  BY <1>1, <1>2, <1>3 DEF Nearer, Behind
<1>7. /\ now \in Distant /\ to \in Froms /\ now[x] = d /\ to[x] = v
      /\ \A m \in Nodes : m # x => now[m] = far[m] /\ to[m] = from[m]
  BY <1>4, <1>5, <1>6 DEF Distant, Froms
<1>8. \A m \in Nodes : far[m] < UNREACHED => now[m] < UNREACHED
  BY <1>5, <1>7
<1>9. Tree(s, T, now, to, seen)
  <2>1. x # s /\ x # v
    BY <1>1, <1>4, <1>5 DEF Tree
  <2>2. now[s] = 0
    BY <1>7, <2>1 DEF Tree
  <2>3. ASSUME NEW m \in Nodes, to[m] # None
        PROVE  seen[to[m]] = TRUE /\ now[to[m]] < now[m] /\ Leads(T, to[m], m)
    <3>1. CASE m = x
      <4>1. to[m] = v /\ now[v] = far[v] /\ now[m] = d
        BY <1>7, <2>1, <3>1
      <4>2. QED
        BY <1>1, <1>5, <3>1, <4>1
    <3>2. CASE m # x
      <4>1. to[m] = from[m] /\ now[m] = far[m] /\ from[m] # None
        BY <1>7, <2>3, <3>2
      <4>2. seen[from[m]] = TRUE /\ far[from[m]] < far[m] /\ Leads(T, from[m], m)
        BY <4>1 DEF Tree
      <4>3. from[m] \in Nodes /\ from[m] # x
        BY <1>1, <4>1, <4>2 DEF Froms
      <4>4. now[from[m]] = far[from[m]]
        BY <1>7, <4>3
      <4>5. QED
        BY <4>1, <4>2, <4>4
    <3>3. QED
      BY <3>1, <3>2
  <2>4. ASSUME NEW m \in Nodes, now[m] < UNREACHED PROVE m = s \/ to[m] # None
    <3>1. CASE m = x
      BY <1>7, <3>1, RoutingAssumption
    <3>2. CASE m # x
      BY <1>7, <2>4, <3>2 DEF Tree
    <3>3. QED
      BY <3>1, <3>2
  <2>5. QED
    BY <2>2, <2>3, <2>4 DEF Tree
<1>10. QED
  BY <1>2, <1>3, <1>5, <1>7, <1>8, <1>9, <1>1

\* A turn on one way, if the heap does not outgrow its array.
LEMMA RelaxOK ==
  ASSUME NEW s \in Nodes, NEW T, NEW r, NEW seen \in Seens, MarksOK(s, T, r, seen),
         NEW v \in Nodes, seen[v] = TRUE,
         NEW way, way.to \in Nodes, way.far \in Nat \ {0}, way.free => Leads(T, v, way.to),
         Relax(r, v, way, seen).heap.num_nodes <= TRACK_MAX - 3
  PROVE  MarksOK(s, T, Relax(r, v, way, seen), seen)
<1>1. PICK far, a, n, from :
        /\ far \in Distant /\ a \in Arrays /\ n \in Nat /\ from \in Froms
        /\ r = Marks(far, HeapOf(a, n), from) /\ n + 3 <= TRACK_MAX
        /\ HoldsReached(a, n, far) /\ Tree(s, T, far, from, seen)
  BY DEF MarksOK
<1>2. PICK now : now = Nearer(far, v, way)
  OBVIOUS
<1>3. PICK to : to = Behind(from, v, way)
  OBVIOUS
<1>4. CASE Relax(r, v, way, seen) = r
  BY <1>4
<1>5. CASE Relax(r, v, way, seen) # r
  <2>1. ~seen[way.to] /\ ~(far[way.to] <= far[v] + way.far) /\ way.free
    BY <1>1, <1>5, RelaxIs
  <2>2. \/ Relax(r, v, way, seen) = Marks(now, Push(HeapOf(a, n), now, way.to), to)
        \/ Relax(r, v, way, seen) = Marks(now, Update(HeapOf(a, n), now, way.to), to)
    BY <1>1, <1>2, <1>3, <1>5, RelaxIs
  <2>3. /\ now \in Distant /\ to \in Froms /\ now[way.to] < UNREACHED
        /\ \A m \in Nodes : far[m] < UNREACHED => now[m] < UNREACHED
        /\ Tree(s, T, now, to, seen)
    BY <1>1, <1>2, <1>3, <2>1, TreeGrows
  <2>4. HoldsReached(a, n, now)
    <3> SUFFICES ASSUME NEW j \in 0 .. n - 1 PROVE now[a[j]] < UNREACHED
      BY DEF HoldsReached
    <3>1. j \in 0 .. TRACK_MAX - 1
      BY <1>1, RoutingAssumption
    <3>2. a[j] \in Nodes
      BY <1>1, <3>1 DEF Arrays
    <3>3. QED
      BY <1>1, <2>3, <3>2 DEF HoldsReached
  <2>5. n \in 0 .. TRACK_MAX /\ n # TRACK_MAX
    BY <1>1, RoutingAssumption
  <2>6. CASE Relax(r, v, way, seen) = Marks(now, Push(HeapOf(a, n), now, way.to), to)
    <3>1. PICK b : Push(HeapOf(a, n), now, way.to) = HeapOf(b, n + 1)
      BY <2>5, PushCounts
    <3>2. n + 1 <= TRACK_MAX - 3
      BY <2>6, <3>1, MarksFields
    <3>3. n + 4 <= TRACK_MAX /\ n + 1 \in Nat /\ (n + 1) + 3 <= TRACK_MAX
      BY <1>1, <3>2, RoutingAssumption
    <3>4. PICK c \in Arrays : Push(HeapOf(a, n), now, way.to) = HeapOf(c, n + 1)
                                /\ HoldsReached(c, n + 1, now)
      BY <1>1, <2>3, <2>4, <2>5, <3>3, PushOK
    <3>5. PICK m : m = n + 1
      OBVIOUS
    <3>6. QED
      BY <2>3, <2>6, <3>3, <3>4, <3>5 DEF MarksOK
  <2>7. CASE Relax(r, v, way, seen) = Marks(now, Update(HeapOf(a, n), now, way.to), to)
    <3>1. Update(HeapOf(a, n), now, way.to).num_nodes <= TRACK_MAX - 3
      <4>1. Relax(r, v, way, seen).heap = Update(HeapOf(a, n), now, way.to)
        BY <2>7 DEF Marks
      <4>2. QED
        BY <4>1
    <3>2. PICK c, m : /\ c \in Arrays /\ m \in {n, n + 1}
                      /\ Update(HeapOf(a, n), now, way.to) = HeapOf(c, m)
                      /\ HoldsReached(c, m, now)
      BY <1>1, <2>3, <2>4, <2>5, <3>1, UpdateOK
    <3>3. HeapOf(c, m).num_nodes = m
      BY DEF HeapOf
    <3>4. m \in Nat /\ m + 3 <= TRACK_MAX
      BY <1>1, <3>1, <3>2, <3>3, RoutingAssumption
    <3>5. QED
      BY <2>3, <2>7, <3>2, <3>4 DEF MarksOK
  <2>8. QED
    BY <2>2, <2>6, <2>7
<1>6. QED
  BY <1>4, <1>5

\* Rails are taken in both directions.
BothWays(T) == T \subseteq Edges /\ \A e \in T : ReverseEdge(e) \in T

\* A free edge is a way, even if it leads back to where it starts: it is then one of the
\* two of a branch, and the other is the same rail.
LEMMA AheadLeads ==
  ASSUME NEW v \in Nodes, ~IsExit(v), BothWays(taken)
  PROVE  /\ WayAhead(v).to \in Nodes /\ WayAhead(v).far \in Nat \ {0}
         /\ WayAhead(v).free => Leads(taken, v, WayAhead(v).to)
<1>1. PICK e : e = <<v, DIR_AHEAD>>
  OBVIOUS
<1>2. e \in Edges
  BY <1>1 DEF Edges, DIR_AHEAD, DIR_CURVED
<1>3. WayAhead(v).to = Dest(e) /\ WayAhead(v).far = Dist(e) /\ (WayAhead(v).free <=> e \notin taken)
  BY <1>1 DEF WayAhead, EdgeAvailable
<1>4. Dest(e) \in Nodes /\ Dist(e) \in Nat \ {0}
  BY <1>2, EdgesAssumption
<1>5. ASSUME e \notin taken PROVE Leads(taken, v, Dest(e))
  <2>1. CASE Dest(e) # Reverse(v)
    BY <1>1, <1>5, <2>1 DEF Leads
  <2>2. CASE Dest(e) = Reverse(v)
    <3>1. PICK r : r = ReverseEdge(e)
      OBVIOUS
    <3>2. r \in Edges /\ r # e /\ ReverseEdge(r) = e /\ r[1] = Reverse(Dest(e))
      BY <1>2, <3>1, EdgesAssumption DEF Src
    <3>3. r[1] = v
      BY <2>2, <3>2, NodesAssumption
    <3>4. r = <<v, DIR_AHEAD>> \/ r = <<v, DIR_CURVED>>
      BY <3>2, <3>3 DEF Edges
    <3>5. r = <<v, DIR_CURVED>>
      BY <1>1, <3>2, <3>4
    <3>6. r \notin taken
      BY <1>5, <3>2 DEF BothWays
    <3>7. QED
      BY <2>2, <3>5, <3>6 DEF Leads
  <2>3. QED
    BY <2>1, <2>2
<1>6. QED
  BY <1>3, <1>4, <1>5

\* So is a free edge on the curved side of a branch.
LEMMA CurvedLeads ==
  ASSUME NEW v \in Nodes, IsBranch(v), BothWays(taken)
  PROVE  /\ WayCurved(v).to \in Nodes /\ WayCurved(v).far \in Nat \ {0}
         /\ WayCurved(v).free => Leads(taken, v, WayCurved(v).to)
<1>1. PICK e : e = <<v, DIR_CURVED>>
  OBVIOUS
<1>2. e \in Edges
  BY <1>1 DEF Edges, DIR_AHEAD, DIR_CURVED, IsBranch, IsExit
<1>3. WayCurved(v).to = Dest(e) /\ WayCurved(v).far = Dist(e) /\ (WayCurved(v).free <=> e \notin taken)
  BY <1>1 DEF WayCurved, EdgeAvailable
<1>4. Dest(e) \in Nodes /\ Dist(e) \in Nat \ {0}
  BY <1>2, EdgesAssumption
<1>5. e \notin taken => Leads(taken, v, Dest(e))
  BY <1>1 DEF Leads
<1>6. QED
  BY <1>3, <1>4, <1>5

\* A train can turn back where it is.
LEMMA BackLeads ==
  ASSUME NEW v \in Nodes
  PROVE  /\ WayBack(v).to \in Nodes /\ WayBack(v).far \in Nat \ {0}
         /\ WayBack(v).free => Leads(taken, v, WayBack(v).to)
BY NodesAssumption, RoutingAssumption DEF WayBack, EdgeAvailable, Leads

\* A heap has as many nodes as it has.
LEMMA ItsOwnSize ==
  ASSUME NEW r, NEW k \in Nat, AtLeast(r, k)
  PROVE  \E n : n \in Nat /\ r.heap.num_nodes = n /\ AtLeast(r, n)
<1>1. PICK far, a, n, from : r = Marks(far, HeapOf(a, n), from) /\ n \in Nat
  BY DEF AtLeast
<1>2. n <= n
  BY <1>1
<1>3. AtLeast(r, n)
  BY <1>1, <1>2 DEF AtLeast
<1>4. QED
  BY <1>1, <1>3, MarksFields

\* One that ends up within its array was there before.
LEMMA RelaxFits ==
  ASSUME NEW r, NEW k \in Nat, AtLeast(r, k), r.heap.num_nodes <= TRACK_MAX - 3
  PROVE  k <= TRACK_MAX - 3
<1>1. PICK far, a, m, from : r = Marks(far, HeapOf(a, m), from) /\ m \in Nat /\ k <= m
  BY DEF AtLeast
<1>2. r.heap.num_nodes = m
  BY <1>1, MarksFields
<1>3. QED
  BY <1>1, <1>2, RoutingAssumption

\* Relax is all right with each of the ways on from a node, which a turn of mark_path's
\* loop tries one after the other.
LEMMA RelaxesOK ==
  ASSUME NEW s \in Nodes, NEW r, NEW seen \in Seens, MarksOK(s, taken, r, seen), BothWays(taken),
         NEW v \in Nodes, seen[v] = TRUE,
         NEW ahead, ahead = RelaxAhead(r, v, seen), NEW curved, curved = RelaxCurved(ahead, v, seen),
         NEW new, new = RelaxBack(curved, v, seen), new.heap.num_nodes <= TRACK_MAX - 3
  PROVE  /\ MarksOK(s, taken, ahead, seen) /\ MarksOK(s, taken, curved, seen)
         /\ MarksOK(s, taken, new, seen)
         /\ ahead.heap.num_nodes <= TRACK_MAX - 3 /\ curved.heap.num_nodes <= TRACK_MAX - 3
<1>1. AtLeast(r, 0)
  <2>1. PICK far, a, n, from : n \in Nat /\ r = Marks(far, HeapOf(a, n), from)
    BY DEF MarksOK
  <2>2. QED
    BY <2>1 DEF AtLeast
<1>2. /\ IsExit(v) => ahead = r
      /\ ~IsExit(v) => ahead = Relax(r, v, WayAhead(v), seen)
      /\ ~IsBranch(v) => curved = ahead
      /\ IsBranch(v) => curved = Relax(ahead, v, WayCurved(v), seen)
      /\ new = Relax(curved, v, WayBack(v), seen)
  BY DEF RelaxAhead, RelaxCurved, RelaxBack
<1>3. \E n : n \in Nat /\ ahead.heap.num_nodes = n /\ AtLeast(ahead, n)
  BY <1>1, <1>2, RelaxGrows, ItsOwnSize
<1>4. \E n : n \in Nat /\ curved.heap.num_nodes = n /\ AtLeast(curved, n)
  BY <1>2, <1>3, RelaxGrows, ItsOwnSize
<1>5. curved.heap.num_nodes <= TRACK_MAX - 3
  <2>1. PICK n : n \in Nat /\ curved.heap.num_nodes = n /\ AtLeast(curved, n)
    BY <1>4
  <2>2. AtLeast(new, n)
    BY <1>2, <2>1, RelaxGrows
  <2>3. QED
    BY <2>1, <2>2, RelaxFits
<1>6. ahead.heap.num_nodes <= TRACK_MAX - 3
  <2>1. PICK n : n \in Nat /\ ahead.heap.num_nodes = n /\ AtLeast(ahead, n)
    BY <1>3
  <2>2. AtLeast(curved, n)
    BY <1>2, <2>1, RelaxGrows
  <2>3. QED
    BY <1>5, <2>1, <2>2, RelaxFits
<1>7. MarksOK(s, taken, ahead, seen)
  <2>1. CASE IsExit(v)
    BY <1>2, <2>1
  <2>2. CASE ~IsExit(v)
    BY <1>2, <1>6, <2>2, AheadLeads, RelaxOK
  <2>3. QED
    BY <2>1, <2>2
<1>8. MarksOK(s, taken, curved, seen)
  <2>1. CASE ~IsBranch(v)
    BY <1>2, <1>7, <2>1
  <2>2. CASE IsBranch(v)
    BY <1>2, <1>5, <1>7, <2>2, CurvedLeads, RelaxOK
  <2>3. QED
    BY <2>1, <2>2
<1>9. MarksOK(s, taken, new, seen)
  BY <1>2, <1>8, BackLeads, RelaxOK
<1>10. QED
  BY <1>5, <1>6, <1>7, <1>8, <1>9

-----------------------------------------------------------------------------
(* The answer: a path along what has been reached.                         *)

\* What a path consists of.
Signs == Nodes \cup {REVERSE_COMMAND}

\* One sign in front of a path.
LEMMA OneInFront ==
  ASSUME NEW m \in Signs, NEW q \in Seq(Signs), NEW t, t = <<m>> \o q
  PROVE  /\ t \in Seq(Signs) /\ Len(t) = Len(q) + 1
         /\ t[1] = m /\ \A i \in 1 .. Len(q) : t[i + 1] = q[i]
OBVIOUS

\* Two of them.
LEMMA TwoInFront ==
  ASSUME NEW m \in Signs, NEW c \in Signs, NEW q \in Seq(Signs), NEW t, t = <<m, c>> \o q
  PROVE  /\ t \in Seq(Signs) /\ Len(t) = Len(q) + 2
         /\ t[1] = m /\ t[2] = c /\ \A i \in 1 .. Len(q) : t[i + 2] = q[i]
OBVIOUS

\* A node of a path and what comes after it.
Joined(T, q, i) ==
  IF q[i + 1] = REVERSE_COMMAND
  THEN /\ q[i] # REVERSE_COMMAND /\ i + 2 <= Len(q) /\ q[i + 2] # REVERSE_COMMAND
       /\ q[i + 2] = Reverse(q[i]) /\ <<q[i + 2], DIR_CURVED>> \notin T
  ELSE q[i] # REVERSE_COMMAND => q[i] # Reverse(q[i + 1]) /\ Leads(T, q[i + 1], q[i])

\* A path from m back to s that can be driven, on which it gets nearer and nearer to s.
Drivable(s, T, far, q, m) ==
  /\ q \in Seq(Signs) /\ Len(q) >= 1
  /\ q[1] = m /\ q[Len(q)] = s
  /\ \A i, j \in 1 .. Len(q) : q[i] = q[j] /\ i # j => q[i] = REVERSE_COMMAND
  /\ \A i \in 1 .. Len(q) : q[i] # REVERSE_COMMAND => far[q[i]] <= far[m]
  /\ \A i \in 1 .. Len(q) - 1 : Joined(T, q, i)

\* Just the start.
LEMMA StartDrivable ==
  ASSUME NEW s \in Nodes, NEW T, NEW far \in Distant
  PROVE  Drivable(s, T, far, <<s>>, s)
<1>1. <<s>> \in Seq(Signs) /\ Len(<<s>>) = 1 /\ <<s>>[1] = s
  BY DEF Signs
<1>2. far[s] <= far[s]
  BY RoutingAssumption DEF Distant
<1>3. QED
  BY <1>1, <1>2 DEF Drivable

\* A node farther away, from which no way is a reversal.
LEMMA EdgeDrivable ==
  ASSUME NEW s \in Nodes, NEW T, NEW far \in Distant, NEW q, NEW p \in Nodes,
         Drivable(s, T, far, q, p), NEW m \in Nodes, far[p] < far[m],
         m # Reverse(p), Leads(T, p, m), NEW t, t = <<m>> \o q
  PROVE  Drivable(s, T, far, t, m)
<1>1. /\ q \in Seq(Signs) /\ Len(q) \in Nat /\ Len(q) >= 1 /\ q[1] = p
      /\ m \in Signs /\ m # REVERSE_COMMAND /\ p # REVERSE_COMMAND
  BY RoutingAssumption DEF Drivable, Signs
<1>2. /\ t \in Seq(Signs) /\ Len(t) = Len(q) + 1
      /\ t[1] = m /\ \A i \in 1 .. Len(q) : t[i + 1] = q[i]
  BY <1>1, OneInFront
<1>3. \A i \in 2 .. Len(t) : i - 1 \in 1 .. Len(q) /\ t[i] = q[i - 1]
  <2>1. \A i \in 2 .. Len(t) : i - 1 \in 1 .. Len(q) /\ (i - 1) + 1 = i
    BY <1>1, <1>2
  <2>2. QED
    BY <1>2, <2>1
<1>4. Len(t) \in 2 .. Len(t) /\ t[Len(t)] = s
  <2>1. Len(t) \in 2 .. Len(t) /\ Len(t) - 1 = Len(q)
    BY <1>1, <1>2
  <2>2. QED
    BY <1>3, <2>1 DEF Drivable
<1>5. \A i \in 1 .. Len(q) : q[i] # REVERSE_COMMAND => q[i] \in Nodes /\ far[q[i]] < far[m]
  <2>1. TAKE i \in 1 .. Len(q)
  <2>2. q[i] \in Signs
    BY <1>1
  <2>3. q[i] # REVERSE_COMMAND => q[i] \in Nodes /\ far[q[i]] <= far[p]
    BY <2>2 DEF Drivable, Signs
  <2>4. q[i] \in Nodes => far[q[i]] \in Int
    BY RoutingAssumption DEF Distant
  <2>5. far[p] \in Int /\ far[m] \in Int
    BY RoutingAssumption DEF Distant
  <2>6. QED
    BY <2>3, <2>4, <2>5
<1>6. far[m] \in Int
  BY RoutingAssumption DEF Distant
<1>7. \A i \in 2 .. Len(t) : t[i] # m
  <2>1. TAKE i \in 2 .. Len(t)
  <2>2. PICK k : k = i - 1
    OBVIOUS
  <2>3. k \in 1 .. Len(q) /\ t[i] = q[k]
    BY <1>3, <2>2
  <2>4. QED
    BY <1>1, <1>5, <1>6, <2>3
<1>8. \A i \in 1 .. Len(t) : i = 1 \/ i \in 2 .. Len(t)
  BY <1>1, <1>2
<1>9. ASSUME NEW i \in 1 .. Len(t), NEW j \in 1 .. Len(t), t[i] = t[j], i # j
      PROVE  t[i] = REVERSE_COMMAND
  <2>1. CASE i = 1 \/ j = 1
    BY <1>2, <1>7, <1>8, <1>9, <2>1
  <2>2. CASE i # 1 /\ j # 1
    <3>1. PICK k, l : k = i - 1 /\ l = j - 1
      OBVIOUS
    <3>2. k \in 1 .. Len(q) /\ t[i] = q[k] /\ l \in 1 .. Len(q) /\ t[j] = q[l] /\ k # l
      BY <1>3, <1>8, <1>9, <2>2, <3>1
    <3>3. QED
      BY <1>9, <3>2 DEF Drivable
  <2>3. QED
    BY <2>1, <2>2
<1>10. ASSUME NEW i \in 1 .. Len(t), t[i] # REVERSE_COMMAND PROVE far[t[i]] <= far[m]
  <2>1. CASE i = 1
    BY <1>2, <1>6, <2>1
  <2>2. CASE i # 1
    <3>1. PICK k : k = i - 1
      OBVIOUS
    <3>2. k \in 1 .. Len(q) /\ t[i] = q[k]
      BY <1>3, <1>8, <2>2, <3>1
    <3>3. q[k] \in Nodes /\ far[q[k]] < far[m]
      BY <1>5, <1>10, <3>2
    <3>4. far[q[k]] \in Int
      BY <3>3, RoutingAssumption DEF Distant
    <3>5. QED
      BY <1>6, <3>2, <3>3, <3>4
  <2>3. QED
    BY <2>1, <2>2
<1>11. ASSUME NEW i \in 1 .. Len(t) - 1 PROVE Joined(T, t, i)
  <2>1. CASE i = 1
    <3>1. t[i] = m /\ t[i + 1] = p
      <4>1. 1 \in 1 .. Len(q)
        BY <1>1
      <4>2. QED
        BY <1>1, <1>2, <2>1, <4>1
    <3>2. QED
      BY <1>1, <3>1 DEF Joined
  <2>2. CASE i # 1
    <3>1. PICK k : k = i - 1
      OBVIOUS
    <3>2. /\ k \in 1 .. Len(q) - 1 /\ i = k + 1 /\ i + 1 = (k + 1) + 1 /\ i + 2 = (k + 2) + 1
          /\ k \in 1 .. Len(q) /\ k + 1 \in 1 .. Len(q) /\ k + 2 \in Int
      BY <1>1, <1>2, <2>2, <3>1
    <3>3. t[i] = q[k] /\ t[i + 1] = q[k + 1]
      BY <1>2, <3>2
    <3>4. Joined(T, q, k)
      BY <3>2 DEF Drivable
    <3>5. k + 2 <= Len(q) => i + 2 <= Len(t) /\ t[i + 2] = q[k + 2]
      <4>1. k + 2 <= Len(q) => k + 2 \in 1 .. Len(q) /\ i + 2 <= Len(t)
        BY <1>1, <1>2, <3>2
      <4>2. QED
        BY <1>2, <3>2, <4>1
    <3>6. QED
      BY <3>3, <3>4, <3>5 DEF Joined
  <2>3. QED
    BY <2>1, <2>2
<1>12. Len(t) >= 1
  BY <1>1, <1>2
<1>13. QED
  BY <1>2, <1>4, <1>9, <1>10, <1>11, <1>12 DEF Drivable

\* A node farther away, which is reached by a reversal.
LEMMA ReversalDrivable ==
  ASSUME NEW s \in Nodes, NEW T, NEW far \in Distant, NEW q, NEW p \in Nodes,
         Drivable(s, T, far, q, p), NEW m \in Nodes, far[p] < far[m],
         m = Reverse(p), Leads(T, p, m), NEW t, t = <<m, REVERSE_COMMAND>> \o q
  PROVE  Drivable(s, T, far, t, m)
<1>0. PICK c : c = REVERSE_COMMAND
  OBVIOUS
<1>1. /\ q \in Seq(Signs) /\ Len(q) \in Nat /\ Len(q) >= 1 /\ q[1] = p
      /\ m \in Signs /\ m # c /\ p # c /\ c \in Signs
  BY <1>0, RoutingAssumption DEF Drivable, Signs
<1>2. /\ t \in Seq(Signs) /\ Len(t) = Len(q) + 2
      /\ t[1] = m /\ t[2] = c /\ \A i \in 1 .. Len(q) : t[i + 2] = q[i]
  BY <1>0, <1>1, TwoInFront
<1>3. \A i \in 3 .. Len(t) : i - 2 \in 1 .. Len(q) /\ t[i] = q[i - 2]
  <2>1. \A i \in 3 .. Len(t) : i - 2 \in 1 .. Len(q) /\ (i - 2) + 2 = i
    BY <1>1, <1>2
  <2>2. QED
    BY <1>2, <2>1
<1>4. Len(t) \in 3 .. Len(t) /\ t[Len(t)] = s
  <2>1. Len(t) \in 3 .. Len(t) /\ Len(t) - 2 = Len(q)
    BY <1>1, <1>2
  <2>2. QED
    BY <1>3, <2>1 DEF Drivable
<1>5. \A i \in 1 .. Len(q) : q[i] # c => q[i] \in Nodes /\ far[q[i]] < far[m]
  <2>1. TAKE i \in 1 .. Len(q)
  <2>2. q[i] \in Signs
    BY <1>1
  <2>3. q[i] # c => q[i] \in Nodes /\ far[q[i]] <= far[p]
    BY <1>0, <2>2 DEF Drivable, Signs
  <2>4. q[i] \in Nodes => far[q[i]] \in Int
    BY RoutingAssumption DEF Distant
  <2>5. far[p] \in Int /\ far[m] \in Int
    BY RoutingAssumption DEF Distant
  <2>6. QED
    BY <2>3, <2>4, <2>5
<1>6. far[m] \in Int
  BY RoutingAssumption DEF Distant
<1>7. \A i \in 3 .. Len(t) : t[i] # m
  <2>1. TAKE i \in 3 .. Len(t)
  <2>2. PICK k : k = i - 2
    OBVIOUS
  <2>3. k \in 1 .. Len(q) /\ t[i] = q[k]
    BY <1>3, <2>2
  <2>4. QED
    BY <1>1, <1>5, <1>6, <2>3
<1>8. \A i \in 1 .. Len(t) : i = 1 \/ i = 2 \/ i \in 3 .. Len(t)
  BY <1>1, <1>2
<1>9. ASSUME NEW i \in 1 .. Len(t), NEW j \in 1 .. Len(t), t[i] = t[j], i # j
      PROVE  t[i] = c
  <2>1. CASE i = 2 \/ j = 2
    BY <1>2, <1>9, <2>1
  <2>2. CASE (i = 1 \/ j = 1) /\ i # 2 /\ j # 2
    BY <1>2, <1>7, <1>8, <1>9, <2>2
  <2>3. CASE i \in 3 .. Len(t) /\ j \in 3 .. Len(t)
    <3>1. PICK k, l : k = i - 2 /\ l = j - 2
      OBVIOUS
    <3>2. k \in 1 .. Len(q) /\ t[i] = q[k] /\ l \in 1 .. Len(q) /\ t[j] = q[l] /\ k # l
      BY <1>3, <1>9, <2>3, <3>1
    <3>3. QED
      BY <1>0, <1>9, <3>2 DEF Drivable
  <2>4. QED
    BY <1>8, <2>1, <2>2, <2>3
<1>10. ASSUME NEW i \in 1 .. Len(t), t[i] # c PROVE far[t[i]] <= far[m]
  <2>1. CASE i = 1
    BY <1>2, <1>6, <2>1
  <2>2. CASE i = 2
    BY <1>2, <1>10, <2>2
  <2>3. CASE i \in 3 .. Len(t)
    <3>1. PICK k : k = i - 2
      OBVIOUS
    <3>2. k \in 1 .. Len(q) /\ t[i] = q[k]
      BY <1>3, <2>3, <3>1
    <3>3. q[k] \in Nodes /\ far[q[k]] < far[m]
      BY <1>5, <1>10, <3>2
    <3>4. far[q[k]] \in Int
      BY <3>3, RoutingAssumption DEF Distant
    <3>5. QED
      BY <1>6, <3>2, <3>3, <3>4
  <2>4. QED
    BY <1>8, <2>1, <2>2, <2>3
<1>11. ASSUME NEW i \in 1 .. Len(t) - 1 PROVE Joined(T, t, i)
  <2>0. i = 1 \/ i = 2 \/ i \in 3 .. Len(t)
    BY <1>1, <1>2
  <2>1. CASE i = 1
    <3>1. t[i] = m /\ t[i + 1] = c /\ t[i + 2] = p /\ i + 2 <= Len(t)
      <4>1. 1 \in 1 .. Len(q) /\ 1 + 1 = 2
        BY <1>1
      <4>2. QED
        BY <1>1, <1>2, <2>1, <4>1
    <3>2. p = Reverse(m)
      BY NodesAssumption
    <3>3. QED
      BY <1>0, <1>1, <3>1, <3>2 DEF Joined, Leads
  <2>2. CASE i = 2
    <3>1. t[i] = c /\ t[i + 1] = p
      <4>1. 1 \in 1 .. Len(q) /\ 2 + 1 = 1 + 2
        BY <1>1
      <4>2. QED
        BY <1>1, <1>2, <2>2, <4>1
    <3>2. QED
      BY <1>0, <1>1, <3>1 DEF Joined
  <2>3. CASE i \in 3 .. Len(t)
    <3>1. PICK k : k = i - 2
      OBVIOUS
    <3>2. /\ k \in 1 .. Len(q) - 1 /\ i = k + 2 /\ i + 1 = (k + 1) + 2 /\ i + 2 = (k + 2) + 2
          /\ k \in 1 .. Len(q) /\ k + 1 \in 1 .. Len(q) /\ k + 2 \in Int
      BY <1>1, <1>2, <2>3, <3>1
    <3>3. t[i] = q[k] /\ t[i + 1] = q[k + 1]
      BY <1>2, <3>2
    <3>4. Joined(T, q, k)
      BY <3>2 DEF Drivable
    <3>5. k + 2 <= Len(q) => i + 2 <= Len(t) /\ t[i + 2] = q[k + 2]
      <4>1. k + 2 <= Len(q) => k + 2 \in 1 .. Len(q) /\ i + 2 <= Len(t)
        BY <1>1, <1>2, <3>2
      <4>2. QED
        BY <1>2, <3>2, <4>1
    <3>6. QED
      BY <3>3, <3>4, <3>5 DEF Joined
  <2>4. QED
    BY <2>0, <2>1, <2>2, <2>3
<1>12. Len(t) >= 1
  BY <1>1, <1>2
<1>13. QED
  BY <1>0, <1>2, <1>4, <1>9, <1>10, <1>11, <1>12, ZenonT(30) DEF Drivable

\* What PathTo says of a node, if g says it of the others.
OneNode(s, from, g, m) ==
  IF from[m] = None \/ m = s
  THEN IF m = s THEN <<m>> ELSE << >>
  ELSE (IF from[m] = Reverse(m) THEN <<m, REVERSE_COMMAND>> ELSE <<m>>) \o g[from[m]]

\* g says it of every node up to a distance.
PathsUpTo(s, from, far, g, k) ==
  \A m \in Nodes : far[m] <= k => g[m] = OneNode(s, from, g, m)

\* A path can be found from every node, as the one it was reached from is nearer.
LEMMA PathsExist ==
  ASSUME NEW s \in Nodes, NEW T, NEW far \in Distant, NEW from \in Froms, NEW seen,
         Tree(s, T, far, from, seen)
  PROVE  \A k \in Nat : \E g \in [Nodes -> Seq(Signs)] : PathsUpTo(s, from, far, g, k)
<1> DEFINE K == {k \in Nat : \E g \in [Nodes -> Seq(Signs)] : PathsUpTo(s, from, far, g, k)}
<1>0. \A m \in Nodes : far[m] \in Nat
  BY RoutingAssumption DEF Distant
<1>1. ASSUME NEW k \in Nat, \A j \in 0 .. k - 1 : j \in K PROVE k \in K
  <2>1. PICK g \in [Nodes -> Seq(Signs)] : \A m \in Nodes : far[m] < k => g[m] = OneNode(s, from, g, m)
    <3>1. CASE k = 0
      <4>1. [m \in Nodes |-> << >>] \in [Nodes -> Seq(Signs)]
        OBVIOUS
      <4>2. ASSUME NEW m \in Nodes PROVE ~(far[m] < 0)
        <5>1. far[m] \in Nat
          BY <1>0
        <5>2. QED
          BY <5>1
      <4>3. QED
        BY <3>1, <4>1, <4>2
    <3>2. CASE k # 0
      <4>1. k - 1 \in 0 .. k - 1
        BY <3>2
      <4>2. PICK g \in [Nodes -> Seq(Signs)] : PathsUpTo(s, from, far, g, k - 1)
        BY <1>1, <4>1
      <4>3. \A m \in Nodes : far[m] < k => far[m] <= k - 1
        BY <1>0
      <4>4. QED
        BY <4>2, <4>3 DEF PathsUpTo
    <3>3. QED
      BY <3>1, <3>2
  <2> DEFINE h == [m \in Nodes |-> IF far[m] < k THEN g[m] ELSE OneNode(s, from, g, m)]
  <2>2. ASSUME NEW m \in Nodes PROVE OneNode(s, from, g, m) \in Seq(Signs)
    <3>1. CASE from[m] = None \/ m = s
      <4>1. OneNode(s, from, g, m) = <<m>> \/ OneNode(s, from, g, m) = << >>
        BY <3>1 DEF OneNode
      <4>2. <<m>> \in Seq(Signs) /\ << >> \in Seq(Signs)
        BY DEF Signs
      <4>3. QED
        BY <4>1, <4>2
    <3>2. CASE ~(from[m] = None \/ m = s)
      <4>1. from[m] \in Nodes
        BY <3>2 DEF Froms
      <4>2. g[from[m]] \in Seq(Signs)
        BY <4>1
      <4>3. <<m>> \in Seq(Signs) /\ <<m, REVERSE_COMMAND>> \in Seq(Signs)
        BY DEF Signs
      <4>4. QED
        BY <3>2, <4>2, <4>3 DEF OneNode
    <3>3. QED
      BY <3>1, <3>2
  <2>3. h \in [Nodes -> Seq(Signs)]
    BY <2>2
  <2>4. PathsUpTo(s, from, far, h, k)
    <3> SUFFICES ASSUME NEW m \in Nodes, far[m] <= k PROVE h[m] = OneNode(s, from, h, m)
      BY DEF PathsUpTo
    <3>1. h[m] = OneNode(s, from, g, m)
      BY <2>1
    <3>2. CASE from[m] = None \/ m = s
      BY <3>1, <3>2 DEF OneNode
    <3>3. CASE ~(from[m] = None \/ m = s)
      <4>1. from[m] \in Nodes /\ far[from[m]] < far[m]
        BY <3>3 DEF Froms, Tree
      <4>2. far[from[m]] < k
        BY <1>0, <4>1
      <4>3. h[from[m]] = g[from[m]]
        BY <4>1, <4>2
      <4> HIDE DEF h
      <4>4. QED
        BY <3>1, <3>3, <4>3 DEF OneNode
    <3>4. QED
      BY <3>2, <3>3
  <2> HIDE DEF h
  <2>5. QED
    BY <2>3, <2>4
<1>2. K = Nat
  <2>1. K \in SUBSET Nat
    OBVIOUS
  <2> HIDE DEF K
  <2>2. QED
    BY <1>1, <2>1, StrongInduction
<1>3. QED
  BY <1>2

\* The function that PathTo is defined by exists: its equation holds.
LEMMA PathToRec ==
  ASSUME Tree(start, taken, distance, previous, visited), start \in Nodes,
         distance \in Distant, previous \in Froms
  PROVE  \E g : /\ \A n : PathTo(n) = g[n]
                /\ \A m \in Nodes : g[m] = OneNode(start, previous, g, m)
<1> DEFINE F(f) == [m \in Nodes |->
        IF previous[m] = None \/ m = start
        THEN IF m = start THEN <<m>> ELSE << >>
        ELSE (IF previous[m] = Reverse(m) THEN <<m, REVERSE_COMMAND>> ELSE <<m>>)
             \o f[previous[m]]]
           h == CHOOSE f : f = F(f)
<1>1. PICK w \in [Nodes -> Seq(Signs)] : PathsUpTo(start, previous, distance, w, UNREACHED)
  BY PathsExist, RoutingAssumption
<1>2. \A m \in Nodes : w[m] = OneNode(start, previous, w, m)
  <2>1. \A m \in Nodes : distance[m] <= UNREACHED
    BY RoutingAssumption DEF Distant
  <2>2. QED
    BY <1>1, <2>1 DEF PathsUpTo
<1>3. w = F(w)
  <2>1. \A m \in Nodes : w[m] = F(w)[m]
    BY <1>2 DEF OneNode
  <2>2. w = [m \in Nodes |-> w[m]] /\ F(w) = [m \in Nodes |-> F(w)[m]]
    OBVIOUS
  <2> HIDE DEF F
  <2>3. QED
    BY <2>1, <2>2
<1>4. h = F(h)
  <2> HIDE DEF F
  <2>1. QED
    BY <1>3
<1>5. \A m \in Nodes : h[m] = F(h)[m]
  BY <1>4
<1>6. \A m \in Nodes : F(h)[m] = OneNode(start, previous, h, m)
  <2> HIDE DEF h
  <2>1. QED
    BY DEF OneNode
<1>7. \A n : PathTo(n) = h[n]
  BY DEF PathTo
<1> HIDE DEF F, h
<1>8. QED
  BY <1>5, <1>6, <1>7

\* The paths of what has been reached can be driven.
LEMMA PathsDrivable ==
  ASSUME NEW s \in Nodes, NEW T, NEW far \in Distant, NEW from \in Froms, NEW seen,
         Tree(s, T, far, from, seen),
         NEW g, \A m \in Nodes : g[m] = OneNode(s, from, g, m)
  PROVE  \A m \in Nodes : far[m] < UNREACHED => Drivable(s, T, far, g[m], m)
<1> DEFINE K == {k \in Nat : \A m \in Nodes : far[m] = k /\ far[m] < UNREACHED
                                                => Drivable(s, T, far, g[m], m)}
<1>0. ASSUME NEW m \in Nodes PROVE far[m] \in Nat
  BY RoutingAssumption DEF Distant
<1>1. ASSUME NEW k \in Nat, \A j \in 0 .. k - 1 : j \in K PROVE k \in K
  <2> SUFFICES ASSUME NEW m \in Nodes, far[m] = k, far[m] < UNREACHED
               PROVE Drivable(s, T, far, g[m], m)
    OBVIOUS
  <2>1. CASE m = s
    <3>1. g[m] = <<s>>
      BY <2>1 DEF OneNode
    <3>2. QED
      BY <2>1, <3>1, StartDrivable
  <2>2. CASE m # s
    <3>1. PICK p : p = from[m]
      OBVIOUS
    <3>2. p # None
      BY <2>2, <3>1 DEF Tree
    <3>3. p \in Nodes /\ far[p] < far[m] /\ Leads(T, p, m)
      BY <3>1, <3>2 DEF Tree, Froms
    <3>4. far[p] \in 0 .. k - 1 /\ far[p] < UNREACHED
      <4>1. far[p] \in Nat /\ far[m] \in Nat
        BY <1>0, <3>3
      <4>2. QED
        BY <3>3, <4>1, RoutingAssumption
    <3>5. Drivable(s, T, far, g[p], p)
      BY <1>1, <3>3, <3>4
    <3>6. CASE p = Reverse(m)
      <4>1. g[m] = <<m, REVERSE_COMMAND>> \o g[p]
        BY <2>2, <3>1, <3>2, <3>6 DEF OneNode
      <4>2. m = Reverse(p)
        BY <3>6, NodesAssumption
      <4>3. QED
        BY <3>3, <3>5, <4>1, <4>2, ReversalDrivable
    <3>7. CASE p # Reverse(m)
      <4>1. g[m] = <<m>> \o g[p]
        BY <2>2, <3>1, <3>2, <3>7 DEF OneNode
      <4>2. m # Reverse(p)
        BY <3>3, <3>7, NodesAssumption
      <4>3. QED
        BY <3>3, <3>5, <4>1, <4>2, EdgeDrivable
    <3>8. QED
      BY <3>6, <3>7
  <2>3. QED
    BY <2>1, <2>2
<1>2. K = Nat
  <2>1. K \in SUBSET Nat
    OBVIOUS
  <2> HIDE DEF K
  <2>2. QED
    BY <1>1, <2>1, StrongInduction
<1>3. QED
  BY <1>0, <1>2

\* One sign behind a path.
LEMMA OneBehind ==
  ASSUME NEW S, NEW d \in Seq(S), NEW b \in S
  PROVE  d \o <<b>> \in Seq(S) /\ Len(d \o <<b>>) = Len(d) + 1
OBVIOUS

\* The edges of a node are among its ways.
LEMMA EdgeIsWay ==
  ASSUME NEW n \in Nodes
  PROVE  /\ ~IsExit(n)  /\ WayAhead(n).free  => WayAhead(n)  \in FreeWays(n)
         /\ IsBranch(n) /\ WayCurved(n).free => WayCurved(n) \in FreeWays(n)
<1>1. PICK a, c, b : a = WayAhead(n) /\ c = WayCurved(n) /\ b = WayBack(n)
  OBVIOUS
<1>2. ASSUME ~IsExit(n), a.free PROVE a \in FreeWays(n)
  <2>1. Ways(n) = <<a>> \o (IF IsBranch(n) THEN <<c>> ELSE << >>) \o <<b>>
    BY <1>1, <1>2 DEF Ways
  <2>2. 1 \in DOMAIN Ways(n) /\ Ways(n)[1] = a
    <3>1. CASE IsBranch(n)
      BY <2>1, <3>1
    <3>2. CASE ~IsBranch(n)
      BY <2>1, <3>2
    <3>3. QED
      BY <3>1, <3>2
  <2>3. QED
    BY <1>2, <2>2 DEF FreeWays
<1>3. ASSUME IsBranch(n), c.free PROVE c \in FreeWays(n)
  <2>1. ~IsExit(n)
    BY <1>3 DEF IsBranch, IsExit
  <2>2. Ways(n) = <<a>> \o <<c>> \o <<b>>
    BY <1>1, <1>3, <2>1 DEF Ways
  <2>3. PICK d : d = <<a>> \o <<c>>
    OBVIOUS
  <2>4. PICK S : S = {a, b, c}
    OBVIOUS
  <2>5. <<a>> \in Seq(S) /\ <<c>> \in Seq(S) /\ b \in S
    BY <2>4
  <2>6. d \in Seq(S) /\ Len(d) = 2 /\ d[2] = c
    BY <2>3, <2>5
  <2>7. 2 \in DOMAIN Ways(n) /\ Ways(n)[2] = c
    <3>1. PICK e : e = d \o <<b>>
      OBVIOUS
    <3>2. e \in Seq(S) /\ Len(e) = 3
      <4>1. d \o <<b>> \in Seq(S) /\ Len(d \o <<b>>) = Len(d) + 1
        BY <2>5, <2>6, OneBehind
      <4>2. e \in Seq(S) /\ Len(e) = Len(d) + 1
        BY <3>1, <4>1
      <4>3. QED
        BY <2>6, <4>2
    <3>3. e[2] = d[2]
      BY <2>5, <2>6, <3>1
    <3>4. Ways(n) = e
      BY <2>2, <2>3, <3>1
    <3>5. QED
      BY <2>6, <3>2, <3>3, <3>4
  <2>8. QED
    BY <1>3, <2>7 DEF FreeWays
<1>4. QED
  BY <1>1, <1>2, <1>3

\* A way along an edge is one of the free ways.
LEMMA LeadsIsFree ==
  ASSUME NEW n \in Nodes, NEW m, m # Reverse(n), Leads(taken, n, m)
  PROVE  \E w \in FreeWays(n) : w.to = m
<1>1. CASE ~IsExit(n) /\ m = Dest(<<n, DIR_AHEAD>>) /\ <<n, DIR_AHEAD>> \notin taken
  <2>1. WayAhead(n).free /\ WayAhead(n).to = m
    BY <1>1 DEF WayAhead, EdgeAvailable
  <2>2. QED
    BY <1>1, <2>1, EdgeIsWay
<1>2. CASE IsBranch(n) /\ m = Dest(<<n, DIR_CURVED>>) /\ <<n, DIR_CURVED>> \notin taken
  <2>1. WayCurved(n).free /\ WayCurved(n).to = m
    BY <1>2 DEF WayCurved, EdgeAvailable
  <2>2. QED
    BY <1>2, <2>1, EdgeIsWay
<1>3. QED
  BY <1>1, <1>2 DEF Leads

\* What is said of an answer.
Say(s, e, q) ==
  /\ q[1] = e /\ q[Len(q)] = s
  /\ \A i, j \in DOMAIN q : q[i] = q[j] /\ i # j => q[i] = REVERSE_COMMAND
  /\ \A i \in 1..(Len(q) - 1) :
       IF q[i + 1] = REVERSE_COMMAND
       THEN /\ q[i] # REVERSE_COMMAND /\ q[i + 2] = Reverse(q[i])
            /\ WayBack(q[i + 2]).free
       ELSE q[i] # REVERSE_COMMAND =>
              \E w \in FreeWays(q[i + 1]) : w.to = q[i] /\ q[i] # Reverse(q[i + 1])

\* RouteIsDrivable says it of the answer there is.
LEMMA RouteSays == RouteIsDrivable <=> (state = "answered" /\ path # << >> => Say(start, end, path))
BY DEF RouteIsDrivable, Say

\* It is true of a path that can be driven.
LEMMA DrivableSays ==
  ASSUME NEW s \in Nodes, NEW far, NEW q, NEW e, Drivable(s, taken, far, q, e)
  PROVE  Say(s, e, q)
<1>1. q \in Seq(Signs) /\ DOMAIN q = 1 .. Len(q) /\ Len(q) \in Nat
  BY DEF Drivable
<1>2. ASSUME NEW i \in 1 .. (Len(q) - 1)
      PROVE  IF q[i + 1] = REVERSE_COMMAND
             THEN /\ q[i] # REVERSE_COMMAND /\ q[i + 2] = Reverse(q[i])
                  /\ WayBack(q[i + 2]).free
             ELSE q[i] # REVERSE_COMMAND =>
                    \E w \in FreeWays(q[i + 1]) : w.to = q[i] /\ q[i] # Reverse(q[i + 1])
  <2>1. Joined(taken, q, i)
    BY DEF Drivable
  <2>2. CASE q[i + 1] = REVERSE_COMMAND
    <3>1. <<q[i + 2], DIR_CURVED>> \notin taken
      BY <2>1, <2>2 DEF Joined
    <3>2. WayBack(q[i + 2]).free
      BY <3>1 DEF WayBack, EdgeAvailable
    <3>3. QED
      BY <2>1, <2>2, <3>2 DEF Joined
  <2>3. CASE q[i + 1] # REVERSE_COMMAND /\ q[i] # REVERSE_COMMAND
    <3>1. i + 1 \in 1 .. Len(q)
      BY <1>1
    <3>2. q[i + 1] \in Nodes
      BY <1>1, <2>3, <3>1 DEF Signs
    <3>3. q[i] # Reverse(q[i + 1]) /\ Leads(taken, q[i + 1], q[i])
      BY <2>1, <2>3 DEF Joined
    <3>4. \E w \in FreeWays(q[i + 1]) : w.to = q[i]
      BY <3>2, <3>3, LeadsIsFree
    <3>5. QED
      BY <2>3, <3>3, <3>4
  <2>4. QED
    BY <2>2, <2>3
<1>3. QED
  BY <1>1, <1>2 DEF Drivable, Say

\* The answer is one.
LEMMA PathDrivable ==
  ASSUME Tree(start, taken, distance, previous, visited), start \in Nodes, end \in Nodes,
         distance \in Distant, previous \in Froms, distance[end] < UNREACHED
  PROVE  /\ PathTo(end) \in Seq(Signs)
         /\ Drivable(start, taken, distance, PathTo(end), end)
<1>1. PICK g : /\ \A n : PathTo(n) = g[n]
               /\ \A m \in Nodes : g[m] = OneNode(start, previous, g, m)
  BY PathToRec
<1>2. Drivable(start, taken, distance, PathTo(end), end)
  BY <1>1, PathsDrivable
<1>3. QED
  BY <1>2 DEF Drivable

-----------------------------------------------------------------------------
(* The search as a whole.                                                  *)

\* The heap holds what has been reached while there is something to be marked.
HeapInv(h, far, marking) ==
  \E a, n : /\ a \in Arrays /\ n \in Nat /\ n + 3 <= TRACK_MAX /\ h = HeapOf(a, n)
            /\ marking => HoldsReached(a, n, far)

\* What is always true of a search: what it has reached hangs together, and so does its
\* answer.
SearchInv ==
  /\ start \in Nodes /\ end \in Nodes /\ start \in Sensors /\ end \in Sensors
  /\ BothWays(taken)
  /\ distance \in Distant /\ previous \in Froms /\ visited \in Seens
  /\ HeapInv(heap, distance, state = "marking")
  /\ state \in {"marking", "marked", "answered"}
  /\ state = "marking" => ~visited[end]
  /\ state = "marking" \/ visited[end] => Tree(start, taken, distance, previous, visited)
  /\ visited[end] => distance[end] < UNREACHED
  /\ path \in Seq(Signs) /\ lost \in BOOLEAN /\ turns \in Nat
  /\ state = "answered" /\ path # << >> => Drivable(start, taken, distance, path, end)

\* A search starts with a heap of one node.
LEMMA SearchInitInv == SearchInit /\ HeapFits => SearchInv
<1> SUFFICES ASSUME SearchInit, HeapFits PROVE SearchInv
  OBVIOUS
<1>1. start \in Nodes /\ end \in Nodes /\ start \in Sensors /\ end \in Sensors
  BY DEF SearchInit, Sensors
<1>2. BothWays(taken)
  BY DEF SearchInit, Takings, BothWays
<1>3. distance \in Distant /\ distance[start] = 0
      /\ \A m \in Nodes : distance[m] < UNREACHED => m = start
  <2>1. distance = [n \in Nodes |-> IF n = start THEN 0 ELSE UNREACHED]
    BY DEF SearchInit
  <2>2. 0 \in 0 .. UNREACHED /\ UNREACHED \in 0 .. UNREACHED /\ ~(UNREACHED < UNREACHED)
    BY RoutingAssumption
  <2>3. QED
    BY <1>1, <2>1, <2>2 DEF Distant
<1>4. previous \in Froms /\ (\A m \in Nodes : previous[m] = None) /\ visited \in Seens
      /\ \A m \in Nodes : visited[m] = FALSE
  BY DEF SearchInit, Froms, Seens
<1>5. HeapInv(heap, distance, TRUE)
  <2>1. PICK left \in Leftovers :
          heap = Push([nodes |-> [i \in 0..(TRACK_MAX - 1) |-> left], num_nodes |-> 0],
                      distance, start)
    BY DEF SearchInit
  <2>2. PICK a : a = [i \in 0..(TRACK_MAX - 1) |-> left]
    OBVIOUS
  <2>3. a \in Arrays
    BY <2>2, RoutingAssumption DEF Arrays
  <2>4. heap = Push(HeapOf(a, 0), distance, start)
    BY <2>1, <2>2 DEF HeapOf
  <2>5. 0 + 4 <= TRACK_MAX
    <3>1. CASE 0 = TRACK_MAX
      <4>1. heap = HeapOf(a, 0)
        BY <2>4, <3>1, PushCounts
      <4>2. heap.num_nodes = 0
        BY <4>1 DEF HeapOf
      <4>3. QED
        BY <3>1, <4>2 DEF HeapFits
    <3>2. CASE 0 # TRACK_MAX
      <4>1. PICK b : heap = HeapOf(b, 0 + 1)
        BY <2>4, <3>2, PushCounts
      <4>2. heap.num_nodes = 1
        BY <4>1 DEF HeapOf
      <4>3. QED
        BY <4>2, RoutingAssumption DEF HeapFits
    <3>3. QED
      BY <3>1, <3>2
  <2>6. HoldsReached(a, 0, distance)
    BY DEF HoldsReached
  <2>7. distance[start] < UNREACHED /\ 0 \in 0 .. TRACK_MAX
    BY <1>3, RoutingAssumption
  <2>8. PICK b \in Arrays : heap = HeapOf(b, 0 + 1) /\ HoldsReached(b, 0 + 1, distance)
    BY <1>1, <1>3, <2>3, <2>4, <2>5, <2>6, <2>7, PushOK
  <2>9. 0 + 1 \in Nat /\ (0 + 1) + 3 <= TRACK_MAX
    BY <2>5
  <2>10. QED
    BY <2>8, <2>9 DEF HeapInv
<1>6. Tree(start, taken, distance, previous, visited)
  BY <1>3, <1>4 DEF Tree
<1>7. state = "marking" /\ path = << >> /\ path \in Seq(Signs) /\ lost \in BOOLEAN /\ turns \in Nat
  <2>1. state = "marking" /\ path = << >> /\ lost = FALSE /\ turns = 0
    BY DEF SearchInit
  <2>2. << >> \in Seq(Signs)
    OBVIOUS
  <2>3. QED
    BY <2>1, <2>2
<1>8. ~visited[end]
  BY <1>1, <1>4
<1>9. HeapInv(heap, distance, state = "marking")
  BY <1>5, <1>7 DEF HeapInv
<1>10. QED
  BY <1>1, <1>2, <1>3, <1>4, <1>6, <1>7, <1>8, <1>9 DEF SearchInv

\* More nodes visited make no difference to it.
LEMMA TreeSeen ==
  ASSUME NEW s, NEW T, NEW far, NEW from \in Froms, NEW seen, Tree(s, T, far, from, seen),
         NEW more, \A m \in Nodes : seen[m] = TRUE => more[m] = TRUE
  PROVE  Tree(s, T, far, from, more)
<1>1. ASSUME NEW m \in Nodes, from[m] # None
      PROVE  more[from[m]] = TRUE /\ far[from[m]] < far[m] /\ Leads(T, from[m], m)
  BY <1>1 DEF Tree, Froms
<1>2. QED
  BY <1>1 DEF Tree

\* What there is before a turn.
LEMMA TurnStarts ==
  ASSUME SearchInv, state = "marking", heap.num_nodes > 0
  PROVE  /\ Top(heap) \in Nodes /\ distance[Top(heap)] < UNREACHED
         /\ \E b \in Arrays, k \in Nat : k + 3 <= TRACK_MAX /\ Pop(heap, distance) = HeapOf(b, k)
                                         /\ HoldsReached(b, k, distance)
<1>1. PICK a, n : /\ a \in Arrays /\ n \in Nat /\ n + 3 <= TRACK_MAX /\ heap = HeapOf(a, n)
                  /\ HoldsReached(a, n, distance)
  BY DEF SearchInv, HeapInv
<1>2. heap.num_nodes = n /\ heap.nodes = a
  BY <1>1 DEF HeapOf
<1>3. n \in Nat \ {0} /\ n + 2 <= TRACK_MAX /\ 0 \in 0 .. n - 1 /\ 0 \in 0 .. TRACK_MAX - 1
      /\ n - 1 \in Nat /\ (n - 1) + 3 <= TRACK_MAX
  BY <1>1, <1>2, RoutingAssumption
<1>4. Top(heap) = a[0]
  BY <1>2 DEF Top
<1>5. a[0] \in Nodes /\ distance[a[0]] < UNREACHED
  BY <1>1, <1>3 DEF Arrays, HoldsReached
<1>6. distance \in Distant
  BY DEF SearchInv
<1>7. PICK b \in Arrays : Pop(heap, distance) = HeapOf(b, n - 1) /\ HoldsReached(b, n - 1, distance)
  BY <1>1, <1>3, <1>6, PopOK
<1>8. PICK k : k = n - 1
  OBVIOUS
<1>9. QED
  BY <1>3, <1>4, <1>5, <1>7, <1>8

\* A turn that visits the end, or offers its neighbours a shorter way.
LEMMA ExploreInv == SearchInv /\ Explore /\ HeapFits' => SearchInv'
<1> SUFFICES ASSUME SearchInv, Explore, HeapFits' PROVE SearchInv'
  OBVIOUS
<1>1. PICK v : v = Top(heap)
  OBVIOUS
<1>2. PICK seen : seen = [visited EXCEPT ![v] = TRUE]
  OBVIOUS
<1>3. PICK r : r = [distance |-> distance, heap |-> Pop(heap, distance), previous |-> previous]
  OBVIOUS
<1>4. state = "marking" /\ heap.num_nodes > 0
  BY DEF Explore
<1>5. PICK b, k : /\ b \in Arrays /\ k \in Nat /\ k + 3 <= TRACK_MAX
                  /\ Pop(heap, distance) = HeapOf(b, k) /\ HoldsReached(b, k, distance)
  BY <1>4, TurnStarts
<1>6. v \in Nodes /\ distance[v] < UNREACHED
  BY <1>1, <1>4, TurnStarts
<1>7. /\ start \in Nodes /\ end \in Nodes /\ start \in Sensors /\ end \in Sensors
      /\ BothWays(taken) /\ distance \in Distant /\ previous \in Froms /\ visited \in Seens
      /\ visited[end] = FALSE
      /\ Tree(start, taken, distance, previous, visited)
      /\ path \in Seq(Signs) /\ lost \in BOOLEAN /\ turns \in Nat
  <2>1. visited[end] \in BOOLEAN
    BY DEF SearchInv, Seens
  <2>2. QED
    BY <1>4, <2>1 DEF SearchInv
<1>8. /\ seen \in Seens /\ seen[v] = TRUE
      /\ \A m \in Nodes : visited[m] = TRUE => seen[m] = TRUE
      /\ v # end => seen[end] = FALSE
  BY <1>2, <1>6, <1>7 DEF Seens
<1>9. Tree(start, taken, distance, previous, seen)
  BY <1>7, <1>8, TreeSeen
<1>10. r = Marks(distance, HeapOf(b, k), previous)
  BY <1>3, <1>5 DEF Marks
<1>11. MarksOK(start, taken, r, seen)
  BY <1>5, <1>7, <1>9, <1>10 DEF MarksOK
<1>12. /\ visited' = seen /\ start' = start /\ end' = end /\ taken' = taken /\ path' = path
       /\ turns' = turns + 1 /\ lost' \in BOOLEAN
       /\ state' = IF v = end THEN "marked" ELSE "marking"
  BY <1>1, <1>2 DEF Explore
<1>13. PICK ahead, curved, new :
         /\ ahead  = IF v = end THEN r ELSE RelaxAhead(r, v, seen)
         /\ curved = IF v = end THEN r ELSE RelaxCurved(ahead, v, seen)
         /\ new    = IF v = end THEN r ELSE RelaxBack(curved, v, seen)
         /\ heap' = new.heap /\ distance' = new.distance /\ previous' = new.previous
  BY <1>1, <1>2, <1>3 DEF Explore
<1>14. MarksOK(start, taken, new, seen)
  <2>1. CASE v = end
    BY <1>11, <1>13, <2>1
  <2>2. CASE v # end
    <3>1. /\ ahead = RelaxAhead(r, v, seen) /\ curved = RelaxCurved(ahead, v, seen)
          /\ new = RelaxBack(curved, v, seen)
      BY <1>13, <2>2
    <3>2. new.heap.num_nodes <= TRACK_MAX - 3
      BY <1>13 DEF HeapFits
    <3>3. QED
      BY <1>6, <1>7, <1>8, <1>11, <3>1, <3>2, RelaxesOK
  <2>3. QED
    BY <2>1, <2>2
<1>15. PICK far, a, n, from :
        /\ far \in Distant /\ a \in Arrays /\ n \in Nat /\ from \in Froms
        /\ new = Marks(far, HeapOf(a, n), from)
        /\ n + 3 <= TRACK_MAX
        /\ HoldsReached(a, n, far)
        /\ Tree(start, taken, far, from, seen)
  BY <1>14 DEF MarksOK
<1>16. distance' = far /\ previous' = from /\ heap' = HeapOf(a, n)
  BY <1>13, <1>15, MarksFields
<1>17. HeapInv(heap', distance', state' = "marking")
  BY <1>15, <1>16 DEF HeapInv
<1>18. visited'[end'] => distance'[end'] < UNREACHED
  <2>1. CASE v = end
    <3>1. new.distance = distance
      BY <1>3, <1>13, <2>1
    <3>2. QED
      BY <1>6, <1>12, <1>13, <2>1, <3>1
  <2>2. CASE v # end
    BY <1>8, <1>12, <2>2
  <2>3. QED
    BY <2>1, <2>2
<1>19. state' = "marking" => ~visited'[end']
  BY <1>8, <1>12
<1>20. Tree(start', taken', distance', previous', visited')
  BY <1>12, <1>15, <1>16
<1>21. state' \in {"marking", "marked", "answered"} /\ state' # "answered" /\ turns' \in Nat
  BY <1>7, <1>12
<1>22. start' \in Sensors /\ end' \in Sensors
  BY <1>7, <1>12 DEF Sensors
<1>23. QED
  BY <1>7, <1>8, <1>12, <1>15, <1>16, <1>17, <1>18, <1>19, <1>20, <1>21, <1>22 DEF SearchInv

\* A search without a result.
LEMMA GiveUpInv == SearchInv /\ GiveUp => SearchInv'
<1> SUFFICES ASSUME SearchInv, GiveUp PROVE SearchInv'
  OBVIOUS
<1>1. /\ start' = start /\ end' = end /\ taken' = taken /\ path' = path /\ heap' = heap
      /\ turns' = turns /\ lost' = lost /\ previous' = previous
      /\ state = "marking" /\ state' = "marked"
      /\ distance' = [distance EXCEPT ![start] = UNREACHED]
      /\ visited' = [visited EXCEPT ![end] = FALSE]
  BY DEF GiveUp
<1>2. /\ start \in Nodes /\ end \in Nodes /\ start \in Sensors /\ end \in Sensors
      /\ BothWays(taken) /\ distance \in Distant /\ previous \in Froms /\ visited \in Seens
      /\ path \in Seq(Signs) /\ lost \in BOOLEAN /\ turns \in Nat
      /\ HeapInv(heap, distance, TRUE)
  BY <1>1 DEF SearchInv, HeapInv
<1>3. distance' \in Distant
  BY <1>1, <1>2, RoutingAssumption DEF Distant
<1>4. visited' \in Seens /\ visited'[end'] = FALSE
  BY <1>1, <1>2 DEF Seens
<1>5. HeapInv(heap', distance', state' = "marking")
  BY <1>1, <1>2 DEF HeapInv
<1>6. start' \in Sensors /\ end' \in Sensors
  BY <1>1, <1>2 DEF Sensors
<1>7. QED
  BY <1>1, <1>2, <1>3, <1>4, <1>5, <1>6 DEF SearchInv

\* The answer.
LEMMA AnswerInvOK == SearchInv /\ Answer => SearchInv'
<1> SUFFICES ASSUME SearchInv, Answer PROVE SearchInv'
  OBVIOUS
<1>1. /\ start' = start /\ end' = end /\ taken' = taken /\ heap' = heap /\ distance' = distance
      /\ turns' = turns /\ lost' = lost /\ previous' = previous /\ visited' = visited
      /\ state = "marked" /\ state' = "answered"
      /\ path' = IF visited[end] THEN PathTo(end) ELSE << >>
  BY DEF Answer
<1>2. /\ start \in Nodes /\ end \in Nodes /\ start \in Sensors /\ end \in Sensors
      /\ BothWays(taken) /\ distance \in Distant /\ previous \in Froms /\ visited \in Seens
      /\ lost \in BOOLEAN /\ turns \in Nat
      /\ HeapInv(heap, distance, FALSE)
      /\ visited[end] => Tree(start, taken, distance, previous, visited) /\ distance[end] < UNREACHED
  BY <1>1 DEF SearchInv, HeapInv
<1>3. HeapInv(heap', distance', state' = "marking")
  BY <1>1, <1>2 DEF HeapInv
<1>4. path' \in Seq(Signs) /\ (path' # << >> => Drivable(start, taken, distance, path', end))
  <2>1. CASE visited[end]
    BY <1>1, <1>2, <2>1, PathDrivable
  <2>2. CASE ~visited[end]
    BY <1>1, <2>2
  <2>3. QED
    BY <2>1, <2>2
<1>5. start' \in Sensors /\ end' \in Sensors
  BY <1>1, <1>2 DEF Sensors
<1>6. QED
  BY <1>1, <1>2, <1>3, <1>4, <1>5 DEF SearchInv

\* The search is as it was.
LEMMA SearchUntouched == SearchInv /\ UNCHANGED searchVars => SearchInv'
<1> SUFFICES ASSUME SearchInv, UNCHANGED searchVars PROVE SearchInv'
  OBVIOUS
<1>1. /\ start' = start /\ end' = end /\ taken' = taken /\ path' = path /\ heap' = heap
      /\ turns' = turns /\ lost' = lost /\ previous' = previous /\ distance' = distance
      /\ visited' = visited /\ state' = state
  BY DEF searchVars
<1>2. start' \in Sensors /\ end' \in Sensors
  BY <1>1 DEF SearchInv, Sensors
<1>3. HeapInv(heap', distance', state' = "marking")
  BY <1>1 DEF SearchInv
<1>4. QED
  BY <1>1, <1>2, <1>3 DEF SearchInv

\* Every step, as long as the heap does not outgrow its array.
LEMMA SearchStepInv == SearchInv /\ HeapFits' /\ [QueriesNext]_queryVars => SearchInv'
<1> SUFFICES ASSUME SearchInv, HeapFits', [QueriesNext]_queryVars PROVE SearchInv'
  OBVIOUS
<1>1. CASE SearchTurn
  BY <1>1, ExploreInv, GiveUpInv, AnswerInvOK DEF SearchTurn
<1>2. CASE UNCHANGED searchVars
  BY <1>2, SearchUntouched
<1>3. CASE Done
  BY <1>3, SearchUntouched DEF Done, queryVars
<1>4. CASE UNCHANGED queryVars
  BY <1>4, SearchUntouched DEF queryVars
<1>5. QED
  BY <1>1, <1>2, <1>3, <1>4 DEF QueriesNext

\* What is to be shown of it.
LEMMA SearchInvSays == SearchInv /\ HeapFits => HeapHoldsReached /\ RouteIsDrivable
<1> SUFFICES ASSUME SearchInv, HeapFits PROVE HeapHoldsReached /\ RouteIsDrivable
  OBVIOUS
<1>1. PICK a, n : /\ a \in Arrays /\ n \in Nat /\ n + 3 <= TRACK_MAX /\ heap = HeapOf(a, n)
                  /\ state = "marking" => HoldsReached(a, n, distance)
  BY DEF SearchInv, HeapInv
<1>2. heap.nodes = a /\ heap.num_nodes = n
  BY <1>1 DEF HeapOf
<1>3. SearchTypeOK
  <2>1. heap.nodes \in [0..(TRACK_MAX - 1) -> Nodes] /\ heap.num_nodes \in 0..TRACK_MAX
    BY <1>1, <1>2, RoutingAssumption DEF Arrays
  <2>2. taken \subseteq Edges
    BY DEF SearchInv, BothWays
  <2>3. QED
    BY <2>1, <2>2 DEF SearchInv, SearchTypeOK, Distant, Froms, Seens, Signs
<1>4. ASSUME state = "marking", NEW m \in InHeap(heap) PROVE distance[m] < UNREACHED
  <2>1. PICK i \in 0 .. n - 1 : m = a[i]
    BY <1>2, <1>4 DEF InHeap
  <2>2. QED
    BY <1>1, <1>4, <2>1 DEF HoldsReached
<1>5. RouteIsDrivable
  <2>1. state = "answered" /\ path # << >> => Say(start, end, path)
    BY DrivableSays DEF SearchInv
  <2>2. QED
    BY <2>1, RouteSays
<1>6. QED
  BY <1>3, <1>4, <1>5 DEF HeapHoldsReached

\* As long as a search's heap fits its array - on every run it does - the heap holds
\* reached nodes alone while there is something to be marked, whatever was in its slots:
\* no node is visited at the greatest distance, from which a sum would overflow
\* (routing.c's mark_path, heap.c).
THEOREM SearchHoldsReached == QueriesSpec /\ []HeapFits => []HeapHoldsReached
<1>1. QueriesInit /\ HeapFits => SearchInv
  BY SearchInitInv DEF QueriesInit
<1>2. QED
  BY <1>1, SearchStepInv, SearchInvSays, PTL DEF QueriesSpec

\* Under the same condition, every route that is found can be driven: on rails no other
\* train has taken, from the start to the end, no node twice, a command to reverse
\* wherever it goes on as the node's reverse (routing.c, TRACK_OP_ROUTE in track_server.c).
THEOREM RoutesCanBeDriven == QueriesSpec /\ []HeapFits => []RouteIsDrivable
<1>1. QueriesInit /\ HeapFits => SearchInv
  BY SearchInitInv DEF QueriesInit
<1>2. QED
  BY <1>1, SearchStepInv, SearchInvSays, PTL DEF QueriesSpec

-----------------------------------------------------------------------------
(* The heap's order, as long as no node is lost.                           *)

\* What the first n slots hold.
Holds(a, n) == {a[z] : z \in 0 .. n - 1}

\* None of it is there twice.
Single(a, n) == \A y, z \in 0 .. n - 1 : a[y] = a[z] => y = z

\* No node is nearer than the one above it.
InOrder(a, n, far) == \A y \in 0 .. n - 1 : far[a[Parent(y)]] <= far[a[y]]

\* Only the node at slot i may be; those below it are no nearer than the one above it.
UpOrder(a, n, far, i) ==
  \A y \in 0 .. n - 1 :
    /\ y # i => far[a[Parent(y)]] <= far[a[y]]
    /\ Parent(y) = i => far[a[Parent(i)]] <= far[a[y]]

\* Only those below slot i may be; they are no nearer than the one above it.
DownOrder(a, n, far, i) ==
  \A y \in 0 .. n - 1 :
    /\ Parent(y) # i => far[a[Parent(y)]] <= far[a[y]]
    /\ Parent(y) = i /\ i # 0 => far[a[Parent(i)]] <= far[a[y]]

\* What it means to be held.
LEMMA HoldsHas ==
  ASSUME NEW a, NEW n, NEW x
  PROVE  x \in Holds(a, n) <=> \E z \in 0 .. n - 1 : a[z] = x
BY DEF Holds

\* Two slots of the heap change places.
LEMMA SwapHolds ==
  ASSUME NEW n \in 0 .. TRACK_MAX, NEW a \in Arrays, NEW x \in 0 .. n - 1, NEW y \in 0 .. n - 1
  PROVE  /\ Holds(Swap(a, x, y), n) = Holds(a, n)
         /\ Single(a, n) => Single(Swap(a, x, y), n)
<1> DEFINE b == Swap(a, x, y)
<1>1. /\ b[x] = a[y] /\ b[y] = a[x]
      /\ \A z \in 0 .. n - 1 : z # x /\ z # y => b[z] = a[z]
  BY SwapOK, RoutingAssumption
<1> HIDE DEF b
<1>2. ASSUME NEW w PROVE w \in Holds(b, n) <=> w \in Holds(a, n)
  <2>1. ASSUME NEW z \in 0 .. n - 1, b[z] = w PROVE \E u \in 0 .. n - 1 : a[u] = w
    BY <1>1, <2>1
  <2>2. ASSUME NEW z \in 0 .. n - 1, a[z] = w PROVE \E u \in 0 .. n - 1 : b[u] = w
    BY <1>1, <2>2
  <2>3. QED
    BY <2>1, <2>2, HoldsHas
<1>3. Holds(b, n) = Holds(a, n)
  BY <1>2
<1>4. ASSUME Single(a, n) PROVE Single(b, n)
  <2> SUFFICES ASSUME NEW u \in 0 .. n - 1, NEW z \in 0 .. n - 1, b[u] = b[z] PROVE u = z
    BY DEF Single
  <2>1. \A p, q \in 0 .. n - 1 : a[p] = a[q] => p = q
    BY <1>4 DEF Single
  <2>2. QED
    BY <1>1, <2>1
<1>5. QED
  BY <1>3, <1>4 DEF b

\* Where bubble_up can be that has nothing but the node at hand to put in order.
UpPlaces(S, n, far) ==
  {at \in [nodes : Arrays, i : 0 .. TRACK_MAX - 1] :
     /\ at.i < n /\ Holds(at.nodes, n) = S /\ Single(at.nodes, n)
     /\ UpOrder(at.nodes, n, far, at.i)}

\* The node above is before the one below it, but for the first.
LEMMA ParentIs ==
  ASSUME NEW x \in Nat
  PROVE  /\ Parent(x) \in 0 .. x /\ Parent(x) \in Nat /\ (x # 0 => Parent(x) < x)
         /\ Parent(0) = 0
         /\ \A y \in Nat : y # 0 => (Parent(y) = x <=> y = Left(x) \/ y = Right(x))
BY DEF Parent, Left, Right

\* A turn of bubble_up.
LEMMA UpFromOrder ==
  ASSUME NEW S, NEW n \in 0 .. TRACK_MAX, NEW far \in Distant, NEW at \in UpPlaces(S, n, far)
  PROVE  \/ /\ UpFrom(far, at) = at /\ InOrder(at.nodes, n, far)
         \/ /\ UpFrom(far, at) \in UpPlaces(S, n, far) /\ UpFrom(far, at).i < at.i
<1>1. PICK a \in Arrays, x \in 0 .. TRACK_MAX - 1 : at = [nodes |-> a, i |-> x]
  BY DEF UpPlaces
<1>2. /\ at.nodes = a /\ at.i = x /\ x \in 0 .. n - 1
      /\ Holds(a, n) = S /\ Single(a, n) /\ UpOrder(a, n, far, x)
  BY <1>1, RoutingAssumption DEF UpPlaces
<1>3. PICK p : p = Parent(x)
  OBVIOUS
<1>4. p \in 0 .. x /\ p \in 0 .. n - 1 /\ (x # 0 => p < x) /\ (x = 0 => p = 0)
  BY <1>2, <1>3, ParentIs, RoutingAssumption
<1>5. \A z \in 0 .. n - 1 : far[a[z]] \in Nat
  BY RoutingAssumption DEF Arrays, Distant
<1>6. CASE ~(far[a[p]] > far[a[x]])
  <2>1. UpFrom(far, at) = at
    BY <1>2, <1>3, <1>6 DEF UpFrom, Greater
  <2>2. InOrder(a, n, far)
    BY <1>2, <1>3, <1>4, <1>5, <1>6 DEF UpOrder, InOrder
  <2>3. QED
    BY <1>2, <2>1, <2>2
<1>7. CASE far[a[p]] > far[a[x]]
  <2>1. x # 0 /\ p < x
    BY <1>4, <1>5, <1>7
  <2> DEFINE b == Swap(a, p, x)
  <2>2. UpFrom(far, at) = [nodes |-> b, i |-> p]
    BY <1>2, <1>3, <1>7 DEF UpFrom, Greater
  <2>3. /\ b \in Arrays /\ b[p] = a[x] /\ b[x] = a[p]
        /\ \A z \in 0 .. n - 1 : z # p /\ z # x => b[z] = a[z]
    BY <1>4, SwapOK, RoutingAssumption
  <2>4. Holds(b, n) = S /\ Single(b, n)
    BY <1>2, <1>4, SwapHolds
  <2> HIDE DEF b
  <2>5. UpOrder(b, n, far, p)
    <3> SUFFICES ASSUME NEW y \in 0 .. n - 1
                 PROVE  /\ y # p => far[b[Parent(y)]] <= far[b[y]]
                        /\ Parent(y) = p => far[b[Parent(p)]] <= far[b[y]]
      BY DEF UpOrder
    <3>1. PICK q : q = Parent(y)
      OBVIOUS
    <3>2. q \in 0 .. n - 1 /\ (y # 0 => q < y) /\ (y = 0 => q = 0)
      BY <3>1, ParentIs
    <3>3. PICK o : o = Parent(p)
      OBVIOUS
    <3>4. o \in 0 .. n - 1 /\ (p # 0 => o < p) /\ (p = 0 => o = 0)
      BY <1>4, <3>3, ParentIs
    <3>5. /\ y # x => far[a[q]] <= far[a[y]]
          /\ q = x => far[a[p]] <= far[a[y]]
          /\ p # x => far[a[o]] <= far[a[p]]
      BY <1>2, <1>3, <1>4, <3>1, <3>3 DEF UpOrder
    <3>6. ASSUME y # p PROVE far[b[q]] <= far[b[y]]
      <4>1. CASE y = x
        BY <1>3, <1>4, <1>5, <1>7, <2>3, <3>1, <4>1
      <4>2. CASE y # x /\ q = x
        BY <1>2, <2>3, <3>5, <3>6, <4>2
      <4>3. CASE y # x /\ q = p
        BY <1>2, <1>4, <1>5, <1>7, <2>3, <3>5, <3>6, <4>3
      <4>4. CASE y # x /\ q # x /\ q # p
        BY <2>3, <3>2, <3>5, <3>6, <4>4
      <4>5. QED
        BY <4>1, <4>2, <4>3, <4>4
    <3>7. ASSUME q = p PROVE far[b[o]] <= far[b[y]]
      <4>1. CASE p = 0
        <5>1. o = p
          BY <3>4, <4>1
        <5>2. CASE y = p
          BY <1>4, <1>5, <2>3, <5>1, <5>2, <1>2
        <5>3. CASE y # p
          BY <3>6, <3>7, <5>1, <5>3
        <5>4. QED
          BY <5>2, <5>3
      <4>2. CASE p # 0
        <5>1. o # p /\ o # x /\ b[o] = a[o] /\ far[a[o]] <= far[a[p]]
          <6>1. o < p /\ p < x /\ o \in Nat /\ p \in Nat /\ x \in Nat
            BY <1>2, <1>4, <2>1, <3>4, <4>2
          <6>2. o # p /\ o # x /\ p # x
            BY <6>1
          <6>3. QED
            BY <2>3, <3>4, <3>5, <6>2
        <5>2. y # p
          BY <3>1, <3>2, <3>7, <4>2, <1>4
        <5>3. CASE y = x
          BY <2>3, <5>1, <5>3
        <5>4. CASE y # x
          BY <1>4, <1>5, <2>3, <3>4, <3>5, <3>7, <5>1, <5>2, <5>4
        <5>5. QED
          BY <5>3, <5>4
      <4>3. QED
        BY <4>1, <4>2
    <3>8. QED
      BY <3>1, <3>3, <3>6, <3>7
  <2>6. [nodes |-> b, i |-> p] \in UpPlaces(S, n, far)
    BY <1>4, <2>3, <2>4, <2>5, RoutingAssumption DEF UpPlaces
  <2>7. QED
    BY <1>2, <2>1, <2>2, <2>6
<1>8. QED
  BY <1>6, <1>7, <1>5, <1>4

\* bubble_up puts the heap in order, if only the node at hand is out of it.
LEMMA BubbleUpOrder ==
  ASSUME NEW n \in 0 .. TRACK_MAX, NEW far \in Distant, NEW a \in Arrays, NEW num,
         NEW index \in 0 .. n - 1, Single(a, n), UpOrder(a, n, far, index)
  PROVE  \E b \in Arrays :
           /\ BubbleUp(HeapOf(a, num), far, index) = HeapOf(b, num)
           /\ Holds(b, n) = Holds(a, n) /\ Single(b, n) /\ InOrder(b, n, far)
<1> DEFINE S == Holds(a, n)
           P == UpPlaces(S, n, far)
           Finished(at) == UpFrom(far, at) = at /\ InOrder(at.nodes, n, far)
<1>0. index \in Nat /\ index \in 0 .. TRACK_MAX - 1 /\ index < n
  BY RoutingAssumption
<1>1. [nodes |-> a, i |-> index] \in P
  BY <1>0 DEF UpPlaces
<1>2. ASSUME NEW at \in P
      PROVE  /\ UpFrom(far, at) \in P /\ at.nodes \in Arrays /\ at.i \in Nat
             /\ Holds(at.nodes, n) = S /\ Single(at.nodes, n)
             /\ Finished(at) \/ UpFrom(far, at).i < at.i
  <2>1. /\ at.nodes \in Arrays /\ at.i \in 0 .. TRACK_MAX - 1
        /\ Holds(at.nodes, n) = S /\ Single(at.nodes, n)
    BY DEF UpPlaces
  <2> HIDE DEF S
  <2>2. UpFrom(far, at) \in P /\ (Finished(at) \/ UpFrom(far, at).i < at.i)
    BY UpFromOrder
  <2> HIDE DEF P, Finished
  <2>3. QED
    BY <2>1, <2>2
<1>a. \A at \in P : UpFrom(far, at) \in P
  <2> HIDE DEF Finished, P
  <2>1. QED
    BY <1>2
<1> HIDE DEF S, P
<1>b. PICK w : UpRun(far, a, num, index, P, w)
  BY <1>0, <1>1, <1>a, UpTurns
<1>3. /\ w \in [0 .. index -> P]
      /\ w[0] = [nodes |-> a, i |-> index]
      /\ \A k \in 1 .. index : w[k] = UpFrom(far, w[k - 1])
      /\ BubbleUp(HeapOf(a, num), far, index) = HeapOf(w[index].nodes, num)
  BY <1>b DEF UpRun
\* After k turns the node has come up k slots, or all is in order.
<1>4. Finished(w[index])
  <2> DEFINE T == {k \in Nat : k \in 0 .. index => Finished(w[k]) \/ w[k].i <= index - k}
  <2>1. ASSUME NEW k \in Nat, \A j \in 0 .. k - 1 : j \in T PROVE k \in T
    <3> SUFFICES ASSUME k \in 0 .. index PROVE Finished(w[k]) \/ w[k].i <= index - k
      OBVIOUS
    <3>1. CASE k = 0
      BY <1>0, <1>3, <3>1
    <3>2. CASE k # 0
      <4>1. k - 1 \in 0 .. k - 1 /\ k - 1 \in 0 .. index /\ k \in 1 .. index
        BY <3>2
      <4>2. w[k] = UpFrom(far, w[k - 1]) /\ w[k] \in P /\ w[k - 1] \in P
        BY <1>3, <4>1
      <4>3. Finished(w[k - 1]) \/ w[k - 1].i <= index - (k - 1)
        BY <2>1, <4>1
      <4>4. CASE Finished(w[k - 1])
        BY <4>2, <4>4
      <4>5. CASE ~Finished(w[k - 1])
        <5>1. w[k].i < w[k - 1].i /\ w[k].i \in Nat /\ w[k - 1].i \in Nat
          BY <1>2, <4>2, <4>5
        <5>2. w[k - 1].i <= index - (k - 1)
          BY <4>3, <4>5
        <5> HIDE DEF Finished
        <5>3. QED
          BY <1>0, <5>1, <5>2
      <4>6. QED
        BY <4>4, <4>5
    <3>3. QED
      BY <3>1, <3>2
  <2>2. T = Nat
    <3>1. T \in SUBSET Nat
      OBVIOUS
    <3> HIDE DEF T
    <3>2. QED
      BY <2>1, <3>1, StrongInduction
  <2>3. Finished(w[index]) \/ w[index].i <= index - index
    BY <1>0, <2>2
  <2>4. w[index] \in P
    BY <1>0, <1>3
  <2>5. Finished(w[index]) \/ UpFrom(far, w[index]).i < w[index].i
    BY <1>2, <2>4
  <2>6. UpFrom(far, w[index]).i \in Nat /\ w[index].i \in Nat
    BY <1>2, <2>4
  <2> HIDE DEF T, Finished
  <2>7. QED
    BY <1>0, <2>3, <2>5, <2>6
<1>5. w[index] \in P
  BY <1>0, <1>3
<1>6. /\ w[index].nodes \in Arrays /\ Holds(w[index].nodes, n) = S /\ Single(w[index].nodes, n)
  BY <1>2, <1>5
<1>7. QED
  BY <1>3, <1>4, <1>6 DEF S

\* In any case it keeps the nodes.
LEMMA BubbleUpHolds ==
  ASSUME NEW n \in 0 .. TRACK_MAX, NEW far \in Distant, NEW a \in Arrays, NEW num,
         NEW index \in 0 .. n - 1
  PROVE  \E b \in Arrays :
           BubbleUp(HeapOf(a, num), far, index) = HeapOf(b, num) /\ Holds(b, n) = Holds(a, n)
<1> DEFINE S == Holds(a, n)
           D == {at \in [nodes : Arrays, i : 0 .. TRACK_MAX - 1] :
                   at.i < n /\ Holds(at.nodes, n) = S}
<1>0. index \in Nat /\ index \in 0 .. TRACK_MAX - 1 /\ index < n
  BY RoutingAssumption
<1>1. [nodes |-> a, i |-> index] \in D
  BY <1>0
<1>2. ASSUME NEW at \in D PROVE UpFrom(far, at) \in D
  <2>1. PICK c \in Arrays, x \in 0 .. TRACK_MAX - 1 : at = [nodes |-> c, i |-> x]
    OBVIOUS
  <2>2. c = at.nodes /\ x = at.i /\ x \in 0 .. n - 1 /\ Holds(c, n) = S
    BY <2>1, RoutingAssumption
  <2>3. PICK p : p = Parent(x)
    OBVIOUS
  <2>4. p \in 0 .. n - 1 /\ p \in 0 .. TRACK_MAX - 1 /\ p < n
    BY <2>2, <2>3, ParentIs, RoutingAssumption
  <2>5. PICK d : d = Swap(c, p, x)
    OBVIOUS
  <2>6. d \in Arrays /\ Holds(d, n) = S
    BY <2>2, <2>4, <2>5, SwapHolds, SwapOK
  <2>7. UpFrom(far, at) = at \/ UpFrom(far, at) = [nodes |-> d, i |-> p]
    BY <2>2, <2>3, <2>5 DEF UpFrom
  <2> HIDE DEF S
  <2>8. [nodes |-> d, i |-> p] \in D
    BY <2>4, <2>6
  <2>9. QED
    BY <2>7, <2>8
<1> HIDE DEF S, D
<1>3. PICK w : UpRun(far, a, num, index, D, w)
  BY <1>0, <1>1, <1>2, UpTurns
<1>4. w[index] \in D /\ BubbleUp(HeapOf(a, num), far, index) = HeapOf(w[index].nodes, num)
  BY <1>0, <1>3 DEF UpRun
<1>5. w[index].nodes \in Arrays /\ Holds(w[index].nodes, n) = S
  BY <1>4 DEF D
<1>6. QED
  BY <1>4, <1>5 DEF S

\* Where bubble_down can be: within the heap, with nothing but the node at hand to put in
\* order, or past its end, with a node lost.
DownPlaces(S, n, far) ==
  {at \in [nodes : Arrays, i : 0 .. TRACK_MAX - 1] :
     \/ /\ at.i < n /\ Holds(at.nodes, n) = S /\ Single(at.nodes, n)
        /\ DownOrder(at.nodes, n, far, at.i)
     \/ at.i >= n /\ \E x \in S : x \notin Holds(at.nodes, n)}

\* Which child the loop takes: of two, the nearer; of one, that.
LEMMA ChildIs ==
  ASSUME NEW n \in Nat \ {0}, n + 3 <= TRACK_MAX, NEW far \in Distant, NEW a \in Arrays,
         NEW x \in 0 .. TRACK_MAX - 1, ~IsLeaf(HeapOf(a, n), x), NEW c,
         c = MaxChild(HeapOf(a, n), a, far, x), NEW h, h.num_nodes = n
  PROVE  /\ c \in Nat /\ c \in 0 .. TRACK_MAX - 1 /\ c > x /\ MaxChild(h, a, far, x) = c
         /\ c < n => Parent(c) = x
         /\ \A y \in 0 .. n - 1 : Parent(y) = x /\ y # 0 => c < n /\ far[a[c]] <= far[a[y]]
<1>1. x \in Nat /\ x <= n \div 2 /\ Left(x) = 2 * x + 1 /\ Right(x) = 2 * x + 2
  BY RoutingAssumption DEF IsLeaf, HeapOf, Left, Right
<1>2. 2 * x <= n
  BY <1>1
<1>3. /\ Left(x) \in 0 .. TRACK_MAX - 1 /\ Right(x) \in 0 .. TRACK_MAX - 1
      /\ Left(x) > x /\ Right(x) > x /\ Left(x) \in Nat /\ Right(x) \in Nat
      /\ Left(x) < Right(x) /\ Right(x) = Left(x) + 1
  BY <1>1, <1>2, RoutingAssumption
<1>4. far[a[Left(x)]] \in Nat /\ far[a[Right(x)]] \in Nat
  BY <1>3, RoutingAssumption DEF Arrays, Distant
<1>5. PICK l, r : l = Left(x) /\ r = Right(x)
  OBVIOUS
<1>6. PICK fl, fr : fl = far[a[l]] /\ fr = far[a[r]]
  OBVIOUS
<1>7. /\ c = IF fl > fr /\ r < n THEN r ELSE l
      /\ MaxChild(h, a, far, x) = c
  BY <1>5, <1>6 DEF MaxChild, HeapOf, Greater
<1>8. \A y \in 0 .. n - 1 : Parent(y) = x /\ y # 0 => y = l \/ y = r
  BY <1>1, <1>5, ParentIs
<1>9. Parent(l) = x /\ Parent(r) = x
  BY <1>1, <1>3, <1>5, ParentIs
<1>10. \A y \in 0 .. n - 1 : Parent(y) = x /\ y # 0 => c < n /\ far[a[c]] <= far[a[y]]
  <2> SUFFICES ASSUME NEW y \in 0 .. n - 1, y = l \/ y = r
               PROVE  c < n /\ far[a[c]] <= far[a[y]]
    BY <1>8
  <2>1. CASE y = l
    BY <1>3, <1>4, <1>5, <1>6, <1>7, <2>1
  <2>2. CASE y = r
    BY <1>3, <1>4, <1>5, <1>6, <1>7, <2>2
  <2>3. QED
    BY <2>1, <2>2
<1>11. QED
  BY <1>3, <1>5, <1>7, <1>9, <1>10

\* A node with nothing below it.
LEMMA LeafIs ==
  ASSUME NEW n \in Nat, NEW a, NEW x \in Nat, IsLeaf(HeapOf(a, n), x)
  PROVE  \A y \in 0 .. n - 1 : Parent(y) # x
<1>1. x > n \div 2
  BY DEF IsLeaf, HeapOf
<1>2. SUFFICES ASSUME NEW y \in 0 .. n - 1, Parent(y) = x PROVE FALSE
  OBVIOUS
<1>3. x # 0
  BY <1>1
<1>4. y # 0
  BY <1>2, <1>3 DEF Parent
<1>5. x = (y - 1) \div 2
  BY <1>2, <1>4 DEF Parent
<1>6. QED
  BY <1>1, <1>5

\* A turn of bubble_down.
LEMMA DownFromOrder ==
  ASSUME NEW S, NEW n \in Nat \ {0}, n + 3 <= TRACK_MAX, NEW far \in Distant,
         NEW at \in DownPlaces(S, n, far), NEW e
  PROVE  \/ /\ DownFrom(HeapOf(e, n), far, at) = at
            /\ at.i < n => InOrder(at.nodes, n, far)
         \/ /\ DownFrom(HeapOf(e, n), far, at) \in DownPlaces(S, n, far)
            /\ DownFrom(HeapOf(e, n), far, at).i > at.i
<1> DEFINE h == HeapOf(e, n)
<1>1. PICK a \in Arrays, x \in 0 .. TRACK_MAX - 1 : at = [nodes |-> a, i |-> x]
  BY DEF DownPlaces
<1>2. /\ at.nodes = a /\ at.i = x /\ x \in Nat /\ n \in 0 .. TRACK_MAX
      /\ TRACK_MAX \in Nat /\ \A z \in 0 .. n - 1 : z \in 0 .. TRACK_MAX - 1
  BY <1>1, RoutingAssumption
<1>3. h.num_nodes = n
  BY DEF HeapOf
<1>a. IsLeaf(h, x) <=> x > n \div 2
  BY DEF IsLeaf, HeapOf
<1>b. \A i : IsLeaf(HeapOf(a, n), i) <=> i > n \div 2
  BY DEF IsLeaf, HeapOf
<1> HIDE DEF h
<1>4. CASE x >= n
  <2>1. IsLeaf(h, x)
    BY <1>2, <1>4, <1>a
  <2>2. DownFrom(h, far, at) = at
    BY <1>2, <2>1 DEF DownFrom
  <2>3. QED
    BY <1>2, <1>4, <2>2 DEF h
<1>5. CASE x < n
  <2>1. /\ x \in 0 .. n - 1 /\ Holds(a, n) = S /\ Single(a, n) /\ DownOrder(a, n, far, x)
    BY <1>2, <1>5 DEF DownPlaces
  <2>2. \A z \in 0 .. TRACK_MAX - 1 : far[a[z]] \in Nat /\ a[z] \in Nodes
    BY RoutingAssumption DEF Arrays, Distant
  <2>3. CASE IsLeaf(h, x)
    <3>1. DownFrom(h, far, at) = at
      BY <1>2, <2>3 DEF DownFrom
    <3>2. IsLeaf(HeapOf(a, n), x)
      BY <2>3, <1>a, <1>b
    <3>3. \A y \in 0 .. n - 1 : Parent(y) # x
      BY <1>2, <3>2, LeafIs
    <3>4. InOrder(a, n, far)
      BY <2>1, <3>3 DEF DownOrder, InOrder
    <3>5. QED
      BY <1>2, <3>1, <3>4 DEF h
  <2>4. CASE ~IsLeaf(h, x)
    <3>1. PICK c : c = MaxChild(h, a, far, x)
      OBVIOUS
    <3>2. ~IsLeaf(HeapOf(a, n), x) /\ HeapOf(a, n).num_nodes = n
      BY <2>4, <1>a, <1>b DEF HeapOf
    <3>3. PICK d : d = MaxChild(HeapOf(a, n), a, far, x)
      OBVIOUS
    <3>4. /\ d \in Nat /\ d \in 0 .. TRACK_MAX - 1 /\ d > x /\ MaxChild(h, a, far, x) = d
          /\ d < n => Parent(d) = x
          /\ \A y \in 0 .. n - 1 : Parent(y) = x /\ y # 0 => d < n /\ far[a[d]] <= far[a[y]]
      BY <1>3, <3>2, <3>3, ChildIs
    <3>5. c = d
      BY <3>1, <3>4
    <3>6. CASE ~(far[a[x]] > far[a[c]])
      <4>1. DownFrom(h, far, at) = at
        BY <1>2, <3>1, <3>6 DEF DownFrom, Greater
      <4>2. ASSUME NEW y \in 0 .. n - 1 PROVE far[a[Parent(y)]] <= far[a[y]]
        <5>1. CASE Parent(y) # x
          BY <2>1, <5>1 DEF DownOrder
        <5>2. CASE y = 0
          BY <1>2, <2>2, <5>2, ParentIs
        <5>3. CASE Parent(y) = x /\ y # 0
          BY <1>2, <2>2, <3>4, <3>5, <3>6, <5>3
        <5>4. QED
          BY <5>1, <5>2, <5>3
      <4>3. QED
        BY <1>2, <4>1, <4>2 DEF InOrder, h
    <3>7. CASE far[a[x]] > far[a[c]]
      <4> DEFINE b == Swap(a, x, c)
      <4>1. DownFrom(h, far, at) = [nodes |-> b, i |-> c]
        BY <1>2, <2>4, <3>1, <3>7 DEF DownFrom, Greater
      <4>2. /\ b \in Arrays /\ b[x] = a[c] /\ b[c] = a[x]
            /\ \A z \in 0 .. TRACK_MAX - 1 : z # x /\ z # c => b[z] = a[z]
        BY <3>4, <3>5, SwapOK
      <4>a. x # c /\ a[x] # a[c]
        BY <1>2, <2>2, <3>4, <3>5, <3>7
      <4>3. CASE c >= n
        <5> HIDE DEF b
        <5>1. a[x] \in S
          BY <2>1, HoldsHas
        <5>2. ASSUME NEW z \in 0 .. n - 1 PROVE b[z] # a[x]
          <6>1. z \in 0 .. TRACK_MAX - 1 /\ z # c
            BY <1>2, <4>3
          <6>2. CASE z = x
            BY <4>2, <4>a, <6>2
          <6>3. CASE z # x
            BY <2>1, <4>2, <6>1, <6>3 DEF Single
          <6>4. QED
            BY <6>2, <6>3
        <5>3. a[x] \notin Holds(b, n)
          BY <5>2, HoldsHas
        <5>4. [nodes |-> b, i |-> c] \in DownPlaces(S, n, far)
          BY <3>4, <3>5, <4>2, <4>3, <5>1, <5>3 DEF DownPlaces
        <5>5. QED
          BY <1>2, <3>4, <3>5, <4>1, <5>4 DEF h, b
      <4>4. CASE c < n
        <5>1. c \in 0 .. n - 1 /\ Parent(c) = x
          BY <3>4, <3>5, <4>4
        <5>2. Holds(b, n) = S /\ Single(b, n)
          BY <1>2, <2>1, <5>1, SwapHolds
        <5> HIDE DEF b
        <5>3. DownOrder(b, n, far, c)
          <6> SUFFICES ASSUME NEW y \in 0 .. n - 1
                       PROVE  /\ Parent(y) # c => far[b[Parent(y)]] <= far[b[y]]
                              /\ Parent(y) = c => far[b[x]] <= far[b[y]]
            BY <5>1 DEF DownOrder
          <6>1. PICK q : q = Parent(y)
            OBVIOUS
          <6>2. q \in 0 .. n - 1 /\ (y # 0 => q < y) /\ (y = 0 => q = 0)
            BY <6>1, ParentIs
          <6>3. /\ q # x => far[a[q]] <= far[a[y]]
                /\ q = x /\ x # 0 => far[a[Parent(x)]] <= far[a[y]]
                /\ q = x /\ y # 0 => far[a[c]] <= far[a[y]]
                /\ far[a[x]] \in Nat /\ far[a[c]] \in Nat /\ far[a[y]] \in Nat
            BY <1>2, <2>1, <2>2, <3>4, <3>5, <6>1 DEF DownOrder
          <6>4. /\ y \in 0 .. TRACK_MAX - 1 /\ q \in 0 .. TRACK_MAX - 1
                /\ (y # x /\ y # c => b[y] = a[y]) /\ (q # x /\ q # c => b[q] = a[q])
            BY <1>2, <4>2, <6>2
          <6>5. CASE q = c
            <7>1. y # x /\ y # c /\ q # x
              BY <1>2, <3>4, <3>5, <6>2, <6>5
            <7>2. b[y] = a[y] /\ far[a[c]] <= far[a[y]]
              BY <6>3, <6>4, <6>5, <7>1
            <7>3. QED
              BY <4>2, <6>1, <6>5, <7>2
          <6>6. CASE q = x
            <7>1. CASE y = c
              BY <3>7, <4>2, <4>a, <6>1, <6>3, <6>6, <7>1
            <7>2. CASE y = x
              BY <4>2, <4>a, <6>1, <6>3, <6>6, <7>2
            <7>3. CASE y # c /\ y # x
              <8>1. y # 0
                BY <6>2, <6>6, <7>3
              <8>2. QED
                BY <4>2, <4>a, <6>1, <6>3, <6>4, <6>6, <7>3, <8>1
            <7>4. QED
              BY <7>1, <7>2, <7>3
          <6>7. CASE q # x /\ q # c
            <7>1. y # c
              BY <5>1, <6>1, <6>7
            <7>2. CASE y = x
              \* The child that comes up was no nearer than the node above its parent.
              <8>1. x # 0
                BY <6>2, <6>7, <7>2
              <8>2. far[a[Parent(x)]] <= far[a[c]]
                BY <2>1, <5>1, <8>1 DEF DownOrder
              <8>3. QED
                BY <4>2, <6>1, <6>4, <6>7, <7>2, <8>2
            <7>3. CASE y # x
              BY <6>1, <6>3, <6>4, <6>7, <7>1, <7>3
            <7>4. QED
              BY <7>2, <7>3
          <6>8. QED
            BY <6>5, <6>6, <6>7
        <5>4. [nodes |-> b, i |-> c] \in DownPlaces(S, n, far)
          BY <3>4, <3>5, <4>2, <4>4, <5>2, <5>3 DEF DownPlaces
        <5>5. QED
          BY <1>2, <3>4, <3>5, <4>1, <5>4 DEF h, b
      <4>5. c \in Nat
        BY <3>4, <3>5
      <4>6. QED
        BY <4>3, <4>4, <4>5
    <3>8. QED
      BY <1>2, <2>2, <3>4, <3>5, <3>6, <3>7
  <2>5. QED
    BY <2>3, <2>4
<1>6. QED
  BY <1>2, <1>4, <1>5

\* What bubble_down may leave behind: the heap in order, or without a node.
SortedOrLost(S, n, far, b) ==
  \/ Holds(b, n) = S /\ Single(b, n) /\ InOrder(b, n, far)
  \/ \E x \in S : x \notin Holds(b, n)

\* bubble_down puts the heap in order, if only the node at hand is out of it, or loses a
\* node past the end.
LEMMA BubbleDownOrder ==
  ASSUME NEW n \in Nat \ {0}, n + 3 <= TRACK_MAX, NEW far \in Distant, NEW a \in Arrays,
         NEW index \in 0 .. n - 1, Single(a, n), DownOrder(a, n, far, index)
  PROVE  \E b \in Arrays : /\ BubbleDown(HeapOf(a, n), far, index) = HeapOf(b, n)
                           /\ SortedOrLost(Holds(a, n), n, far, b)
<1> DEFINE S == Holds(a, n)
           P == DownPlaces(S, n, far)
           on(at) == DownFrom(HeapOf(a, n), far, at)
           Still(at) == on(at) = at /\ (at.i < n => InOrder(at.nodes, n, far))
<1>0. n \in Nat /\ index \in 0 .. TRACK_MAX - 1 /\ index < n
  BY RoutingAssumption
<1>1. [nodes |-> a, i |-> index] \in P
  BY <1>0 DEF DownPlaces
<1>2. ASSUME NEW at \in P
      PROVE  on(at) \in P /\ (Still(at) \/ on(at).i > at.i)
  <2> HIDE DEF S
  <2>1. \/ Still(at)
        \/ on(at) \in P /\ on(at).i > at.i
    BY DownFromOrder
  <2> HIDE DEF P, on
  <2>2. QED
    BY <2>1
<1>3. ASSUME NEW at \in P
      PROVE  /\ at.nodes \in Arrays /\ at.i \in Nat
             /\ at.i < n /\ InOrder(at.nodes, n, far) => SortedOrLost(S, n, far, at.nodes)
             /\ at.i >= n => SortedOrLost(S, n, far, at.nodes)
  <2>1. at.nodes \in Arrays /\ at.i \in 0 .. TRACK_MAX - 1
    BY DEF DownPlaces
  <2>2. at.i \in Nat
    BY <2>1, RoutingAssumption
  <2>3. \/ at.i < n /\ Holds(at.nodes, n) = S /\ Single(at.nodes, n)
        \/ at.i >= n /\ \E x \in S : x \notin Holds(at.nodes, n)
    BY DEF DownPlaces
  <2> HIDE DEF S
  <2>4. QED
    BY <1>0, <2>1, <2>2, <2>3 DEF SortedOrLost
<1>a. \A at \in P : on(at) \in P
  <2> HIDE DEF Still, P, on
  <2>1. QED
    BY <1>2
<1>b. PICK w : DownRun(far, a, n, index, P, w)
  <2> HIDE DEF P
  <2>1. QED
    BY <1>0, <1>1, <1>a, DownTurns
<1>4. /\ w \in [0 .. n -> P]
      /\ w[0] = [nodes |-> a, i |-> index]
      /\ \A k \in 1 .. n : w[k] = on(w[k - 1])
      /\ BubbleDown(HeapOf(a, n), far, index) = HeapOf(w[n].nodes, n)
  BY <1>b DEF DownRun
<1> HIDE DEF P, on
\* After k turns the node has gone down k slots, or is where it belongs.
<1>5. Still(w[n]) \/ w[n].i >= n
  <2> DEFINE T == {k \in Nat : k \in 0 .. n => Still(w[k]) \/ w[k].i >= k}
  <2>1. ASSUME NEW k \in Nat, \A j \in 0 .. k - 1 : j \in T PROVE k \in T
    <3> SUFFICES ASSUME k \in 0 .. n PROVE Still(w[k]) \/ w[k].i >= k
      OBVIOUS
    <3>1. CASE k = 0
      BY <1>0, <1>4, <3>1
    <3>2. CASE k # 0
      <4>1. k - 1 \in 0 .. k - 1 /\ k - 1 \in 0 .. n /\ k \in 1 .. n
        BY <3>2
      <4>2. w[k] = on(w[k - 1]) /\ w[k] \in P /\ w[k - 1] \in P
        BY <1>4, <4>1
      <4>3. Still(w[k - 1]) \/ w[k - 1].i >= k - 1
        BY <2>1, <4>1
      <4>4. CASE Still(w[k - 1])
        BY <4>2, <4>4
      <4>5. CASE ~Still(w[k - 1])
        <5>1. w[k].i > w[k - 1].i /\ w[k].i \in Nat /\ w[k - 1].i \in Nat
          BY <1>2, <1>3, <4>2, <4>5
        <5>2. w[k - 1].i >= k - 1
          BY <4>3, <4>5
        <5> HIDE DEF Still
        <5>3. QED
          BY <5>1, <5>2
      <4>6. QED
        BY <4>4, <4>5
    <3>3. QED
      BY <3>1, <3>2
  <2>2. T = Nat
    <3>1. T \in SUBSET Nat
      OBVIOUS
    <3> HIDE DEF T
    <3>2. QED
      BY <2>1, <3>1, StrongInduction
  <2>3. QED
    BY <1>0, <2>2
<1>6. w[n] \in P
  BY <1>0, <1>4
<1>7. w[n].nodes \in Arrays /\ SortedOrLost(S, n, far, w[n].nodes)
  <2>1. CASE w[n].i >= n
    BY <1>3, <1>6, <2>1
  <2>2. CASE ~(w[n].i >= n)
    <3>1. w[n].i < n /\ Still(w[n])
      BY <1>3, <1>5, <1>6, <2>2
    <3>2. QED
      BY <1>3, <1>6, <3>1
  <2>3. QED
    BY <2>1, <2>2
<1>8. QED
  BY <1>4, <1>7

\* A node that is no farther than those below it stays where it is, or is lost.
LEMMA BubbleDownNearer ==
  ASSUME NEW n \in Nat \ {0}, n + 3 <= TRACK_MAX, NEW far \in Distant, NEW a \in Arrays,
         NEW index \in 0 .. n - 1, Single(a, n),
         \A y \in 0 .. n - 1 : Parent(y) = index => far[a[index]] <= far[a[y]]
  PROVE  \E b \in Arrays : /\ BubbleDown(HeapOf(a, n), far, index) = HeapOf(b, n)
                           /\ b = a \/ a[index] \notin Holds(b, n)
<1> DEFINE first == [nodes |-> a, i |-> index]
           D == {first} \cup {at \in [nodes : Arrays, i : 0 .. TRACK_MAX - 1] :
                                at.i >= n /\ a[index] \notin Holds(at.nodes, n)}
           on(at) == DownFrom(HeapOf(a, n), far, at)
<1>0. /\ n \in Nat /\ index \in 0 .. TRACK_MAX - 1 /\ index < n /\ index \in Nat
      /\ TRACK_MAX \in Nat /\ \A z \in 0 .. n - 1 : z \in 0 .. TRACK_MAX - 1
  BY RoutingAssumption
<1>1. \A i : IsLeaf(HeapOf(a, n), i) <=> i > n \div 2
  BY DEF IsLeaf, HeapOf
<1>2. ASSUME NEW at \in [nodes : Arrays, i : 0 .. TRACK_MAX - 1], at.i >= n
      PROVE  on(at) = at
  <2>1. IsLeaf(HeapOf(a, n), at.i)
    BY <1>0, <1>1, <1>2
  <2>2. QED
    BY <2>1 DEF DownFrom
<1>3. on(first) \in D
  <2>1. CASE on(first) = first
    BY <2>1
  <2>2. CASE on(first) # first
    <3>1. PICK c : c = MaxChild(HeapOf(a, n), a, far, index)
      OBVIOUS
    <3>2. /\ ~IsLeaf(HeapOf(a, n), index) /\ far[a[index]] > far[a[c]]
          /\ on(first) = [nodes |-> Swap(a, index, c), i |-> c]
      BY <2>2, <3>1 DEF DownFrom, Greater
    <3>3. HeapOf(a, n).num_nodes = n
      BY DEF HeapOf
    <3>4. /\ c \in Nat /\ c \in 0 .. TRACK_MAX - 1 /\ c > index
          /\ c < n => Parent(c) = index
      BY <1>0, <3>1, <3>2, <3>3, ChildIs
    <3>5. far[a[index]] \in Nat /\ far[a[c]] \in Nat
      BY <1>0, <3>4, RoutingAssumption DEF Arrays, Distant
    <3>6. c >= n
      <4>1. ASSUME c < n PROVE FALSE
        <5>1. c \in 0 .. n - 1 /\ Parent(c) = index
          BY <1>0, <3>4, <4>1
        <5>2. far[a[index]] <= far[a[c]]
          BY <5>1
        <5>3. QED
          BY <3>2, <3>5, <5>2
      <4>2. QED
        BY <1>0, <3>4, <4>1
    <3>7. PICK b : b = Swap(a, index, c)
      OBVIOUS
    <3>8. /\ b \in Arrays /\ b[index] = a[c]
          /\ \A z \in 0 .. TRACK_MAX - 1 : z # index /\ z # c => b[z] = a[z]
      BY <1>0, <3>4, <3>7, SwapOK
    <3>9. ASSUME NEW z \in 0 .. n - 1 PROVE b[z] # a[index]
      <4>1. z \in 0 .. TRACK_MAX - 1 /\ z # c
        BY <1>0, <3>4, <3>6
      <4>2. CASE z = index
        BY <3>2, <3>5, <3>8, <4>2
      <4>3. CASE z # index
        BY <3>8, <4>1, <4>3 DEF Single
      <4>4. QED
        BY <4>2, <4>3
    <3>10. a[index] \notin Holds(b, n)
      BY <3>9, HoldsHas
    <3>11. QED
      BY <3>2, <3>4, <3>6, <3>7, <3>8, <3>10
  <2>3. QED
    BY <2>1, <2>2
<1>4. \A at \in D : on(at) \in D
  <2> SUFFICES ASSUME NEW at \in D PROVE on(at) \in D
    OBVIOUS
  <2>1. CASE at = first
    BY <1>3, <2>1
  <2>2. CASE at # first
    <3>1. at \in [nodes : Arrays, i : 0 .. TRACK_MAX - 1] /\ at.i >= n
      BY <2>2
    <3>2. on(at) = at
      BY <1>2, <3>1
    <3>3. QED
      BY <3>2
  <2>3. QED
    BY <2>1, <2>2
<1>5. PICK w : DownRun(far, a, n, index, D, w)
  <2>1. first \in D
    OBVIOUS
  <2> HIDE DEF D
  <2>2. QED
    BY <1>0, <1>4, <2>1, DownTurns
<1>6. w[n] \in D /\ BubbleDown(HeapOf(a, n), far, index) = HeapOf(w[n].nodes, n)
  <2> HIDE DEF D
  <2>1. QED
    BY <1>0, <1>5 DEF DownRun
<1>7. w[n].nodes \in Arrays /\ (w[n].nodes = a \/ a[index] \notin Holds(w[n].nodes, n))
  BY <1>6
<1>8. QED
  BY <1>6, <1>7

\* A node has come nearer, and the others are where they were.
CloserBy(x, far, now) ==
  /\ now[x] <= far[x]
  /\ \A m \in Nodes : m # x => now[m] = far[m]

\* A node that is entered takes its place.
LEMMA PushBest ==
  ASSUME NEW a \in Arrays, NEW n \in Nat, n + 4 <= TRACK_MAX, NEW far \in Distant,
         NEW now \in Distant, NEW x \in Nodes, CloserBy(x, far, now),
         Single(a, n), InOrder(a, n, far), x \notin Holds(a, n)
  PROVE  \E b \in Arrays :
           /\ Push(HeapOf(a, n), now, x) = HeapOf(b, n + 1)
           /\ Holds(b, n + 1) = Holds(a, n) \cup {x}
           /\ Single(b, n + 1) /\ InOrder(b, n + 1, now)
<1> DEFINE h == HeapOf(a, n)
           placed == [h EXCEPT !.nodes[h.num_nodes] = x]
           c == [a EXCEPT ![n] = x]
<1>1. placed = HeapOf(c, n)
  BY DEF HeapOf
<1>2. /\ c \in Arrays /\ n \in 0 .. TRACK_MAX - 1 /\ n # TRACK_MAX
      /\ c[n] = x /\ \A z \in 0 .. n - 1 : c[z] = a[z]
  BY RoutingAssumption DEF Arrays
<1>3. Push(h, now, x) = [BubbleUp(placed, now, n) EXCEPT !.num_nodes = n + 1]
  BY <1>2 DEF Push, HeapOf
<1> HIDE DEF c, placed
<1>4. PICK m : m = n + 1
  OBVIOUS
<1>5. /\ m \in 0 .. TRACK_MAX /\ n \in 0 .. m - 1
      /\ \A z \in 0 .. m - 1 : z = n \/ z \in 0 .. n - 1
      /\ \A z \in 0 .. n - 1 : z \in 0 .. m - 1 /\ z # n
  BY <1>4, RoutingAssumption
<1>6. \A z \in 0 .. n - 1 : a[z] # x
  BY HoldsHas
<1>7. Single(c, m)
  <2> SUFFICES ASSUME NEW y \in 0 .. m - 1, NEW z \in 0 .. m - 1, c[y] = c[z] PROVE y = z
    BY DEF Single
  <2>1. \A p, q \in 0 .. n - 1 : a[p] = a[q] => p = q
    BY DEF Single
  <2>2. QED
    BY <1>2, <1>5, <1>6, <2>1
<1>8. Holds(c, m) = Holds(a, n) \cup {x}
  <2>1. ASSUME NEW w PROVE w \in Holds(c, m) <=> w \in Holds(a, n) \/ w = x
    <3>1. ASSUME NEW z \in 0 .. m - 1, c[z] = w PROVE w = x \/ \E y \in 0 .. n - 1 : a[y] = w
      BY <1>2, <1>5, <3>1
    <3>2. ASSUME NEW y \in 0 .. n - 1, a[y] = w PROVE \E z \in 0 .. m - 1 : c[z] = w
      BY <1>2, <1>5, <3>2
    <3>3. \E z \in 0 .. m - 1 : c[z] = x
      BY <1>2, <1>5
    <3>4. QED
      BY <3>1, <3>2, <3>3, HoldsHas
  <2>2. QED
    BY <2>1
<1>9. UpOrder(c, m, now, n)
  <2> SUFFICES ASSUME NEW y \in 0 .. m - 1
               PROVE  /\ y # n => now[c[Parent(y)]] <= now[c[y]]
                      /\ Parent(y) = n => y = n /\ n = 0
    <3>1. now[c[Parent(0)]] <= now[c[0]]
      <4>1. Parent(0) = 0
        BY ParentIs
      <4>2. now[c[0]] \in Nat
        BY <1>2, RoutingAssumption DEF Arrays, Distant
      <4>3. QED
        BY <4>1, <4>2
    <3>2. QED
      BY <3>1 DEF UpOrder
  <2>1. PICK q : q = Parent(y)
    OBVIOUS
  <2>2. q \in 0 .. y /\ (y # 0 => q < y)
    BY <1>5, <2>1, ParentIs
  <2>3. ASSUME y # n PROVE now[c[q]] <= now[c[y]]
    <3>1. y \in 0 .. n - 1 /\ q \in 0 .. n - 1
      BY <1>5, <2>2, <2>3
    <3>2. far[a[q]] <= far[a[y]]
      BY <2>1, <3>1 DEF InOrder
    <3>3. a[q] \in Nodes /\ a[y] \in Nodes /\ a[q] # x /\ a[y] # x
      BY <1>2, <1>6, <3>1, RoutingAssumption DEF Arrays
    <3>4. now[a[q]] = far[a[q]] /\ now[a[y]] = far[a[y]]
      BY <3>3 DEF CloserBy
    <3>5. QED
      BY <1>2, <3>1, <3>2, <3>4
  <2>4. q = n => y = n /\ n = 0
    BY <1>4, <1>5, <2>2
  <2>5. QED
    BY <2>1, <2>3, <2>4
<1>10. PICK b \in Arrays : /\ BubbleUp(HeapOf(c, n), now, n) = HeapOf(b, n)
                           /\ Holds(b, m) = Holds(c, m) /\ Single(b, m) /\ InOrder(b, m, now)
  BY <1>2, <1>5, <1>7, <1>9, BubbleUpOrder
<1>11. Push(h, now, x) = HeapOf(b, n + 1)
  BY <1>1, <1>3, <1>10 DEF HeapOf
<1>12. QED
  BY <1>4, <1>8, <1>10, <1>11

\* When the first node is taken off the rest stays, or one of it is lost.
LEMMA PopBest ==
  ASSUME NEW a \in Arrays, NEW n \in Nat \ {0}, n + 2 <= TRACK_MAX, NEW far \in Distant,
         Single(a, n), InOrder(a, n, far)
  PROVE  \E b \in Arrays : /\ Pop(HeapOf(a, n), far) = HeapOf(b, n - 1)
                           /\ SortedOrLost(Holds(a, n) \ {a[0]}, n - 1, far, b)
<1> DEFINE h == HeapOf(a, n)
           c == [a EXCEPT ![0] = a[n - 1]]
<1>1. CASE n = 1
  <2>1. Pop(h, far) = HeapOf(a, 0)
    BY <1>1 DEF Pop, HeapOf
  <2>2. Holds(a, 0) = {} /\ Single(a, 0) /\ InOrder(a, 0, far)
    BY DEF Holds, Single, InOrder
  <2>3. Holds(a, 1) = {a[0]}
    <3>1. ASSUME NEW w PROVE w \in Holds(a, 1) <=> w = a[0]
      BY HoldsHas
    <3>2. QED
      BY <3>1
  <2>4. SortedOrLost(Holds(a, n) \ {a[0]}, 0, far, a)
    BY <1>1, <2>2, <2>3 DEF SortedOrLost
  <2>5. QED
    BY <1>1, <2>1, <2>4
<1>2. CASE n # 1
  <2>1. PICK m : m = n - 1
    OBVIOUS
  <2>2. /\ m \in Nat \ {0} /\ m + 3 <= TRACK_MAX /\ 0 \in 0 .. m - 1 /\ m \in 0 .. n - 1
        /\ 0 \in 0 .. n - 1
        /\ \A z \in 0 .. m - 1 : z \in 0 .. n - 1 /\ z # m /\ z \in 0 .. TRACK_MAX - 1
        /\ \A z \in 0 .. n - 1 : z = m \/ z \in 0 .. m - 1
    BY <1>2, <2>1, RoutingAssumption
  <2>3. c \in Arrays /\ c[0] = a[m] /\ \A z \in 0 .. m - 1 : z # 0 => c[z] = a[z]
    BY <2>1, <2>2, RoutingAssumption DEF Arrays
  <2>4. Pop(h, far) = BubbleDown(HeapOf(c, m), far, 0)
    BY <1>2, <2>1 DEF Pop, HeapOf
  <2> HIDE DEF c
  <2>5. \A p, q \in 0 .. n - 1 : a[p] = a[q] => p = q
    BY DEF Single
  <2>6. Single(c, m)
    <3> SUFFICES ASSUME NEW y \in 0 .. m - 1, NEW z \in 0 .. m - 1, c[y] = c[z] PROVE y = z
      BY DEF Single
    <3>1. QED
      BY <2>2, <2>3, <2>5
  <2>7. Holds(c, m) = Holds(a, n) \ {a[0]}
    <3>1. ASSUME NEW w PROVE w \in Holds(c, m) <=> w \in Holds(a, n) /\ w # a[0]
      <4>1. ASSUME NEW z \in 0 .. m - 1, c[z] = w
            PROVE  w # a[0] /\ \E y \in 0 .. n - 1 : a[y] = w
        BY <2>2, <2>3, <2>5, <4>1
      <4>2. ASSUME NEW y \in 0 .. n - 1, a[y] = w, w # a[0] PROVE \E z \in 0 .. m - 1 : c[z] = w
        BY <2>2, <2>3, <4>2
      <4>3. QED
        BY <4>1, <4>2, HoldsHas
    <3>2. QED
      BY <3>1
  <2>8. DownOrder(c, m, far, 0)
    <3> SUFFICES ASSUME NEW y \in 0 .. m - 1, Parent(y) # 0 PROVE far[c[Parent(y)]] <= far[c[y]]
      BY DEF DownOrder
    <3>1. PICK q : q = Parent(y)
      OBVIOUS
    <3>2. q \in 0 .. y /\ q # 0 /\ y # 0
      BY <3>1, ParentIs
    <3>3. q \in 0 .. m - 1
      BY <2>2, <3>2
    <3>4. far[a[q]] <= far[a[y]]
      BY <2>2, <3>1 DEF InOrder
    <3>5. QED
      BY <2>3, <3>1, <3>2, <3>3, <3>4
  <2>9. PICK b \in Arrays : /\ BubbleDown(HeapOf(c, m), far, 0) = HeapOf(b, m)
                            /\ SortedOrLost(Holds(c, m), m, far, b)
    BY <2>2, <2>3, <2>6, <2>8, BubbleDownOrder
  <2>10. QED
    BY <2>1, <2>4, <2>7, <2>9
<1>3. QED
  BY <1>1, <1>2

\* The first slot with a node, if there is one.
LEMMA FirstSlot ==
  ASSUME NEW a, NEW n \in Nat, NEW x \in Holds(a, n), NEW i,
         i = CHOOSE k \in 0 .. (n - 1) : a[k] = x /\ \A j \in 0 .. (k - 1) : a[j] # x
  PROVE  i \in 0 .. n - 1 /\ a[i] = x
<1> DEFINE S == {k \in 0 .. n - 1 : a[k] = x}
<1>1. S \in SUBSET Nat /\ S # {}
  BY HoldsHas
<1> HIDE DEF S
<1>2. PICK k \in S : \A j \in S : k <= j
  BY <1>1, LeastElement
<1>3. k \in 0 .. n - 1 /\ a[k] = x
  BY <1>2 DEF S
<1>4. ASSUME NEW j \in 0 .. (k - 1), a[j] = x PROVE FALSE
  <2>1. j \in 0 .. n - 1 /\ ~(k <= j)
    BY <1>3
  <2>2. QED
    BY <1>2, <1>4, <2>1 DEF S
<1>5. \E j \in 0 .. (n - 1) : a[j] = x /\ \A l \in 0 .. (j - 1) : a[l] # x
  BY <1>3, <1>4
<1>6. QED
  BY <1>5

\* What a heap holds.
LEMMA InHeapHolds ==
  ASSUME NEW a, NEW n
  PROVE  InHeap(HeapOf(a, n)) = Holds(a, n)
BY DEF InHeap, Holds, HeapOf

\* A node in the heap that has come nearer takes its place, or is lost.
LEMMA UpdateBest ==
  ASSUME NEW a \in Arrays, NEW n \in Nat, n + 3 <= TRACK_MAX, NEW far \in Distant,
         NEW now \in Distant, NEW x \in Holds(a, n), x \in Nodes, CloserBy(x, far, now),
         Single(a, n), InOrder(a, n, far)
  PROVE  \E b \in Arrays :
           /\ Update(HeapOf(a, n), now, x) = HeapOf(b, n)
           /\ \/ Holds(b, n) = Holds(a, n) /\ Single(b, n) /\ InOrder(b, n, now)
              \/ x \notin Holds(b, n)
<1>1. PICK i : i = CHOOSE k \in 0 .. (n - 1) : a[k] = x /\ \A j \in 0 .. (k - 1) : a[j] # x
  OBVIOUS
<1>2. i \in 0 .. n - 1 /\ a[i] = x
  BY <1>1, FirstSlot
<1>3. \/ Update(HeapOf(a, n), now, x) = BubbleUp(HeapOf(a, n), now, i)
      \/ Update(HeapOf(a, n), now, x) = BubbleUp(BubbleDown(HeapOf(a, n), now, i), now, i)
  <2>1. HeapOf(a, n).num_nodes = n /\ HeapOf(a, n).nodes = a
    BY DEF HeapOf
  <2>2. x \in InHeap(HeapOf(a, n))
    BY InHeapHolds
  <2>3. PICK h : h = HeapOf(a, n)
    OBVIOUS
  <2>4. i = CHOOSE k \in 0 .. (h.num_nodes - 1) : h.nodes[k] = x /\ \A j \in 0 .. (k - 1) : h.nodes[j] # x
    BY <1>1, <2>1, <2>3
  <2>5. \/ Update(h, now, x) = BubbleUp(h, now, i)
        \/ Update(h, now, x) = BubbleUp(BubbleDown(h, now, i), now, i)
    BY <2>2, <2>3, <2>4 DEF Update
  <2>6. QED
    BY <2>3, <2>5
<1>4. /\ n \in Nat \ {0} /\ n \in 0 .. TRACK_MAX /\ i \in Nat
      /\ TRACK_MAX \in Nat /\ \A z \in 0 .. n - 1 : z \in 0 .. TRACK_MAX - 1
  BY <1>2, RoutingAssumption
<1>5. \A z \in 0 .. n - 1 : /\ far[a[z]] \in Nat /\ now[a[z]] \in Nat /\ now[a[z]] <= far[a[z]]
                            /\ z # i => now[a[z]] = far[a[z]]
  <2> SUFFICES ASSUME NEW z \in 0 .. n - 1
               PROVE  /\ far[a[z]] \in Nat /\ now[a[z]] \in Nat /\ now[a[z]] <= far[a[z]]
                      /\ z # i => now[a[z]] = far[a[z]]
    OBVIOUS
  <2>1. a[z] \in Nodes
    BY <1>4 DEF Arrays
  <2>2. far[a[z]] \in Nat /\ now[a[z]] \in Nat
    BY <2>1, RoutingAssumption DEF Distant
  <2>3. z # i => a[z] # x
    BY <1>2 DEF Single
  <2>4. QED
    BY <1>2, <2>1, <2>2, <2>3 DEF CloserBy
<1>6. ASSUME NEW y \in 0 .. n - 1
      PROVE  /\ Parent(y) \in 0 .. n - 1 /\ Parent(i) \in 0 .. n - 1
             /\ far[a[Parent(y)]] <= far[a[y]] /\ far[a[Parent(i)]] <= far[a[i]]
             /\ Parent(y) = i /\ y = i => Parent(i) = i
  <2>1. Parent(y) \in 0 .. y /\ Parent(i) \in 0 .. i
    BY <1>4, ParentIs
  <2>2. QED
    BY <1>2, <2>1 DEF InOrder
<1>7. UpOrder(a, n, now, i)
  <2> SUFFICES ASSUME NEW y \in 0 .. n - 1
               PROVE  /\ y # i => now[a[Parent(y)]] <= now[a[y]]
                      /\ Parent(y) = i => now[a[Parent(i)]] <= now[a[y]]
    BY DEF UpOrder
  <2>1. PICK q, o : q = Parent(y) /\ o = Parent(i)
    OBVIOUS
  <2>2. /\ q \in 0 .. n - 1 /\ o \in 0 .. n - 1
        /\ far[a[q]] <= far[a[y]] /\ far[a[o]] <= far[a[i]] /\ (q = i /\ y = i => o = i)
    BY <1>6, <2>1
  <2>3. ASSUME y # i PROVE now[a[q]] <= now[a[y]]
    BY <1>5, <2>2, <2>3
  <2>4. ASSUME q = i PROVE now[a[o]] <= now[a[y]]
    <3>1. CASE y = i
      BY <1>5, <2>2, <2>4, <3>1
    <3>2. CASE y # i
      BY <1>2, <1>5, <2>2, <2>4, <3>2
    <3>3. QED
      BY <3>1, <3>2
  <2>5. QED
    BY <2>1, <2>3, <2>4
<1>8. ASSUME NEW y \in 0 .. n - 1, Parent(y) = i PROVE now[a[i]] <= now[a[y]]
  <2>1. far[a[i]] <= far[a[y]]
    BY <1>6, <1>8
  <2>2. QED
    BY <1>2, <1>5, <2>1
<1>9. PICK b \in Arrays : /\ BubbleUp(HeapOf(a, n), now, i) = HeapOf(b, n)
                          /\ Holds(b, n) = Holds(a, n) /\ Single(b, n) /\ InOrder(b, n, now)
  BY <1>2, <1>4, <1>7, BubbleUpOrder
<1>10. PICK c \in Arrays : /\ BubbleDown(HeapOf(a, n), now, i) = HeapOf(c, n)
                           /\ c = a \/ a[i] \notin Holds(c, n)
  BY <1>2, <1>4, <1>8, BubbleDownNearer
<1>11. PICK d \in Arrays : BubbleUp(HeapOf(c, n), now, i) = HeapOf(d, n) /\ Holds(d, n) = Holds(c, n)
  <2>1. c \in Arrays
    OBVIOUS
  <2>2. QED
    BY <1>2, <1>4, <2>1, BubbleUpHolds
<1>12. CASE c = a
  BY <1>3, <1>9, <1>10, <1>12
<1>13. CASE a[i] \notin Holds(c, n)
  BY <1>2, <1>3, <1>9, <1>10, <1>11, <1>13
<1>14. QED
  BY <1>10, <1>12, <1>13

\* The first node is the nearest.
LEMMA FirstNearest ==
  ASSUME NEW a \in Arrays, NEW n \in Nat, n <= TRACK_MAX, NEW far \in Distant, InOrder(a, n, far)
  PROVE  \A m \in Holds(a, n) : far[a[0]] <= far[m]
<1> DEFINE K == {z \in Nat : z < n => far[a[0]] <= far[a[z]]}
<1>0. \A z \in 0 .. n - 1 : far[a[z]] \in Nat
  BY RoutingAssumption DEF Arrays, Distant
<1>1. ASSUME NEW z \in Nat, \A y \in 0 .. z - 1 : y \in K PROVE z \in K
  <2> SUFFICES ASSUME z < n PROVE far[a[0]] <= far[a[z]]
    OBVIOUS
  <2>1. CASE z = 0
    BY <1>0, <2>1
  <2>2. CASE z # 0
    <3>1. PICK q : q = Parent(z)
      OBVIOUS
    <3>2. q \in 0 .. z /\ q < z
      BY <2>2, <3>1, ParentIs
    <3>3. q \in 0 .. z - 1 /\ q < n /\ 0 \in 0 .. n - 1 /\ q \in 0 .. n - 1 /\ z \in 0 .. n - 1
      BY <3>2
    <3>4. far[a[0]] <= far[a[q]]
      BY <1>1, <3>3
    <3>5. far[a[q]] <= far[a[z]]
      BY <3>1, <3>3 DEF InOrder
    <3>6. far[a[0]] \in Nat /\ far[a[q]] \in Nat /\ far[a[z]] \in Nat
      BY <1>0, <3>3
    <3>7. QED
      BY <3>4, <3>5, <3>6
  <2>3. QED
    BY <2>1, <2>2
<1>2. K = Nat
  <2>1. K \in SUBSET Nat
    OBVIOUS
  <2> HIDE DEF K
  <2>2. QED
    BY <1>1, <2>1, StrongInduction
<1>3. ASSUME NEW m \in Holds(a, n) PROVE far[a[0]] <= far[m]
  <2>1. PICK z \in 0 .. n - 1 : a[z] = m
    BY HoldsHas
  <2>2. z \in K /\ z < n
    BY <1>2
  <2>3. QED
    BY <2>1, <2>2
<1>4. QED
  BY <1>3

-----------------------------------------------------------------------------
(* What mark_path knows of distances (Dijkstra's algorithm), as long as no *)
(* node is lost.                                                           *)

\* A free way from n to m that is d long.
OneWay(T, n, m, d) ==
  \/ ~IsExit(n)  /\ <<n, DIR_AHEAD>>  \notin T /\ m = Dest(<<n, DIR_AHEAD>>)  /\ d = Dist(<<n, DIR_AHEAD>>)
  \/ IsBranch(n) /\ <<n, DIR_CURVED>> \notin T /\ m = Dest(<<n, DIR_CURVED>>) /\ d = Dist(<<n, DIR_CURVED>>)
  \/ <<n, DIR_CURVED>> \notin T /\ m = Reverse(n) /\ d = REVERSE_WEIGHT

\* In the heap is what has been reached and not visited, in order.
Ordered(far, a, n, seen) ==
  /\ Single(a, n) /\ InOrder(a, n, far)
  /\ \A m \in Nodes : m \in Holds(a, n) <=> far[m] < UNREACHED /\ ~seen[m]

\* The nodes that have been visited are the nearest ...
NearFirst(far, seen) == \A x, y \in Nodes : seen[x] /\ ~seen[y] => far[x] <= far[y]

\* ... and v is the last of them.
Around(far, v, seen) ==
  \A y \in Nodes : IF seen[y] THEN far[y] <= far[v] ELSE far[v] <= far[y]

\* From the nodes that have been visited, but for one, no way on is a shorter one.
Settled(T, far, seen, but) ==
  \A n \in Nodes : seen[n] /\ n # but =>
    \A m \in Nodes, d \in Nat : OneWay(T, n, m, d) => far[m] <= far[n] + d

\* What has been reached is no farther than ...
Within(far, most) == \A m \in Nodes : far[m] < UNREACHED => far[m] <= most

\* All that, in a turn that visits v.
Best(T, r, v, seen, most) ==
  /\ Ordered(r.distance, r.heap.nodes, r.heap.num_nodes, seen)
  /\ Around(r.distance, v, seen)
  /\ Settled(T, r.distance, seen, v)
  /\ Within(r.distance, most)

\* Distances of nodes not visited have fallen, at most.
Falls(r, q, seen) ==
  \A m \in Nodes : q.distance[m] <= r.distance[m] /\ (seen[m] => q.distance[m] = r.distance[m])

\* What comes of it when v offers a way.
Offers(T, r, q, v, way, seen, most) ==
  /\ Falls(r, q, seen)
  /\ way.free => q.distance[way.to] <= r.distance[v] + way.far
  /\ Best(T, q, v, seen, most) \/ Lost(q, seen)

\* Relax offers a way, unless it loses the node it leads to.
LEMMA RelaxBest ==
  ASSUME NEW s \in Nodes, NEW T, NEW r, NEW seen \in Seens, MarksOK(s, T, r, seen),
         NEW v \in Nodes, seen[v] = TRUE, NEW most \in Nat, Best(T, r, v, seen, most),
         NEW way, way.to \in Nodes, way.far \in Nat \ {0}, r.distance[v] + way.far <= most,
         NEW q, q = Relax(r, v, way, seen), q.heap.num_nodes <= TRACK_MAX - 3
  PROVE  Offers(T, r, q, v, way, seen, most)
<1>1. PICK far, a, n, from :
        /\ far \in Distant /\ a \in Arrays /\ n \in Nat /\ from \in Froms
        /\ r = Marks(far, HeapOf(a, n), from) /\ n + 3 <= TRACK_MAX
        /\ HoldsReached(a, n, far) /\ Tree(s, T, far, from, seen)
  BY DEF MarksOK
<1>2. r.distance = far /\ r.heap.nodes = a /\ r.heap.num_nodes = n
  BY <1>1 DEF Marks, HeapOf
<1>3. PICK x, d, e : x = way.to /\ d = way.far /\ e = far[v] + d
  OBVIOUS
<1>4. /\ \A m \in Nodes : far[m] \in Nat
      /\ x \in Nodes /\ d \in Nat /\ d # 0 /\ e \in Nat /\ far[v] < e /\ e <= most
  <2>1. \A m \in Nodes : far[m] \in Nat
    BY <1>1, RoutingAssumption DEF Distant
  <2>2. QED
    BY <1>2, <1>3, <2>1
<1>5. Ordered(far, a, n, seen) /\ Around(far, v, seen) /\ Settled(T, far, seen, v) /\ Within(far, most)
  BY <1>2 DEF Best
<1>7. CASE q = r
  <2>1. Falls(r, q, seen)
    <3>1. ASSUME NEW m \in Nodes PROVE far[m] <= far[m]
      <4>1. far[m] \in Nat
        BY <1>4
      <4>2. QED
        BY <4>1
    <3>2. QED
      BY <1>2, <1>7, <3>1, Zenon DEF Falls
  <2>2. ASSUME way.free PROVE far[x] <= e
    <3>1. CASE seen[x]
      BY <1>4, <1>5, <3>1 DEF Around
    <3>2. CASE far[x] <= e
      BY <3>2
    <3>3. CASE ~seen[x] /\ ~(far[x] <= e)
      <4>1. ~(seen[way.to] \/ r.distance[way.to] <= r.distance[v] + way.far \/ ~way.free)
        BY <1>2, <1>3, <2>2, <3>3
      <4>2. q.distance = [far EXCEPT ![x] = e]
        BY <1>2, <1>3, <4>1 DEF Relax
      <4>3. q.distance[x] = e
        BY <1>1, <1>4, <4>2 DEF Distant
      <4>4. QED
        BY <1>2, <1>4, <1>7, <4>3
    <3>4. QED
      BY <3>1, <3>2, <3>3
  <2>3. QED
    BY <1>2, <1>3, <1>7, <2>1, <2>2 DEF Offers
<1>8. CASE q # r
  <2>1. PICK now : now = Nearer(far, v, way)
    OBVIOUS
  <2>2. PICK to : to = Behind(from, v, way)
    OBVIOUS
  <2>3. /\ ~seen[x] /\ ~(far[x] <= e) /\ way.free
        /\ \/ from[x] = None  /\ q = Marks(now, Push(HeapOf(a, n), now, x), to)
           \/ from[x] # None /\ q = Marks(now, Update(HeapOf(a, n), now, x), to)
    BY <1>1, <1>3, <1>8, <2>1, <2>2, RelaxIs
  <2>4. now = [far EXCEPT ![x] = e]
    BY <1>3, <2>1 DEF Nearer
  <2>5. now[x] = e /\ \A m \in Nodes : m # x => now[m] = far[m]
    BY <1>1, <1>4, <2>4 DEF Distant
  <2>6. e < far[x] /\ e < UNREACHED /\ e \in 0 .. UNREACHED /\ now \in Distant
    <3>1. far[x] \in 0 .. UNREACHED /\ UNREACHED \in Nat
      BY <1>1, <1>4, RoutingAssumption DEF Distant
    <3>2. e < far[x] /\ e < UNREACHED /\ e \in 0 .. UNREACHED
      BY <1>4, <2>3, <3>1
    <3>3. QED
      BY <1>1, <1>4, <2>4, <3>2 DEF Distant
  <2>7. CloserBy(x, far, now) /\ q.distance = now
    <3>1. q.distance = now
      BY <2>3 DEF Marks
    <3>2. now[x] <= far[x]
      BY <1>4, <2>5, <2>6
    <3>3. QED
      BY <2>5, <3>1, <3>2 DEF CloserBy
  <2>8. \A m \in Nodes : now[m] \in Nat /\ now[m] <= far[m] /\ (seen[m] => m # x /\ now[m] = far[m])
    <3>1. \A m \in Nodes : seen[m] => m # x
      BY <2>3, Zenon
    <3>2. ASSUME NEW m \in Nodes PROVE now[m] \in Nat /\ now[m] <= far[m]
      <4>1. far[m] \in Nat
        BY <1>4
      <4>2. CASE m = x
        BY <1>4, <2>5, <2>6, <4>1, <4>2
      <4>3. CASE m # x
        BY <2>5, <4>1, <4>3
      <4>4. QED
        BY <4>2, <4>3
    <3>3. QED
      BY <2>5, <3>1, <3>2, Zenon
  <2>9. Falls(r, q, seen)
    BY <1>2, <2>7, <2>8 DEF Falls
  <2>10. Around(now, v, seen)
    <3> SUFFICES ASSUME NEW y \in Nodes
                 PROVE  IF seen[y] THEN now[y] <= now[v] ELSE now[v] <= now[y]
      BY DEF Around
    <3>1. now[v] = far[v]
      BY <2>8
    <3>2. CASE y = x
      BY <1>4, <2>3, <2>5, <3>1, <3>2
    <3>3. CASE y # x
      BY <1>5, <2>5, <3>1, <3>3 DEF Around
    <3>4. QED
      BY <3>2, <3>3
  <2>11. Settled(T, now, seen, v)
    <3> SUFFICES ASSUME NEW z \in Nodes, seen[z], z # v, NEW m \in Nodes, NEW l \in Nat,
                        OneWay(T, z, m, l)
                 PROVE  now[m] <= now[z] + l
      BY DEF Settled
    <3>1. far[m] <= far[z] + l
      BY <1>5 DEF Settled
    <3>2. now[m] <= far[m] /\ now[z] = far[z] /\ now[m] \in Nat /\ far[m] \in Nat /\ far[z] \in Nat
      BY <1>4, <2>8
    <3>3. QED
      BY <3>1, <3>2
  <2>12. Within(now, most)
    <3> SUFFICES ASSUME NEW m \in Nodes, now[m] < UNREACHED PROVE now[m] <= most
      BY DEF Within
    <3>1. CASE m = x
      BY <1>4, <2>5, <3>1
    <3>2. CASE m # x
      BY <1>5, <2>5, <3>2 DEF Within
    <3>3. QED
      BY <3>1, <3>2
  <2>a. n \in 0 .. TRACK_MAX /\ n # TRACK_MAX /\ n + 1 \in Nat /\ TRACK_MAX \in Nat
    BY <1>1, RoutingAssumption
  <2>13. ASSUME NEW b, NEW l, q.heap = HeapOf(b, l), Single(b, l), InOrder(b, l, now),
                Holds(b, l) = Holds(a, n) \cup {x}
         PROVE  Best(T, q, v, seen, most)
    <3>1. q.heap.nodes = b /\ q.heap.num_nodes = l
      BY <2>13 DEF HeapOf
    <3>2. ASSUME NEW m \in Nodes PROVE m \in Holds(b, l) <=> now[m] < UNREACHED /\ ~seen[m]
      <4>1. CASE m = x
        BY <2>3, <2>5, <2>6, <2>13, <4>1
      <4>2. CASE m # x
        <5>1. m \in Holds(a, n) <=> far[m] < UNREACHED /\ ~seen[m]
          BY <1>5 DEF Ordered
        <5>2. QED
          BY <2>5, <2>13, <4>2, <5>1
      <4>3. QED
        BY <4>1, <4>2
    <3>3. Ordered(now, b, l, seen)
      BY <2>13, <3>2 DEF Ordered
    <3>4. QED
      BY <2>7, <2>10, <2>11, <2>12, <3>1, <3>3 DEF Best
  <2>b. Single(a, n) /\ InOrder(a, n, far)
    BY <1>5 DEF Ordered
  <2>14. ASSUME x \notin Holds(a, n), q.heap = Push(HeapOf(a, n), now, x)
         PROVE  Best(T, q, v, seen, most)
    <3>1. PICK c : Push(HeapOf(a, n), now, x) = HeapOf(c, n + 1)
      BY <2>a, PushCounts
    <3>2. n + 1 <= TRACK_MAX - 3
      BY <2>14, <3>1 DEF HeapOf
    <3>3. n + 4 <= TRACK_MAX
      BY <1>1, <2>a, <3>2
    <3>4. PICK b \in Arrays : /\ Push(HeapOf(a, n), now, x) = HeapOf(b, n + 1)
                              /\ Holds(b, n + 1) = Holds(a, n) \cup {x}
                              /\ Single(b, n + 1) /\ InOrder(b, n + 1, now)
      BY <1>1, <1>4, <2>6, <2>7, <2>14, <2>b, <3>3, PushBest
    <3>5. PICK l : l = n + 1
      OBVIOUS
    <3>6. QED
      BY <2>13, <2>14, <3>4, <3>5
  <2>15. CASE from[x] = None
    <3>1. q.heap = Push(HeapOf(a, n), now, x)
      BY <2>3, <2>15 DEF Marks
    <3>2. x \notin Holds(a, n)
      <4>1. ASSUME x \in Holds(a, n) PROVE FALSE
        <5>1. far[x] < UNREACHED
          BY <1>4, <1>5, <4>1 DEF Ordered
        <5>2. x = s /\ far[s] = 0
          BY <1>1, <1>4, <2>15, <5>1 DEF Tree
        <5>3. QED
          BY <1>4, <2>6, <5>2
      <4>2. QED
        BY <4>1
    <3>a. q.distance[x] <= e
      BY <1>4, <2>5, <2>7
    <3>3. Best(T, q, v, seen, most)
      BY <2>14, <3>1, <3>2
    <3>4. QED
      BY <1>2, <1>3, <2>9, <3>3, <3>a DEF Offers
  <2>16. CASE from[x] # None
    <3>1. q.heap = Update(HeapOf(a, n), now, x)
      BY <2>3, <2>16 DEF Marks
    <3>a. q.distance[x] <= e
      BY <1>4, <2>5, <2>7
    <3>2. Best(T, q, v, seen, most) \/ Lost(q, seen)
      <4>1. CASE x \notin Holds(a, n)
        <5>1. q.heap = Push(HeapOf(a, n), now, x)
          BY <3>1, <4>1, InHeapHolds DEF Update
        <5>2. QED
          BY <2>14, <4>1, <5>1
      <4>2. CASE x \in Holds(a, n)
        <5>1. PICK b \in Arrays :
                /\ Update(HeapOf(a, n), now, x) = HeapOf(b, n)
                /\ \/ Holds(b, n) = Holds(a, n) /\ Single(b, n) /\ InOrder(b, n, now)
                   \/ x \notin Holds(b, n)
          BY <1>1, <1>4, <2>6, <2>7, <2>b, <4>2, UpdateBest
        <5>2. CASE Holds(b, n) = Holds(a, n) /\ Single(b, n) /\ InOrder(b, n, now)
          <6>1. Holds(b, n) = Holds(a, n) \cup {x}
            BY <4>2, <5>2
          <6>2. QED
            BY <2>13, <3>1, <5>1, <5>2, <6>1
        <5>3. CASE x \notin Holds(b, n)
          <6>1. InHeap(q.heap) = Holds(b, n)
            BY <3>1, <5>1, InHeapHolds
          <6>2. q.distance[x] < UNREACHED /\ ~seen[x] /\ x \notin InHeap(q.heap)
            BY <2>3, <2>5, <2>6, <2>7, <5>3, <6>1
          <6>3. QED
            BY <1>4, <6>2 DEF Lost
        <5>4. QED
          BY <5>1, <5>2, <5>3
      <4>3. QED
        BY <4>1, <4>2
    <3>3. QED
      BY <1>2, <1>3, <2>9, <3>2, <3>a DEF Offers
  <2>17. QED
    BY <2>15, <2>16
<1>9. QED
  BY <1>7, <1>8

\* The distances in it.
LEMMA MarksDistant ==
  ASSUME NEW s, NEW T, NEW r, NEW seen, MarksOK(s, T, r, seen)
  PROVE  \A m \in Nodes : r.distance[m] \in Nat
<1>1. PICK far, a, n, from : far \in Distant /\ r = Marks(far, HeapOf(a, n), from)
  BY DEF MarksOK
<1>2. r.distance = far
  BY <1>1, MarksFields
<1>3. QED
  BY <1>1, <1>2, RoutingAssumption DEF Distant

\* No way is longer than the longest.
LEMMA WaysLong ==
  ASSUME NEW v \in Nodes, NEW longest \in Nat, Longest(longest)
  PROVE  /\ ~IsExit(v) => WayAhead(v).far <= longest
         /\ IsBranch(v) => WayCurved(v).far <= longest
         /\ WayBack(v).far <= longest
<1>1. ~IsExit(v) => <<v, DIR_AHEAD>> \in Edges
  BY DEF Edges, DIR_AHEAD, DIR_CURVED
<1>2. IsBranch(v) => <<v, DIR_CURVED>> \in Edges
  BY DEF Edges, DIR_AHEAD, DIR_CURVED, IsBranch, IsExit
<1>3. QED
  BY <1>1, <1>2 DEF Longest, WayAhead, WayCurved, WayBack

\* Offering all ways on from a node settles it, unless a node is lost.
LEMMA RelaxesBest ==
  ASSUME NEW s \in Nodes, NEW r, NEW seen \in Seens, MarksOK(s, taken, r, seen), BothWays(taken),
         NEW v \in Nodes, seen[v] = TRUE, NEW most \in Nat, Best(taken, r, v, seen, most),
         NEW longest \in Nat, Longest(longest), r.distance[v] + longest <= most,
         NEW ahead, ahead = RelaxAhead(r, v, seen), NEW curved, curved = RelaxCurved(ahead, v, seen),
         NEW new, new = RelaxBack(curved, v, seen), new.heap.num_nodes <= TRACK_MAX - 3,
         ~Lost(ahead, seen), ~Lost(curved, seen), ~Lost(new, seen)
  PROVE  /\ Best(taken, new, v, seen, most)
         /\ \A m \in Nodes, d \in Nat : OneWay(taken, v, m, d) => new.distance[m] <= new.distance[v] + d
<1>1. /\ MarksOK(s, taken, ahead, seen) /\ MarksOK(s, taken, curved, seen)
      /\ MarksOK(s, taken, new, seen)
      /\ ahead.heap.num_nodes <= TRACK_MAX - 3 /\ curved.heap.num_nodes <= TRACK_MAX - 3
  BY RelaxesOK
<1>2. \A m \in Nodes : /\ r.distance[m] \in Nat /\ ahead.distance[m] \in Nat
                       /\ curved.distance[m] \in Nat /\ new.distance[m] \in Nat
  BY <1>1, MarksDistant
<1>a. ASSUME NEW q, Falls(q, q, seen) \/ \A m \in Nodes : q.distance[m] \in Nat PROVE Falls(q, q, seen)
  <2>1. CASE \A m \in Nodes : q.distance[m] \in Nat
    <3>1. ASSUME NEW m \in Nodes PROVE q.distance[m] <= q.distance[m]
      <4>1. q.distance[m] \in Nat
        BY <2>1
      <4>2. QED
        BY <4>1
    <3>2. QED
      BY <3>1, Zenon DEF Falls
  <2>2. QED
    BY <1>a, <2>1
<1>b. /\ ~IsExit(v) => WayAhead(v).far <= longest
      /\ IsBranch(v) => WayCurved(v).far <= longest
      /\ WayBack(v).far <= longest
  BY WaysLong
\* The node ahead.
<1>3. /\ Falls(r, ahead, seen) /\ Best(taken, ahead, v, seen, most)
      /\ ~IsExit(v) /\ WayAhead(v).free => ahead.distance[WayAhead(v).to] <= r.distance[v] + WayAhead(v).far
  <2>1. CASE IsExit(v)
    <3>1. ahead = r
      BY <2>1 DEF RelaxAhead
    <3>2. Falls(r, r, seen)
      BY <1>2, <1>a
    <3>3. QED
      BY <2>1, <3>1, <3>2
  <2>2. CASE ~IsExit(v)
    <3>1. PICK way : way = WayAhead(v)
      OBVIOUS
    <3>2. ahead = Relax(r, v, way, seen)
      BY <2>2, <3>1 DEF RelaxAhead
    <3>3. way.to \in Nodes /\ way.far \in Nat \ {0}
      BY <2>2, <3>1, AheadLeads
    <3>4. r.distance[v] + way.far <= most
      <4>1. way.far <= longest
        BY <1>b, <2>2, <3>1
      <4>2. r.distance[v] \in Nat /\ way.far \in Nat
        BY <1>2, <3>3
      <4>3. QED
        BY <4>1, <4>2
    <3>5. Offers(taken, r, ahead, v, way, seen, most)
      BY <1>1, <3>2, <3>3, <3>4, RelaxBest
    <3>6. QED
      BY <2>2, <3>1, <3>5 DEF Offers
  <2>3. QED
    BY <2>1, <2>2
<1>4. ahead.distance[v] = r.distance[v]
  BY <1>3 DEF Falls
\* The node on the curved edge.
<1>5. /\ Falls(ahead, curved, seen) /\ Best(taken, curved, v, seen, most)
      /\ IsBranch(v) /\ WayCurved(v).free =>
           curved.distance[WayCurved(v).to] <= r.distance[v] + WayCurved(v).far
  <2>1. CASE ~IsBranch(v)
    <3>1. curved = ahead
      BY <2>1 DEF RelaxCurved
    <3>2. Falls(ahead, ahead, seen)
      BY <1>2, <1>a
    <3>3. QED
      BY <1>3, <2>1, <3>1, <3>2
  <2>2. CASE IsBranch(v)
    <3>1. PICK way : way = WayCurved(v)
      OBVIOUS
    <3>2. curved = Relax(ahead, v, way, seen)
      BY <2>2, <3>1 DEF RelaxCurved
    <3>3. way.to \in Nodes /\ way.far \in Nat \ {0}
      BY <2>2, <3>1, CurvedLeads
    <3>4. ahead.distance[v] + way.far <= most
      <4>1. way.far <= longest
        BY <1>b, <2>2, <3>1
      <4>2. r.distance[v] \in Nat /\ way.far \in Nat
        BY <1>2, <3>3
      <4>3. QED
        BY <1>4, <4>1, <4>2
    <3>5. Offers(taken, ahead, curved, v, way, seen, most)
      BY <1>1, <1>3, <3>2, <3>3, <3>4, RelaxBest
    <3>6. QED
      BY <1>4, <2>2, <3>1, <3>5 DEF Offers
  <2>3. QED
    BY <2>1, <2>2
<1>6. curved.distance[v] = r.distance[v]
  BY <1>4, <1>5 DEF Falls
\* The node itself in the other direction.
<1>7. /\ Falls(curved, new, seen) /\ Best(taken, new, v, seen, most)
      /\ WayBack(v).free => new.distance[WayBack(v).to] <= r.distance[v] + WayBack(v).far
  <2>1. PICK way : way = WayBack(v)
    OBVIOUS
  <2>2. new = Relax(curved, v, way, seen)
    BY <2>1 DEF RelaxBack
  <2>3. way.to \in Nodes /\ way.far \in Nat \ {0}
    BY <2>1, BackLeads
  <2>4. curved.distance[v] + way.far <= most
    <3>1. way.far <= longest
      BY <1>b, <2>1
    <3>2. r.distance[v] \in Nat /\ way.far \in Nat
      BY <1>2, <2>3
    <3>3. QED
      BY <1>6, <3>1, <3>2
  <2>5. Offers(taken, curved, new, v, way, seen, most)
    BY <1>1, <1>5, <2>2, <2>3, <2>4, RelaxBest
  <2>6. QED
    BY <1>6, <2>1, <2>5 DEF Offers
<1>8. new.distance[v] = r.distance[v]
  BY <1>6, <1>7 DEF Falls
<1>9. ASSUME NEW m \in Nodes, NEW d \in Nat, OneWay(taken, v, m, d)
      PROVE  new.distance[m] <= r.distance[v] + d
  <2>1. /\ new.distance[m] <= curved.distance[m] /\ curved.distance[m] <= ahead.distance[m]
        /\ ahead.distance[m] \in Nat /\ curved.distance[m] \in Nat /\ new.distance[m] \in Nat
        /\ r.distance[v] \in Nat
    BY <1>2, <1>5, <1>7 DEF Falls
  <2>2. CASE ~IsExit(v) /\ <<v, DIR_AHEAD>> \notin taken /\ m = Dest(<<v, DIR_AHEAD>>) /\ d = Dist(<<v, DIR_AHEAD>>)
    <3>1. WayAhead(v).free /\ WayAhead(v).to = m /\ WayAhead(v).far = d
      BY <2>2 DEF WayAhead, EdgeAvailable
    <3>2. ahead.distance[m] <= r.distance[v] + d
      BY <1>3, <2>2, <3>1
    <3>3. QED
      BY <2>1, <3>2
  <2>3. CASE IsBranch(v) /\ <<v, DIR_CURVED>> \notin taken /\ m = Dest(<<v, DIR_CURVED>>) /\ d = Dist(<<v, DIR_CURVED>>)
    <3>1. WayCurved(v).free /\ WayCurved(v).to = m /\ WayCurved(v).far = d
      BY <2>3 DEF WayCurved, EdgeAvailable
    <3>2. curved.distance[m] <= r.distance[v] + d
      BY <1>5, <2>3, <3>1
    <3>3. QED
      BY <2>1, <3>2
  <2>4. CASE <<v, DIR_CURVED>> \notin taken /\ m = Reverse(v) /\ d = REVERSE_WEIGHT
    <3>1. WayBack(v).free /\ WayBack(v).to = m /\ WayBack(v).far = d
      BY <2>4 DEF WayBack, EdgeAvailable
    <3>2. QED
      BY <1>7, <3>1
  <2>5. QED
    BY <1>9, <2>2, <2>3, <2>4 DEF OneWay
<1>10. QED
  BY <1>7, <1>8, <1>9

\* A node is visited, and no other lost when it is taken off the heap.
LEMMA VisitBest ==
  ASSUME NEW T, NEW far \in Distant, NEW a \in Arrays, NEW n \in Nat \ {0}, n + 2 <= TRACK_MAX,
         NEW before \in Seens, Ordered(far, a, n, before), NearFirst(far, before),
         Settled(T, far, before, None), NEW most, Within(far, most),
         NEW v, v = a[0], NEW seen, seen = [before EXCEPT ![v] = TRUE],
         NEW from, NEW r, r = Marks(far, Pop(HeapOf(a, n), far), from), ~Lost(r, seen)
  PROVE  v \in Nodes /\ ~before[v] /\ Best(T, r, v, seen, most)
<1>0. /\ 0 \in 0 .. n - 1 /\ TRACK_MAX \in Nat /\ \A z \in 0 .. n - 1 : z \in 0 .. TRACK_MAX - 1
      /\ n - 1 \in Nat /\ n \in Nat /\ n <= TRACK_MAX
  BY RoutingAssumption
<1>1. \A z \in 0 .. n - 1 : a[z] \in Nodes /\ a[z] \in Holds(a, n)
  <2> SUFFICES ASSUME NEW z \in 0 .. n - 1 PROVE a[z] \in Nodes /\ a[z] \in Holds(a, n)
    OBVIOUS
  <2>1. a[z] \in Nodes
    BY <1>0 DEF Arrays
  <2>2. QED
    BY <2>1, HoldsHas
<1>2. v \in Nodes /\ v \in Holds(a, n) /\ ~before[v]
  BY <1>0, <1>1 DEF Ordered
<1>3. seen[v] = TRUE /\ \A m \in Nodes : m # v => seen[m] = before[m]
  BY <1>2 DEF Seens
<1>4. Single(a, n) /\ InOrder(a, n, far)
  BY DEF Ordered
<1>5. PICK b \in Arrays : /\ Pop(HeapOf(a, n), far) = HeapOf(b, n - 1)
                          /\ SortedOrLost(Holds(a, n) \ {v}, n - 1, far, b)
  BY <1>4, PopBest
<1>6. PICK k : k = n - 1
  OBVIOUS
<1>7. r.distance = far /\ r.heap = HeapOf(b, k) /\ r.heap.nodes = b /\ r.heap.num_nodes = k
  BY <1>5, <1>6 DEF Marks, HeapOf
<1>8. InHeap(r.heap) = Holds(b, k)
  BY <1>7, InHeapHolds
<1>9. Holds(b, k) = Holds(a, n) \ {v} /\ Single(b, k) /\ InOrder(b, k, far)
  <2>1. ASSUME NEW x \in Holds(a, n) \ {v}, x \notin Holds(b, k) PROVE FALSE
    <3>1. PICK z \in 0 .. n - 1 : a[z] = x
      BY HoldsHas
    <3>2. x \in Nodes /\ x # v
      BY <1>1, <3>1
    <3>3. far[x] < UNREACHED /\ ~before[x]
      BY <3>2 DEF Ordered
    <3>4. r.distance[x] < UNREACHED /\ ~seen[x] /\ x \notin InHeap(r.heap)
      BY <1>3, <1>7, <1>8, <2>1, <3>2, <3>3
    <3>5. QED
      BY <3>2, <3>4 DEF Lost
  <2>2. QED
    BY <1>5, <1>6, <2>1 DEF SortedOrLost
<1>10. Ordered(far, b, k, seen)
  <2>1. ASSUME NEW m \in Nodes PROVE m \in Holds(b, k) <=> far[m] < UNREACHED /\ ~seen[m]
    <3>1. m \in Holds(a, n) <=> far[m] < UNREACHED /\ ~before[m]
      BY DEF Ordered
    <3>2. QED
      BY <1>3, <1>9, <3>1, Zenon
  <2>2. QED
    BY <1>9, <2>1 DEF Ordered
<1>11. Around(far, v, seen)
  <2> SUFFICES ASSUME NEW y \in Nodes PROVE IF seen[y] THEN far[y] <= far[v] ELSE far[v] <= far[y]
    BY DEF Around
  <2>1. far[y] \in 0 .. UNREACHED /\ far[v] \in 0 .. UNREACHED /\ UNREACHED \in Nat
    BY <1>2, RoutingAssumption DEF Distant
  <2>2. CASE y = v
    BY <2>1, <2>2
  <2>3. CASE y # v /\ seen[y]
    BY <1>2, <1>3, <2>3 DEF NearFirst
  <2>4. CASE y # v /\ ~seen[y] /\ far[y] < UNREACHED
    <3>1. y \in Holds(a, n)
      BY <1>3, <2>4 DEF Ordered
    <3>2. far[v] <= far[y]
      BY <1>0, <1>4, <3>1, FirstNearest
    <3>3. QED
      BY <2>4, <3>2
  <2>5. CASE y # v /\ ~seen[y] /\ ~(far[y] < UNREACHED)
    BY <2>1, <2>5
  <2>6. QED
    BY <2>2, <2>3, <2>4, <2>5
<1>12. Settled(T, far, seen, v)
  <2> SUFFICES ASSUME NEW z \in Nodes, seen[z], z # v, NEW m \in Nodes, NEW d \in Nat, OneWay(T, z, m, d)
               PROVE  far[m] <= far[z] + d
    BY DEF Settled
  <2>1. before[z] /\ z # None
    BY <1>3, RoutingAssumption
  <2>2. QED
    BY <2>1 DEF Settled
<1>13. QED
  BY <1>2, <1>7, <1>10, <1>11, <1>12 DEF Best

\* The nodes that have been visited.
Visits(seen) == {m \in Nodes : seen[m] = TRUE}

\* There are as many as there are nodes, at most.
LEMMA VisitsCount ==
  ASSUME NEW seen
  PROVE  /\ IsFiniteSet(Visits(seen)) /\ Cardinality(Visits(seen)) \in Nat
         /\ Cardinality(Nodes) \in Nat /\ Cardinality(Visits(seen)) <= Cardinality(Nodes)
         /\ \A m \in Nodes : ~seen[m] => Cardinality(Visits(seen)) < Cardinality(Nodes)
<1>1. IsFiniteSet(Nodes) /\ Visits(seen) \in SUBSET Nodes
  BY LengthsAssumption DEF Visits
<1>2. /\ IsFiniteSet(Visits(seen)) /\ Cardinality(Visits(seen)) <= Cardinality(Nodes)
      /\ Cardinality(Nodes) = Cardinality(Visits(seen)) => Nodes = Visits(seen)
  BY <1>1, FS_Subset
<1>3. Cardinality(Visits(seen)) \in Nat /\ Cardinality(Nodes) \in Nat
  BY <1>1, <1>2, FS_CardinalityType
<1>4. ASSUME NEW m \in Nodes, ~seen[m] PROVE Cardinality(Visits(seen)) < Cardinality(Nodes)
  <2>1. m \notin Visits(seen)
    BY <1>4 DEF Visits
  <2>2. Cardinality(Nodes) # Cardinality(Visits(seen))
    BY <1>2, <2>1
  <2>3. QED
    BY <1>2, <1>3, <2>2
<1>5. QED
  BY <1>2, <1>3, <1>4

\* One more.
LEMMA OneMoreVisit ==
  ASSUME NEW before \in Seens, NEW v \in Nodes, ~before[v], NEW seen, seen = [before EXCEPT ![v] = TRUE]
  PROVE  Cardinality(Visits(seen)) = Cardinality(Visits(before)) + 1
<1>1. seen[v] = TRUE /\ \A m \in Nodes : m # v => seen[m] = before[m]
  BY DEF Seens
<1>2. Visits(seen) = Visits(before) \cup {v} /\ v \notin Visits(before)
  BY <1>1 DEF Visits
<1>3. QED
  BY <1>2, VisitsCount, FS_AddElement

\* A length that no way exceeds, and that no route gets too long with.
Farthest == CHOOSE far \in 0 .. UNREACHED : Longest(far) /\ Cardinality(Nodes) * far < UNREACHED

\* It is such a length.
LEMMA FarthestIs ==
  /\ Farthest \in Nat /\ Longest(Farthest)
  /\ \A k \in Nat : k <= Cardinality(Nodes) => Farthest * k < UNREACHED
<1>1. Farthest \in 0 .. UNREACHED /\ Longest(Farthest) /\ Cardinality(Nodes) * Farthest < UNREACHED
  BY LengthsAssumption DEF Farthest
<1>2. Cardinality(Nodes) \in Nat /\ UNREACHED \in Nat
  BY VisitsCount, RoutingAssumption
<1>3. PICK f, c : f = Farthest /\ c = Cardinality(Nodes)
  OBVIOUS
<1>4. f \in Nat /\ c \in Nat /\ c * f < UNREACHED
  BY <1>1, <1>2, <1>3
<1>5. ASSUME NEW k \in Nat, k <= c PROVE f * k < UNREACHED
  <2>1. PICK l \in Nat : c = k + l
    <3>1. c - k \in Nat /\ c = k + (c - k)
      BY <1>4, <1>5
    <3>2. QED
      BY <3>1
  <2>2. c * f = f * k + f * l
    BY <1>4, <2>1
  <2>3. f * l \in Nat /\ f * k \in Nat
    BY <1>4, <2>1
  <2>4. QED
    BY <1>2, <1>4, <2>2, <2>3
<1>6. QED
  BY <1>1, <1>3, <1>4, <1>5

\* What mark_path knows before each turn, and how many there were.
Marking(T, far, h, seen, count) ==
  /\ Ordered(far, h.nodes, h.num_nodes, seen) /\ NearFirst(far, seen)
  /\ Settled(T, far, seen, None) /\ Within(far, Farthest * Cardinality(Visits(seen)))
  /\ count = Cardinality(Visits(seen))

\* A turn that settles a node leaves it so.
LEMMA BestMarking ==
  ASSUME NEW T, NEW r, NEW v \in Nodes, NEW seen \in Seens,
         Best(T, r, v, seen, Farthest * Cardinality(Visits(seen))),
         \A m \in Nodes, d \in Nat : OneWay(T, v, m, d) => r.distance[m] <= r.distance[v] + d,
         \A m \in Nodes : r.distance[m] \in Nat
  PROVE  Marking(T, r.distance, r.heap, seen, Cardinality(Visits(seen)))
<1>1. PICK far : far = r.distance
  OBVIOUS
<1>2. \A m \in Nodes : far[m] \in Nat
  BY <1>1
<1>3. Around(far, v, seen)
  BY <1>1 DEF Best
<1>4. NearFirst(far, seen)
  <2> SUFFICES ASSUME NEW x \in Nodes, NEW y \in Nodes, seen[x], ~seen[y] PROVE far[x] <= far[y]
    BY DEF NearFirst
  <2>1. far[x] <= far[v] /\ far[v] <= far[y]
    BY <1>3 DEF Around
  <2>2. far[x] \in Nat /\ far[v] \in Nat /\ far[y] \in Nat
    BY <1>2
  <2>3. QED
    BY <2>1, <2>2
<1>5. Settled(T, far, seen, None)
  <2> SUFFICES ASSUME NEW z \in Nodes, seen[z], NEW m \in Nodes, NEW d \in Nat, OneWay(T, z, m, d)
               PROVE  far[m] <= far[z] + d
    BY DEF Settled
  <2>1. CASE z = v
    BY <1>1, <2>1
  <2>2. CASE z # v
    BY <1>1, <2>2 DEF Best, Settled
  <2>3. QED
    BY <2>1, <2>2
<1>6. QED
  BY <1>1, <1>4, <1>5 DEF Best, Marking

\* No way leads out of S.
Closed(T, S) == \A n \in S, m \in Nodes, d \in Nat : OneWay(T, n, m, d) => m \in S

\* There is no way from s to e.
CutOff(T, s, e) == \E S \in SUBSET Nodes : s \in S /\ e \notin S /\ Closed(T, S)

\* What is true of a search that has lost no node.
ShortestInv ==
  /\ ~lost /\ state = "marking" => Marking(taken, distance, heap, visited, turns)
  /\ ~lost /\ visited[end] =>
       Around(distance, end, visited) /\ Settled(taken, distance, visited, end)
  /\ ~lost /\ state # "marking" /\ ~visited[end] => CutOff(taken, start, end)
  /\ ~lost => turns <= Cardinality(Nodes)
  /\ state = "answered" => (path = << >> <=> ~visited[end])

\* A heap that has room for the first node has room for more.
LEMMA FirstFits ==
  ASSUME HeapFits, NEW a, NEW far, NEW x, heap = Push(HeapOf(a, 0), far, x)
  PROVE  0 + 4 <= TRACK_MAX
<1>1. CASE 0 = TRACK_MAX
  <2>1. heap = HeapOf(a, 0)
    BY <1>1, PushCounts
  <2>2. heap.num_nodes = 0
    BY <2>1 DEF HeapOf
  <2>3. QED
    BY <1>1, <2>2 DEF HeapFits
<1>2. CASE 0 # TRACK_MAX
  <2>1. PICK b : heap = HeapOf(b, 0 + 1)
    BY <1>2, PushCounts
  <2>2. heap.num_nodes = 1
    BY <2>1 DEF HeapOf
  <2>3. QED
    BY <2>2, RoutingAssumption DEF HeapFits
<1>3. QED
  BY <1>1, <1>2

\* It starts with the start in the heap.
LEMMA SearchInitShortest == SearchInit /\ HeapFits => ShortestInv
<1> SUFFICES ASSUME SearchInit, HeapFits PROVE ShortestInv
  OBVIOUS
<1>1. /\ start \in Nodes /\ end \in Nodes /\ state = "marking" /\ turns = 0
      /\ visited = [n \in Nodes |-> FALSE]
      /\ distance = [n \in Nodes |-> IF n = start THEN 0 ELSE UNREACHED]
  BY DEF SearchInit, Sensors
<1>2. /\ \A m \in Nodes : visited[m] = FALSE
      /\ distance \in Distant
      /\ \A m \in Nodes : distance[m] = IF m = start THEN 0 ELSE UNREACHED
  BY <1>1, RoutingAssumption DEF Distant
<1>3. PICK b \in Arrays : /\ heap = HeapOf(b, 1) /\ Holds(b, 1) = {start}
                          /\ Single(b, 1) /\ InOrder(b, 1, distance)
  <2>1. PICK left \in Leftovers :
          heap = Push([nodes |-> [i \in 0..(TRACK_MAX - 1) |-> left], num_nodes |-> 0],
                      distance, start)
    BY DEF SearchInit
  <2>2. PICK a : a = [i \in 0..(TRACK_MAX - 1) |-> left]
    OBVIOUS
  <2>3. a \in Arrays
    BY <2>2, RoutingAssumption DEF Arrays
  <2>4. heap = Push(HeapOf(a, 0), distance, start)
    BY <2>1, <2>2 DEF HeapOf
  <2>5. 0 + 4 <= TRACK_MAX
    BY <2>4, FirstFits
  <2>6. Holds(a, 0) = {} /\ Single(a, 0) /\ InOrder(a, 0, distance)
    BY DEF Holds, Single, InOrder
  <2>7. CloserBy(start, distance, distance)
    <3>1. distance[start] \in Nat
      BY <1>1, <1>2
    <3>2. distance[start] <= distance[start]
      BY <3>1
    <3>3. QED
      BY <3>2 DEF CloserBy
  <2>8. PICK b \in Arrays :
           /\ Push(HeapOf(a, 0), distance, start) = HeapOf(b, 0 + 1)
           /\ Holds(b, 0 + 1) = Holds(a, 0) \cup {start}
           /\ Single(b, 0 + 1) /\ InOrder(b, 0 + 1, distance)
    <3>1. start \notin Holds(a, 0) /\ 0 \in Nat
      BY <2>6
    <3>2. QED
      BY <1>1, <1>2, <2>3, <2>5, <2>6, <2>7, <3>1, PushBest
  <2>9. QED
    BY <2>4, <2>6, <2>8
<1>4. heap.nodes = b /\ heap.num_nodes = 1
  BY <1>3 DEF HeapOf
<1>5. Ordered(distance, b, 1, visited)
  <2>1. ASSUME NEW m \in Nodes
        PROVE  m \in Holds(b, 1) <=> distance[m] < UNREACHED /\ ~visited[m]
    <3>1. CASE m = start
      BY <1>2, <1>3, <3>1, RoutingAssumption
    <3>2. CASE m # start
      BY <1>2, <1>3, <3>2, RoutingAssumption
    <3>3. QED
      BY <3>1, <3>2
  <2>2. QED
    BY <1>3, <2>1 DEF Ordered
<1>6. Visits(visited) = {}
  BY <1>2 DEF Visits
<1>7. Cardinality(Visits(visited)) = 0
  BY <1>6, FS_EmptySet
<1>8. NearFirst(distance, visited) /\ Settled(taken, distance, visited, None)
  BY <1>2 DEF NearFirst, Settled
<1>9. Within(distance, Farthest * Cardinality(Visits(visited)))
  <2>1. Farthest * 0 = 0
    BY FarthestIs
  <2>2. \A m \in Nodes : distance[m] < UNREACHED => distance[m] <= 0
    BY <1>2, RoutingAssumption
  <2>3. QED
    BY <1>7, <2>1, <2>2 DEF Within
<1>10. Marking(taken, distance, heap, visited, turns)
  BY <1>1, <1>4, <1>5, <1>7, <1>8, <1>9 DEF Marking
<1>11. turns <= Cardinality(Nodes)
  BY <1>1, VisitsCount
<1>12. QED
  BY <1>1, <1>2, <1>10, <1>11 DEF ShortestInv

\* A turn that loses no node.
LEMMA ExploreShortest == SearchInv /\ ShortestInv /\ Explore /\ HeapFits' => ShortestInv'
<1> SUFFICES ASSUME SearchInv, ShortestInv, Explore, HeapFits' PROVE ShortestInv'
  OBVIOUS
<1>1. PICK v : v = Top(heap)
  OBVIOUS
<1>2. PICK seen : seen = [visited EXCEPT ![v] = TRUE]
  OBVIOUS
<1>3. PICK popped, ahead, curved, new :
        /\ popped = [distance |-> distance, heap |-> Pop(heap, distance), previous |-> previous]
        /\ ahead  = IF v = end THEN popped ELSE RelaxAhead(popped, v, seen)
        /\ curved = IF v = end THEN popped ELSE RelaxCurved(ahead, v, seen)
        /\ new    = IF v = end THEN popped ELSE RelaxBack(curved, v, seen)
        /\ heap' = new.heap /\ distance' = new.distance /\ previous' = new.previous
        /\ lost' = (lost \/ \E r \in {popped, ahead, curved, new} : Lost(r, seen))
  BY <1>1, <1>2 DEF Explore
<1>4. /\ state = "marking" /\ heap.num_nodes > 0 /\ visited' = seen
      /\ start' = start /\ end' = end /\ taken' = taken /\ path' = path /\ turns' = turns + 1
      /\ state' = IF v = end THEN "marked" ELSE "marking"
  BY <1>1, <1>2 DEF Explore
<1>5. state' # "answered"
  BY <1>4
<1> SUFFICES ASSUME ~lost'
             PROVE  /\ state' = "marking" => Marking(taken', distance', heap', visited', turns')
                    /\ visited'[end'] =>
                         Around(distance', end', visited') /\ Settled(taken', distance', visited', end')
                    /\ state' # "marking" => visited'[end']
                    /\ turns' <= Cardinality(Nodes)
  BY <1>5 DEF ShortestInv
<1>6. ~lost /\ ~Lost(popped, seen) /\ ~Lost(ahead, seen) /\ ~Lost(curved, seen) /\ ~Lost(new, seen)
  BY <1>3
<1>7. PICK a, n : /\ a \in Arrays /\ n \in Nat /\ n + 3 <= TRACK_MAX /\ heap = HeapOf(a, n)
                  /\ HoldsReached(a, n, distance)
  BY <1>4 DEF SearchInv, HeapInv
<1>8. /\ heap.num_nodes = n /\ heap.nodes = a /\ n \in Nat \ {0} /\ n + 2 <= TRACK_MAX /\ v = a[0]
  <2>1. heap.num_nodes = n /\ heap.nodes = a
    BY <1>7 DEF HeapOf
  <2>2. QED
    BY <1>1, <1>4, <1>7, <2>1, RoutingAssumption DEF Top
<1>9. /\ start \in Nodes /\ end \in Nodes /\ BothWays(taken) /\ distance \in Distant
      /\ previous \in Froms /\ visited \in Seens /\ ~visited[end]
      /\ Tree(start, taken, distance, previous, visited)
  BY <1>4 DEF SearchInv
<1>10. Marking(taken, distance, heap, visited, turns)
  BY <1>4, <1>6 DEF ShortestInv
<1>11. PICK k : k = Cardinality(Visits(visited))
  OBVIOUS
<1>12. /\ Ordered(distance, a, n, visited) /\ NearFirst(distance, visited)
       /\ Settled(taken, distance, visited, None) /\ Within(distance, Farthest * k)
       /\ turns = k
  BY <1>8, <1>10, <1>11 DEF Marking
<1>13. k \in Nat /\ k < Cardinality(Nodes) /\ Cardinality(Nodes) \in Nat
  BY <1>9, <1>11, VisitsCount
<1>14. popped = Marks(distance, Pop(HeapOf(a, n), distance), previous)
  BY <1>3, <1>7 DEF Marks
<1>15. /\ Farthest * k \in Nat /\ Farthest * (k + 1) \in Nat
       /\ Farthest * (k + 1) = Farthest * k + Farthest /\ Farthest \in Nat
  <2>1. PICK f : f = Farthest
    OBVIOUS
  <2>2. f \in Nat
    BY <2>1, FarthestIs
  <2>3. f * k \in Nat /\ f * (k + 1) \in Nat /\ f * (k + 1) = f * k + f
    BY <1>13, <2>2
  <2>4. QED
    BY <2>1, <2>2, <2>3
<1>16. Within(distance, Farthest * (k + 1))
  <2> SUFFICES ASSUME NEW m \in Nodes, distance[m] < UNREACHED PROVE distance[m] <= Farthest * (k + 1)
    BY DEF Within
  <2>1. distance[m] \in Nat /\ distance[m] <= Farthest * k
    BY <1>9, <1>12, RoutingAssumption DEF Within, Distant
  <2>2. QED
    BY <1>15, <2>1
<1>17. v \in Nodes /\ ~visited[v] /\ Best(taken, popped, v, seen, Farthest * (k + 1))
  <2>1. PICK most : most = Farthest * (k + 1)
    OBVIOUS
  <2>2. Within(distance, most)
    BY <1>16, <2>1
  <2>3. v \in Nodes /\ ~visited[v] /\ Best(taken, popped, v, seen, most)
    BY <1>2, <1>6, <1>7, <1>8, <1>9, <1>12, <1>14, <2>2, VisitBest
  <2>4. QED
    BY <2>1, <2>3
<1>18. Cardinality(Visits(seen)) = k + 1 /\ seen \in Seens /\ seen[v] = TRUE
  BY <1>2, <1>9, <1>11, <1>17, OneMoreVisit DEF Seens
<1>19. turns' = k + 1 /\ turns' <= Cardinality(Nodes)
  BY <1>4, <1>12, <1>13
<1>20. popped.distance = distance
  BY <1>3
<1>21. CASE v = end
  <2>1. distance' = distance /\ state' # "marking"
    BY <1>3, <1>4, <1>20, <1>21
  <2>2. Around(distance, end, seen) /\ Settled(taken, distance, seen, end)
    BY <1>17, <1>20, <1>21 DEF Best
  <2>3. visited'[end']
    BY <1>4, <1>18, <1>21
  <2>4. QED
    BY <1>4, <1>19, <2>1, <2>2, <2>3
<1>22. CASE v # end
  <2>1. /\ ahead = RelaxAhead(popped, v, seen) /\ curved = RelaxCurved(ahead, v, seen)
        /\ new = RelaxBack(curved, v, seen)
    BY <1>3, <1>22
  <2>2. MarksOK(start, taken, popped, seen)
    <3>1. Tree(start, taken, distance, previous, seen)
      <4>1. \A m \in Nodes : visited[m] = TRUE => seen[m] = TRUE
        BY <1>2, <1>9, <1>17 DEF Seens
      <4>2. QED
        BY <1>9, <4>1, TreeSeen
    <3>2. PICK b, l : /\ b \in Arrays /\ l \in Nat /\ l + 3 <= TRACK_MAX
                      /\ Pop(heap, distance) = HeapOf(b, l) /\ HoldsReached(b, l, distance)
      BY <1>4, TurnStarts
    <3>3. popped = Marks(distance, HeapOf(b, l), previous)
      BY <1>7, <1>14, <3>2
    <3>4. QED
      BY <1>9, <3>1, <3>2, <3>3 DEF MarksOK
  <2>3. new.heap.num_nodes <= TRACK_MAX - 3
    BY <1>3 DEF HeapFits
  <2>4. popped.distance[v] + Farthest <= Farthest * (k + 1)
    <3>1. v \in Holds(a, n)
      <4>1. 0 \in 0 .. n - 1
        BY <1>8
      <4>2. QED
        BY <1>8, <4>1, HoldsHas
    <3>2. distance[v] < UNREACHED
      BY <1>12, <1>17, <3>1 DEF Ordered
    <3>3. distance[v] <= Farthest * k /\ distance[v] \in Nat
      BY <1>9, <1>12, <1>17, <3>2, RoutingAssumption DEF Within, Distant
    <3>4. QED
      BY <1>15, <1>20, <3>3
  <2>5. PICK most \in Nat : most = Farthest * (k + 1)
    BY <1>15
  <2>6. /\ Best(taken, new, v, seen, most)
        /\ \A m \in Nodes, d \in Nat : OneWay(taken, v, m, d) => new.distance[m] <= new.distance[v] + d
    <3>1. Farthest \in Nat /\ Longest(Farthest)
      BY FarthestIs
    <3>2. Best(taken, popped, v, seen, most) /\ popped.distance[v] + Farthest <= most
      BY <1>17, <2>4, <2>5
    <3>3. QED
      BY <1>6, <1>9, <1>17, <1>18, <2>1, <2>2, <2>3, <3>1, <3>2, RelaxesBest
  <2>7. \A m \in Nodes : new.distance[m] \in Nat
    BY <1>9, <1>17, <1>18, <2>1, <2>2, <2>3, RelaxesOK, MarksDistant
  <2>8. Marking(taken, new.distance, new.heap, seen, Cardinality(Visits(seen)))
    <3>1. Best(taken, new, v, seen, Farthest * Cardinality(Visits(seen)))
      BY <1>18, <2>5, <2>6
    <3>2. QED
      BY <1>17, <1>18, <2>6, <2>7, <3>1, BestMarking
  <2>9. Marking(taken', distance', heap', visited', turns')
    BY <1>3, <1>4, <1>18, <1>19, <2>8
  <2>10. state' = "marking" /\ ~visited'[end']
    BY <1>2, <1>4, <1>9, <1>22 DEF Seens
  <2>11. QED
    BY <1>19, <2>9, <2>10
<1>23. QED
  BY <1>21, <1>22

\* A way on leads to a node, and is no longer than the longest.
LEMMA OneWayLeads ==
  ASSUME NEW T, NEW n \in Nodes, NEW m, NEW d, OneWay(T, n, m, d)
  PROVE  m \in Nodes /\ d \in Nat /\ d <= Farthest
<1>1. Longest(Farthest)
  BY FarthestIs
<1>2. CASE ~IsExit(n) /\ m = Dest(<<n, DIR_AHEAD>>) /\ d = Dist(<<n, DIR_AHEAD>>)
  <2>1. <<n, DIR_AHEAD>> \in Edges
    BY <1>2 DEF Edges, DIR_AHEAD, DIR_CURVED
  <2>2. QED
    BY <1>1, <1>2, <2>1, EdgesAssumption DEF Longest
<1>3. CASE IsBranch(n) /\ m = Dest(<<n, DIR_CURVED>>) /\ d = Dist(<<n, DIR_CURVED>>)
  <2>1. <<n, DIR_CURVED>> \in Edges
    BY <1>3 DEF Edges, DIR_AHEAD, DIR_CURVED, IsBranch, IsExit
  <2>2. QED
    BY <1>1, <1>3, <2>1, EdgesAssumption DEF Longest
<1>4. CASE m = Reverse(n) /\ d = REVERSE_WEIGHT
  BY <1>1, <1>4, NodesAssumption, RoutingAssumption DEF Longest
<1>5. QED
  BY <1>2, <1>3, <1>4 DEF OneWay

\* The search gives up: no way leads out of what has been reached.
LEMMA GiveUpShortest == SearchInv /\ ShortestInv /\ GiveUp => ShortestInv'
<1> SUFFICES ASSUME SearchInv, ShortestInv, GiveUp PROVE ShortestInv'
  OBVIOUS
<1>1. /\ start' = start /\ end' = end /\ taken' = taken /\ lost' = lost /\ turns' = turns
      /\ state = "marking" /\ state' = "marked" /\ heap.num_nodes = 0
      /\ visited' = [visited EXCEPT ![end] = FALSE]
  BY DEF GiveUp
<1>2. /\ start \in Nodes /\ end \in Nodes /\ distance \in Distant /\ visited \in Seens
      /\ ~visited[end] /\ Tree(start, taken, distance, previous, visited)
  BY <1>1 DEF SearchInv
<1>3. visited'[end'] = FALSE
  BY <1>1, <1>2 DEF Seens
<1>4. ASSUME ~lost PROVE CutOff(taken, start, end)
  <2>1. PICK a, k : a = heap.nodes /\ k = Cardinality(Visits(visited))
    OBVIOUS
  <2>2. /\ Ordered(distance, a, 0, visited) /\ Settled(taken, distance, visited, None)
        /\ Within(distance, Farthest * k)
    BY <1>1, <1>4, <2>1 DEF ShortestInv, Marking
  <2>3. \A m \in Nodes : distance[m] < UNREACHED => visited[m]
    <3>1. \A m : m \notin Holds(a, 0)
      BY HoldsHas
    <3>2. QED
      BY <2>2, <3>1 DEF Ordered
  <2>4. \A m \in Nodes : distance[m] \in Nat
    BY <1>2, RoutingAssumption DEF Distant
  <2> DEFINE S == {m \in Nodes : distance[m] < UNREACHED}
  <2>5. start \in S
    BY <1>2, RoutingAssumption DEF Tree
  <2>6. end \notin S
    BY <1>2, <2>3
  <2>7. ASSUME NEW n \in S, NEW m \in Nodes, NEW d \in Nat, OneWay(taken, n, m, d)
        PROVE  m \in S
    <3>1. n \in Nodes /\ distance[n] < UNREACHED /\ visited[n] /\ n # None
      BY <2>3, RoutingAssumption
    <3>2. distance[m] <= distance[n] + d
      BY <2>2, <2>7, <3>1 DEF Settled
    <3>3. distance[n] <= Farthest * k /\ d <= Farthest
      BY <2>2, <2>7, <3>1, OneWayLeads DEF Within
    <3>4. k \in Nat /\ k + 1 \in Nat /\ k + 1 <= Cardinality(Nodes)
      BY <1>2, <2>1, VisitsCount
    <3>5. Farthest * (k + 1) < UNREACHED /\ Farthest \in Nat
      BY <3>4, FarthestIs
    <3>6. PICK f : f = Farthest
      OBVIOUS
    <3>7. f * k \in Nat /\ f * (k + 1) = f * k + f
      BY <3>4, <3>5, <3>6
    <3>8. distance[m] \in Nat /\ distance[n] \in Nat /\ UNREACHED \in Nat
      BY <2>4, <3>1, RoutingAssumption
    <3>9. distance[m] < UNREACHED
      BY <3>2, <3>3, <3>5, <3>6, <3>7, <3>8
    <3>10. QED
      BY <3>9
  <2> HIDE DEF S
  <2>8. S \in SUBSET Nodes
    BY DEF S
  <2>9. Closed(taken, S)
    BY <2>7 DEF Closed
  <2>10. QED
    BY <2>5, <2>6, <2>8, <2>9 DEF CutOff
<1>5. ~lost' => CutOff(taken', start', end') /\ turns' <= Cardinality(Nodes)
  BY <1>1, <1>4 DEF ShortestInv
<1>6. QED
  BY <1>1, <1>3, <1>5 DEF ShortestInv

\* The answer is there if the end has been visited.
LEMMA AnswerShortest == SearchInv /\ ShortestInv /\ Answer => ShortestInv'
<1> SUFFICES ASSUME SearchInv, ShortestInv, Answer PROVE ShortestInv'
  OBVIOUS
<1>1. /\ start' = start /\ end' = end /\ taken' = taken /\ distance' = distance
      /\ turns' = turns /\ lost' = lost /\ visited' = visited
      /\ state = "marked" /\ state' = "answered"
      /\ path' = IF visited[end] THEN PathTo(end) ELSE << >>
  BY DEF Answer
<1>2. path' = << >> <=> ~visited[end]
  <2>1. CASE visited[end]
    <3>1. Drivable(start, taken, distance, PathTo(end), end)
      BY <2>1, PathDrivable DEF SearchInv
    <3>2. Len(path') >= 1
      BY <1>1, <2>1, <3>1 DEF Drivable
    <3>3. Len(<< >>) = 0
      OBVIOUS
    <3>4. path' # << >>
      BY <3>2, <3>3
    <3>5. QED
      BY <2>1, <3>4
  <2>2. CASE ~visited[end]
    BY <1>1, <2>2
  <2>3. QED
    BY <2>1, <2>2
<1>3. QED
  BY <1>1, <1>2 DEF ShortestInv

\* The search is as it was.
LEMMA UntouchedShortest == ShortestInv /\ UNCHANGED searchVars => ShortestInv'
<1> SUFFICES ASSUME ShortestInv, UNCHANGED searchVars PROVE ShortestInv'
  OBVIOUS
<1>1. /\ start' = start /\ end' = end /\ taken' = taken /\ path' = path /\ heap' = heap
      /\ turns' = turns /\ lost' = lost /\ distance' = distance
      /\ visited' = visited /\ state' = state
  BY DEF searchVars
<1>2. QED
  BY <1>1 DEF ShortestInv

\* Every step.
LEMMA StepShortest ==
  SearchInv /\ ShortestInv /\ HeapFits' /\ [QueriesNext]_queryVars => ShortestInv'
<1> SUFFICES ASSUME SearchInv, ShortestInv, HeapFits', [QueriesNext]_queryVars PROVE ShortestInv'
  OBVIOUS
<1>1. CASE SearchTurn
  BY <1>1, ExploreShortest, GiveUpShortest, AnswerShortest DEF SearchTurn
<1>2. CASE UNCHANGED searchVars
  BY <1>2, UntouchedShortest
<1>3. CASE Done
  BY <1>3, UntouchedShortest DEF Done, queryVars
<1>4. CASE UNCHANGED queryVars
  BY <1>4, UntouchedShortest DEF queryVars
<1>5. QED
  BY <1>1, <1>2, <1>3, <1>4 DEF QueriesNext

\* A free way is one.
LEMMA FreeIsOneWay ==
  ASSUME NEW n \in Nodes, NEW w \in FreeWays(n)
  PROVE  OneWay(taken, n, w.to, w.far)
<1>1. PICK a, c, b : a = WayAhead(n) /\ c = WayCurved(n) /\ b = WayBack(n)
  OBVIOUS
<1> DEFINE S == {x \in {a, c, b} : (x = a /\ ~IsExit(n)) \/ (x = c /\ IsBranch(n)) \/ x = b}
<1>2. PICK i \in DOMAIN Ways(n) : w = Ways(n)[i] /\ w.free
  BY DEF FreeWays
<1>3. PICK p, q, r : /\ p = IF IsExit(n) THEN << >> ELSE <<a>>
                     /\ q = IF IsBranch(n) THEN <<c>> ELSE << >>
                     /\ r = <<b>>
  OBVIOUS
<1>4. p \in Seq(S) /\ q \in Seq(S) /\ r \in Seq(S)
  <2>1. ~IsExit(n) => a \in S
    OBVIOUS
  <2>2. IsBranch(n) => c \in S
    OBVIOUS
  <2>3. b \in S
    OBVIOUS
  <2> HIDE DEF S
  <2>4. p \in Seq(S)
    BY <1>3, <2>1
  <2>5. q \in Seq(S)
    BY <1>3, <2>2
  <2>6. QED
    BY <1>3, <2>3, <2>4, <2>5
<1>5. Ways(n) = p \o q \o r
  BY <1>1, <1>3 DEF Ways
<1>6. w \in S
  <2> HIDE DEF S
  <2>1. p \o q \o r \in Seq(S)
    BY <1>4
  <2>2. QED
    BY <1>2, <1>5, <2>1
<1>7. CASE w = a /\ ~IsExit(n)
  <2>1. <<n, DIR_AHEAD>> \notin taken
    <3>1. WayAhead(n).free <=> <<n, DIR_AHEAD>> \notin taken
      BY DEF WayAhead, EdgeAvailable
    <3>2. w = WayAhead(n) /\ w.free
      BY <1>1, <1>2, <1>7
    <3>3. QED
      BY <3>1, <3>2
  <2>2. w.to = Dest(<<n, DIR_AHEAD>>) /\ w.far = Dist(<<n, DIR_AHEAD>>)
    BY <1>1, <1>7 DEF WayAhead
  <2>3. QED
    BY <1>7, <2>1, <2>2 DEF OneWay
<1>8. CASE w = c /\ IsBranch(n)
  <2>1. <<n, DIR_CURVED>> \notin taken
    <3>1. WayCurved(n).free <=> <<n, DIR_CURVED>> \notin taken
      BY DEF WayCurved, EdgeAvailable
    <3>2. w = WayCurved(n) /\ w.free
      BY <1>1, <1>2, <1>8
    <3>3. QED
      BY <3>1, <3>2
  <2>2. w.to = Dest(<<n, DIR_CURVED>>) /\ w.far = Dist(<<n, DIR_CURVED>>)
    BY <1>1, <1>8 DEF WayCurved
  <2>3. QED
    BY <1>8, <2>1, <2>2 DEF OneWay
<1>9. CASE w = b
  <2>1. <<n, DIR_CURVED>> \notin taken
    <3>1. WayBack(n).free <=> <<n, DIR_CURVED>> \notin taken
      BY DEF WayBack, EdgeAvailable
    <3>2. w = WayBack(n) /\ w.free
      BY <1>1, <1>2, <1>9
    <3>3. QED
      BY <3>1, <3>2
  <2>2. w.to = Reverse(n) /\ w.far = REVERSE_WEIGHT
    BY <1>1, <1>9 DEF WayBack
  <2>3. QED
    BY <1>9, <2>1, <2>2 DEF OneWay
<1>10. QED
  BY <1>6, <1>7, <1>8, <1>9

\* A train never gets out of a set that no way leads out of.
LEMMA ReachableWithin ==
  ASSUME start \in Nodes, NEW S \in SUBSET Nodes, start \in S, Closed(taken, S)
  PROVE  Reachable \in SUBSET S
<1> DEFINE most == Cardinality(Nodes)
           further(X) == UNION {{n} \cup {w.to : w \in FreeWays(n)} : n \in X}
           G(f) == [k \in 0 .. most |-> IF k = 0 THEN {start} ELSE further(f[k - 1])]
           h == CHOOSE f : f = G(f)
<1>1. most \in Nat
  BY VisitsCount
<1>2. ASSUME NEW X \in SUBSET S PROVE further(X) \in SUBSET S
  <2> SUFFICES ASSUME NEW n \in X, NEW m \in {n} \cup {w.to : w \in FreeWays(n)} PROVE m \in S
    OBVIOUS
  <2>1. CASE m = n
    BY <2>1
  <2>2. CASE m # n
    <3>1. PICK w \in FreeWays(n) : m = w.to
      BY <2>2
    <3>2. n \in Nodes /\ n \in S
      OBVIOUS
    <3>3. OneWay(taken, n, w.to, w.far)
      BY <3>2, FreeIsOneWay
    <3>4. w.to \in Nodes /\ w.far \in Nat
      BY <3>2, <3>3, OneWayLeads
    <3>5. QED
      BY <3>1, <3>2, <3>3, <3>4 DEF Closed
  <2>3. QED
    BY <2>1, <2>2
<1> HIDE DEF further
<1> DEFINE D == SUBSET S
           step == [X \in D |-> further(X)]
<1>3. step \in [D -> D] /\ (\A X \in D : step[X] = further(X)) /\ {start} \in D
  BY <1>2
<1> HIDE DEF step, D, most
<1>4. PICK g : Steps(g, D, {start}, step, most)
  BY <1>1, <1>3, StepsExist
<1>5. /\ g \in [0 .. most -> D] /\ g[0] = {start}
      /\ \A k \in 1 .. most : g[k] = step[g[k - 1]]
  BY <1>4 DEF Steps
<1>6. \A k \in 1 .. most : g[k] = further(g[k - 1])
  <2> SUFFICES ASSUME NEW k \in 1 .. most PROVE g[k] = further(g[k - 1])
    OBVIOUS
  <2>1. g[k - 1] \in D
    BY <1>1, <1>5
  <2>2. QED
    BY <1>3, <1>5, <2>1
<1>7. g = G(g)
  <2>1. \A k \in 0 .. most : g[k] = G(g)[k]
    BY <1>1, <1>5, <1>6
  <2>2. g = [k \in 0 .. most |-> g[k]] /\ G(g) = [k \in 0 .. most |-> G(g)[k]]
    BY <1>5
  <2> HIDE DEF G
  <2>3. QED
    BY <2>1, <2>2
<1>8. h = G(h)
  <2> HIDE DEF G
  <2>1. QED
    BY <1>7
<1>9. h[0] = {start} /\ \A k \in 1 .. most : h[k] = further(h[k - 1])
  <2>1. \A k \in 0 .. most : h[k] = G(h)[k]
    BY <1>8
  <2> HIDE DEF h
  <2>2. QED
    BY <1>1, <2>1
<1>10. Reachable = h[most]
  BY DEF Reachable, most, further
<1> HIDE DEF h, G
<1>11. h[most] \in SUBSET S
  <2> DEFINE K == {k \in Nat : k \in 0 .. most => h[k] \in SUBSET S}
  <2>1. ASSUME NEW k \in Nat, \A j \in 0 .. k - 1 : j \in K PROVE k \in K
    <3>1. CASE k = 0
      BY <1>9, <3>1
    <3>2. CASE k # 0
      <4> SUFFICES ASSUME k \in 0 .. most PROVE h[k] \in SUBSET S
        OBVIOUS
      <4>1. k - 1 \in 0 .. k - 1 /\ k - 1 \in 0 .. most /\ k \in 1 .. most
        BY <1>1, <3>2
      <4>2. h[k - 1] \in SUBSET S
        BY <2>1, <4>1
      <4>3. QED
        BY <1>2, <1>9, <4>1, <4>2
    <3>3. QED
      BY <3>1, <3>2
  <2>2. K = Nat
    <3>1. K \in SUBSET Nat
      OBVIOUS
    <3> HIDE DEF K
    <3>2. QED
      BY <2>1, <3>1, StrongInduction
  <2>3. QED
    BY <1>1, <2>2
<1>12. QED
  BY <1>10, <1>11

\* A distance, those beyond e's counted as e's.
Capped(far, e, n) == IF far[n] < far[e] THEN far[n] ELSE far[e]

\* What has been found is the shortest way, if the nodes around the end are settled.
LEMMA SettledShortest ==
  ASSUME NEW s \in Nodes, NEW e \in Nodes, NEW T, NEW far \in Distant, NEW seen, far[s] = 0,
         Around(far, e, seen), Settled(T, far, seen, e)
  PROVE  /\ Capped(far, e, s) = 0
         /\ \A n \in Nodes, m \in Nodes, d \in Nat :
              OneWay(T, n, m, d) => Capped(far, e, m) <= Capped(far, e, n) + d
<1>1. \A m \in Nodes : far[m] \in Nat
  BY RoutingAssumption DEF Distant
<1>2. Capped(far, e, s) = 0
  <2>1. far[e] \in Nat
    BY <1>1
  <2>2. QED
    BY <2>1 DEF Capped
<1>3. ASSUME NEW n \in Nodes, NEW m \in Nodes, NEW d \in Nat, OneWay(T, n, m, d)
      PROVE  Capped(far, e, m) <= Capped(far, e, n) + d
  <2>1. far[n] \in Nat /\ far[m] \in Nat /\ far[e] \in Nat
    BY <1>1
  <2>2. CASE far[n] < far[e]
    <3>1. n # e
      BY <2>1, <2>2
    <3>2. seen[n]
      <4>1. CASE ~seen[n]
        <5>1. far[e] <= far[n]
          BY <4>1 DEF Around
        <5>2. QED
          BY <2>1, <2>2, <5>1
      <4>2. QED
        BY <4>1
    <3>3. far[m] <= far[n] + d
      BY <1>3, <3>1, <3>2 DEF Settled
    <3>4. QED
      BY <2>1, <2>2, <3>3 DEF Capped
  <2>3. CASE ~(far[n] < far[e])
    BY <2>1, <2>3 DEF Capped
  <2>4. QED
    BY <2>2, <2>3
<1>4. QED
  BY <1>2, <1>3

\* The answer of a search that has lost no node.
LEMMA ShortestSays == SearchInv /\ ShortestInv => ShortestUnlessLost
<1> SUFFICES ASSUME SearchInv, ShortestInv, state = "answered", ~lost
             PROVE  IF path = << >> THEN end \notin Reachable ELSE NoShorterWay
  BY DEF ShortestUnlessLost
<1>1. start \in Nodes /\ end \in Nodes /\ distance \in Distant
  BY DEF SearchInv
<1>2. CASE path = << >>
  <2>1. ~visited[end]
    BY <1>2 DEF ShortestInv
  <2>2. CutOff(taken, start, end)
    BY <2>1 DEF ShortestInv
  <2>3. PICK S \in SUBSET Nodes : start \in S /\ end \notin S /\ Closed(taken, S)
    BY <2>2 DEF CutOff
  <2>4. Reachable \in SUBSET S
    BY <1>1, <2>3, ReachableWithin
  <2>5. QED
    BY <1>2, <2>3, <2>4
<1>3. CASE path # << >>
  <2>1. visited[end]
    BY <1>3 DEF ShortestInv
  <2>2. Around(distance, end, visited) /\ Settled(taken, distance, visited, end)
    BY <2>1 DEF ShortestInv
  <2>3. distance[start] = 0
    BY <2>1 DEF SearchInv, Tree
  <2>4. /\ Capped(distance, end, start) = 0
        /\ \A n \in Nodes, m \in Nodes, d \in Nat :
             OneWay(taken, n, m, d) => Capped(distance, end, m) <= Capped(distance, end, n) + d
    BY <1>1, <2>2, <2>3, SettledShortest
  <2>5. \A n : NearEnd(n) = Capped(distance, end, n)
    BY DEF NearEnd, Capped
  <2>6. ASSUME NEW n \in Nodes, NEW w \in FreeWays(n) PROVE NearEnd(w.to) <= NearEnd(n) + w.far
    <3>1. OneWay(taken, n, w.to, w.far)
      BY FreeIsOneWay
    <3>2. w.to \in Nodes /\ w.far \in Nat
      BY <3>1, OneWayLeads
    <3>3. QED
      BY <2>4, <2>5, <3>1, <3>2
  <2>7. QED
    BY <1>3, <2>4, <2>5, <2>6 DEF NoShorterWay
<1>4. QED
  BY <1>2, <1>3

\* As long as its heap fits its array and has lost no node, mark_path answers with the
\* shortest route on the rails that nobody else has taken, and with none only if there is
\* none: it is Dijkstra's algorithm then (routing.c, heap.c).
THEOREM RoutesAreShortest == QueriesSpec /\ []HeapFits => []ShortestUnlessLost
<1>1. QueriesInit /\ HeapFits => SearchInv /\ ShortestInv
  BY SearchInitInv, SearchInitShortest DEF QueriesInit
<1>2. SearchInv /\ ShortestInv /\ HeapFits' /\ [QueriesNext]_queryVars => (SearchInv /\ ShortestInv)'
  BY SearchStepInv, StepShortest
<1>3. QED
  BY <1>1, <1>2, ShortestSays, PTL DEF QueriesSpec

\* It visits no node twice then: it takes no more turns than there are nodes.
THEOREM SearchesEnd == QueriesSpec /\ []HeapFits => [](~lost => SearchEnds)
<1>1. QueriesInit /\ HeapFits => SearchInv /\ ShortestInv
  BY SearchInitInv, SearchInitShortest DEF QueriesInit
<1>2. SearchInv /\ ShortestInv /\ HeapFits' /\ [QueriesNext]_queryVars => (SearchInv /\ ShortestInv)'
  BY SearchStepInv, StepShortest
<1>3. ShortestInv => (~lost => SearchEnds)
  BY DEF ShortestInv, SearchEnds
<1>4. QED
  BY <1>1, <1>2, <1>3, PTL DEF QueriesSpec
=============================================================================
