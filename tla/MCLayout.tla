------------------------------ MODULE MCLayout ------------------------------
(* A line with a passing loop, the layout of the run of TrackServer:        *)
(*                                                                          *)
(*   W --- A --- B ----- straight: C ----- M --- D --- E                    *)
(*                 \---- curved:   S ----/                                  *)
(*                                                                          *)
(* A node's name ends in + going right and in - going left.                 *)
EXTENDS Integers, TLC, FiniteSetsExt

\* From, direction and to; then the same of the rail's other edge; the length.
Tracks == {<<"W+", "ahead",  "A+", "A-", "ahead",  "W-", 2>>,
           <<"A+", "ahead",  "B+", "B-", "ahead",  "A-", 2>>,
           <<"B+", "ahead",  "C+", "C-", "ahead",  "B-", 2>>,
           <<"B+", "curved", "S+", "S-", "ahead",  "B-", 1>>,
           <<"C+", "ahead",  "M+", "M-", "ahead",  "C-", 2>>,
           <<"S+", "ahead",  "M+", "M-", "curved", "S-", 5>>,
           <<"M+", "ahead",  "D+", "D-", "ahead",  "M-", 2>>,
           <<"D+", "ahead",  "E+", "E-", "ahead",  "D-", 2>>}

\* TLC keeps a function made with @@ as a table.
Table(S, key(_), value(_)) == FoldSet(LAMBDA x, f : (key(x) :> value(x)) @@ f, << >>, S)

There(r) == <<r[1], r[2]>>
Back(r)  == <<r[4], r[5]>>
DestTable    == Table(Tracks, There, LAMBDA r : r[3]) @@ Table(Tracks, Back, LAMBDA r : r[6])
DistTable    == Table(Tracks, There, LAMBDA r : r[7]) @@ Table(Tracks, Back, LAMBDA r : r[7])
ReverseTable == Table(Tracks, There, Back) @@ Table(Tracks, Back, There)

MCDest(e) == DestTable[e]
MCDist(e) == DistTable[e]
MCReverseEdge(e) == ReverseTable[e]

MCNodeType(n) ==
  CASE n \in {"W+", "E-"} -> "enter"
    [] n \in {"W-", "E+"} -> "exit"
    [] n \in {"B+", "M-"} -> "branch"
    [] n \in {"B-", "M+"} -> "merge"
    [] OTHER -> "sensor"

Turn == <<"W+", "W-", "A+", "A-", "B+", "B-", "C+", "C-",
          "S+", "S-", "M+", "M-", "D+", "D-", "E+", "E-">>
TurnTable == Table(1..8, LAMBDA i : Turn[2 * i - 1], LAMBDA i : Turn[2 * i])
          @@ Table(1..8, LAMBDA i : Turn[2 * i], LAMBDA i : Turn[2 * i - 1])
MCReverse(n) == TurnTable[n]
=============================================================================
