----------------------------- MODULE MCRouting -----------------------------
(* Routes and walks on a loop with a way in and a way out:                  *)
(*                                                                          *)
(*   E --- U ----\                 /---- S --- X                            *)
(*                T --- P --- Q --<                                         *)
(*                 \---- R ----/   (straight: R)                            *)
(*                                                                          *)
(* A node's name ends in + going right along P and in - going left.         *)
EXTENDS TrackQueries, TLC, FiniteSetsExt

\* From, direction and to; then the same of the rail's other edge; the length.
Rails == {<<"E+", "ahead",  "U+", "U-", "ahead",  "E-", 2>>,
          <<"U+", "ahead",  "T+", "T-", "curved", "U-", 1>>,
          <<"R+", "ahead",  "T+", "T-", "ahead",  "R-", 3>>,
          <<"T+", "ahead",  "P+", "P-", "ahead",  "T-", 2>>,
          <<"P+", "ahead",  "Q+", "Q-", "ahead",  "P-", 2>>,
          <<"Q+", "ahead",  "R+", "R-", "ahead",  "Q-", 3>>,
          <<"Q+", "curved", "S+", "S-", "ahead",  "Q-", 1>>,
          <<"S+", "ahead",  "X+", "X-", "ahead",  "S-", 2>>}

\* TLC keeps a function made with @@ as a table.
Table(S, key(_), value(_)) == FoldSet(LAMBDA x, f : (key(x) :> value(x)) @@ f, << >>, S)

There(r) == <<r[1], r[2]>>
Back(r)  == <<r[4], r[5]>>
DestTable    == Table(Rails, There, LAMBDA r : r[3]) @@ Table(Rails, Back, LAMBDA r : r[6])
DistTable    == Table(Rails, There, LAMBDA r : r[7]) @@ Table(Rails, Back, LAMBDA r : r[7])
ReverseTable == Table(Rails, There, Back) @@ Table(Rails, Back, There)

MCDest(e) == DestTable[e]
MCDist(e) == DistTable[e]
MCReverseEdge(e) == ReverseTable[e]

MCNodeType(n) ==
  CASE n \in {"E+", "X-"} -> "enter"
    [] n \in {"E-", "X+"} -> "exit"
    [] n \in {"Q+", "T-"} -> "branch"
    [] n \in {"Q-", "T+"} -> "merge"
    [] OTHER -> "sensor"

Places == {"E", "U", "T", "P", "Q", "R", "S", "X"}
TurnTable == Table(Places, LAMBDA p : p \o "+", LAMBDA p : p \o "-")
          @@ Table(Places, LAMBDA p : p \o "-", LAMBDA p : p \o "+")
MCReverse(n) == TurnTable[n]
=============================================================================
