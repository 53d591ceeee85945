-------------------------- MODULE RailReservations --------------------------
(***************************************************************************)
(* What the track server promises the trains, without edges' lists, tables *)
(* and turn-outs: a train holds pieces of rail, each in both directions,   *)
(* that no other train holds any part of, and gets others only when a      *)
(* request of its own is granted.  TrackServer implements it.              *)
(***************************************************************************)
EXTENDS Integers

CONSTANTS
  Trains,
  Rails,          \* the pieces of rail, each in one direction
  Mirror(_),      \* the same piece in the other direction
  Clash(_, _)     \* two pieces have a point in common

VARIABLES
  holds,          \* each train's pieces of rail
  answer          \* the last answer to each train's requests

vars == <<holds, answer>>

Init ==
  /\ holds  = [t \in Trains |-> {}]
  /\ answer = [t \in Trains |-> -1]

\* The train gets other pieces, in the place of those it has.
Grant(t) ==
  /\ answer' = [answer EXCEPT ![t] = 0]
  /\ holds'  = [holds EXCEPT ![t] = holds'[t]]
  /\ holds'[t] # {} /\ holds'[t] \subseteq Rails
  /\ \A s \in holds'[t] : Mirror(s) \in holds'[t]
  /\ \A u \in Trains \ {t} : \A s \in holds'[t], r \in holds[u] : ~Clash(s, r)

\* It does not, and keeps them.
Refuse(t) ==
  /\ \E code \in {-1, -2} : answer' = [answer EXCEPT ![t] = code]
  /\ UNCHANGED holds

Next == \E t \in Trains : Grant(t) \/ Refuse(t)

Spec == Init /\ [][Next]_vars
=============================================================================
