------------------------- MODULE ClockServerProofs --------------------------
(* Proofs about ClockServer, for every width of the timer's register, length *)
(* of a tick and number of timers: the time the server keeps, when it wakes  *)
(* a task, that its lists lose no timer, and that it is an alarm clock.      *)
EXTENDS ClockServer, TLAPS, WellFoundedInduction, FiniteSetTheorems, FunctionTheorems

-----------------------------------------------------------------------------
(* The lists (list.c, ordered_list.c).                                     *)

\* Induction, by sets of numbers: a set of them has a least one.
LEMMA LeastElement ==
  ASSUME NEW T \in SUBSET Nat, T # {}
  PROVE  \E x \in T : \A y \in T : x <= y
<1>1. PICK x \in T : \A y \in T : ~(<<y, x>> \in OpToRel(<, Nat))
  BY WFMin, NatLessThanWellFounded
<1>2. \A y \in T : y < x => <<y, x>> \in OpToRel(<, Nat)
  BY DEF OpToRel
<1>3. x \in Nat /\ \A y \in T : y \in Nat /\ ~(y < x)
  BY <1>1, <1>2
<1>4. \A y \in T : x <= y
  BY <1>3
<1>5. QED
  BY <1>4

\* ... and what holds of 0, and of the next number with each, holds of all.
LEMMA Induction ==
  ASSUME NEW T \in SUBSET Nat, 0 \in T, NEW n \in Nat, \A k \in 0 .. n - 1 : k \in T => k + 1 \in T
  PROVE  \A k \in 0 .. n : k \in T
<1> DEFINE B == {k \in 0 .. n : k \notin T}
<1>1. SUFFICES ASSUME B # {} PROVE FALSE
  OBVIOUS
<1>2. B \in SUBSET Nat
  OBVIOUS
<1>3. PICK b \in B : \A y \in B : b <= y
  <2> HIDE DEF B
  <2>1. QED BY <1>1, <1>2, LeastElement
<1>4. b # 0 /\ b \in 0 .. n /\ b \notin T
  OBVIOUS
<1>5. b - 1 \in 0 .. n - 1 /\ b - 1 \notin B
  BY <1>3, <1>4
<1>6. b - 1 \in T
  BY <1>5
<1>7. QED
  BY <1>4, <1>5, <1>6

Nodes == Timers \cup {Null}
Ends  == [front : Nodes, back : Nodes]
Links == [next : [Timers -> Nodes], free : Ends, active : Ends]
Both == {"free", "active"}

Put(h, l, next, ends) == [h EXCEPT !.next = next, ![l] = ends]

\* The parts of the links are links.
LEMMA LinksTyped ==
  ASSUME NEW h \in Links, NEW l \in Both
  PROVE  h.next \in [Timers -> Nodes] /\ h[l] \in Ends /\ h[l].front \in Nodes /\ h[l].back \in Nodes
<1>1. h["free"] \in Ends /\ h["active"] \in Ends /\ h.next \in [Timers -> Nodes]
  BY DEF Links
<1>2. h[l] \in Ends
  BY <1>1 DEF Both
<1>3. QED
  BY <1>1, <1>2 DEF Ends

\* What a new list and new links leave of the other list.
LEMMA Fields ==
  ASSUME NEW h \in Links, NEW l \in Both, NEW m \in Both, m # l, NEW e \in Ends,
         NEW next \in [Timers -> Nodes]
  PROVE  LET g == Put(h, l, next, e)
         IN  g \in Links /\ g.next = next /\ g[l] = e /\ g[m] = h[m]
<1> DEFINE g == Put(h, l, next, e)
<1>1. ASSUME l = "free" PROVE g \in Links /\ g.next = next /\ g[l] = e /\ g["active"] = h["active"]
  BY <1>1 DEF Links, Put
<1>2. ASSUME l = "active" PROVE g \in Links /\ g.next = next /\ g[l] = e /\ g["free"] = h["free"]
  BY <1>2 DEF Links, Put
<1>3. (l = "free" /\ m = "active") \/ (l = "active" /\ m = "free")
  BY DEF Both
<1>4. QED
  BY <1>1, <1>2, <1>3

SetFront(e, x) == [e EXCEPT !.front = x]
SetBack(e, x)  == [e EXCEPT !.back = x]

PutFront(h, l, next, x) == [h EXCEPT !.next = next, ![l].front = x]
PutBack(h, l, next, x)  == [h EXCEPT !.next = next, ![l].back = x]

\* An assignment to one end of a list is one to the list.
LEMMA PutEnds ==
  ASSUME NEW h \in Links, NEW l \in Both, NEW next, NEW x
  PROVE  /\ PutFront(h, l, next, x) = Put(h, l, next, SetFront(h[l], x))
         /\ PutBack(h, l, next, x) = Put(h, l, next, SetBack(h[l], x))
<1>1. ASSUME l = "free"
      PROVE  /\ PutFront(h, l, next, x) = Put(h, l, next, SetFront(h[l], x))
             /\ PutBack(h, l, next, x) = Put(h, l, next, SetBack(h[l], x))
  BY <1>1 DEF Links, Put, PutFront, PutBack, SetFront, SetBack
<1>2. ASSUME l = "active"
      PROVE  /\ PutFront(h, l, next, x) = Put(h, l, next, SetFront(h[l], x))
             /\ PutBack(h, l, next, x) = Put(h, l, next, SetBack(h[l], x))
  BY <1>2 DEF Links, Put, PutFront, PutBack, SetFront, SetBack
<1>3. QED
  BY <1>1, <1>2 DEF Both

\* The parts that list_pop_front changes.
LEMMA PopFields ==
  ASSUME NEW h \in Links, NEW l \in Both, NEW m \in Both, m # l, h[l].front # Null
  PROVE  LET g == list_pop_front(h, l)
             n == h[l].front
         IN  /\ g \in Links
             /\ n \in Timers
             /\ g.next = [h.next EXCEPT ![n] = Null]
             /\ g[l].front = h.next[n]
             /\ g[l].back = IF h.next[n] = Null THEN Null ELSE h[l].back
             /\ g[m] = h[m]
<1> DEFINE n == h[l].front
           e == [front |-> h.next[n], back |-> IF h.next[n] = Null THEN Null ELSE h[l].back]
           next == [h.next EXCEPT ![n] = Null]
<1>1. n \in Timers /\ h.next \in [Timers -> Nodes] /\ e \in Ends
  <2>1. n \in Timers /\ h.next \in [Timers -> Nodes] /\ h[l].back \in Nodes
    BY LinksTyped DEF Nodes
  <2>2. h.next[n] \in Nodes
    BY <2>1
  <2>3. QED
    BY <2>1, <2>2 DEF Ends, Nodes
<1>2. next \in [Timers -> Nodes]
  BY <1>1 DEF Nodes
<1>3. list_pop_front(h, l) = Put(h, l, next, e)
  BY DEF list_pop_front, Put
<1> HIDE DEF n, e, next
<1>4. LET g == Put(h, l, next, e)
      IN g \in Links /\ g.next = next /\ g[l] = e /\ g[m] = h[m]
  BY <1>1, <1>2, Fields
<1>5. QED
  BY <1>1, <1>3, <1>4 DEF n, e, next

\* List l of h is the sequence p of n different nodes.
Holds(h, l, p, n) ==
  /\ n \in Nat /\ p \in [1 .. n -> Timers]
  /\ \A i, j \in 1 .. n : p[i] = p[j] => i = j
  /\ \A i \in 1 .. n : h.next[p[i]] = IF i = n THEN Null ELSE p[i + 1]
  /\ h[l].front = IF n = 0 THEN Null ELSE p[1]
  /\ n # 0 => h[l].back = p[n]

\* There are MAX_TIMERS timers.
LEMMA TimersFinite == IsFiniteSet(Timers) /\ Cardinality(Timers) = MAX_TIMERS
BY FS_Interval, TimersAssumption DEF Timers

\* No list is longer than that.
LEMMA ShortList ==
  ASSUME NEW h, NEW l, NEW p, NEW n, Holds(h, l, p, n)
  PROVE  n <= MAX_TIMERS
<1>1. n \in Nat /\ p \in [1 .. n -> Timers] /\ IsInjective(p)
  BY DEF Holds, IsInjective
<1>2. IsFiniteSet(1 .. n) /\ Cardinality(1 .. n) = n
  BY <1>1, FS_Interval
<1>3. p \in Injection(1 .. n, Timers)
  BY <1>1 DEF Injection
<1>4. Cardinality(1 .. n) <= Cardinality(Timers)
  BY <1>2, <1>3, TimersFinite, FS_Injection
<1>5. QED
  BY <1>2, <1>4, TimersFinite

\* Following the links from the front comes by the nodes in turn, then Null.
LEMMA PlacesValue ==
  ASSUME NEW h \in Links, NEW l \in Both, NEW p, NEW n, Holds(h, l, p, n)
  PROVE  /\ DOMAIN Places(h, l) = 1 .. MAX_TIMERS + 1
         /\ \A k \in 1 .. MAX_TIMERS + 1 :
              Places(h, l)[k] = IF k <= n THEN p[k] ELSE Null
<1> DEFINE S == 1 .. MAX_TIMERS + 1
           w == [k \in S |-> IF k <= n THEN p[k] ELSE Null]
           F(at) == [k \in S |-> IF k = 1 THEN h[l].front
                                 ELSE IF at[k - 1] = Null THEN Null
                                 ELSE h.next[at[k - 1]]]
           v == CHOOSE at : at = F(at)
<1>1. /\ n \in Nat /\ n <= MAX_TIMERS /\ MAX_TIMERS \in Nat
      /\ p \in [1 .. n -> Timers]
      /\ \A i \in 1 .. n : p[i] # Null /\ h.next[p[i]] = IF i = n THEN Null ELSE p[i + 1]
      /\ h[l].front = IF n = 0 THEN Null ELSE p[1]
  <2>1. n <= MAX_TIMERS
    BY ShortList
  <2>2. QED
    BY <2>1, TimersAssumption DEF Holds, Timers, Null
<1>2. \A k \in S : w[k] = F(w)[k]
  <2>1. TAKE k \in S
  <2>2. CASE k = 1
    BY <1>1, <2>2
  <2>3. CASE k # 1
    <3>1. k - 1 \in S /\ F(w)[k] = IF w[k - 1] = Null THEN Null ELSE h.next[w[k - 1]]
      BY <1>1, <2>3
    <3>2. CASE k - 1 <= n
      <4>1. k - 1 \in 1 .. n /\ w[k - 1] = p[k - 1] /\ (k - 1 = n <=> ~(k <= n))
        BY <1>1, <2>3, <3>1, <3>2
      <4>2. QED
        BY <1>1, <3>1, <4>1
    <3>3. CASE ~(k - 1 <= n)
      BY <1>1, <3>1, <3>3
    <3>4. QED
      BY <3>2, <3>3
  <2>4. QED
    BY <2>2, <2>3
<1>3. w = F(w)
  BY <1>2
<1>4. v = F(v)
  <2> HIDE DEF w, F
  <2>1. QED
    BY <1>3
<1>5. Cardinality(DOMAIN h.next) = MAX_TIMERS
  BY LinksTyped, TimersFinite
<1>6. Places(h, l) = v
  BY <1>5 DEF Places
<1>7. v[1] = w[1] /\ \A k \in S : k # 1 /\ v[k - 1] = w[k - 1] => v[k] = w[k]
  <2>1. DOMAIN v = S /\ \A k \in S : v[k] = F(v)[k]
    <3> HIDE DEF v
    <3>1. QED
      BY <1>4
  <2>2. 1 \in S
    BY <1>1
  <2> HIDE DEF w, v
  <2>3. v[1] = w[1]
    BY <1>2, <2>1, <2>2
  <2>4. \A k \in S : k # 1 /\ v[k - 1] = w[k - 1] => F(v)[k] = F(w)[k]
    OBVIOUS
  <2>5. QED
    BY <1>2, <2>1, <2>3, <2>4
<1>8. \A k \in 0 .. MAX_TIMERS : k \in {j \in Nat : v[j + 1] = w[j + 1]}
  <2> DEFINE T == {j \in Nat : v[j + 1] = w[j + 1]}
  <2> HIDE DEF w, v
  <2>1. 0 \in T
    BY <1>7
  <2>2. \A k \in 0 .. MAX_TIMERS - 1 : k \in T => k + 1 \in T
    <3>1. TAKE k \in 0 .. MAX_TIMERS - 1
    <3>2. k \in Nat /\ k + 1 \in Nat /\ (k + 1) + 1 \in S /\ (k + 1) + 1 # 1 /\ ((k + 1) + 1) - 1 = k + 1
      BY <1>1
    <3>3. QED
      BY <1>7, <3>2
  <2>3. T \in SUBSET Nat
    OBVIOUS
  <2>4. \A k \in 0 .. MAX_TIMERS : k \in T
    <3> HIDE DEF T
    <3>1. QED
      BY <1>1, <2>1, <2>2, <2>3, Induction
  <2>5. QED
    BY <2>4
<1>9. \A k \in S : v[k] = w[k]
  <2> HIDE DEF w, v
  <2>1. \A k \in S : k - 1 \in 0 .. MAX_TIMERS /\ (k - 1) + 1 = k
    BY <1>1
  <2>2. QED
    BY <1>8, <2>1
<1>10. DOMAIN v = S
  BY <1>4
<1>11. QED
  BY <1>6, <1>9, <1>10

\* The nodes of a list.
LEMMA NodesValue ==
  ASSUME NEW h \in Links, NEW l \in Both, NEW p, NEW n, Holds(h, l, p, n)
  PROVE  NodesOf(h, l) = {p[i] : i \in 1 .. n}
<1>1. /\ n \in Nat /\ n <= MAX_TIMERS /\ MAX_TIMERS \in Nat
      /\ \A i \in 1 .. n : p[i] \in Timers /\ p[i] # Null
  <2>1. n <= MAX_TIMERS
    BY ShortList
  <2>2. QED
    BY <2>1, TimersAssumption DEF Holds, Timers, Null
<1>2. /\ DOMAIN Places(h, l) = 1 .. MAX_TIMERS + 1
      /\ \A k \in 1 .. MAX_TIMERS + 1 : Places(h, l)[k] = IF k <= n THEN p[k] ELSE Null
  BY PlacesValue
<1>3. \A k \in 1 .. n : k \in DOMAIN Places(h, l) /\ Places(h, l)[k] = p[k]
  BY <1>1, <1>2
<1>4. \A k \in DOMAIN Places(h, l) : Places(h, l)[k] # Null => k \in 1 .. n
  BY <1>1, <1>2
<1>5. QED
  BY <1>1, <1>3, <1>4 DEF NodesOf

\* A list stays what it is while its ends and the links of its nodes do.
LEMMA SameList ==
  ASSUME NEW h, NEW g, NEW l, NEW p, NEW n, Holds(h, l, p, n), g[l] = h[l],
         \A i \in 1 .. n : g.next[p[i]] = h.next[p[i]]
  PROVE  Holds(g, l, p, n)
BY DEF Holds

\* A sequence without its first node.
Rest(p, n) == [i \in 1 .. n - 1 |-> p[i + 1]]

\* list_pop_front takes the first node off a list, and leaves the other list alone.
LEMMA Popped ==
  ASSUME NEW h \in Links, NEW l \in Both, NEW m \in Both, m # l, NEW p, NEW n,
         Holds(h, l, p, n), n # 0
  PROVE  LET g == list_pop_front(h, l)
         IN  /\ g \in Links /\ g[m] = h[m]
             /\ h[l].front = p[1] /\ p[1] \in Timers
             /\ Holds(g, l, Rest(p, n), n - 1)
             /\ \A t \in Timers \ {p[1]} : g.next[t] = h.next[t]
<1> DEFINE g == list_pop_front(h, l)
           q == Rest(p, n)
<1>1. /\ n \in Nat \ {0} /\ p \in [1 .. n -> Timers] /\ 1 \in 1 .. n
      /\ \A i, j \in 1 .. n : p[i] = p[j] => i = j
      /\ \A i \in 1 .. n : h.next[p[i]] = IF i = n THEN Null ELSE p[i + 1]
      /\ h[l].front = p[1] /\ h[l].back = p[n]
  BY DEF Holds
<1>2. p[1] \in Timers /\ h[l].front # Null
  BY <1>1 DEF Timers, Null
<1>3. /\ g \in Links /\ g.next = [h.next EXCEPT ![p[1]] = Null]
      /\ g[l].front = h.next[p[1]]
      /\ g[l].back = IF h.next[p[1]] = Null THEN Null ELSE h[l].back
      /\ g[m] = h[m]
  BY <1>1, <1>2, PopFields
<1>4. h.next \in [Timers -> Nodes]
  BY LinksTyped
<1>5. \A t \in Timers \ {p[1]} : g.next[t] = h.next[t]
  BY <1>3, <1>4
<1> HIDE DEF g
<1>6. n - 1 \in Nat /\ q \in [1 .. n - 1 -> Timers] /\ \A i \in 1 .. n - 1 : q[i] = p[i + 1] /\ i + 1 \in 1 .. n
  BY <1>1 DEF Rest
<1> HIDE DEF q
<1>7. \A i, j \in 1 .. n - 1 : q[i] = q[j] => i = j
  <2>1. \A i, j \in 1 .. n - 1 : i + 1 = j + 1 => i = j
    BY <1>1
  <2>2. QED
    BY <1>1, <1>6, <2>1
<1>8. \A i \in 1 .. n - 1 : g.next[q[i]] = IF i = n - 1 THEN Null ELSE q[i + 1]
  <2>1. TAKE i \in 1 .. n - 1
  <2>2. i + 1 \in 1 .. n /\ i + 1 # 1 /\ q[i] = p[i + 1] /\ q[i] \in Timers \ {p[1]}
    BY <1>1, <1>6
  <2>3. g.next[q[i]] = IF i + 1 = n THEN Null ELSE p[(i + 1) + 1]
    BY <1>1, <1>5, <2>2
  <2>4. i # n - 1 => i + 1 \in 1 .. n - 1 /\ q[i + 1] = p[(i + 1) + 1]
    BY <1>1, <1>6
  <2>5. i + 1 = n <=> i = n - 1
    BY <1>1
  <2>6. QED
    BY <2>3, <2>4, <2>5
<1>9. g[l].front = IF n - 1 = 0 THEN Null ELSE q[1]
  <2>1. n - 1 # 0 => 1 \in 1 .. n - 1 /\ q[1] = p[1 + 1] /\ 1 # n
    BY <1>1, <1>6
  <2>2. QED
    BY <1>1, <1>3, <2>1
<1>10. n - 1 # 0 => g[l].back = q[n - 1]
  <2>1. ASSUME n - 1 # 0 PROVE g[l].back = q[n - 1]
    <3>1. n - 1 \in 1 .. n - 1 /\ q[n - 1] = p[n] /\ 1 # n /\ 1 + 1 \in 1 .. n
      BY <1>1, <1>6, <2>1
    <3>2. h.next[p[1]] = p[1 + 1] /\ p[1 + 1] # Null
      BY <1>1, <3>1 DEF Timers, Null
    <3>3. QED
      BY <1>1, <1>3, <3>1, <3>2
  <2>2. QED
    BY <2>1
<1>11. Holds(g, l, q, n - 1)
  BY <1>6, <1>7, <1>8, <1>9, <1>10 DEF Holds
<1>12. QED
  BY <1>1, <1>2, <1>3, <1>5, <1>11 DEF g, q

\* A sequence with one more node.
Longer(p, n, x) == [i \in 1 .. n + 1 |-> IF i = n + 1 THEN x ELSE p[i]]

\* list_push_back puts a node of no list behind the last one.
LEMMA Pushed ==
  ASSUME NEW h \in Links, NEW l \in Both, NEW m \in Both, m # l, NEW p, NEW n,
         Holds(h, l, p, n), NEW x \in Timers, \A i \in 1 .. n : p[i] # x
  PROVE  LET g == list_push_back(h, l, x)
         IN  /\ g \in Links /\ g[m] = h[m]
             /\ Holds(g, l, Longer(p, n, x), n + 1)
             /\ \A t \in Timers \ {x} : (\A i \in 1 .. n : p[i] # t) => g.next[t] = h.next[t]
<1> DEFINE g == list_push_back(h, l, x)
           q == Longer(p, n, x)
<1>1. /\ n \in Nat /\ p \in [1 .. n -> Timers] /\ \A i \in 1 .. n : p[i] # Null
      /\ \A i, j \in 1 .. n : p[i] = p[j] => i = j
      /\ \A i \in 1 .. n : h.next[p[i]] = IF i = n THEN Null ELSE p[i + 1]
      /\ h[l].front = IF n = 0 THEN Null ELSE p[1]
      /\ n # 0 => h[l].back = p[n]
  BY DEF Holds, Timers, Null
<1>2. h.next \in [Timers -> Nodes] /\ h[l].front \in Nodes /\ x \in Nodes /\ x # Null
  BY LinksTyped DEF Nodes, Timers, Null
<1>3. n + 1 \in Nat /\ q \in [1 .. n + 1 -> Timers] /\ q[n + 1] = x /\ \A i \in 1 .. n : q[i] = p[i]
  BY <1>1 DEF Longer
<1>4. \A i, j \in 1 .. n + 1 : q[i] = q[j] => i = j
  BY <1>1, <1>3
<1>5. ASSUME n = 0
      PROVE  /\ g \in Links /\ g[m] = h[m]
             /\ g.next = [h.next EXCEPT ![x] = Null] /\ g[l] = [front |-> x, back |-> x]
  <2> DEFINE next == [h.next EXCEPT ![x] = Null]
             e == [front |-> x, back |-> x]
  <2>1. g = Put(h, l, next, e)
    BY <1>1, <1>5 DEF list_push_back, Put
  <2>2. next \in [Timers -> Nodes] /\ e \in Ends
    BY <1>2 DEF Nodes, Ends
  <2> HIDE DEF next, e, g
  <2>3. LET f == Put(h, l, next, e)
        IN  f \in Links /\ f.next = next /\ f[l] = e /\ f[m] = h[m]
    BY <2>2, Fields
  <2>4. QED
    BY <2>1, <2>3 DEF next, e
<1>6. ASSUME n # 0
      PROVE  /\ g \in Links /\ g[m] = h[m]
             /\ g.next = [h.next EXCEPT ![p[n]] = x, ![x] = Null]
             /\ g[l] = [front |-> p[1], back |-> x]
  <2> DEFINE next == [h.next EXCEPT ![p[n]] = x, ![x] = Null]
             e == [front |-> p[1], back |-> x]
  <2>1. n \in 1 .. n /\ 1 \in 1 .. n /\ p[n] \in Timers /\ p[1] \in Timers /\ p[1] # Null
    BY <1>1, <1>6
  <2>2. h[l] = [front |-> p[1], back |-> p[n]]
    <3>1. h[l] \in Ends /\ h[l].front = p[1] /\ h[l].back = p[n]
      BY <1>1, <1>6, LinksTyped
    <3>2. QED
      BY <3>1 DEF Ends
  <2>3. g = Put(h, l, next, e)
    <3>1. g = PutBack(h, l, next, x)
      BY <1>1, <1>6, <2>1 DEF list_push_back, PutBack
    <3>2. g = Put(h, l, next, SetBack(h[l], x))
      <4> HIDE DEF next, g
      <4>1. QED
        BY <3>1, PutEnds
    <3>3. SetBack(h[l], x) = e
      BY <2>2 DEF SetBack
    <3>4. QED
      BY <3>2, <3>3
  <2>4. next \in [Timers -> Nodes] /\ e \in Ends
    BY <1>2, <2>1 DEF Nodes, Ends
  <2> HIDE DEF next, e, g
  <2>5. LET f == Put(h, l, next, e)
        IN  f \in Links /\ f.next = next /\ f[l] = e /\ f[m] = h[m]
    BY <2>4, Fields
  <2>6. QED
    BY <2>3, <2>5 DEF next, e
<1> HIDE DEF g, q
<1>7. CASE n = 0
  <2>1. /\ g.next[x] = Null /\ g[l].front = x /\ g[l].back = x
        /\ \A t \in Timers \ {x} : g.next[t] = h.next[t]
    BY <1>2, <1>5, <1>7
  <2>2. Holds(g, l, q, n + 1)
    BY <1>3, <1>4, <1>7, <2>1 DEF Holds
  <2>3. QED
    BY <1>5, <1>7, <2>1, <2>2 DEF g, q
<1>8. CASE n # 0
  <2>1. n \in 1 .. n /\ 1 \in 1 .. n /\ p[n] \in Timers \ {x}
    BY <1>1, <1>8
  <2>2. /\ g.next[x] = Null /\ g.next[p[n]] = x /\ g[l].front = p[1] /\ g[l].back = x
        /\ \A t \in Timers \ {x} : t # p[n] => g.next[t] = h.next[t]
    BY <1>2, <1>6, <1>8, <2>1
  <2>3. \A i \in 1 .. n + 1 : g.next[q[i]] = IF i = n + 1 THEN Null ELSE q[i + 1]
    <3>1. TAKE i \in 1 .. n + 1
    <3>2. CASE i = n + 1
      BY <1>3, <2>2, <3>2
    <3>3. CASE i = n
      BY <1>1, <1>3, <2>1, <2>2, <3>3
    <3>4. CASE i # n /\ i # n + 1
      <4>1. i \in 1 .. n /\ i + 1 \in 1 .. n /\ q[i] = p[i] /\ q[i + 1] = p[i + 1]
        BY <1>1, <1>3, <3>4
      <4>2. p[i] \in Timers \ {x} /\ p[i] # p[n]
        BY <1>1, <2>1, <3>4, <4>1
      <4>3. g.next[p[i]] = h.next[p[i]] /\ h.next[p[i]] = p[i + 1]
        BY <1>1, <2>2, <3>4, <4>1, <4>2
      <4>4. QED
        BY <3>4, <4>1, <4>3
    <3>5. QED
      BY <3>2, <3>3, <3>4
  <2>4. Holds(g, l, q, n + 1)
    BY <1>1, <1>3, <1>4, <2>1, <2>2, <2>3 DEF Holds
  <2>5. \A t \in Timers \ {x} : (\A i \in 1 .. n : p[i] # t) => g.next[t] = h.next[t]
    BY <2>1, <2>2
  <2>6. QED
    BY <1>6, <1>8, <2>4, <2>5 DEF g, q
<1>9. QED
  BY <1>7, <1>8

\* A sequence with x in place k.
Inserted(p, n, x, k) ==
  [i \in 1 .. n + 1 |-> IF i < k THEN p[i] ELSE IF i = k THEN x ELSE p[i - 1]]

\* The walk of ordered_list_add stops before the first node that is not smaller, or
\* at the end.
LEMMA PlaceFound ==
  ASSUME NEW h \in Links, NEW l \in Both, NEW p, NEW n, Holds(h, l, p, n),
         NEW x \in Timers, NEW data \in [Timers -> Int], n < MAX_TIMERS
  PROVE  /\ PlaceOf(h, l, x, data) \in 1 .. n + 1
         /\ PlaceOf(h, l, x, data) <= n => data[p[PlaceOf(h, l, x, data)]] >= data[x]
         /\ \A j \in 1 .. PlaceOf(h, l, x, data) - 1 : data[p[j]] < data[x]
         /\ Places(h, l)[PlaceOf(h, l, x, data)] =
              IF PlaceOf(h, l, x, data) = n + 1 THEN Null ELSE p[PlaceOf(h, l, x, data)]
         /\ PlaceOf(h, l, x, data) # 1 =>
              Places(h, l)[PlaceOf(h, l, x, data) - 1] = p[PlaceOf(h, l, x, data) - 1]
<1> DEFINE at == Places(h, l)
           Fits(i) == at[i] = Null \/ data[at[i]] >= data[x]
           Good(i) == Fits(i) /\ \A j \in 1 .. i - 1 : at[j] # Null /\ data[at[j]] < data[x]
           k == CHOOSE i \in DOMAIN at : Good(i)
           T == {i \in 1 .. n + 1 : Fits(i)}
<1>1. /\ n \in Nat /\ MAX_TIMERS \in Nat /\ n < MAX_TIMERS
      /\ \A i \in 1 .. n : p[i] \in Timers /\ p[i] # Null /\ data[p[i]] \in Int
      /\ data[x] \in Int
  BY TimersAssumption DEF Holds, Timers, Null
<1>2. /\ DOMAIN at = 1 .. MAX_TIMERS + 1
      /\ \A i \in 1 .. n : at[i] = p[i]
      /\ at[n + 1] = Null
  <2>1. /\ DOMAIN at = 1 .. MAX_TIMERS + 1
        /\ \A i \in 1 .. MAX_TIMERS + 1 : at[i] = IF i <= n THEN p[i] ELSE Null
    BY PlacesValue
  <2>2. QED
    BY <1>1, <2>1
<1> HIDE DEF at
<1>3. PICK b \in T : \A y \in T : b <= y
  <2>1. T \in SUBSET Nat /\ n + 1 \in T
    BY <1>1, <1>2
  <2> HIDE DEF T
  <2>2. QED
    BY <2>1, LeastElement
<1>4. b \in DOMAIN at /\ Good(b)
  <2>1. b \in 1 .. n + 1 /\ Fits(b) /\ b \in DOMAIN at
    BY <1>1, <1>2
  <2>2. ASSUME NEW j \in 1 .. b - 1 PROVE at[j] # Null /\ data[at[j]] < data[x]
    <3>1. j \in 1 .. n /\ j \notin T /\ j \in 1 .. n + 1
      BY <1>1, <1>3, <2>1
    <3>2. ~Fits(j) /\ at[j] = p[j] /\ data[p[j]] \in Int
      BY <1>1, <1>2, <3>1
    <3>3. QED
      BY <1>1, <3>2
  <2>3. QED
    BY <2>1, <2>2
<1>5. k \in DOMAIN at /\ Good(k)
  <2> HIDE DEF Good
  <2>1. QED
    BY <1>4
<1> HIDE DEF k
<1>6. k <= n + 1
  <2>1. SUFFICES ASSUME k > n + 1 PROVE FALSE
    BY <1>1, <1>2, <1>5
  <2>2. n + 1 \in 1 .. k - 1
    BY <1>1, <1>2, <1>5, <2>1
  <2>3. QED
    BY <1>2, <1>5, <2>2
<1>7. k \in 1 .. n + 1 /\ (k <= n => k \in 1 .. n) /\ (k # 1 => k - 1 \in 1 .. n)
      /\ (k # n + 1 => k \in 1 .. n)
      /\ \A j \in 1 .. k - 1 : j \in 1 .. n
  BY <1>1, <1>2, <1>5, <1>6
<1>8. k <= n => data[p[k]] >= data[x]
  BY <1>1, <1>2, <1>5, <1>7
<1>9. \A j \in 1 .. k - 1 : data[p[j]] < data[x]
  BY <1>2, <1>5, <1>7
<1>10. at[k] = (IF k = n + 1 THEN Null ELSE p[k]) /\ (k # 1 => at[k - 1] = p[k - 1])
  BY <1>2, <1>7
<1>11. PlaceOf(h, l, x, data) = k
  BY DEF PlaceOf, k, at
<1>12. QED
  BY <1>7, <1>8, <1>9, <1>10, <1>11 DEF at

\* q is p with x in place k.
IsInsertion(q, p, n, x, k) ==
  /\ q \in [1 .. n + 1 -> Timers]
  /\ \A i \in 1 .. n + 1 :
       /\ i < k => i \in 1 .. n /\ q[i] = p[i]
       /\ i = k => q[i] = x
       /\ i > k => i - 1 \in 1 .. n /\ q[i] = p[i - 1]
  /\ \A i, j \in 1 .. n + 1 : q[i] = q[j] => i = j

\* A node inserted into a sequence of others.
LEMMA InsertedValue ==
  ASSUME NEW n \in Nat, NEW p \in [1 .. n -> Timers], NEW x \in Timers, NEW k \in 1 .. n + 1,
         \A i, j \in 1 .. n : p[i] = p[j] => i = j, \A i \in 1 .. n : p[i] # x
  PROVE  IsInsertion(Inserted(p, n, x, k), p, n, x, k)
<1> DEFINE q == Inserted(p, n, x, k)
<1>1. \A i \in 1 .. n + 1 : (i < k => i \in 1 .. n) /\ (i > k => i - 1 \in 1 .. n)
  OBVIOUS
<1>2. /\ q \in [1 .. n + 1 -> Timers]
      /\ \A i \in 1 .. n + 1 :
           /\ i < k => q[i] = p[i]
           /\ i = k => q[i] = x
           /\ i > k => q[i] = p[i - 1]
  BY <1>1 DEF Inserted
<1> HIDE DEF q
<1>3. ASSUME NEW i \in 1 .. n + 1, NEW j \in 1 .. n + 1, i < j PROVE q[i] # q[j]
  <2>1. i \in Int /\ j \in Int /\ k \in Int
    OBVIOUS
  <2>2. CASE j < k
    <3>1. i < k /\ i \in 1 .. n /\ j \in 1 .. n /\ i # j
      BY <1>1, <1>3, <2>1, <2>2
    <3>2. QED
      BY <1>2, <2>2, <3>1
  <2>3. CASE j = k
    <3>1. i < k /\ i \in 1 .. n
      BY <1>1, <1>3, <2>3
    <3>2. QED
      BY <1>2, <2>3, <3>1
  <2>4. CASE j > k /\ i < k
    <3>1. i \in 1 .. n /\ j - 1 \in 1 .. n /\ i # j - 1
      BY <1>1, <2>1, <2>4
    <3>2. QED
      BY <1>2, <2>4, <3>1
  <2>5. CASE j > k /\ i = k
    <3>1. j - 1 \in 1 .. n
      BY <1>1, <2>5
    <3>2. QED
      BY <1>2, <2>5, <3>1
  <2>6. CASE i > k
    <3>1. i - 1 \in 1 .. n /\ j - 1 \in 1 .. n /\ i - 1 # j - 1 /\ j > k
      BY <1>1, <1>3, <2>1, <2>6
    <3>2. QED
      BY <1>2, <2>6, <3>1
  <2>7. QED
    BY <1>3, <2>1, <2>2, <2>3, <2>4, <2>5, <2>6
<1>4. \A i, j \in 1 .. n + 1 : q[i] = q[j] => i = j
  <2>1. \A i, j \in 1 .. n + 1 : i < j \/ j < i \/ i = j
    OBVIOUS
  <2>2. QED
    BY <1>3, <2>1
<1>5. IsInsertion(q, p, n, x, k)
  BY <1>1, <1>2, <1>4 DEF IsInsertion
<1>6. QED
  BY <1>5 DEF q

\* The links and the ends that ordered_list_add leaves.
AddNext(h, p, n, x, k) ==
  IF n = 0 THEN [h.next EXCEPT ![x] = Null]
  ELSE IF k = 1 THEN [h.next EXCEPT ![x] = p[1]]
  ELSE [h.next EXCEPT ![p[k - 1]] = x, ![x] = IF k = n + 1 THEN Null ELSE p[k]]

AddEnds(p, n, x, k) ==
  IF n = 0 THEN [front |-> x, back |-> x]
  ELSE IF k = 1 THEN [front |-> x, back |-> p[n]]
  ELSE [front |-> p[1], back |-> IF k = n + 1 THEN x ELSE p[n]]

\* ordered_list_add writes those, in each of its branches.
LEMMA AddFields ==
  ASSUME NEW h \in Links, NEW l \in Both, NEW m \in Both, m # l, NEW p, NEW n,
         Holds(h, l, p, n), NEW x \in Timers, \A i \in 1 .. n : p[i] # x,
         NEW data \in [Timers -> Int], n < MAX_TIMERS,
         NEW k, k = PlaceOf(h, l, x, data)
  PROVE  LET g == ordered_list_add(h, l, x, data)
         IN  /\ g \in Links /\ g[m] = h[m]
             /\ g.next = AddNext(h, p, n, x, k) /\ g[l] = AddEnds(p, n, x, k)
<1> DEFINE at == Places(h, l)
           cur == at[k]
           prev == IF k = 1 THEN Null ELSE at[k - 1]
           g == ordered_list_add(h, l, x, data)
           next == AddNext(h, p, n, x, k)
           e == AddEnds(p, n, x, k)
<1>1. /\ n \in Nat /\ p \in [1 .. n -> Timers] /\ \A i \in 1 .. n : p[i] # Null
      /\ \A i \in 1 .. n : h.next[p[i]] = IF i = n THEN Null ELSE p[i + 1]
      /\ h[l].front = IF n = 0 THEN Null ELSE p[1]
      /\ n # 0 => h[l].back = p[n]
  BY DEF Holds, Timers, Null
<1>2. h.next \in [Timers -> Nodes] /\ h[l] \in Ends /\ x \in Nodes /\ x # Null
  BY LinksTyped DEF Nodes, Timers, Null
<1>3. /\ k \in 1 .. n + 1
      /\ cur = IF k = n + 1 THEN Null ELSE p[k]
      /\ k # 1 => at[k - 1] = p[k - 1]
  BY PlaceFound
<1>4. g = IF h[l].front = Null
          THEN [h EXCEPT !.next[x] = Null, ![l] = [front |-> x, back |-> x]]
          ELSE IF prev = Null
          THEN [h EXCEPT !.next[x] = cur, ![l].front = x]
          ELSE [h EXCEPT !.next = [@ EXCEPT ![prev] = x, ![x] = cur],
                         ![l].back = IF cur = Null THEN x ELSE @]
  BY DEF ordered_list_add
<1> HIDE DEF at, g
<1>5. /\ n # 0 => p[1] \in Timers /\ p[n] \in Timers /\ p[1] # Null
      /\ k # 1 => p[k - 1] \in Timers /\ p[k - 1] # Null
      /\ k # n + 1 => p[k] \in Timers /\ p[k] # Null
  <2>1. /\ n # 0 => 1 \in 1 .. n /\ n \in 1 .. n
        /\ k # 1 => k - 1 \in 1 .. n
        /\ k # n + 1 => k \in 1 .. n
    BY <1>1, <1>3
  <2>2. QED
    BY <1>1, <2>1
<1>6. n # 0 => h[l] = [front |-> p[1], back |-> p[n]]
  BY <1>1, <1>2, <1>5 DEF Ends
<1>7. g = Put(h, l, next, e)
  <2>1. CASE n = 0
    BY <1>1, <1>4, <2>1 DEF Put, AddNext, AddEnds
  <2>2. CASE n # 0 /\ k = 1
    <3>1. cur = p[1] /\ prev = Null /\ h[l].front # Null
      BY <1>1, <1>3, <1>5, <2>2
    <3>2. g = PutFront(h, l, next, x)
      BY <1>4, <2>2, <3>1 DEF AddNext, PutFront
    <3>3. SetFront(h[l], x) = e
      BY <1>6, <2>2 DEF AddEnds, SetFront
    <3> HIDE DEF next, e
    <3>4. g = Put(h, l, next, SetFront(h[l], x))
      BY <3>2, PutEnds
    <3>5. QED
      BY <3>3, <3>4
  <2>3. CASE n # 0 /\ k # 1
    <3> DEFINE b == IF k = n + 1 THEN x ELSE p[n]
    <3>1. prev = p[k - 1] /\ prev # Null /\ h[l].front # Null /\ (cur = Null <=> k = n + 1)
      BY <1>1, <1>3, <1>5, <2>3
    <3>2. g = [h EXCEPT !.next = next, ![l].back = IF cur = Null THEN x ELSE @]
      BY <1>3, <1>4, <2>3, <3>1 DEF AddNext
    <3>3. (IF cur = Null THEN x ELSE h[l].back) = b
      BY <1>1, <2>3, <3>1
    <3>4. SetBack(h[l], b) = e
      BY <1>6, <2>3 DEF AddEnds, SetBack
    <3> HIDE DEF next, e, b
    <3>5. g = PutBack(h, l, next, b)
      <4>1. ASSUME l = "free" PROVE g = PutBack(h, l, next, b)
        BY <3>2, <3>3, <4>1 DEF Links, PutBack
      <4>2. ASSUME l = "active" PROVE g = PutBack(h, l, next, b)
        BY <3>2, <3>3, <4>2 DEF Links, PutBack
      <4>3. QED
        BY <4>1, <4>2 DEF Both
    <3>6. g = Put(h, l, next, SetBack(h[l], b))
      BY <3>5, PutEnds
    <3>7. QED
      BY <3>4, <3>6
  <2>4. QED
    BY <2>1, <2>2, <2>3
<1>8. next \in [Timers -> Nodes] /\ e \in Ends
  BY <1>2, <1>5 DEF Nodes, Ends, AddNext, AddEnds
<1> HIDE DEF next, e
<1>9. g \in Links /\ g.next = next /\ g[l] = e /\ g[m] = h[m]
  BY <1>7, <1>8, Fields
<1>10. QED
  BY <1>9 DEF g, next, e

\* g is h with x in its place of list l, the other list untouched.
IsAddition(g, h, l, m, p, n, x, data) ==
  /\ g \in Links /\ g[m] = h[m]
  /\ \A t \in Timers \ {x} : (\A i \in 1 .. n : p[i] # t) => g.next[t] = h.next[t]
  /\ \E k \in 1 .. n + 1 :
       /\ k <= n => data[p[k]] >= data[x]
       /\ \A j \in 1 .. k - 1 : data[p[j]] < data[x]
       /\ Holds(g, l, Inserted(p, n, x, k), n + 1)

\* ordered_list_add puts a node of no list where it belongs.
LEMMA Added ==
  ASSUME NEW h \in Links, NEW l \in Both, NEW m \in Both, m # l, NEW p, NEW n,
         Holds(h, l, p, n), NEW x \in Timers, \A i \in 1 .. n : p[i] # x,
         NEW data \in [Timers -> Int], n < MAX_TIMERS
  PROVE  IsAddition(ordered_list_add(h, l, x, data), h, l, m, p, n, x, data)
<1> DEFINE k == PlaceOf(h, l, x, data)
           g == ordered_list_add(h, l, x, data)
           q == Inserted(p, n, x, k)
<1>1. /\ n \in Nat /\ p \in [1 .. n -> Timers]
      /\ \A i, j \in 1 .. n : p[i] = p[j] => i = j
      /\ \A i \in 1 .. n : h.next[p[i]] = IF i = n THEN Null ELSE p[i + 1]
  BY DEF Holds
<1>2. /\ k \in 1 .. n + 1
      /\ k <= n => data[p[k]] >= data[x]
      /\ \A j \in 1 .. k - 1 : data[p[j]] < data[x]
  BY PlaceFound
<1>3. /\ g \in Links /\ g[m] = h[m]
      /\ g.next = AddNext(h, p, n, x, k) /\ g[l] = AddEnds(p, n, x, k)
  BY AddFields
<1> HIDE DEF k, g
<1>4. /\ n # 0 => 1 \in 1 .. n /\ n \in 1 .. n
      /\ k # 1 => k - 1 \in 1 .. n
      /\ k # n + 1 => k \in 1 .. n
      /\ n = 0 => k = 1
  BY <1>1, <1>2
<1>5. /\ q \in [1 .. n + 1 -> Timers]
      /\ \A i \in 1 .. n + 1 :
           /\ i < k => i \in 1 .. n /\ q[i] = p[i]
           /\ i = k => q[i] = x
           /\ i > k => i - 1 \in 1 .. n /\ q[i] = p[i - 1]
      /\ \A i, j \in 1 .. n + 1 : q[i] = q[j] => i = j
  <2> HIDE DEF q
  <2>1. n \in Nat /\ p \in [1 .. n -> Timers] /\ x \in Timers /\ k \in 1 .. n + 1
        /\ (\A i, j \in 1 .. n : p[i] = p[j] => i = j) /\ \A i \in 1 .. n : p[i] # x
    BY <1>1, <1>2
  <2>2. IsInsertion(q, p, n, x, k)
    BY <2>1, InsertedValue DEF q
  <2>3. QED
    BY <2>2 DEF IsInsertion
<1> HIDE DEF q
<1>6. h.next \in [Timers -> Nodes]
  BY LinksTyped
<1>7. \A t \in Timers \ {x} : (\A i \in 1 .. n : p[i] # t) => g.next[t] = h.next[t]
  BY <1>3, <1>4, <1>6 DEF AddNext
<1>8. /\ g.next[x] = IF k = n + 1 THEN Null ELSE p[k]
      /\ k # 1 => g.next[p[k - 1]] = x
      /\ \A i \in 1 .. n : i # k - 1 => g.next[p[i]] = h.next[p[i]]
  <2>1. CASE n = 0
    <3>1. k = 1 /\ k = n + 1
      BY <1>4, <2>1
    <3>2. g.next = [h.next EXCEPT ![x] = Null]
      BY <1>3, <2>1 DEF AddNext
    <3>3. QED
      BY <1>1, <1>6, <2>1, <3>1, <3>2
  <2>2. CASE n # 0 /\ k = 1
    <3>1. k # n + 1 /\ k = 1
      BY <1>1, <2>2
    <3>2. g.next = [h.next EXCEPT ![x] = p[1]]
      BY <1>3, <2>2 DEF AddNext
    <3>3. QED
      BY <1>1, <1>6, <3>1, <3>2
  <2>3. CASE n # 0 /\ k # 1
    <3>1. g.next = [h.next EXCEPT ![p[k - 1]] = x, ![x] = IF k = n + 1 THEN Null ELSE p[k]]
      BY <1>3, <2>3 DEF AddNext
    <3>2. k - 1 \in 1 .. n /\ p[k - 1] \in Timers /\ p[k - 1] # x
      BY <1>1, <1>4, <2>3
    <3>3. \A i \in 1 .. n : i # k - 1 => p[i] # p[k - 1] /\ p[i] # x /\ p[i] \in Timers
      BY <1>1, <3>2
    <3>4. QED
      BY <1>6, <3>1, <3>2, <3>3
  <2>4. QED
    BY <2>1, <2>2, <2>3
<1>9. \A i \in 1 .. n + 1 : g.next[q[i]] = IF i = n + 1 THEN Null ELSE q[i + 1]
  <2>1. TAKE i \in 1 .. n + 1
  <2>2. i \in Int /\ k \in Int /\ n \in Int
    BY <1>1, <1>2
  <2>3. CASE i = k
    <3>1. k # n + 1 => k + 1 \in 1 .. n + 1 /\ k + 1 > k /\ (k + 1) - 1 = k
      BY <1>1, <1>2
    <3>2. k # n + 1 => q[k + 1] = p[k]
      BY <1>5, <3>1
    <3>3. q[i] = x
      BY <1>5, <2>3
    <3>4. QED
      BY <1>8, <2>3, <3>2, <3>3
  <2>4. CASE i < k
    <3>1. i \in 1 .. n /\ q[i] = p[i]
      BY <1>5, <2>4
    <3>2. i # n + 1 /\ i + 1 \in 1 .. n + 1
      BY <2>2, <3>1
    <3>3. CASE i = k - 1
      <4>1. k # 1 /\ i + 1 = k
        BY <2>2, <3>1, <3>3
      <4>2. q[i + 1] = x
        BY <1>2, <1>5, <4>1
      <4>3. QED
        BY <1>8, <3>1, <3>2, <3>3, <4>1, <4>2
    <3>4. CASE i # k - 1
      <4>1. i + 1 < k /\ i # n
        BY <1>2, <2>2, <2>4, <3>1, <3>4
      <4>2. q[i + 1] = p[i + 1]
        BY <1>5, <3>2, <4>1
      <4>3. QED
        BY <1>1, <1>8, <3>1, <3>2, <3>4, <4>1, <4>2
    <3>5. QED
      BY <3>3, <3>4
  <2>5. CASE i > k
    <3>1. i - 1 \in 1 .. n /\ q[i] = p[i - 1]
      BY <1>5, <2>5
    <3>2. i - 1 # k - 1 /\ (i - 1 = n <=> i = n + 1) /\ (i - 1) + 1 = i
      BY <2>2, <2>5
    <3>3. i # n + 1 => i + 1 \in 1 .. n + 1 /\ i + 1 > k /\ (i + 1) - 1 = i
      BY <2>1, <2>2, <2>5
    <3>4. i # n + 1 => q[i + 1] = p[i]
      BY <1>5, <3>3
    <3>5. h.next[p[i - 1]] = IF i = n + 1 THEN Null ELSE p[i]
      BY <1>1, <3>1, <3>2
    <3>6. QED
      BY <1>8, <3>1, <3>2, <3>4, <3>5
  <2>6. QED
    BY <2>2, <2>3, <2>4, <2>5
<1>10. g[l].front = q[1] /\ g[l].back = q[n + 1]
  <2>1. 1 \in 1 .. n + 1 /\ n + 1 \in 1 .. n + 1 /\ (n + 1) - 1 = n /\ k >= 1 /\ k <= n + 1 /\ k \in Int
    BY <1>1, <1>2
  <2>2. q[1] = IF k = 1 THEN x ELSE p[1]
    BY <1>5, <2>1
  <2>3. q[n + 1] = IF k = n + 1 THEN x ELSE p[n]
    <3>1. k # n + 1 => n + 1 > k /\ (n + 1) - 1 = n
      BY <1>1, <2>1
    <3>2. QED
      BY <1>5, <2>1, <3>1
  <2>4. CASE n = 0
    BY <1>3, <1>4, <2>2, <2>3, <2>4 DEF AddEnds
  <2>5. CASE n # 0 /\ k = 1
    <3>1. k # n + 1
      BY <1>1, <2>5
    <3>2. QED
      BY <1>3, <2>2, <2>3, <2>5, <3>1 DEF AddEnds
  <2>6. CASE n # 0 /\ k # 1
    BY <1>3, <2>2, <2>3, <2>6 DEF AddEnds
  <2>7. QED
    BY <2>4, <2>5, <2>6
<1>11. Holds(g, l, q, n + 1)
  <2>1. n + 1 # 0 /\ n + 1 \in Nat
    BY <1>1
  <2>2. QED
    BY <1>5, <1>9, <1>10, <2>1 DEF Holds
<1>12. IsAddition(g, h, l, m, p, n, x, data)
  BY <1>2, <1>3, <1>7, <1>11 DEF q, IsAddition
<1>13. QED
  BY <1>12 DEF g

-----------------------------------------------------------------------------
(* The release of the timers that are over.                                *)

\* One step of the release.
Move(h) == list_push_back(list_pop_front(h, "active"), "free", h.active.front)

\* The first sequence and the first r of the second; and what those leave of it.
Moved(f, n, a, r) == [i \in 1 .. n + r |-> IF i <= n THEN f[i] ELSE a[i - n]]
Drop(a, k, r) == [i \in 1 .. k - r |-> a[i + r]]

\* What the release of r timers does is a recursive function of r.
LEMMA ReleaseUnfolds ==
  ASSUME NEW h, NEW n \in Nat
  PROVE  \E after : /\ after[0] = h
                    /\ \A k \in 1 .. n : after[k] = Move(after[k - 1])
                    /\ Release(h, n) = after[n]
<1> DEFINE F(g, m) == [k \in 0 .. m |-> IF k = 0 THEN h ELSE Move(g[k - 1])]
           T == {m \in Nat : \E g : g = F(g, m)}
           v == CHOOSE g : g = F(g, n)
<1>1. 0 \in T
  <2>1. [k \in 0 .. 0 |-> h] = F([k \in 0 .. 0 |-> h], 0)
    OBVIOUS
  <2>2. QED
    BY <2>1
<1>2. ASSUME NEW m \in Nat, m \in T PROVE m + 1 \in T
  <2>1. PICK g : g = F(g, m)
    BY <1>2
  <2> DEFINE e == [k \in 0 .. m + 1 |-> IF k <= m THEN g[k] ELSE Move(g[m])]
  <2>2. \A k \in 0 .. m + 1 : e[k] = F(e, m + 1)[k]
    <3>1. TAKE k \in 0 .. m + 1
    <3>2. CASE k = 0
      <4>1. 0 \in 0 .. m /\ e[0] = g[0]
        OBVIOUS
      <4>2. g[0] = h
        BY <2>1, <4>1
      <4>3. QED
        BY <3>2, <4>1, <4>2
    <3>3. CASE k # 0 /\ k <= m
      <4>1. k \in 0 .. m /\ k - 1 \in 0 .. m /\ e[k] = g[k] /\ e[k - 1] = g[k - 1]
        BY <3>3
      <4>2. g[k] = Move(g[k - 1])
        BY <2>1, <3>3, <4>1
      <4>3. F(e, m + 1)[k] = Move(e[k - 1])
        BY <3>3
      <4>4. QED
        BY <4>1, <4>2, <4>3
    <3>4. CASE k = m + 1
      <4>1. k - 1 = m /\ k # 0 /\ e[k] = Move(g[m]) /\ m \in 0 .. m + 1 /\ e[m] = g[m]
        BY <3>4
      <4>2. F(e, m + 1)[k] = Move(e[k - 1])
        BY <4>1
      <4>3. QED
        BY <4>1, <4>2
    <3>5. QED
      BY <3>2, <3>3, <3>4
  <2>3. e = F(e, m + 1)
    BY <2>2
  <2>4. \E after : after = F(after, m + 1)
    <3> HIDE DEF e, F
    <3>1. QED
      BY <2>3
  <2>5. QED
    BY <2>4
<1>3. n \in T
  <2>1. T \in SUBSET Nat
    OBVIOUS
  <2> HIDE DEF T
  <2>2. \A k \in 0 .. n - 1 : k \in T => k + 1 \in T
    BY <1>2
  <2>3. n \in 0 .. n
    OBVIOUS
  <2>4. \A k \in 0 .. n : k \in T
    BY <1>1, <2>1, <2>2, Induction
  <2>5. QED
    BY <2>3, <2>4
<1>4. v = F(v, n)
  <2>1. \E g : g = F(g, n)
    BY <1>3
  <2> HIDE DEF F
  <2>2. QED
    BY <2>1
<1>5. Release(h, n) = v[n]
  BY DEF Release, Move
<1> HIDE DEF v
<1>6. v[0] = h /\ \A k \in 1 .. n : v[k] = Move(v[k - 1])
  <2>1. \A k \in 0 .. n : v[k] = F(v, n)[k]
    BY <1>4
  <2>2. 0 \in 0 .. n /\ \A k \in 1 .. n : k \in 0 .. n /\ k # 0
    OBVIOUS
  <2>3. v[0] = F(v, n)[0] /\ \A k \in 1 .. n : v[k] = F(v, n)[k]
    BY <2>1, <2>2
  <2>4. F(v, n)[0] = h /\ \A k \in 1 .. n : F(v, n)[k] = Move(v[k - 1])
    BY <2>2
  <2>5. QED
    BY <2>3, <2>4
<1>7. QED
  BY <1>5, <1>6

\* ... which moves the first active timer behind the free ones.
LEMMA MoveOne ==
  ASSUME NEW h \in Links, NEW n, NEW f, NEW k, NEW a,
         Holds(h, "free", f, n), Holds(h, "active", a, k), k # 0,
         \A i \in 1 .. n, j \in 1 .. k : f[i] # a[j]
  PROVE  /\ Move(h) \in Links
         /\ Holds(Move(h), "free", Longer(f, n, a[1]), n + 1)
         /\ Holds(Move(h), "active", Rest(a, k), k - 1)
<1> DEFINE g == list_pop_front(h, "active")
           x == a[1]
<1>1. "free" \in Both /\ "active" \in Both /\ "free" # "active"
  BY DEF Both
<1>2. /\ g \in Links /\ g["free"] = h["free"] /\ h["active"].front = x /\ x \in Timers
      /\ Holds(g, "active", Rest(a, k), k - 1)
      /\ \A t \in Timers \ {x} : g.next[t] = h.next[t]
  BY <1>1, Popped
<1>3. h.active.front = h["active"].front
  BY DEF Links
<1> HIDE DEF g
<1>4. /\ k \in Nat \ {0} /\ 1 \in 1 .. k /\ a \in [1 .. k -> Timers]
      /\ \A i, j \in 1 .. k : a[i] = a[j] => i = j
      /\ n \in Nat /\ f \in [1 .. n -> Timers]
  BY DEF Holds
<1>5. \A i \in 1 .. n : f[i] # x /\ f[i] \in Timers \ {x}
  BY <1>4
<1>6. Holds(g, "free", f, n)
  BY <1>2, <1>5, SameList
<1>7. Move(h) = list_push_back(g, "free", x)
  BY <1>2, <1>3 DEF Move, g
<1>8. \A i \in 1 .. k - 1 : Rest(a, k)[i] \in Timers \ {x} /\ \A j \in 1 .. n : f[j] # Rest(a, k)[i]
  <2>1. TAKE i \in 1 .. k - 1
  <2>2. i + 1 \in 1 .. k /\ i + 1 # 1 /\ Rest(a, k)[i] = a[i + 1]
    BY <1>4 DEF Rest
  <2>3. QED
    BY <1>4, <2>2
<1>9. /\ Move(h) \in Links /\ Move(h)["active"] = g["active"]
      /\ Holds(Move(h), "free", Longer(f, n, x), n + 1)
      /\ \A t \in Timers \ {x} : (\A i \in 1 .. n : f[i] # t) => Move(h).next[t] = g.next[t]
  BY <1>1, <1>2, <1>5, <1>6, <1>7, Pushed
<1>10. \A i \in 1 .. k - 1 : Move(h).next[Rest(a, k)[i]] = g.next[Rest(a, k)[i]]
  BY <1>8, <1>9
<1>11. Holds(Move(h), "active", Rest(a, k), k - 1)
  BY <1>2, <1>9, <1>10, SameList
<1>12. QED
  BY <1>9, <1>11

\* The release moves the first r timers, in turn.
LEMMA Released ==
  ASSUME NEW h \in Links, NEW n, NEW f, NEW k, NEW a,
         Holds(h, "free", f, n), Holds(h, "active", a, k),
         \A i \in 1 .. n, j \in 1 .. k : f[i] # a[j], NEW r \in 0 .. k
  PROVE  /\ Release(h, r) \in Links
         /\ Holds(Release(h, r), "free", Moved(f, n, a, r), n + r)
         /\ Holds(Release(h, r), "active", Drop(a, k, r), k - r)
<1>1. /\ k \in Nat /\ a \in [1 .. k -> Timers] /\ n \in Nat /\ f \in [1 .. n -> Timers]
      /\ \A i, j \in 1 .. k : a[i] = a[j] => i = j
  BY DEF Holds
<1>2. PICK after : /\ after[0] = h
                   /\ \A m \in 1 .. r : after[m] = Move(after[m - 1])
                   /\ Release(h, r) = after[r]
  BY <1>1, ReleaseUnfolds
<1> DEFINE Good(m) == /\ after[m] \in Links
                      /\ Holds(after[m], "free", Moved(f, n, a, m), n + m)
                      /\ Holds(after[m], "active", Drop(a, k, m), k - m)
           T == {m \in Nat : Good(m)}
<1>3. 0 \in T
  <2>1. Moved(f, n, a, 0) = f /\ Drop(a, k, 0) = a /\ n + 0 = n /\ k - 0 = k
    BY <1>1 DEF Moved, Drop
  <2>2. QED
    BY <1>2, <2>1
<1>4. ASSUME NEW m \in 0 .. r - 1, m \in T PROVE m + 1 \in T
  <2> DEFINE g == after[m]
             p == Moved(f, n, a, m)
             q == Drop(a, k, m)
  <2>1. /\ m \in Nat /\ m + 1 \in 1 .. r /\ (m + 1) - 1 = m /\ k - m \in Nat /\ k - m # 0 /\ m < k
        /\ g \in Links /\ Holds(g, "free", p, n + m) /\ Holds(g, "active", q, k - m)
    BY <1>1, <1>4
  <2>2. after[m + 1] = Move(g)
    BY <1>2, <2>1
  <2>3. \A i \in 1 .. k - m : i + m \in 1 .. k /\ q[i] = a[i + m] /\ i + m > m
    BY <1>1, <2>1 DEF Drop
  <2>4. \A i \in 1 .. n + m : /\ i <= n => i \in 1 .. n /\ p[i] = f[i]
                              /\ i > n => i - n \in 1 .. m /\ i - n \in 1 .. k /\ p[i] = a[i - n]
    BY <1>1, <2>1 DEF Moved
  <2>5. ASSUME NEW i \in 1 .. n + m, NEW j \in 1 .. k - m PROVE p[i] # q[j]
    <3>1. j + m \in 1 .. k /\ q[j] = a[j + m] /\ j + m > m
      BY <2>3
    <3>2. CASE i <= n
      BY <2>4, <3>1, <3>2
    <3>3. CASE i > n
      <4>1. i - n \in 1 .. m /\ i - n \in 1 .. k /\ p[i] = a[i - n]
        BY <2>4, <3>3
      <4>2. i - n # j + m
        BY <1>1, <2>1, <3>1, <4>1
      <4>3. QED
        BY <1>1, <3>1, <4>1, <4>2
    <3>4. QED
      BY <1>1, <2>1, <3>2, <3>3
  <2> HIDE DEF g, p, q
  <2>6. /\ Move(g) \in Links
        /\ Holds(Move(g), "free", Longer(p, n + m, q[1]), (n + m) + 1)
        /\ Holds(Move(g), "active", Rest(q, k - m), (k - m) - 1)
    BY <2>1, <2>5, MoveOne
  <2>7. Longer(p, n + m, q[1]) = Moved(f, n, a, m + 1) /\ (n + m) + 1 = n + (m + 1)
    <3>1. q[1] = a[m + 1]
      BY <1>1, <2>1 DEF q, Drop
    <3>2. (n + m) + 1 = n + (m + 1) /\ (n + (m + 1)) - n = m + 1 /\ ~(n + (m + 1) <= n)
      BY <1>1, <2>1
    <3>3. \A i \in 1 .. n + (m + 1) : i # n + (m + 1) => i \in 1 .. n + m
      BY <1>1, <2>1
    <3>4. QED
      BY <3>1, <3>2, <3>3 DEF p, Longer, Moved
  <2>8. Rest(q, k - m) = Drop(a, k, m + 1) /\ (k - m) - 1 = k - (m + 1)
    <3>1. (k - m) - 1 = k - (m + 1)
      BY <1>1, <2>1
    <3>2. \A i \in 1 .. k - (m + 1) : i + 1 \in 1 .. k - m /\ (i + 1) + m = i + (m + 1)
      BY <1>1, <2>1
    <3>3. QED
      BY <3>1, <3>2 DEF q, Rest, Drop
  <2>9. QED
    BY <2>1, <2>2, <2>6, <2>7, <2>8
<1>5. r \in T
  <2>1. T \in SUBSET Nat /\ r \in Nat /\ r \in 0 .. r
    BY <1>1
  <2> HIDE DEF T
  <2>2. \A m \in 0 .. r - 1 : m \in T => m + 1 \in T
    BY <1>4
  <2>3. \A m \in 0 .. r : m \in T
    BY <1>3, <2>1, <2>2, Induction
  <2>4. QED
    BY <2>1, <2>3
<1>6. QED
  BY <1>2, <1>5

-----------------------------------------------------------------------------
(* The invariant of the time.                                              *)

Waits == {CLOCK_DELAY, CLOCK_DELAY_UNTIL}
Types == Waits \cup {CLOCK_TIME, "none"}

\* A request says when it was made; a client is in the queue while it is "sent".
RequestsOK ==
  /\ request \in [Clients -> [type : Types, data : Nat, called : Nat]]
  /\ \A cl \in Clients : client[cl] = "sent" => request[cl].called <= now

InboxOK ==
  /\ \A i, j \in DOMAIN inbox : inbox[i] = inbox[j] => i = j
  /\ \A i \in DOMAIN inbox :
       IF inbox[i] = Notifier THEN notifier = "sent" ELSE client[inbox[i]] = "sent"

\* The register is looked at in time.
Clock == Elapsed < TimerRange \div 2 /\ TicksTrackTime

\* What the counts that were dropped come to; it never gets less.
Lag == now - Elapsed - CountsPerTick * ticks

\* A timer belongs to one task, which waits, and ends no earlier than that task
\* has asked for.
Deadlines ==
  /\ \A t, u \in Timers : timer[t].tid \in Clients /\ timer[t].tid = timer[u].tid => t = u
  /\ \A t \in Timers, cl \in Clients : timer[t].tid = cl =>
       /\ client[cl] = "waiting"
       /\ request[cl].type \in Waits
       /\ request[cl].type = CLOCK_DELAY =>
            Lag + CountsPerTick * (timer[t].data - request[cl].data) + CountsPerTick
              > request[cl].called
       /\ request[cl].type # CLOCK_DELAY => timer[t].data = request[cl].data

IInv == TypeOK /\ RequestsOK /\ InboxOK /\ NotifierProtocol /\ Clock /\ Deadlines

-----------------------------------------------------------------------------
(* Arithmetic.                                                             *)

LEMMA Division ==
  ASSUME NEW x \in Int, NEW n \in Nat \ {0}
  PROVE  /\ x % n \in 0 .. n - 1
         /\ x \div n \in Int
         /\ x = n * (x \div n) + (x % n)
OBVIOUS

LEMMA RemainderUnique ==
  ASSUME NEW n \in Nat \ {0}, NEW k \in Int, NEW r \in 0 .. n - 1
  PROVE  (n * k + r) % n = r
<1> DEFINE x == n * k + r
           l == x \div n
           s == x % n
<1>1. x \in Int
  OBVIOUS
<1>2. s \in 0 .. n - 1 /\ l \in Int /\ x = n * l + s
  BY <1>1, Division
<1>3. n * k + r = n * l + s
  BY <1>2
<1> HIDE DEF l, s
<1>4. n * (k - l) = s - r
  BY <1>2, <1>3
<1>5. CASE k - l >= 1
  <2>1. n * (k - l) >= n
    BY <1>2, <1>5
  <2>2. QED
    BY <1>2, <1>4, <2>1
<1>6. CASE k - l <= -1
  <2>1. n * (l - k) >= n
    BY <1>2, <1>6
  <2>2. QED
    BY <1>2, <1>4, <2>1
<1>7. k = l => r = s
  BY <1>2, <1>3
<1>8. QED
  BY <1>2, <1>5, <1>6, <1>7 DEF s

LEMMA Constants ==
  /\ TimerRange \in Nat \ {0} /\ CountsPerTick \in Nat \ {0}
  /\ TimerRange \div 2 \in Nat /\ TimerRange = 2 * (TimerRange \div 2)
  /\ CountsPerTick < TimerRange \div 2
<1>1. TimerRange \in Nat /\ TimerRange % 2 = 0 /\ TimerRange > 2 * CountsPerTick
      /\ CountsPerTick \in Nat \ {0}
  BY CountsAssumption
<1>2. TimerRange \div 2 \in Int /\ TimerRange = 2 * (TimerRange \div 2) + (TimerRange % 2)
  BY <1>1, Division
<1>3. QED
  BY <1>1, <1>2

LEMMA TimerType == \A time \in Int : Timer3(time) \in 0 .. TimerRange - 1
  BY Constants, Division DEF Timer3

\* One count later, one count more has passed: the register may wrap.
LEMMA ElapsedStep ==
  ASSUME NEW p \in Int, NEW n \in Int,
         ((p - Timer3(n)) % TimerRange) + 1 < TimerRange
  PROVE  (p - Timer3(n + 1)) % TimerRange = ((p - Timer3(n)) % TimerRange) + 1
<1> DEFINE R == TimerRange
           a == (R - 1 - n) \div R
           b == (R - 1 - (n + 1)) \div R
           c == (p - Timer3(n)) \div R
           e == (p - Timer3(n)) % R
<1>1. R \in Nat \ {0} /\ Timer3(n) \in Int /\ Timer3(n + 1) \in Int
  BY Constants, TimerType
<1>2. a \in Int /\ R - 1 - n = R * a + Timer3(n)
  BY <1>1, Division DEF Timer3
<1>3. b \in Int /\ R - 1 - (n + 1) = R * b + Timer3(n + 1)
  <2>1. R - 1 - (n + 1) \in Int
    BY <1>1
  <2>2. QED
    BY <1>1, <2>1, Division DEF Timer3
<1>4. c \in Int /\ e \in 0 .. R - 1 /\ p - Timer3(n) = R * c + e
  <2>1. p - Timer3(n) \in Int
    BY <1>1
  <2>2. QED
    BY <1>1, <2>1, Division
<1>5. e + 1 < R
  OBVIOUS
<1> HIDE DEF R, a, b, c, e
<1>6. p - Timer3(n + 1) = R * (c + b - a) + (e + 1)
  <2>1. Timer3(n) = R - 1 - n - R * a /\ Timer3(n + 1) = R - 1 - n - 1 - R * b
    BY <1>1, <1>2, <1>3
  <2>2. R * (c + b - a) = R * c + R * b - R * a
    BY <1>1, <1>2, <1>3, <1>4
  <2>3. R * a \in Int /\ R * b \in Int /\ R * c \in Int
    BY <1>1, <1>2, <1>3, <1>4
  <2>4. PICK ra \in Int, rb \in Int, rc \in Int : ra = R * a /\ rb = R * b /\ rc = R * c
    BY <2>3
  <2>5. /\ Timer3(n) = R - 1 - n - ra /\ Timer3(n + 1) = R - 1 - n - 1 - rb
        /\ p - Timer3(n) = rc + e
    BY <1>4, <2>1, <2>4
  <2>6. p - Timer3(n + 1) = rc + rb - ra + (e + 1)
    <3>1. e \in Int /\ R \in Int
      BY <1>1, <1>4
    <3>2. Timer3(n + 1) = Timer3(n) + ra - 1 - rb
      BY <1>1, <2>5, <3>1
    <3>3. QED
      BY <1>1, <2>5, <3>1, <3>2
  <2>7. QED
    BY <2>2, <2>4, <2>6
<1>7. (R * (c + b - a) + (e + 1)) % R = e + 1
  <2>1. c + b - a \in Int /\ e + 1 \in 0 .. R - 1
    BY <1>1, <1>2, <1>3, <1>4, <1>5
  <2>2. QED
    BY <1>1, <2>1, RemainderUnique
<1>8. QED
  BY <1>6, <1>7 DEF R, e

\* A difference taken as an int.
LEMMA SignedValue ==
  ASSUME NEW k \in Int, NEW e \in 0 .. TimerRange - 1
  PROVE  /\ e < TimerRange \div 2 => Signed(TimerRange * k + e) = e
         /\ e >= TimerRange \div 2 => Signed(TimerRange * k + e) = e - TimerRange
<1>1. (TimerRange * k + e) % TimerRange = e
  BY Constants, RemainderUnique
<1>2. QED
  BY <1>1, Constants DEF Signed

LEMMA SignedCongruent ==
  ASSUME NEW x \in Int
  PROVE  \E k \in Int : Signed(x) = TimerRange * k + x
<1> DEFINE q == x \div TimerRange
           m == x % TimerRange
<1>1. TimerRange \in Nat \ {0}
  BY Constants
<1>2. q \in Int /\ m \in Int /\ x = TimerRange * q + m
  BY <1>1, Division
<1>3. Signed(x) = m \/ Signed(x) = m - TimerRange
  BY DEF Signed
<1> HIDE DEF q, m
<1>4. CASE Signed(x) = m
  <2>1. -q \in Int /\ Signed(x) = TimerRange * (-q) + x
    BY <1>1, <1>2, <1>4
  <2>2. QED
    BY <2>1
<1>5. CASE Signed(x) = m - TimerRange
  <2>1. -q - 1 \in Int /\ Signed(x) = TimerRange * (-q - 1) + x
    BY <1>1, <1>2, <1>5
  <2>2. QED
    BY <2>1
<1>6. QED
  BY <1>3, <1>4, <1>5

\* The two branches of the code come to the division of the counts that passed,
\* as long as the server looks in time.
LEMMA TicksPassedValue ==
  ASSUME now \in Int, previous_ticks \in Int, Elapsed < TimerRange \div 2
  PROVE  /\ Elapsed \in Nat
         /\ TicksPassed = Elapsed \div CountsPerTick
         /\ Elapsed < CountsPerTick => TicksPassed = 0
<1> DEFINE R == TimerRange
           T == Timer3(now)
           e == Elapsed
           cur == Signed(T)
           prev == Signed(previous_ticks)
<1>1. R \in Nat \ {0} /\ T \in Int /\ CountsPerTick \in Nat \ {0}
      /\ R = 2 * (R \div 2) /\ R \div 2 \in Nat /\ CountsPerTick < R \div 2
  BY Constants, TimerType
<1>2. PICK c \in Int : e \in 0 .. R - 1 /\ previous_ticks - T = R * c + e
  <2>1. previous_ticks - T \in Int
    BY <1>1
  <2>2. QED
    BY <1>1, <2>1, Division DEF Elapsed
<1>3. PICK k \in Int : cur = R * k + T
  BY <1>1, SignedCongruent
<1>4. PICK l \in Int : prev = R * l + previous_ticks
  BY SignedCongruent
<1>5. e < R \div 2
  OBVIOUS
<1>6. TicksPassed =
        IF cur > prev /\ Signed(cur - prev) >= CountsPerTick
        THEN (R - 1 - Signed(cur - prev)) \div CountsPerTick
        ELSE IF Signed(prev - cur) >= CountsPerTick
             THEN Signed(prev - cur) \div CountsPerTick ELSE 0
  BY DEF TicksPassed
<1>7. e \in Nat
  BY <1>1, <1>2
<1> HIDE DEF R, T, e, cur, prev
<1>8. Signed(prev - cur) = e
  <2>1. prev - cur = R * (c + l - k) + e
    BY <1>1, <1>2, <1>3, <1>4
  <2>2. Signed(R * (c + l - k) + e) = e
    <3>1. c + l - k \in Int
      OBVIOUS
    <3>2. QED
      BY <1>2, <1>5, <3>1, SignedValue DEF R
  <2>3. QED
    BY <2>1, <2>2
<1>9. Signed(cur - prev) \in Int /\ Signed(cur - prev) <= 0
  <2>1. CASE e = 0
    <3>1. cur - prev = R * (k - l - c) + 0 /\ k - l - c \in Int /\ 0 \in 0 .. R - 1
      BY <1>1, <1>2, <1>3, <1>4, <2>1
    <3>2. 0 < R \div 2
      BY <1>1
    <3>3. Signed(R * (k - l - c) + 0) = 0
      BY <3>1, <3>2, SignedValue DEF R
    <3>4. QED
      BY <3>1, <3>3
  <2>2. CASE e # 0
    <3>1. cur - prev = R * (k - l - c - 1) + (R - e) /\ k - l - c - 1 \in Int
      BY <1>1, <1>2, <1>3, <1>4
    <3>2. R - e \in 0 .. R - 1 /\ R - e >= R \div 2
      BY <1>1, <1>2, <1>5, <2>2
    <3>3. Signed(R * (k - l - c - 1) + (R - e)) = (R - e) - R
      BY <3>1, <3>2, SignedValue DEF R
    <3>4. QED
      BY <1>1, <1>2, <3>1, <3>3
  <2>3. QED
    BY <2>1, <2>2
<1>10. ~(Signed(cur - prev) >= CountsPerTick)
  BY <1>1, <1>9
<1>11. TicksPassed = IF e >= CountsPerTick THEN e \div CountsPerTick ELSE 0
  BY <1>6, <1>8, <1>10
<1>12. e < CountsPerTick => e \div CountsPerTick = 0
  BY <1>1, <1>7
<1>13. QED
  BY <1>1, <1>7, <1>11, <1>12 DEF e

-----------------------------------------------------------------------------
(* Steps of the clock.                                                     *)

LEMMA CountClock ==
  ASSUME TypeOK, Clock, Count
  PROVE  /\ Clock' /\ Lag' = Lag /\ now' = now + 1
         /\ Elapsed \in Nat /\ Elapsed' = Elapsed + 1
<1>1. /\ now \in Nat /\ now' = now + 1 /\ previous_ticks \in Int
      /\ UNCHANGED <<previous_ticks, ticks>> /\ ticks \in Nat
      /\ Elapsed + 1 < TimerRange \div 2
  BY CountsAssumption DEF TypeOK, Count
<1>2. Elapsed \in Nat
  BY <1>1, TicksPassedValue DEF Clock
<1>3. Elapsed + 1 < TimerRange
  BY <1>1, <1>2, Constants
<1>4. Elapsed' = Elapsed + 1
  BY <1>1, <1>3, ElapsedStep DEF Elapsed
<1>5. now' - Elapsed' = now - Elapsed
  BY <1>1, <1>2, <1>4
<1>6. TicksTrackTime' /\ Lag' = Lag
  BY <1>1, <1>5 DEF Clock, TicksTrackTime, Lag
<1>7. Elapsed' < TimerRange \div 2
  BY <1>1, <1>4
<1>8. QED
  BY <1>1, <1>2, <1>4, <1>6, <1>7 DEF Clock

\* An update adds the whole ticks of the counts that passed and drops the rest:
\* less than a tick, and only if there was a whole one.
LEMMA UpdateClock ==
  ASSUME TypeOK, Clock, UpdateTicks, UNCHANGED now
  PROVE  /\ Clock' /\ Lag' >= Lag /\ Lag \in Int /\ Lag' \in Int /\ ticks' >= ticks
         /\ Elapsed' \in Nat /\ Elapsed' < CountsPerTick
         /\ ticks' \in Nat /\ previous_ticks' \in 0 .. TimerRange - 1
<1> DEFINE C == CountsPerTick
           e == Elapsed
           q == TicksPassed
<1>1. /\ now \in Nat /\ ticks \in Nat /\ previous_ticks \in 0 .. TimerRange - 1
      /\ C \in Nat \ {0} /\ TimerRange \in Nat \ {0}
      /\ ticks' = ticks + q
      /\ previous_ticks' = IF q = 0 THEN previous_ticks ELSE Timer3(now)
  BY Constants, CountsAssumption DEF TypeOK, UpdateTicks
<1>2. e \in Nat /\ q = e \div C /\ e < TimerRange \div 2
  BY <1>1, TicksPassedValue DEF Clock
<1>3. q \in Nat /\ e = C * q + (e % C) /\ e % C \in 0 .. C - 1
  <2>1. q \in Int /\ e = C * q + (e % C) /\ e % C \in 0 .. C - 1
    BY <1>1, <1>2, Division
  <2>2. ~(q <= -1)
    <3>1. SUFFICES ASSUME q <= -1 PROVE FALSE
      OBVIOUS
    <3>2. C * (-q) >= C
      BY <1>1, <2>1, <3>1
    <3>3. QED
      BY <1>1, <1>2, <2>1, <3>2
  <2>3. QED
    BY <2>1, <2>2
<1>4. Elapsed' = IF q = 0 THEN e ELSE 0
  <2>1. q = 0 => Elapsed' = e
    BY <1>1 DEF Elapsed
  <2>2. ASSUME q # 0 PROVE Elapsed' = 0
    <3>1. Elapsed' = (Timer3(now) - Timer3(now)) % TimerRange
      BY <1>1, <2>2 DEF Elapsed
    <3>2. Timer3(now) - Timer3(now) = TimerRange * 0 + 0 /\ 0 \in 0 .. TimerRange - 1
      BY <1>1, TimerType
    <3>3. QED
      BY <1>1, <3>1, <3>2, RemainderUnique
  <2>3. QED
    BY <2>1, <2>2
<1>5. C * ticks <= now - e /\ now - e <= (2 * C - 1) * ticks
  BY DEF Clock, TicksTrackTime
<1>6. Lag = now - e - C * ticks /\ Lag' = now - Elapsed' - C * ticks'
  BY DEF Lag
<1> HIDE DEF C, e, q
<1>7. Elapsed' \in Nat /\ Elapsed' < C /\ ticks' >= ticks
  BY <1>1, <1>2, <1>3, <1>4
<1>8. CASE q = 0
  <2>1. ticks' = ticks /\ Elapsed' = e /\ previous_ticks' = previous_ticks
    BY <1>1, <1>4, <1>8
  <2>2. TicksTrackTime' /\ Lag' = Lag
    BY <1>5, <1>6, <2>1 DEF TicksTrackTime, C, e
  <2>3. Elapsed' < TimerRange \div 2
    BY <1>2, <2>1
  <2>4. Lag \in Int
    BY <1>1, <1>2, <1>6
  <2>5. QED
    BY <1>1, <1>7, <2>1, <2>2, <2>3, <2>4 DEF Clock, C
<1>9. CASE q # 0
  <2>1. ticks' = ticks + q /\ Elapsed' = 0 /\ previous_ticks' \in 0 .. TimerRange - 1
    BY <1>1, <1>4, <1>9, TimerType
  <2>2. C * (ticks + q) = C * ticks + C * q /\ C * ticks \in Int /\ C * q \in Int
    BY <1>1, <1>3
  <2>3. (C - 1) * q >= C - 1
    BY <1>1, <1>3, <1>9
  <2>4. (2 * C - 1) * (ticks + q) = (2 * C - 1) * ticks + (C - 1) * q + C * q
    BY <1>1, <1>3
  <2>5. C * ticks' <= now - 0 /\ now - 0 <= (2 * C - 1) * ticks'
    <3>1. C * q <= e /\ e <= C * q + (C - 1)
      BY <1>1, <1>2, <1>3
    <3>2. C * (ticks + q) <= now
      BY <1>1, <1>2, <1>5, <2>2, <3>1
    <3>3. (2 * C - 1) * ticks \in Int /\ (C - 1) * q \in Int
      BY <1>1, <1>3
    <3>4. now <= (2 * C - 1) * ticks + (C - 1) * q + C * q
      BY <1>1, <1>2, <1>5, <2>2, <2>3, <3>1, <3>3
    <3>5. QED
      BY <1>1, <2>1, <2>4, <3>2, <3>4
  <2>6. TicksTrackTime'
    BY <2>1, <2>5 DEF TicksTrackTime, C
  <2>7. Lag' >= Lag /\ Lag \in Int /\ Lag' \in Int
    BY <1>1, <1>2, <1>3, <1>6, <2>1, <2>2
  <2>8. Elapsed' < TimerRange \div 2
    BY <2>1, Constants
  <2>9. ticks' \in Nat
    BY <1>1, <1>3, <2>1
  <2>10. QED
    BY <1>7, <2>1, <2>6, <2>7, <2>8, <2>9 DEF Clock, C
<1>10. QED
  BY <1>8, <1>9

\* Steps that do not touch the clock.
LEMMA SameClock ==
  ASSUME Clock, UNCHANGED <<now, ticks, previous_ticks>>
  PROVE  Clock' /\ Lag' = Lag
BY DEF Clock, TicksTrackTime, Lag, Elapsed

-----------------------------------------------------------------------------
(* The send queue.                                                         *)

Senders == Clients \cup {Notifier}

\* The first message is taken; whoever is left is somebody else.
LEMMA Taken ==
  ASSUME TypeOK, InboxOK, NEW sender, Received(sender)
  PROVE  /\ sender \in Senders /\ inbox' \in Seq(Senders)
         /\ IF sender = Notifier THEN notifier = "sent" ELSE client[sender] = "sent"
         /\ \A i, j \in DOMAIN inbox' : inbox'[i] = inbox'[j] => i = j
         /\ \A i \in DOMAIN inbox' :
              /\ inbox'[i] \in Senders /\ inbox'[i] # sender
              /\ IF inbox'[i] = Notifier THEN notifier = "sent" ELSE client[inbox'[i]] = "sent"
<1>1. /\ inbox \in Seq(Senders) /\ inbox # << >> /\ inbox' = Tail(inbox) /\ inbox[1] = sender
  BY DEF TypeOK, Received, Senders
<1>2. /\ Len(inbox) \in Nat \ {0} /\ DOMAIN inbox = 1 .. Len(inbox) /\ 1 \in DOMAIN inbox
      /\ inbox' \in Seq(Senders) /\ DOMAIN inbox' = 1 .. Len(inbox) - 1
      /\ \A i \in DOMAIN inbox' : inbox'[i] = inbox[i + 1] /\ i + 1 \in DOMAIN inbox
  BY <1>1
<1>3. \A i \in DOMAIN inbox' : i + 1 # 1
  BY <1>2
<1>4. \A i, j \in DOMAIN inbox' : i + 1 = j + 1 => i = j
  BY <1>2
<1>5. \A i \in DOMAIN inbox : inbox[i] \in Senders
  BY <1>1
<1>6. \A i, j \in DOMAIN inbox' : inbox'[i] = inbox'[j] => i = j
  BY <1>2, <1>4 DEF InboxOK
<1>7. \A i \in DOMAIN inbox' : inbox'[i] # sender
  BY <1>1, <1>2, <1>3 DEF InboxOK
<1>8. \A i \in DOMAIN inbox' : inbox'[i] \in Senders
        /\ IF inbox'[i] = Notifier THEN notifier = "sent" ELSE client[inbox'[i]] = "sent"
  BY <1>2, <1>5 DEF InboxOK
<1>9. /\ sender \in Senders
      /\ IF sender = Notifier THEN notifier = "sent" ELSE client[sender] = "sent"
  BY <1>1, <1>2, <1>5 DEF InboxOK
<1>10. QED
  BY <1>2, <1>6, <1>7, <1>8, <1>9

\* Who joins the queue was not in it.
LEMMA Joined ==
  ASSUME TypeOK, InboxOK, NEW sender \in Senders, inbox' = Append(inbox, sender),
         IF sender = Notifier THEN notifier # "sent" ELSE client[sender] # "sent"
  PROVE  /\ inbox' \in Seq(Senders)
         /\ \A i, j \in DOMAIN inbox' : inbox'[i] = inbox'[j] => i = j
         /\ \A i \in DOMAIN inbox' : inbox'[i] = sender
              \/ /\ inbox'[i] # sender
                 /\ IF inbox'[i] = Notifier THEN notifier = "sent"
                                            ELSE client[inbox'[i]] = "sent"
<1>1. inbox \in Seq(Senders)
  BY DEF TypeOK, Senders
<1>2. /\ Len(inbox) \in Nat /\ DOMAIN inbox = 1 .. Len(inbox)
      /\ inbox' \in Seq(Senders) /\ DOMAIN inbox' = 1 .. Len(inbox) + 1
      /\ inbox'[Len(inbox) + 1] = sender
      /\ \A i \in 1 .. Len(inbox) : inbox'[i] = inbox[i]
  BY <1>1
<1>3. \A i \in 1 .. Len(inbox) : inbox'[i] # sender
        /\ IF inbox'[i] = Notifier THEN notifier = "sent" ELSE client[inbox'[i]] = "sent"
  BY <1>2 DEF InboxOK
<1>4. \A i \in 1 .. Len(inbox) + 1 : i \in 1 .. Len(inbox) \/ i = Len(inbox) + 1
  BY <1>2
<1>5. \A i, j \in 1 .. Len(inbox) : inbox'[i] = inbox'[j] => i = j
  BY <1>2 DEF InboxOK
<1>6. \A i, j \in DOMAIN inbox' : inbox'[i] = inbox'[j] => i = j
  BY <1>2, <1>3, <1>4, <1>5
<1>7. QED
  BY <1>2, <1>3, <1>4, <1>6

LEMMA NotifierNoClient == Notifier \notin Clients /\ NoClient \notin Clients
BY ClientsAssumption DEF Notifier, NoClient

\* As long as a task's timer and its request stay, so does its deadline, however
\* the clock goes.
LEMMA DeadlineKept ==
  ASSUME Lag \in Int, Lag' \in Int, Lag' >= Lag,
         NEW data \in Nat, NEW d \in Nat, NEW called \in Nat,
         Lag + CountsPerTick * (data - d) + CountsPerTick > called
  PROVE  Lag' + CountsPerTick * (data - d) + CountsPerTick > called
<1>1. CountsPerTick \in Int /\ CountsPerTick * (data - d) \in Int
  BY Constants
<1>2. PICK x \in Int : x = CountsPerTick * (data - d) + CountsPerTick
  BY <1>1
<1>3. Lag + x > called => Lag' + x > called
  <2>1. called \in Int
    OBVIOUS
  <2>2. QED
    BY <1>2, <2>1
<1>4. Lag + CountsPerTick * (data - d) + CountsPerTick = Lag + x
  BY <1>1, <1>2
<1>5. Lag' + CountsPerTick * (data - d) + CountsPerTick = Lag' + x
  BY <1>1, <1>2
<1>6. QED
  BY <1>3, <1>4, <1>5

-----------------------------------------------------------------------------
(* The initial state.                                                      *)

LEMMA InitIInv == Init => IInv
<1>1. SUFFICES ASSUME Init PROVE IInv
  OBVIOUS
<1>2. now = 0 /\ ticks = 0 /\ previous_ticks = Timer3(0) /\ inbox = << >>
  BY <1>1 DEF Init
<1>3. Timer3(0) \in 0 .. TimerRange - 1
  BY TimerType
<1>4. TypeOK
  <2>1. /\ client \in [Clients -> {"running", "sent", "waiting"}]
        /\ notifier \in {"awaiting", "sent", "held"} /\ notifier_blocked \in BOOLEAN
        /\ timer \in [Timers -> [tid : Clients \cup {NoClient}, data : Nat]]
    BY <1>1 DEF Init
  <2>2. now \in 0 .. MaxTime
    BY <1>2, CountsAssumption
  <2>3. QED
    BY <1>2, <1>3, <2>1, <2>2 DEF TypeOK
<1>5. RequestsOK
  BY <1>1, <1>2 DEF Init, RequestsOK, NoRequest, Types
<1>6. InboxOK
  BY <1>2 DEF InboxOK
<1>7. NotifierProtocol
  BY <1>1 DEF Init, NotifierProtocol
<1>8. Clock
  <2>1. Elapsed = (Timer3(0) - Timer3(0)) % TimerRange
    BY <1>2 DEF Elapsed
  <2>2. Timer3(0) - Timer3(0) = TimerRange * 0 + 0 /\ 0 \in 0 .. TimerRange - 1
    BY <1>3, Constants
  <2>3. Elapsed = 0
    BY <2>1, <2>2, Constants, RemainderUnique
  <2>4. 0 < TimerRange \div 2
    BY Constants
  <2>5. TicksTrackTime
    <3>1. CountsPerTick * 0 = 0 /\ (2 * CountsPerTick - 1) * 0 = 0
      BY Constants
    <3>2. QED
      BY <1>2, <2>3, <3>1 DEF TicksTrackTime
  <2>6. QED
    BY <2>3, <2>4, <2>5 DEF Clock
<1>9. Deadlines
  BY <1>1, NotifierNoClient DEF Init, Deadlines
<1>10. QED
  BY <1>4, <1>5, <1>6, <1>7, <1>8, <1>9 DEF IInv

-----------------------------------------------------------------------------
(* The steps around the server.                                            *)

LEMMA CountIInv ==
  ASSUME IInv, Count
  PROVE  IInv'
<1>1. /\ TypeOK /\ RequestsOK /\ InboxOK /\ NotifierProtocol /\ Clock /\ Deadlines
      /\ now < MaxTime
      /\ UNCHANGED <<previous_ticks, ticks, inbox, client, request, notifier,
                     notifier_blocked, lists, timer>>
  BY DEF IInv, Count
<1>2. Clock' /\ Lag' = Lag /\ now' = now + 1 /\ now \in Nat
  BY <1>1, CountClock DEF TypeOK
<1>3. TypeOK'
  <2>1. now' \in 0 .. MaxTime
    BY <1>1, <1>2, CountsAssumption DEF TypeOK
  <2>2. QED
    BY <1>1, <2>1 DEF TypeOK
<1>4. RequestsOK'
  BY <1>1, <1>2 DEF RequestsOK
<1>5. InboxOK' /\ NotifierProtocol'
  BY <1>1 DEF InboxOK, NotifierProtocol
<1>6. Deadlines'
  BY <1>1, <1>2 DEF Deadlines
<1>7. QED
  BY <1>2, <1>3, <1>4, <1>5, <1>6 DEF IInv

LEMMA CallIInv ==
  ASSUME IInv, NEW cl \in Clients, NEW type \in Waits \cup {CLOCK_TIME}, NEW n \in Nat,
         Call(cl, type, n)
  PROVE  IInv'
<1>1. /\ TypeOK /\ RequestsOK /\ InboxOK /\ NotifierProtocol /\ Clock /\ Deadlines
      /\ client[cl] = "running"
      /\ client'  = [client EXCEPT ![cl] = "sent"]
      /\ request' = [request EXCEPT ![cl] = [type |-> type, data |-> n, called |-> now]]
      /\ inbox'   = Append(inbox, cl)
      /\ UNCHANGED <<now, previous_ticks, ticks, notifier, notifier_blocked, lists, timer>>
  BY DEF IInv, Call
<1>2. Clock' /\ Lag' = Lag
  BY <1>1, SameClock
<1>3. /\ inbox' \in Seq(Senders)
      /\ \A i, j \in DOMAIN inbox' : inbox'[i] = inbox'[j] => i = j
      /\ \A i \in DOMAIN inbox' : inbox'[i] = cl
           \/ /\ inbox'[i] # cl
              /\ IF inbox'[i] = Notifier THEN notifier = "sent"
                                         ELSE client[inbox'[i]] = "sent"
  <2>1. cl \in Senders /\ cl # Notifier
    BY NotifierNoClient DEF Senders
  <2>2. client[cl] # "sent"
    BY <1>1
  <2>3. QED
    BY <1>1, <2>1, <2>2, Joined
<1>4. now \in Nat
  BY <1>1, CountsAssumption DEF TypeOK
<1>5. \A x \in Clients : client'[x] = IF x = cl THEN "sent" ELSE client[x]
  BY <1>1 DEF TypeOK
<1>6. \A x \in Clients : request'[x] =
        IF x = cl THEN [type |-> type, data |-> n, called |-> now] ELSE request[x]
  BY <1>1 DEF RequestsOK
<1>7. TypeOK'
  BY <1>1, <1>3 DEF TypeOK, Senders
<1>8. RequestsOK'
  <2>1. request' \in [Clients -> [type : Types, data : Nat, called : Nat]]
    BY <1>1, <1>4 DEF RequestsOK, Types
  <2>2. ASSUME NEW x \in Clients, client'[x] = "sent" PROVE request'[x].called <= now
    BY <1>1, <1>4, <1>5, <1>6, <2>2 DEF RequestsOK
  <2>3. QED
    BY <1>1, <2>1, <2>2 DEF RequestsOK
<1>9. InboxOK'
  <2>1. ASSUME NEW i \in DOMAIN inbox'
        PROVE  IF inbox'[i] = Notifier THEN notifier' = "sent" ELSE client'[inbox'[i]] = "sent"
    <3>1. inbox'[i] \in Senders
      BY <1>3
    <3>2. QED
      BY <1>1, <1>3, <1>5, <3>1, NotifierNoClient DEF Senders
  <2>2. QED
    BY <1>3, <2>1 DEF InboxOK
<1>10. NotifierProtocol'
  BY <1>1 DEF NotifierProtocol
<1>11. Deadlines'
  <2>1. ASSUME NEW t \in Timers, NEW x \in Clients, timer[t].tid = x
        PROVE  x # cl /\ client'[x] = client[x] /\ request'[x] = request[x]
    BY <1>1, <1>5, <1>6, <2>1 DEF Deadlines
  <2>2. QED
    BY <1>1, <1>2, <2>1 DEF Deadlines
<1>12. QED
  BY <1>2, <1>7, <1>8, <1>9, <1>10, <1>11 DEF IInv

LEMMA NotifyIInv ==
  ASSUME IInv, Notify
  PROVE  IInv'
<1>1. /\ TypeOK /\ RequestsOK /\ InboxOK /\ NotifierProtocol /\ Clock /\ Deadlines
      /\ notifier = "awaiting" /\ notifier' = "sent"
      /\ inbox' = Append(inbox, Notifier)
      /\ UNCHANGED <<now, previous_ticks, ticks, client, request, notifier_blocked,
                     lists, timer>>
  BY DEF IInv, Notify
<1>2. Clock' /\ Lag' = Lag
  BY <1>1, SameClock
<1>3. /\ inbox' \in Seq(Senders)
      /\ \A i, j \in DOMAIN inbox' : inbox'[i] = inbox'[j] => i = j
      /\ \A i \in DOMAIN inbox' : inbox'[i] = Notifier
           \/ /\ inbox'[i] # Notifier
              /\ IF inbox'[i] = Notifier THEN notifier = "sent"
                                         ELSE client[inbox'[i]] = "sent"
  <2>1. Notifier \in Senders /\ notifier # "sent"
    BY <1>1 DEF Senders
  <2>2. QED
    BY <1>1, <2>1, Joined
<1>4. TypeOK'
  BY <1>1, <1>3 DEF TypeOK, Senders
<1>5. RequestsOK' /\ NotifierProtocol'
  BY <1>1 DEF RequestsOK, NotifierProtocol
<1>6. InboxOK'
  BY <1>1, <1>3 DEF InboxOK
<1>7. Deadlines'
  BY <1>1, <1>2 DEF Deadlines
<1>8. QED
  BY <1>2, <1>4, <1>5, <1>6, <1>7 DEF IInv

-----------------------------------------------------------------------------
(* The server.                                                             *)

\* What every message does: the clock goes on, and the deadlines that stay hold.
LEMMA MessageClock ==
  ASSUME IInv, UpdateTicks, UNCHANGED now
  PROVE  /\ Clock' /\ ticks' \in Nat /\ previous_ticks' \in 0 .. TimerRange - 1
         /\ ticks' >= ticks
         /\ now - CountsPerTick < now - Elapsed' /\ now - Elapsed' <= now
         /\ Elapsed' \in Nat /\ Lag' \in Int
         /\ \A t \in Timers, cl \in Clients :
              timer[t].tid = cl /\ request[cl].type = CLOCK_DELAY =>
                Lag' + CountsPerTick * (timer[t].data - request[cl].data) + CountsPerTick
                  > request[cl].called
<1>1. TypeOK /\ RequestsOK /\ Clock /\ Deadlines /\ now \in Nat
  BY CountsAssumption DEF IInv, TypeOK
<1>2. /\ Clock' /\ Lag' >= Lag /\ Lag \in Int /\ Lag' \in Int
      /\ Elapsed' \in Nat /\ Elapsed' < CountsPerTick
      /\ ticks' \in Nat /\ ticks' >= ticks /\ previous_ticks' \in 0 .. TimerRange - 1
  BY <1>1, UpdateClock
<1>3. ASSUME NEW t \in Timers, NEW cl \in Clients,
             timer[t].tid = cl, request[cl].type = CLOCK_DELAY
      PROVE  Lag' + CountsPerTick * (timer[t].data - request[cl].data) + CountsPerTick
               > request[cl].called
  <2>1. timer[t].data \in Nat /\ request[cl].data \in Nat /\ request[cl].called \in Nat
    BY <1>1 DEF TypeOK, RequestsOK
  <2>2. Lag + CountsPerTick * (timer[t].data - request[cl].data) + CountsPerTick
          > request[cl].called
    BY <1>1, <1>3 DEF Deadlines
  <2>3. QED
    BY <1>2, <2>1, <2>2, DeadlineKept
<1>4. now - CountsPerTick < now - Elapsed' /\ now - Elapsed' <= now
  <2>1. CountsPerTick \in Nat
    BY Constants
  <2>2. PICK e \in Nat : e = Elapsed'
    BY <1>2
  <2>3. e < CountsPerTick
    BY <1>2, <2>2
  <2>4. ASSUME NEW n \in Int, NEW c \in Int, NEW d \in Nat, d < c
        PROVE  n - c < n - d /\ n - d <= n
    BY <2>4
  <2>5. now \in Int /\ CountsPerTick \in Int
    BY <1>1, <2>1
  <2>6. now - CountsPerTick < now - e /\ now - e <= now
    BY <2>2, <2>3, <2>4, <2>5
  <2>7. QED
    BY <2>2, <2>6
<1>5. QED
  BY <1>1, <1>2, <1>3, <1>4

LEMMA NotifierBlocksIInv ==
  ASSUME IInv, NotifierBlocks
  PROVE  IInv'
<1>1. /\ TypeOK /\ RequestsOK /\ InboxOK /\ NotifierProtocol /\ Deadlines
      /\ Received(Notifier) /\ UpdateTicks /\ lists.active.front = Null
      /\ notifier' = "held" /\ notifier_blocked' = TRUE
      /\ UNCHANGED <<now, client, request, lists, timer>>
  BY DEF IInv, NotifierBlocks
<1>2. /\ Clock' /\ ticks' \in Nat /\ previous_ticks' \in 0 .. TimerRange - 1
      /\ \A t \in Timers, cl \in Clients :
           timer[t].tid = cl /\ request[cl].type = CLOCK_DELAY =>
             Lag' + CountsPerTick * (timer[t].data - request[cl].data) + CountsPerTick
               > request[cl].called
  BY <1>1, MessageClock
<1>3. /\ inbox' \in Seq(Senders)
      /\ \A i, j \in DOMAIN inbox' : inbox'[i] = inbox'[j] => i = j
      /\ \A i \in DOMAIN inbox' : inbox'[i] # Notifier /\ client[inbox'[i]] = "sent"
  BY <1>1, Taken
<1>4. TypeOK'
  BY <1>1, <1>2, <1>3 DEF TypeOK, Senders
<1>5. RequestsOK' /\ NotifierProtocol'
  BY <1>1 DEF RequestsOK, NotifierProtocol
<1>6. InboxOK'
  BY <1>1, <1>3 DEF InboxOK
<1>7. Deadlines'
  BY <1>1, <1>2 DEF Deadlines
<1>8. QED
  BY <1>2, <1>4, <1>5, <1>6, <1>7 DEF IInv

\* A task is woken by the only timer it has, which is then nobody's.
LEMMA NotifierWakesIInv ==
  ASSUME IInv, NotifierWakes
  PROVE  IInv'
<1> DEFINE over  == Over(ticks')
           woken == {timer[t].tid : t \in over}
<1>1. /\ TypeOK /\ RequestsOK /\ InboxOK /\ NotifierProtocol /\ Deadlines
      /\ Received(Notifier) /\ UpdateTicks /\ notifier' = "awaiting"
      /\ client'  = [cl \in Clients |-> IF cl \in woken THEN "running" ELSE client[cl]]
      /\ request' = [cl \in Clients |-> IF cl \in woken THEN NoRequest ELSE request[cl]]
      /\ timer'   = [t \in Timers |->
                       IF t \in over THEN [tid |-> NoClient, data |-> 0] ELSE timer[t]]
      /\ UNCHANGED <<now, notifier_blocked>>
  BY DEF IInv, NotifierWakes
<1>2. over \subseteq Timers
  BY DEF Over
<1> HIDE DEF over
<1>3. /\ Clock' /\ ticks' \in Nat /\ previous_ticks' \in 0 .. TimerRange - 1
      /\ \A t \in Timers, cl \in Clients :
           timer[t].tid = cl /\ request[cl].type = CLOCK_DELAY =>
             Lag' + CountsPerTick * (timer[t].data - request[cl].data) + CountsPerTick
               > request[cl].called
  BY <1>1, MessageClock
<1>4. /\ notifier = "sent" /\ inbox' \in Seq(Senders)
      /\ \A i, j \in DOMAIN inbox' : inbox'[i] = inbox'[j] => i = j
      /\ \A i \in DOMAIN inbox' : inbox'[i] \in Clients /\ client[inbox'[i]] = "sent"
  BY <1>1, Taken DEF Senders
<1>5. \A cl \in Clients : cl \in woken => client[cl] = "waiting"
  BY <1>1, <1>2 DEF Deadlines
<1>6. TypeOK'
  <2>1. client' \in [Clients -> {"running", "sent", "waiting"}]
    BY <1>1 DEF TypeOK
  <2>2. timer' \in [Timers -> [tid : Clients \cup {NoClient}, data : Nat]]
    BY <1>1 DEF TypeOK
  <2>3. QED
    BY <1>1, <1>3, <1>4, <2>1, <2>2 DEF TypeOK, Senders
<1>7. RequestsOK'
  <2>1. request' \in [Clients -> [type : Types, data : Nat, called : Nat]]
    BY <1>1 DEF RequestsOK, NoRequest, Types
  <2>2. \A cl \in Clients : client'[cl] = "sent" => client[cl] = "sent" /\ request'[cl] = request[cl]
    BY <1>1
  <2>3. QED
    BY <1>1, <2>1, <2>2 DEF RequestsOK
<1>8. InboxOK'
  <2>1. ASSUME NEW i \in DOMAIN inbox' PROVE inbox'[i] # Notifier /\ client'[inbox'[i]] = "sent"
    BY <1>1, <1>4, <1>5, <2>1, NotifierNoClient
  <2>2. QED
    BY <1>4, <2>1 DEF InboxOK
<1>9. NotifierProtocol'
  BY <1>1, <1>4 DEF NotifierProtocol
<1>10. Deadlines'
  <2>1. \A t \in Timers : timer'[t].tid \in Clients => t \notin over /\ timer'[t] = timer[t]
    BY <1>1, NotifierNoClient
  <2>2. ASSUME NEW t \in Timers, NEW cl \in Clients, timer'[t].tid = cl
        PROVE  /\ client'[cl] = client[cl] /\ request'[cl] = request[cl]
               /\ timer'[t] = timer[t] /\ timer[t].tid = cl
    <3>1. t \notin over /\ timer'[t] = timer[t] /\ timer[t].tid = cl
      BY <2>1, <2>2
    <3>2. cl \notin woken
      <4>1. SUFFICES ASSUME NEW u \in over, timer[u].tid = cl PROVE FALSE
        OBVIOUS
      <4>2. u = t
        BY <1>1, <1>2, <3>1, <4>1 DEF Deadlines
      <4>3. QED
        BY <3>1, <4>1, <4>2
    <3>3. QED
      BY <1>1, <3>1, <3>2
  <2>3. ASSUME NEW t \in Timers, NEW u \in Timers,
               timer'[t].tid \in Clients, timer'[t].tid = timer'[u].tid
        PROVE  t = u
    BY <1>1, <2>1, <2>3 DEF Deadlines
  <2>4. ASSUME NEW t \in Timers, NEW cl \in Clients, timer'[t].tid = cl
        PROVE  /\ client'[cl] = "waiting"
               /\ request'[cl].type \in Waits
               /\ request'[cl].type = CLOCK_DELAY =>
                    Lag' + CountsPerTick * (timer'[t].data - request'[cl].data)
                      + CountsPerTick > request'[cl].called
               /\ request'[cl].type # CLOCK_DELAY => timer'[t].data = request'[cl].data
    BY <1>1, <1>3, <2>2, <2>4 DEF Deadlines
  <2>5. QED
    BY <2>3, <2>4 DEF Deadlines
<1>11. QED
  BY <1>3, <1>6, <1>7, <1>8, <1>9, <1>10 DEF IInv

LEMMA TimeMessageIInv ==
  ASSUME IInv, NEW cl \in Clients, TimeMessage(cl)
  PROVE  IInv'
<1>1. /\ TypeOK /\ RequestsOK /\ InboxOK /\ NotifierProtocol /\ Deadlines
      /\ Received(cl) /\ UpdateTicks
      /\ client'  = [client EXCEPT ![cl] = "running"]
      /\ request' = [request EXCEPT ![cl] = NoRequest]
      /\ UNCHANGED <<now, notifier, notifier_blocked, lists, timer>>
  BY DEF IInv, TimeMessage
<1>2. /\ Clock' /\ ticks' \in Nat /\ previous_ticks' \in 0 .. TimerRange - 1
      /\ \A t \in Timers, c \in Clients :
           timer[t].tid = c /\ request[c].type = CLOCK_DELAY =>
             Lag' + CountsPerTick * (timer[t].data - request[c].data) + CountsPerTick
               > request[c].called
  BY <1>1, MessageClock
<1>3. /\ client[cl] = "sent" /\ inbox' \in Seq(Senders)
      /\ \A i, j \in DOMAIN inbox' : inbox'[i] = inbox'[j] => i = j
      /\ \A i \in DOMAIN inbox' :
           /\ inbox'[i] \in Senders /\ inbox'[i] # cl
           /\ IF inbox'[i] = Notifier THEN notifier = "sent" ELSE client[inbox'[i]] = "sent"
  BY <1>1, Taken, NotifierNoClient
<1>4. /\ \A c \in Clients : client'[c] = IF c = cl THEN "running" ELSE client[c]
      /\ \A c \in Clients : request'[c] = IF c = cl THEN NoRequest ELSE request[c]
  BY <1>1 DEF TypeOK, RequestsOK
<1>5. TypeOK'
  BY <1>1, <1>2, <1>3 DEF TypeOK, Senders
<1>6. RequestsOK'
  BY <1>1, <1>4 DEF RequestsOK, NoRequest, Types
<1>7. InboxOK'
  <2>1. ASSUME NEW i \in DOMAIN inbox'
        PROVE  IF inbox'[i] = Notifier THEN notifier' = "sent" ELSE client'[inbox'[i]] = "sent"
    BY <1>1, <1>3, <1>4 DEF Senders
  <2>2. QED
    BY <1>3, <2>1 DEF InboxOK
<1>8. NotifierProtocol'
  BY <1>1 DEF NotifierProtocol
<1>9. Deadlines'
  <2>1. ASSUME NEW t \in Timers, NEW c \in Clients, timer[t].tid = c
        PROVE  client'[c] = client[c] /\ request'[c] = request[c]
    BY <1>1, <1>3, <1>4, <2>1 DEF Deadlines
  <2>2. QED
    BY <1>1, <1>2, <2>1 DEF Deadlines
<1>10. QED
  BY <1>2, <1>5, <1>6, <1>7, <1>8, <1>9 DEF IInv

\* The new timer's deadline is counted from the update that has just been made.
LEMMA DelayMessageIInv ==
  ASSUME IInv, NEW cl \in Clients, DelayMessage(cl)
  PROVE  IInv'
<1> DEFINE t0 == lists.free.front
           deadline == Deadline(cl)
<1>1. /\ TypeOK /\ RequestsOK /\ InboxOK /\ NotifierProtocol /\ Deadlines
      /\ Received(cl) /\ UpdateTicks /\ ReleaseNotifier(cl)
      /\ request[cl].type \in Waits
      /\ client' = [client EXCEPT ![cl] = "waiting"]
      /\ timer'  = [timer EXCEPT ![t0] = [tid |-> cl, data |-> deadline]]
      /\ UNCHANGED <<now, request>>
  BY DEF IInv, DelayMessage, Waits
<1>2. /\ Clock' /\ ticks' \in Nat /\ previous_ticks' \in 0 .. TimerRange - 1
      /\ now - CountsPerTick < now - Elapsed' /\ Elapsed' \in Nat
      /\ \A t \in Timers, c \in Clients :
           timer[t].tid = c /\ request[c].type = CLOCK_DELAY =>
             Lag' + CountsPerTick * (timer[t].data - request[c].data) + CountsPerTick
               > request[c].called
  BY <1>1, MessageClock
<1>3. /\ client[cl] = "sent" /\ inbox' \in Seq(Senders)
      /\ \A i, j \in DOMAIN inbox' : inbox'[i] = inbox'[j] => i = j
      /\ \A i \in DOMAIN inbox' :
           /\ inbox'[i] \in Senders /\ inbox'[i] # cl
           /\ IF inbox'[i] = Notifier THEN notifier = "sent" ELSE client[inbox'[i]] = "sent"
  BY <1>1, Taken, NotifierNoClient
<1>4. /\ request[cl].data \in Nat /\ request[cl].called \in Nat /\ request[cl].called <= now
      /\ now \in Nat
  BY <1>1, <1>3, CountsAssumption DEF RequestsOK, TypeOK
<1>5. deadline = (IF request[cl].type = CLOCK_DELAY THEN ticks' + request[cl].data
                                                    ELSE request[cl].data)
  BY DEF Deadline
<1>6. deadline \in Nat
  BY <1>2, <1>4, <1>5
<1> HIDE DEF t0, deadline
<1>7. \A c \in Clients : client'[c] = IF c = cl THEN "waiting" ELSE client[c]
  BY <1>1 DEF TypeOK
<1>8. \A t \in Timers : timer'[t] = IF t = t0 THEN [tid |-> cl, data |-> deadline] ELSE timer[t]
  BY <1>1 DEF TypeOK
<1>9. NotifierProtocol' /\ notifier' \in {"awaiting", "sent", "held"}
      /\ notifier_blocked' \in BOOLEAN /\ (notifier = "sent" => notifier' = "sent")
  <2>1. CASE notifier_blocked
    <3>1. notifier' = "awaiting" /\ notifier_blocked' = FALSE /\ notifier = "held"
      BY <1>1, <2>1 DEF ReleaseNotifier, NotifierProtocol
    <3>2. QED
      BY <3>1 DEF NotifierProtocol
  <2>2. CASE ~notifier_blocked
    <3>1. UNCHANGED <<notifier, notifier_blocked>> /\ notifier # "held"
      BY <1>1, <2>2 DEF ReleaseNotifier, NotifierProtocol
    <3>2. QED
      BY <1>1, <2>2, <3>1 DEF NotifierProtocol, TypeOK
  <2>3. QED
    BY <2>1, <2>2
<1>10. TypeOK'
  <2>1. timer' \in [Timers -> [tid : Clients \cup {NoClient}, data : Nat]]
    BY <1>1, <1>6 DEF TypeOK
  <2>2. client' \in [Clients -> {"running", "sent", "waiting"}]
    BY <1>1 DEF TypeOK
  <2>3. QED
    BY <1>1, <1>2, <1>3, <1>9, <2>1, <2>2 DEF TypeOK, Senders
<1>11. RequestsOK'
  BY <1>1, <1>7 DEF RequestsOK
<1>12. InboxOK'
  <2>1. ASSUME NEW i \in DOMAIN inbox'
        PROVE  IF inbox'[i] = Notifier THEN notifier' = "sent" ELSE client'[inbox'[i]] = "sent"
    BY <1>3, <1>7, <1>9 DEF Senders
  <2>2. QED
    BY <1>3, <2>1 DEF InboxOK
<1>13. Deadlines'
  <2>1. \A t \in Timers : timer[t].tid # cl
    BY <1>1, <1>3 DEF Deadlines
  <2>2. ASSUME NEW t \in Timers, NEW u \in Timers,
               timer'[t].tid \in Clients, timer'[t].tid = timer'[u].tid
        PROVE  t = u
    BY <1>1, <1>8, <2>1, <2>2 DEF Deadlines
  <2>3. ASSUME NEW t \in Timers, NEW c \in Clients, timer'[t].tid = c
        PROVE  /\ client'[c] = "waiting"
               /\ request[c].type \in Waits
               /\ request[c].type = CLOCK_DELAY =>
                    Lag' + CountsPerTick * (timer'[t].data - request[c].data)
                      + CountsPerTick > request[c].called
               /\ request[c].type # CLOCK_DELAY => timer'[t].data = request[c].data
    <3>1. CASE t = t0
      <4>1. c = cl /\ timer'[t].data = deadline
        BY <1>8, <2>3, <3>1
      <4>2. ASSUME request[cl].type = CLOCK_DELAY
            PROVE  Lag' + CountsPerTick * (deadline - request[cl].data) + CountsPerTick
                     > request[cl].called
        <5>1. deadline - request[cl].data = ticks'
          BY <1>2, <1>4, <1>5, <4>2
        <5>2. Lag' = now - Elapsed' - CountsPerTick * ticks'
          BY <1>1 DEF Lag
        <5>3. CountsPerTick \in Int /\ CountsPerTick * ticks' \in Int
          BY <1>2, Constants
        <5>4. Lag' + CountsPerTick * ticks' + CountsPerTick = now - Elapsed' + CountsPerTick
          BY <1>2, <1>4, <5>2, <5>3
        <5>5. now - Elapsed' + CountsPerTick > request[cl].called
          <6>1. PICK e \in Nat : e = Elapsed'
            BY <1>2
          <6>2. now - CountsPerTick < now - e
            BY <1>2, <6>1
          <6>3. now - e + CountsPerTick > request[cl].called
            BY <1>4, <5>3, <6>1, <6>2
          <6>4. QED
            BY <6>1, <6>3
        <5>6. QED
          BY <5>1, <5>4, <5>5
      <4>3. QED
        BY <1>1, <1>5, <1>7, <4>1, <4>2
    <3>2. CASE t # t0
      <4>1. timer'[t] = timer[t] /\ c # cl
        BY <1>8, <2>1, <2>3, <3>2
      <4>2. QED
        BY <1>1, <1>2, <1>7, <2>3, <4>1 DEF Deadlines
    <3>3. QED
      BY <3>1, <3>2
  <2>4. QED
    BY <1>1, <2>2, <2>3 DEF Deadlines
<1>14. QED
  BY <1>2, <1>9, <1>10, <1>11, <1>12, <1>13 DEF IInv

-----------------------------------------------------------------------------
(* The theorems.                                                           *)

LEMMA NextIInv == IInv /\ [Next]_vars => IInv'
<1>1. SUFFICES ASSUME IInv, [Next]_vars PROVE IInv'
  OBVIOUS
<1>2. ASSUME NEW cl \in Clients, NEW type \in Waits, NEW n \in Delays, Call(cl, type, n)
      PROVE  IInv'
  <2>1. n \in Nat
    BY CountsAssumption
  <2>2. QED
    BY <1>1, <1>2, <2>1, CallIInv
<1>3. ASSUME NEW cl \in Clients, Call(cl, CLOCK_TIME, 0) PROVE IInv'
  BY <1>1, <1>3, CallIInv
<1>4. CASE Server
  BY <1>1, <1>4, NotifierBlocksIInv, NotifierWakesIInv, TimeMessageIInv, DelayMessageIInv
     DEF Server
<1>5. CASE UNCHANGED vars
  <2>1. Clock' /\ Lag' = Lag
    BY <1>1, <1>5, SameClock DEF IInv, vars
  <2>2. TypeOK' /\ RequestsOK' /\ InboxOK' /\ NotifierProtocol'
    BY <1>1, <1>5 DEF IInv, vars, TypeOK, RequestsOK, InboxOK, NotifierProtocol
  <2>3. Deadlines'
    BY <1>1, <1>5, <2>1 DEF IInv, vars, Deadlines
  <2>4. QED
    BY <2>1, <2>2, <2>3 DEF IInv
<1>6. QED
  BY <1>1, <1>2, <1>3, <1>4, <1>5, CountIInv, NotifyIInv DEF Next, Waits

\* A task is answered by the notifier's message, and not before its time.
LEMMA StepNeverEarly ==
  ASSUME IInv, [Next]_vars, NEW cl \in Clients,
         client[cl] = "waiting", client'[cl] = "running"
  PROVE  IF request[cl].type = CLOCK_DELAY
         THEN now' - request[cl].called > CountsPerTick * (request[cl].data - 1)
         ELSE now' >= CountsPerTick * request[cl].data
<1>1. TypeOK /\ RequestsOK /\ InboxOK /\ Deadlines
  BY DEF IInv
<1>2. NotifierWakes
  <2>1. ~(Count \/ Notify \/ NotifierBlocks \/ UNCHANGED vars)
    BY DEF Count, Notify, NotifierBlocks, vars
  <2>2. ASSUME NEW c \in Clients, NEW type, NEW n, Call(c, type, n) PROVE FALSE
    BY <1>1, <2>2 DEF Call, TypeOK
  <2>3. ASSUME NEW c \in Clients, TimeMessage(c) PROVE FALSE
    <3>1. client[c] = "sent" /\ client' = [client EXCEPT ![c] = "running"]
      BY <1>1, <2>3, Taken, NotifierNoClient DEF TimeMessage
    <3>2. QED
      BY <1>1, <3>1 DEF TypeOK
  <2>4. ASSUME NEW c \in Clients, DelayMessage(c) PROVE FALSE
    BY <1>1, <2>4 DEF DelayMessage, TypeOK
  <2>5. QED
    BY <2>1, <2>2, <2>3, <2>4 DEF Next, Server
<1>3. PICK t \in Timers : timer[t].tid = cl /\ timer[t].data <= ticks'
  <2>1. client' = [c \in Clients |->
                     IF c \in {timer[t].tid : t \in Over(ticks')} THEN "running" ELSE client[c]]
    BY <1>2 DEF NotifierWakes
  <2>2. PICK t \in Over(ticks') : timer[t].tid = cl
    BY <2>1
  <2>3. t \in Timers /\ timer[t].data <= ticks'
    BY <2>2 DEF Over
  <2>4. QED
    BY <2>2, <2>3
<1>4. /\ request[cl].data \in Nat /\ request[cl].called \in Nat /\ now \in Nat
      /\ timer[t].data \in Nat
  BY <1>1, CountsAssumption DEF TypeOK, RequestsOK
<1>5. UpdateTicks /\ now' = now
  BY <1>2 DEF NotifierWakes
<1>6. /\ ticks' \in Nat /\ Elapsed' \in Nat /\ now - Elapsed' <= now /\ Lag' \in Int /\ Clock'
      /\ request[cl].type = CLOCK_DELAY =>
           Lag' + CountsPerTick * (timer[t].data - request[cl].data) + CountsPerTick
             > request[cl].called
  BY <1>3, <1>5, MessageClock
<1>7. CountsPerTick \in Nat \ {0}
  BY Constants
<1>8. Lag' = now - Elapsed' - CountsPerTick * ticks' /\ CountsPerTick * ticks' <= now - Elapsed'
  BY <1>5, <1>6 DEF Lag, Clock, TicksTrackTime
<1>9. PICK e \in Nat, n \in Nat, d \in Nat, x \in Nat :
        e = Elapsed' /\ n = ticks' /\ d = request[cl].data /\ x = timer[t].data
  BY <1>4, <1>6
<1>10. x <= n
  BY <1>3, <1>9
<1>11. CASE request[cl].type = CLOCK_DELAY
  <2>1. now - e - CountsPerTick * n + CountsPerTick * (x - d) + CountsPerTick
          > request[cl].called
    BY <1>6, <1>8, <1>9, <1>11
  <2>2. CountsPerTick * (n - x) >= 0
    BY <1>7, <1>10
  <2>3. /\ CountsPerTick * (x - d) = CountsPerTick * x - CountsPerTick * d
        /\ CountsPerTick * (n - x) = CountsPerTick * n - CountsPerTick * x
        /\ CountsPerTick * (d - 1) = CountsPerTick * d - CountsPerTick
        /\ CountsPerTick * x \in Int /\ CountsPerTick * n \in Int /\ CountsPerTick * d \in Int
    BY <1>7
  <2>4. now - request[cl].called > CountsPerTick * (d - 1)
    BY <1>4, <1>7, <2>1, <2>2, <2>3
  <2>5. QED
    BY <1>5, <1>9, <1>11, <2>4
<1>12. CASE request[cl].type # CLOCK_DELAY
  <2>1. x = d
    BY <1>1, <1>3, <1>9, <1>12 DEF Deadlines
  <2>2. CountsPerTick * (n - d) >= 0
    BY <1>7, <1>10, <2>1
  <2>3. CountsPerTick * (n - d) = CountsPerTick * n - CountsPerTick * d
        /\ CountsPerTick * n \in Int /\ CountsPerTick * d \in Int
    BY <1>7
  <2>4. CountsPerTick * n <= now - e
    BY <1>8, <1>9
  <2>5. now >= CountsPerTick * d
    BY <1>4, <2>2, <2>3, <2>4
  <2>6. QED
    BY <1>5, <1>9, <1>12, <2>5
<1>13. QED
  BY <1>11, <1>12

THEOREM Inductive == Spec => []IInv
<1>1. Init => IInv
  BY InitIInv
<1>2. IInv /\ [Next]_vars => IInv'
  BY NextIInv
<1>3. QED
  BY <1>1, <1>2, PTL DEF Spec

\* The variables have their types: in particular ticks is never negative, although
\* the code computes it from differences that overflow.
THEOREM TypeCorrect == Spec => []TypeOK
<1>1. IInv => TypeOK
  BY DEF IInv
<1>2. QED
  BY <1>1, Inductive, PTL

\* For every width of TIMER3 and length of a tick that is less than half its
\* range, however often the register wraps and changes its sign: time read from the
\* server is never ahead, and at least half of what has passed.
THEOREM TimeKept == Spec => []TicksTrackTime
<1>1. IInv => TicksTrackTime
  BY DEF IInv, Clock
<1>2. QED
  BY <1>1, Inductive, PTL

\* The notifier is left without a reply only while nobody waits, and
\* notifier_blocked always knows.
THEOREM Protocol == Spec => []NotifierProtocol
<1>1. IInv => NotifierProtocol
  BY DEF IInv
<1>2. QED
  BY <1>1, Inductive, PTL

\* Nobody is woken early, for any number of tasks and timers, although the counts
\* that are dropped make every deadline later than it was asked for.
THEOREM WokenInTime == Spec => NeverEarly
<1>1. IInv /\ [Next]_vars =>
        [\A cl \in Clients :
           (client[cl] = "waiting" /\ client'[cl] = "running") =>
             IF request[cl].type = CLOCK_DELAY
             THEN now' - request[cl].called > CountsPerTick * (request[cl].data - 1)
             ELSE now' >= CountsPerTick * request[cl].data]_vars
  BY StepNeverEarly
<1>2. QED
  BY <1>1, Inductive, PTL DEF Spec, NeverEarly

-----------------------------------------------------------------------------
(* The lists and the timers.                                               *)

\* The free list is f, the active list a in the order of its deadlines, and every
\* timer is in one of them: the free ones nobody's, the active ones a client's.
Arranged(h, tm, f, n, a, k) ==
  /\ Holds(h, "free", f, n) /\ Holds(h, "active", a, k)
  /\ \A i \in 1 .. n, j \in 1 .. k : f[i] # a[j]
  /\ \A t \in Timers : (\E i \in 1 .. n : f[i] = t) \/ (\E j \in 1 .. k : a[j] = t)
  /\ \A i \in 1 .. n : tm[f[i]].tid = NoClient
  /\ \A i \in 1 .. k : tm[a[i]].tid \in Clients
  /\ \A i, j \in 1 .. k : i <= j => tm[a[i]].data <= tm[a[j]].data

\* The lists are such, and who waits has a timer.
ListsOK ==
  /\ lists \in Links
  /\ \E f, n, a, k : Arranged(lists, timer, f, n, a, k)
  /\ \A cl \in Clients : client[cl] = "waiting" => \E t \in Timers : timer[t].tid = cl

\* After start-up all timers are free, in turn.
LEMMA InitLists == Init => ListsOK
<1> DEFINE f == [i \in 1 .. MAX_TIMERS |-> i]
           a == [i \in 1 .. 0 |-> i]
<1>1. SUFFICES ASSUME Init PROVE ListsOK
  OBVIOUS
<1>2. /\ lists = [next   |-> [t \in Timers |-> IF t = MAX_TIMERS THEN Null ELSE t + 1],
                  free   |-> [front |-> 1, back |-> MAX_TIMERS],
                  active |-> EmptyList]
      /\ timer = [t \in Timers |-> [tid |-> NoClient, data |-> 0]]
      /\ \A cl \in Clients : client[cl] = "running"
  BY <1>1 DEF Init
<1>3. MAX_TIMERS \in Nat \ {0} /\ 1 \in Timers /\ MAX_TIMERS \in Timers /\ Timers = 1 .. MAX_TIMERS
  BY TimersAssumption DEF Timers
<1>4. lists \in Links
  <2>1. [t \in Timers |-> IF t = MAX_TIMERS THEN Null ELSE t + 1] \in [Timers -> Nodes]
    BY <1>3 DEF Nodes
  <2>2. [front |-> 1, back |-> MAX_TIMERS] \in Ends /\ EmptyList \in Ends
    BY <1>3 DEF Ends, Nodes, EmptyList
  <2>3. QED
    BY <1>2, <2>1, <2>2 DEF Links
<1>5. Holds(lists, "free", f, MAX_TIMERS)
  BY <1>2, <1>3 DEF Holds
<1>6. Holds(lists, "active", a, 0)
  BY <1>2 DEF Holds, EmptyList
<1>7. Arranged(lists, timer, f, MAX_TIMERS, a, 0)
  BY <1>2, <1>3, <1>5, <1>6 DEF Arranged
<1>8. QED
  BY <1>2, <1>4, <1>7 DEF ListsOK

\* The lists stay as long as they and the timers do.
LEMMA SameLists ==
  ASSUME ListsOK, UNCHANGED <<lists, timer>>,
         \A cl \in Clients : client'[cl] = "waiting" => client[cl] = "waiting"
  PROVE  ListsOK'
<1>1. PICK f, n, a, k : Arranged(lists, timer, f, n, a, k)
  BY DEF ListsOK
<1>2. Arranged(lists', timer', f, n, a, k)
  BY <1>1
<1>3. QED
  BY <1>2 DEF ListsOK

\* The free list is not empty while somebody who does not wait asks for a timer.
LEMMA TimerLeft ==
  ASSUME TypeOK, Deadlines, NEW f, NEW n, NEW a, NEW k, Arranged(lists, timer, f, n, a, k),
         NEW cl \in Clients, client[cl] # "waiting"
  PROVE  n # 0
<1>1. SUFFICES ASSUME n = 0 PROVE FALSE
  OBVIOUS
<1> DEFINE owner == [t \in Timers |-> timer[t].tid]
<1>2. \A t \in Timers : timer[t].tid \in Clients
  BY <1>1 DEF Arranged
<1>3. \A t \in Timers : timer[t].tid \in Clients \ {cl}
  BY <1>2 DEF Deadlines
<1>4. \A t, u \in Timers : timer[t].tid = timer[u].tid => t = u
  BY <1>2 DEF Deadlines
<1>5. owner \in Injection(Timers, Clients \ {cl})
  BY <1>3, <1>4 DEF Injection, IsInjective
<1>6. /\ IsFiniteSet(Clients \ {cl}) /\ Cardinality(Clients \ {cl}) = Cardinality(Clients) - 1
      /\ Cardinality(Clients) \in Nat
  BY TimersAssumption, FS_RemoveElement, FS_CardinalityType
<1>7. Cardinality(Timers) <= Cardinality(Clients \ {cl})
  BY <1>5, <1>6, FS_Injection
<1>8. QED
  BY <1>6, <1>7, TimersFinite, TimersAssumption

\* With a free timer there is room on the active list.
LEMMA NotAllActive ==
  ASSUME NEW h, NEW tm, NEW f, NEW n, NEW a, NEW k, Arranged(h, tm, f, n, a, k), n # 0
  PROVE  k < MAX_TIMERS
<1>1. /\ n \in Nat \ {0} /\ f \in [1 .. n -> Timers] /\ k \in Nat /\ a \in [1 .. k -> Timers]
      /\ \A i, j \in 1 .. k : a[i] = a[j] => i = j
      /\ \A i \in 1 .. n, j \in 1 .. k : f[i] # a[j]
  BY DEF Arranged, Holds
<1>2. 1 \in 1 .. n /\ f[1] \in Timers /\ \A j \in 1 .. k : a[j] # f[1]
  BY <1>1
<1> DEFINE p == Longer(a, k, f[1])
<1>3. p \in [1 .. k + 1 -> Timers] /\ \A i, j \in 1 .. k + 1 : p[i] = p[j] => i = j
  <2>1. p \in [1 .. k + 1 -> Timers] /\ p[k + 1] = f[1] /\ \A i \in 1 .. k : p[i] = a[i]
    BY <1>1, <1>2 DEF Longer
  <2> HIDE DEF p
  <2>2. QED
    BY <1>1, <1>2, <2>1
<1> HIDE DEF p
<1>4. p \in Injection(1 .. k + 1, Timers)
  BY <1>3 DEF Injection, IsInjective
<1>5. IsFiniteSet(1 .. k + 1) /\ Cardinality(1 .. k + 1) = k + 1
  <2>1. k + 1 \in Nat /\ 1 \in Int /\ k + 1 \in Int
    BY <1>1
  <2>2. QED
    BY <2>1, FS_Interval
<1>6. Cardinality(1 .. k + 1) <= Cardinality(Timers)
  BY <1>4, <1>5, TimersFinite, FS_Injection
<1>7. QED
  BY <1>1, <1>5, <1>6, TimersFinite, TimersAssumption

\* The deadlines, as the list code compares them.
DataOf(tm) == [u \in Timers |-> tm[u].data]

\* A timer is taken off the free list and put among the active ones, where it belongs.
LEMMA TimerAdded ==
  ASSUME NEW h \in Links, NEW tm \in [Timers -> [tid : Clients \cup {NoClient}, data : Nat]],
         NEW f, NEW n, NEW a, NEW k, Arranged(h, tm, f, n, a, k), n # 0,
         NEW tn \in [Timers -> [tid : Clients \cup {NoClient}, data : Nat]],
         NEW v, v.tid \in Clients,
         \A u \in Timers : tn[u] = IF u = h.free.front THEN v ELSE tm[u]
  PROVE  /\ h.free.front \in Timers /\ h.free.front = f[1]
         /\ Add(list_pop_front(h, "free"), h.free.front, DataOf(tn)) \in Links
         /\ \E q, b : Arranged(Add(list_pop_front(h, "free"), h.free.front, DataOf(tn)),
                               tn, q, n - 1, b, k + 1)
<1> DEFINE x == f[1]
           e == list_pop_front(h, "free")
           q == Rest(f, n)
           data == DataOf(tn)
           g == Add(e, h.free.front, data)
<1> HIDE DEF e, q, data, g
<1>1. "free" \in Both /\ "active" \in Both /\ "free" # "active"
  BY DEF Both
<1>2. /\ Holds(h, "free", f, n) /\ Holds(h, "active", a, k)
      /\ \A i \in 1 .. n, j \in 1 .. k : f[i] # a[j]
      /\ \A t \in Timers : (\E i \in 1 .. n : f[i] = t) \/ (\E j \in 1 .. k : a[j] = t)
      /\ \A i \in 1 .. n : tm[f[i]].tid = NoClient
      /\ \A i \in 1 .. k : tm[a[i]].tid \in Clients
      /\ \A i, j \in 1 .. k : i <= j => tm[a[i]].data <= tm[a[j]].data
  BY DEF Arranged
<1>3. /\ n \in Nat \ {0} /\ f \in [1 .. n -> Timers] /\ k \in Nat /\ a \in [1 .. k -> Timers]
      /\ \A i, j \in 1 .. k : a[i] = a[j] => i = j
      /\ \A i, j \in 1 .. n : f[i] = f[j] => i = j
      /\ 1 \in 1 .. n
  <2>1. Holds(h, "free", f, n) /\ Holds(h, "active", a, k)
    BY <1>2
  <2>2. n \in Nat \ {0} /\ 1 \in 1 .. n
    BY <2>1 DEF Holds
  <2>3. QED
    BY <2>1, <2>2 DEF Holds
<1>4. /\ e \in Links /\ e["active"] = h["active"] /\ h["free"].front = x /\ x \in Timers
      /\ Holds(e, "free", q, n - 1)
      /\ \A t \in Timers \ {x} : e.next[t] = h.next[t]
  <2>1. Holds(h, "free", f, n)
    BY <1>2
  <2>2. QED
    BY <1>1, <2>1, Popped DEF e, q
<1>5. h.free.front = x
  BY <1>4 DEF Links
<1> HIDE DEF x
<1>6. \A i \in 1 .. k : a[i] \in Timers \ {x}
  BY <1>2, <1>3 DEF x
<1>7. Holds(e, "active", a, k)
  BY <1>2, <1>4, <1>6, SameList
<1>8. \A u \in Timers : tn[u] = IF u = x THEN v ELSE tm[u]
  BY <1>5
<1>9. data \in [Timers -> Int] /\ \A u \in Timers : data[u] = tn[u].data /\ tn[u].data \in Nat
  <2>1. \A u \in Timers : tn[u].data \in Nat
    OBVIOUS
  <2>2. QED
    BY <2>1 DEF data, DataOf
<1>10. k < MAX_TIMERS
  BY NotAllActive
<1>11. g = ordered_list_add(e, "active", x, data)
  BY <1>5 DEF Add, g
<1>12. IsAddition(g, e, "active", "free", a, k, x, data)
  BY <1>1, <1>4, <1>6, <1>7, <1>9, <1>10, <1>11, Added
<1>13. /\ g \in Links /\ g["free"] = e["free"]
       /\ \A t \in Timers \ {x} : (\A i \in 1 .. k : a[i] # t) => g.next[t] = e.next[t]
       /\ \E j \in 1 .. k + 1 :
            /\ j <= k => data[a[j]] >= data[x]
            /\ \A i \in 1 .. j - 1 : data[a[i]] < data[x]
            /\ Holds(g, "active", Inserted(a, k, x, j), k + 1)
  BY <1>12 DEF IsAddition
<1>14. PICK j \in 1 .. k + 1 :
         /\ j <= k => data[a[j]] >= data[x]
         /\ \A i \in 1 .. j - 1 : data[a[i]] < data[x]
         /\ Holds(g, "active", Inserted(a, k, x, j), k + 1)
  BY <1>13
<1> DEFINE b == Inserted(a, k, x, j)
<1>15. IsInsertion(b, a, k, x, j)
  BY <1>3, <1>4, <1>6, InsertedValue
<1> HIDE DEF b
<1>16. /\ b \in [1 .. k + 1 -> Timers]
       /\ \A i \in 1 .. k + 1 :
            /\ i < j => i \in 1 .. k /\ b[i] = a[i]
            /\ i = j => b[i] = x
            /\ i > j => i - 1 \in 1 .. k /\ b[i] = a[i - 1]
  BY <1>15 DEF IsInsertion
<1>17. \A i \in 1 .. n - 1 : i + 1 \in 1 .. n /\ q[i] = f[i + 1] /\ q[i] \in Timers \ {x}
  <2>1. TAKE i \in 1 .. n - 1
  <2>2. i + 1 \in 1 .. n /\ i + 1 # 1 /\ q[i] = f[i + 1]
    BY <1>3 DEF q, Rest
  <2>3. QED
    BY <1>3, <2>2 DEF x
<1>18. \A i \in 1 .. n - 1, l \in 1 .. k : q[i] # a[l]
  BY <1>2, <1>17
<1>19. Holds(g, "free", q, n - 1)
  <2>1. \A i \in 1 .. n - 1 : g.next[q[i]] = e.next[q[i]]
    BY <1>13, <1>17, <1>18
  <2>2. QED
    BY <1>4, <1>13, <2>1, SameList
<1>20. \A i \in 1 .. k + 1 : b[i] = x \/ \E l \in 1 .. k : b[i] = a[l]
  <2>1. \A i \in 1 .. k + 1 : i < j \/ i = j \/ i > j
    BY <1>3, <1>14
  <2>2. QED
    BY <1>16, <2>1
<1>21. Arranged(g, tn, q, n - 1, b, k + 1)
  <2>1. \A i \in 1 .. n - 1, l \in 1 .. k + 1 : q[i] # b[l]
    BY <1>17, <1>18, <1>20
  <2>2. ASSUME NEW t \in Timers
        PROVE  (\E i \in 1 .. n - 1 : q[i] = t) \/ (\E l \in 1 .. k + 1 : b[l] = t)
    <3>1. CASE t = x
      BY <1>14, <1>16, <3>1
    <3>2. ASSUME NEW i \in 1 .. n, f[i] = t, t # x PROVE \E l \in 1 .. n - 1 : q[l] = t
      <4>1. i # 1
        BY <3>2 DEF x
      <4>2. i - 1 \in 1 .. n - 1 /\ (i - 1) + 1 = i
        BY <1>3, <4>1
      <4>3. q[i - 1] = f[i]
        BY <1>17, <4>2
      <4>4. QED
        BY <3>2, <4>2, <4>3
    <3>3. ASSUME NEW i \in 1 .. k, a[i] = t PROVE \E l \in 1 .. k + 1 : b[l] = t
      <4>1. i \in 1 .. k + 1 /\ i + 1 \in 1 .. k + 1 /\ (i + 1) - 1 = i /\ (i < j \/ i + 1 > j)
        BY <1>3, <1>14
      <4>2. CASE i < j
        BY <1>16, <3>3, <4>1, <4>2
      <4>3. CASE i + 1 > j
        <5>1. b[i + 1] = a[(i + 1) - 1]
          BY <1>16, <4>1, <4>3
        <5>2. QED
          BY <3>3, <4>1, <5>1
      <4>4. QED
        BY <4>1, <4>2, <4>3
    <3>4. QED
      BY <1>2, <3>1, <3>2, <3>3
  <2>3. \A i \in 1 .. n - 1 : tn[q[i]].tid = NoClient
    BY <1>2, <1>8, <1>17
  <2>4. \A i \in 1 .. k + 1 : tn[b[i]].tid \in Clients
    BY <1>2, <1>4, <1>6, <1>8, <1>20
  <2>5. \A i \in 1 .. k : tn[a[i]] = tm[a[i]] /\ data[a[i]] = tm[a[i]].data /\ data[a[i]] \in Nat
    BY <1>6, <1>8, <1>9
  <2>6. data[x] \in Nat /\ data[x] = tn[x].data
    BY <1>4, <1>9
  <2>7. \A i, l \in 1 .. k : i <= l => data[a[i]] <= data[a[l]]
    BY <1>2, <2>5
  <2>8. \A i \in 1 .. k : /\ i < j => data[a[i]] < data[x]
                          /\ i >= j => data[a[i]] >= data[x]
    <3>1. TAKE i \in 1 .. k
    <3>2. i < j => i \in 1 .. j - 1
      BY <1>3, <1>14
    <3>3. ASSUME i >= j PROVE data[a[i]] >= data[x]
      <4>1. j \in 1 .. k /\ j <= k /\ j <= i
        BY <1>3, <1>14, <3>3
      <4>2. data[a[j]] >= data[x] /\ data[a[j]] <= data[a[i]]
        BY <1>14, <2>7, <4>1
      <4>3. QED
        BY <2>5, <2>6, <4>1, <4>2
    <3>4. QED
      BY <1>14, <3>2, <3>3
  <2>9. ASSUME NEW i \in 1 .. k + 1, NEW l \in 1 .. k + 1, i < l PROVE data[b[i]] <= data[b[l]]
    <3>1. i \in Int /\ l \in Int /\ j \in Int
      BY <1>3, <1>14
    <3>2. CASE l < j
      <4>1. i < j /\ i \in 1 .. k /\ l \in 1 .. k /\ b[i] = a[i] /\ b[l] = a[l] /\ i <= l
        BY <1>16, <2>9, <3>1, <3>2
      <4>2. QED
        BY <2>7, <4>1
    <3>3. CASE l = j
      <4>1. i < j /\ i \in 1 .. k /\ b[i] = a[i] /\ b[l] = x
        BY <1>16, <2>9, <3>3
      <4>2. QED
        BY <2>5, <2>6, <2>8, <4>1
    <3>4. CASE l > j /\ i < j
      <4>1. i \in 1 .. k /\ l - 1 \in 1 .. k /\ b[i] = a[i] /\ b[l] = a[l - 1] /\ i <= l - 1
        BY <1>16, <3>1, <3>4
      <4>2. QED
        BY <2>7, <4>1
    <3>5. CASE l > j /\ i = j
      <4>1. l - 1 \in 1 .. k /\ b[i] = x /\ b[l] = a[l - 1] /\ l - 1 >= j
        BY <1>16, <3>1, <3>5
      <4>2. QED
        BY <2>5, <2>6, <2>8, <4>1
    <3>6. CASE i > j
      <4>1. i - 1 \in 1 .. k /\ l - 1 \in 1 .. k /\ b[i] = a[i - 1] /\ b[l] = a[l - 1] /\ i - 1 <= l - 1
        BY <1>16, <2>9, <3>1, <3>6
      <4>2. QED
        BY <2>7, <4>1
    <3>7. QED
      BY <2>9, <3>1, <3>2, <3>3, <3>4, <3>5, <3>6
  <2>10. \A i, l \in 1 .. k + 1 : i <= l => tn[b[i]].data <= tn[b[l]].data
    <3>1. \A i \in 1 .. k + 1 : data[b[i]] = tn[b[i]].data /\ tn[b[i]].data \in Nat
      BY <1>9, <1>16
    <3>2. \A i, l \in 1 .. k + 1 : i <= l => i < l \/ i = l
      BY <1>3
    <3>3. QED
      BY <2>9, <3>1, <3>2
  <2>11. Holds(g, "active", b, k + 1)
    BY <1>14 DEF b
  <2>12. QED
    BY <1>19, <2>1, <2>2, <2>3, <2>4, <2>10, <2>11 DEF Arranged
<1>22. QED
  BY <1>4, <1>5, <1>13, <1>21 DEF x, g, e, data

\* Since the active list is in order, the timers that are over are its first ones.
LEMMA OverFirst ==
  ASSUME lists \in Links, TypeOK, NEW f, NEW n, NEW a, NEW k,
         Arranged(lists, timer, f, n, a, k), NEW tick \in Nat
  PROVE  \E r \in 0 .. k :
           /\ Over(tick) = {a[i] : i \in 1 .. r}
           /\ Cardinality(Over(tick)) = r
           /\ \A i \in 1 .. r : timer[a[i]].data <= tick
           /\ \A i \in r + 1 .. k : timer[a[i]].data > tick
<1> DEFINE data(i) == timer[a[i]].data
           T == {i \in 1 .. k + 1 : i = k + 1 \/ data(i) > tick}
           at == Places(lists, "active")
<1>1. /\ k \in Nat /\ a \in [1 .. k -> Timers]
      /\ \A i, j \in 1 .. k : a[i] = a[j] => i = j
      /\ \A i \in 1 .. k : data(i) \in Nat
      /\ \A i, j \in 1 .. k : i <= j => data(i) <= data(j)
  BY DEF Arranged, Holds, TypeOK
<1>2. k <= MAX_TIMERS /\ MAX_TIMERS \in Nat
  BY ShortList, TimersAssumption DEF Arranged
<1>3. \A j \in 1 .. MAX_TIMERS + 1 : at[j] = IF j <= k THEN a[j] ELSE Null
  BY PlacesValue DEF Arranged, Both
<1> HIDE DEF at
<1>4. PICK b \in T : \A y \in T : b <= y
  <2>1. T \in SUBSET Nat /\ k + 1 \in T
    BY <1>1
  <2> HIDE DEF T
  <2>2. QED
    BY <2>1, LeastElement
<1> DEFINE r == b - 1
<1>5. r \in 0 .. k /\ r \in Nat /\ r + 1 = b /\ b \in 1 .. k + 1
  BY <1>1, <1>4
<1>6. \A i \in 1 .. r : i \in 1 .. k /\ data(i) <= tick
  <2>1. TAKE i \in 1 .. r
  <2>2. i \in 1 .. k /\ i \in 1 .. k + 1 /\ i \notin T
    BY <1>1, <1>4, <1>5
  <2>3. data(i) \in Nat /\ ~(data(i) > tick)
    BY <1>1, <2>2
  <2>4. QED
    BY <2>2, <2>3
<1>7. \A i \in r + 1 .. k : i \in 1 .. k /\ data(i) > tick
  <2>1. TAKE i \in r + 1 .. k
  <2>2. i \in 1 .. k /\ b \in 1 .. k /\ b <= i /\ b # k + 1
    BY <1>1, <1>5
  <2>3. data(b) > tick
    BY <1>4, <2>2
  <2>4. data(b) <= data(i) /\ data(b) \in Nat /\ data(i) \in Nat
    BY <1>1, <2>2
  <2>5. QED
    BY <2>2, <2>3, <2>4
<1> HIDE DEF r, T
<1>8. Over(tick) = {a[i] : i \in 1 .. r}
  <2>1. ASSUME NEW t \in Over(tick) PROVE t \in {a[i] : i \in 1 .. r}
    <3>1. t \in Timers /\ t # Null /\ timer[t].data <= tick /\ \E i \in Timers : at[i] = t
      BY DEF Over, at, Timers, Null
    <3>2. PICK i \in Timers : at[i] = t
      BY <3>1
    <3>3. i \in 1 .. k /\ a[i] = t
      BY <1>1, <1>2, <1>3, <3>1, <3>2 DEF Timers
    <3>4. ~(data(i) > tick)
      BY <1>1, <3>1, <3>3
    <3>5. i \in 1 .. r
      BY <1>1, <1>5, <1>7, <3>3, <3>4
    <3>6. QED
      BY <3>3, <3>5
  <2>2. ASSUME NEW i \in 1 .. r PROVE a[i] \in Over(tick)
    <3>1. i \in 1 .. k /\ i \in Timers /\ a[i] \in Timers /\ timer[a[i]].data <= tick
      BY <1>1, <1>2, <1>6 DEF Timers
    <3>2. at[i] = a[i]
      BY <1>1, <1>2, <1>3, <3>1
    <3>3. \A j \in 1 .. i : timer[at[j]].data <= tick
      <4>1. TAKE j \in 1 .. i
      <4>2. j \in 1 .. r /\ j \in 1 .. MAX_TIMERS + 1 /\ j <= k
        BY <1>1, <1>2, <1>5, <3>1
      <4>3. QED
        BY <1>3, <1>6, <4>2
    <3>4. QED
      BY <3>1, <3>2, <3>3 DEF Over, at
  <2>3. QED
    BY <2>1, <2>2
<1>9. Cardinality(Over(tick)) = r
  <2> DEFINE p == [i \in 1 .. r |-> a[i]]
             S == {a[i] : i \in 1 .. r}
  <2>1. p \in Bijection(1 .. r, S)
    <3>1. p \in [1 .. r -> S] /\ \A s \in S : \E i \in 1 .. r : p[i] = s
      OBVIOUS
    <3>2. \A i, j \in 1 .. r : p[i] = p[j] => i = j
      BY <1>1, <1>6
    <3>3. QED
      BY <3>1, <3>2 DEF Bijection, Injection, Surjection, IsInjective
  <2>2. IsFiniteSet(1 .. r) /\ Cardinality(1 .. r) = r
    BY <1>5, FS_Interval
  <2> HIDE DEF p, S
  <2>3. Cardinality(S) = r
    BY <2>1, <2>2, FS_Bijection DEF ExistsBijection
  <2>4. QED
    BY <1>8, <2>3 DEF S
<1>10. QED
  BY <1>5, <1>6, <1>7, <1>8, <1>9

\* The first r active timers are released: they are nobody's, and the others stay.
LEMMA TimersReleased ==
  ASSUME NEW h \in Links, NEW tm \in [Timers -> [tid : Clients \cup {NoClient}, data : Nat]],
         NEW f, NEW n, NEW a, NEW k, Arranged(h, tm, f, n, a, k), NEW r \in 0 .. k,
         NEW tn, tn = [t \in Timers |-> IF t \in {a[i] : i \in 1 .. r}
                                        THEN [tid |-> NoClient, data |-> 0] ELSE tm[t]]
  PROVE  /\ Release(h, r) \in Links
         /\ Arranged(Release(h, r), tn, Moved(f, n, a, r), n + r, Drop(a, k, r), k - r)
<1> DEFINE g == Release(h, r)
           p == Moved(f, n, a, r)
           q == Drop(a, k, r)
           gone == {a[i] : i \in 1 .. r}
<1>1. /\ Holds(h, "free", f, n) /\ Holds(h, "active", a, k)
      /\ \A i \in 1 .. n, j \in 1 .. k : f[i] # a[j]
      /\ \A t \in Timers : (\E i \in 1 .. n : f[i] = t) \/ (\E j \in 1 .. k : a[j] = t)
      /\ \A i \in 1 .. n : tm[f[i]].tid = NoClient
      /\ \A i \in 1 .. k : tm[a[i]].tid \in Clients
      /\ \A i, j \in 1 .. k : i <= j => tm[a[i]].data <= tm[a[j]].data
  BY DEF Arranged
<1>2. /\ n \in Nat /\ f \in [1 .. n -> Timers] /\ k \in Nat /\ a \in [1 .. k -> Timers]
      /\ \A i, j \in 1 .. k : a[i] = a[j] => i = j
      /\ r \in Nat /\ r <= k
  BY <1>1 DEF Holds
<1>3. g \in Links /\ Holds(g, "free", p, n + r) /\ Holds(g, "active", q, k - r)
  BY <1>1, Released
<1>4. \A i \in 1 .. n + r :
        /\ i <= n => i \in 1 .. n /\ p[i] = f[i]
        /\ i > n => i - n \in 1 .. r /\ i - n \in 1 .. k /\ p[i] = a[i - n]
        /\ i <= n \/ i > n
  BY <1>2 DEF Moved
<1>5. \A i \in 1 .. k - r : i + r \in 1 .. k /\ q[i] = a[i + r] /\ i + r \notin 1 .. r
  BY <1>2 DEF Drop
<1> HIDE DEF g, p, q
<1>6. \A i \in 1 .. k - r : q[i] \in Timers /\ q[i] \notin gone
  <2>1. TAKE i \in 1 .. k - r
  <2>2. \A j \in 1 .. r : j \in 1 .. k /\ j # i + r
    BY <1>2, <1>5
  <2>3. QED
    BY <1>2, <1>5, <2>2
<1>7. \A i \in 1 .. n : f[i] \in Timers /\ f[i] \notin gone
  <2>1. \A j \in 1 .. r : j \in 1 .. k
    BY <1>2
  <2>2. QED
    BY <1>1, <1>2, <2>1
<1> HIDE DEF gone
<1>8. \A t \in Timers : tn[t] = IF t \in gone THEN [tid |-> NoClient, data |-> 0] ELSE tm[t]
  BY DEF gone
<1>9. \A i \in 1 .. n + r, j \in 1 .. k - r : p[i] # q[j]
  <2>1. TAKE i \in 1 .. n + r, j \in 1 .. k - r
  <2>2. CASE i <= n
    BY <1>1, <1>4, <1>5, <2>2
  <2>3. CASE i > n
    <3>1. p[i] \in gone
      BY <1>4, <2>3 DEF gone
    <3>2. QED
      BY <1>6, <3>1
  <2>4. QED
    BY <1>4, <2>2, <2>3
<1>10. ASSUME NEW t \in Timers
       PROVE  (\E i \in 1 .. n + r : p[i] = t) \/ (\E j \in 1 .. k - r : q[j] = t)
  <2>1. ASSUME NEW i \in 1 .. n, f[i] = t PROVE \E j \in 1 .. n + r : p[j] = t
    <3>1. i \in 1 .. n + r /\ i <= n
      BY <1>2
    <3>2. QED
      BY <1>4, <2>1, <3>1
  <2>2. ASSUME NEW i \in 1 .. k, a[i] = t, i <= r PROVE \E j \in 1 .. n + r : p[j] = t
    <3>1. n + i \in 1 .. n + r /\ n + i > n /\ (n + i) - n = i
      BY <1>2, <2>2
    <3>2. p[n + i] = a[(n + i) - n]
      BY <1>4, <3>1
    <3>3. QED
      BY <2>2, <3>1, <3>2
  <2>3. ASSUME NEW i \in 1 .. k, a[i] = t, i > r PROVE \E j \in 1 .. k - r : q[j] = t
    <3>1. i - r \in 1 .. k - r /\ (i - r) + r = i
      BY <1>2, <2>3
    <3>2. QED
      BY <1>5, <2>3, <3>1
  <2>4. \A i \in 1 .. k : i <= r \/ i > r
    BY <1>2
  <2>5. QED
    BY <1>1, <2>1, <2>2, <2>3, <2>4
<1>11. \A i \in 1 .. n + r : tn[p[i]].tid = NoClient
  <2>1. TAKE i \in 1 .. n + r
  <2>2. CASE i <= n
    BY <1>1, <1>4, <1>7, <1>8, <2>2
  <2>3. CASE i > n
    <3>1. p[i] \in gone /\ p[i] \in Timers
      BY <1>2, <1>4, <2>3 DEF gone
    <3>2. QED
      BY <1>8, <3>1
  <2>4. QED
    BY <1>4, <2>2, <2>3
<1>12. \A i \in 1 .. k - r : tn[q[i]] = tm[a[i + r]] /\ i + r \in 1 .. k
  BY <1>5, <1>6, <1>8
<1>13. \A i \in 1 .. k - r : tn[q[i]].tid \in Clients
  BY <1>1, <1>12
<1>14. \A i, j \in 1 .. k - r : i <= j => tn[q[i]].data <= tn[q[j]].data
  <2>1. \A i, j \in 1 .. k - r : i <= j => i + r <= j + r
    BY <1>2
  <2>2. QED
    BY <1>1, <1>12, <2>1
<1>15. Arranged(g, tn, p, n + r, q, k - r)
  BY <1>3, <1>9, <1>10, <1>11, <1>13, <1>14 DEF Arranged
<1>16. QED
  BY <1>3, <1>15 DEF g, p, q

\* What a client has asked for is one of the numbers it may ask for.
AsksOK ==
  \A cl \in Clients :
    client[cl] = "sent" /\ request[cl].type \in Waits => request[cl].data \in Delays

\* The inductive invariant.
ListInv == IInv /\ ListsOK /\ AsksOK

\* At first nobody has asked.
LEMMA InitAsks == Init => AsksOK
BY DEF Init, AsksOK

\* The wake-up keeps the lists in order.
LEMMA WakesLists ==
  ASSUME IInv, ListsOK, NotifierWakes
  PROVE  ListsOK'
<1>1. PICK f, n, a, k : Arranged(lists, timer, f, n, a, k)
  BY DEF ListsOK
<1>2. TypeOK /\ lists \in Links /\ ticks' \in Nat
  <2>1. TypeOK /\ UpdateTicks /\ UNCHANGED now /\ lists \in Links
    BY DEF IInv, NotifierWakes, ListsOK
  <2>2. QED
    BY <2>1, MessageClock
<1>3. PICK r \in 0 .. k :
        Over(ticks') = {a[i] : i \in 1 .. r} /\ Cardinality(Over(ticks')) = r
  BY <1>1, <1>2, OverFirst
<1> DEFINE over == Over(ticks')
<1>4. /\ client' = [cl \in Clients |-> IF cl \in {timer[t].tid : t \in over} THEN "running" ELSE client[cl]]
      /\ lists' = Release(lists, r)
      /\ timer' = [t \in Timers |-> IF t \in over THEN [tid |-> NoClient, data |-> 0] ELSE timer[t]]
  BY <1>3 DEF NotifierWakes
<1> HIDE DEF over
<1>5. timer \in [Timers -> [tid : Clients \cup {NoClient}, data : Nat]]
  BY <1>2 DEF TypeOK
<1>6. timer' = [t \in Timers |-> IF t \in {a[i] : i \in 1 .. r}
                                 THEN [tid |-> NoClient, data |-> 0] ELSE timer[t]]
  BY <1>3, <1>4 DEF over
<1>7. /\ lists' \in Links
      /\ Arranged(lists', timer', Moved(f, n, a, r), n + r, Drop(a, k, r), k - r)
  BY <1>1, <1>2, <1>4, <1>5, <1>6, TimersReleased
<1>8. ASSUME NEW cl \in Clients, client'[cl] = "waiting" PROVE \E t \in Timers : timer'[t].tid = cl
  <2>1. client[cl] = "waiting" /\ cl \notin {timer[t].tid : t \in over}
    BY <1>4, <1>8
  <2>2. PICK t \in Timers : timer[t].tid = cl
    BY <2>1 DEF ListsOK
  <2>3. t \notin over
    BY <2>1, <2>2
  <2>4. timer'[t] = timer[t]
    BY <1>4, <2>3
  <2>5. QED
    BY <2>2, <2>4
<1>9. \E g, m, b, l : Arranged(lists', timer', g, m, b, l)
  BY <1>7
<1>10. QED
  BY <1>7, <1>8, <1>9 DEF ListsOK

\* A delay finds a free timer and keeps the lists in order.
LEMMA DelayLists ==
  ASSUME IInv, ListsOK, NEW cl \in Clients, DelayMessage(cl)
  PROVE  /\ ListsOK' /\ client[cl] = "sent"
         /\ \E t \in Timers : /\ timer[t].tid = NoClient
                              /\ timer' = [timer EXCEPT ![t] = [tid |-> cl, data |-> Deadline(cl)]]
<1>1. PICK f, n, a, k : Arranged(lists, timer, f, n, a, k)
  BY DEF ListsOK
<1> DEFINE x == lists.free.front
<1>2. /\ TypeOK /\ RequestsOK /\ InboxOK /\ Deadlines /\ lists \in Links
      /\ Received(cl) /\ UpdateTicks /\ UNCHANGED now
      /\ client' = [client EXCEPT ![cl] = "waiting"]
      /\ timer'  = [timer EXCEPT ![x] = [tid |-> cl, data |-> Deadline(cl)]]
      /\ lists'  = Add(list_pop_front(lists, "free"), x, [u \in Timers |-> timer'[u].data])
  BY DEF IInv, ListsOK, DelayMessage
<1>3. client[cl] = "sent"
  BY <1>2, Taken, NotifierNoClient
<1>4. Deadline(cl) \in Nat
  <2>1. ticks' \in Nat /\ request[cl].data \in Nat
    BY <1>2, MessageClock DEF RequestsOK
  <2>2. QED
    BY <2>1 DEF Deadline
<1>5. n # 0
  BY <1>1, <1>2, <1>3, TimerLeft
<1>6. timer \in [Timers -> [tid : Clients \cup {NoClient}, data : Nat]]
  BY <1>2 DEF TypeOK
<1> DEFINE deadline == Deadline(cl)
<1> HIDE DEF deadline
<1>7. /\ x \in Timers /\ x = f[1] /\ lists' \in Links
      /\ \E q, b : Arranged(lists', timer', q, n - 1, b, k + 1)
  <2> DEFINE tn == timer'
             v == [tid |-> cl, data |-> deadline]
  <2>1. lists' = Add(list_pop_front(lists, "free"), lists.free.front, DataOf(tn))
    BY <1>2 DEF DataOf
  <2>2. /\ \A u \in Timers : tn[u] = IF u = lists.free.front THEN v ELSE timer[u]
        /\ tn \in [Timers -> [tid : Clients \cup {NoClient}, data : Nat]]
        /\ v.tid \in Clients
    BY <1>2, <1>4, <1>6 DEF deadline
  <2>3. lists \in Links
    BY <1>2
  <2> HIDE DEF tn, v, x
  <2>4. /\ lists.free.front \in Timers /\ lists.free.front = f[1]
        /\ Add(list_pop_front(lists, "free"), lists.free.front, DataOf(tn)) \in Links
        /\ \E q, b : Arranged(Add(list_pop_front(lists, "free"), lists.free.front, DataOf(tn)),
                              tn, q, n - 1, b, k + 1)
    BY <1>1, <1>5, <1>6, <2>2, <2>3, TimerAdded
  <2>5. QED
    BY <2>1, <2>4 DEF tn, x
<1>8. timer[x].tid = NoClient
  <2>1. 1 \in 1 .. n
    BY <1>1, <1>5 DEF Arranged, Holds
  <2>2. QED
    BY <1>1, <1>7, <2>1 DEF Arranged
<1> HIDE DEF x
<1>9. ASSUME NEW c \in Clients, client'[c] = "waiting" PROVE \E t \in Timers : timer'[t].tid = c
  <2>1. CASE c = cl
    <3>1. timer'[x].tid = cl
      BY <1>2, <1>6, <1>7
    <3>2. QED
      BY <1>7, <2>1, <3>1
  <2>2. CASE c # cl
    <3>1. client[c] = "waiting"
      BY <1>2, <1>9, <2>2 DEF TypeOK
    <3>2. PICK t \in Timers : timer[t].tid = c
      BY <3>1 DEF ListsOK
    <3>3. t # x
      BY <1>8, <3>2, NotifierNoClient
    <3>4. timer'[t] = timer[t]
      BY <1>2, <1>6, <3>3
    <3>5. QED
      BY <3>2, <3>4
  <2>3. QED
    BY <2>1, <2>2
<1>10. ListsOK'
  BY <1>7, <1>9 DEF ListsOK
<1>11. QED
  BY <1>2, <1>3, <1>7, <1>8, <1>10

\* So does every step.
LEMMA NextListInv ==
  ASSUME ListInv, [Next]_vars
  PROVE  ListInv'
<1>1. IInv /\ IInv' /\ ListsOK /\ AsksOK /\ TypeOK /\ RequestsOK /\ InboxOK
  BY NextIInv DEF ListInv, IInv
<1>2. ListsOK' /\ AsksOK'
  <2>1. CASE Count \/ Notify \/ NotifierBlocks \/ UNCHANGED vars
    <3>1. UNCHANGED <<lists, timer, client, request>>
      BY <2>1 DEF Count, Notify, NotifierBlocks, vars
    <3>2. AsksOK'
      BY <1>1, <3>1 DEF AsksOK
    <3>3. QED
      BY <1>1, <3>1, <3>2, SameLists
  <2>2. ASSUME NEW cl \in Clients, NEW type, NEW n, Call(cl, type, n), type \in Waits => n \in Delays
        PROVE  ListsOK' /\ AsksOK'
    <3>1. /\ client' = [client EXCEPT ![cl] = "sent"] /\ UNCHANGED <<lists, timer>>
          /\ request' = [request EXCEPT ![cl] = [type |-> type, data |-> n, called |-> now]]
      BY <2>2 DEF Call
    <3>2. \A c \in Clients : /\ client'[c] = IF c = cl THEN "sent" ELSE client[c]
                             /\ request'[c] = IF c = cl THEN [type |-> type, data |-> n, called |-> now]
                                                        ELSE request[c]
      BY <1>1, <3>1 DEF TypeOK, RequestsOK
    <3>3. AsksOK'
      BY <1>1, <2>2, <3>2 DEF AsksOK
    <3>4. QED
      BY <1>1, <3>1, <3>2, <3>3, SameLists
  <2>3. CASE NotifierWakes
    <3>1. \A cl \in Clients : client'[cl] = "sent" => client[cl] = "sent" /\ request'[cl] = request[cl]
      BY <2>3 DEF NotifierWakes
    <3>2. AsksOK'
      BY <1>1, <3>1 DEF AsksOK
    <3>3. QED
      BY <1>1, <2>3, <3>2, WakesLists
  <2>4. ASSUME NEW cl \in Clients, TimeMessage(cl) PROVE ListsOK' /\ AsksOK'
    <3>1. /\ client' = [client EXCEPT ![cl] = "running"] /\ UNCHANGED <<lists, timer>>
          /\ request' = [request EXCEPT ![cl] = NoRequest]
      BY <2>4 DEF TimeMessage
    <3>2. \A c \in Clients : /\ client'[c] = IF c = cl THEN "running" ELSE client[c]
                             /\ c # cl => request'[c] = request[c]
      BY <1>1, <3>1 DEF TypeOK, RequestsOK
    <3>3. AsksOK'
      BY <1>1, <3>2 DEF AsksOK
    <3>4. QED
      BY <1>1, <3>1, <3>2, <3>3, SameLists
  <2>5. ASSUME NEW cl \in Clients, DelayMessage(cl) PROVE ListsOK' /\ AsksOK'
    <3>1. client' = [client EXCEPT ![cl] = "waiting"] /\ UNCHANGED request
      BY <2>5 DEF DelayMessage
    <3>2. \A c \in Clients : client'[c] = "sent" => client[c] = "sent"
      BY <1>1, <3>1 DEF TypeOK
    <3>3. AsksOK'
      BY <1>1, <3>1, <3>2 DEF AsksOK
    <3>4. QED
      BY <1>1, <2>5, <3>3, DelayLists
  <2>6. CLOCK_TIME \notin Waits
    BY DEF Waits, CLOCK_TIME, CLOCK_DELAY, CLOCK_DELAY_UNTIL
  <2>7. QED
    BY <2>1, <2>2, <2>3, <2>4, <2>5, <2>6 DEF Next, Server
<1>3. QED
  BY <1>1, <1>2 DEF ListInv

\* The nodes of the two lists, and whose they are.
LEMMA ActiveNodes ==
  ASSUME NEW h \in Links, NEW tm, NEW f, NEW n, NEW a, NEW k, Arranged(h, tm, f, n, a, k)
  PROVE  /\ NodesOf(h, "active") = {a[i] : i \in 1 .. k}
         /\ NodesOf(h, "free") = {f[i] : i \in 1 .. n}
         /\ \A t \in NodesOf(h, "active") : t \in Timers /\ tm[t].tid \in Clients
         /\ \A t \in NodesOf(h, "free") : t \in Timers /\ tm[t].tid = NoClient
         /\ NodesOf(h, "active") \cup NodesOf(h, "free") = Timers
<1>1. Holds(h, "active", a, k) /\ Holds(h, "free", f, n)
  BY DEF Arranged
<1>2. NodesOf(h, "active") = {a[i] : i \in 1 .. k} /\ NodesOf(h, "free") = {f[i] : i \in 1 .. n}
  BY <1>1, NodesValue DEF Both
<1>3. \A i \in 1 .. k : a[i] \in Timers /\ tm[a[i]].tid \in Clients
  BY <1>1 DEF Holds, Arranged
<1>4. \A i \in 1 .. n : f[i] \in Timers /\ tm[f[i]].tid = NoClient
  BY <1>1 DEF Holds, Arranged
<1>5. \A t \in Timers : (\E i \in 1 .. n : f[i] = t) \/ (\E j \in 1 .. k : a[j] = t)
  BY DEF Arranged
<1>6. QED
  BY <1>2, <1>3, <1>4, <1>5

\* With the lists so arranged every timer is accounted for.
LEMMA Accounted == ListInv => TimersAccounted
<1>1. SUFFICES ASSUME ListInv PROVE TimersAccounted
  OBVIOUS
<1>2. TypeOK /\ Deadlines /\ ListsOK /\ lists \in Links
  BY <1>1 DEF ListInv, IInv, ListsOK
<1>3. PICK f, n, a, k : Arranged(lists, timer, f, n, a, k)
  BY <1>2 DEF ListsOK
<1>4. /\ \A t \in ActiveTimers : t \in Timers /\ timer[t].tid \in Clients
      /\ \A t \in FreeTimers : t \in Timers /\ timer[t].tid = NoClient
      /\ ActiveTimers \cup FreeTimers = Timers
  BY <1>2, <1>3, ActiveNodes DEF ActiveTimers, FreeTimers
<1>5. ActiveTimers \cap FreeTimers = {}
  BY <1>4, NotifierNoClient
<1>6. ASSUME NEW cl \in Clients
      PROVE  LET mine == {t \in ActiveTimers : timer[t].tid = cl}
             IN  IF client[cl] = "waiting" THEN \E t \in mine : mine = {t} ELSE mine = {}
  <2> DEFINE mine == {t \in ActiveTimers : timer[t].tid = cl}
  <2>1. CASE client[cl] = "waiting"
    <3>1. PICK t \in Timers : timer[t].tid = cl
      BY <1>2, <2>1 DEF ListsOK
    <3>2. t \in ActiveTimers
      BY <1>4, <3>1, NotifierNoClient
    <3>3. \A u \in mine : u = t
      BY <1>2, <1>4, <3>1 DEF Deadlines
    <3>4. mine = {t} /\ t \in mine
      BY <3>1, <3>2, <3>3
    <3>5. QED
      BY <2>1, <3>4
  <2>2. CASE client[cl] # "waiting"
    <3>1. mine = {}
      BY <1>2, <1>4, <2>2 DEF Deadlines
    <3>2. QED
      BY <2>2, <3>1
  <2>3. QED
    BY <2>1, <2>2
<1>7. QED
  BY <1>2, <1>4, <1>5, <1>6 DEF TimersAccounted

-----------------------------------------------------------------------------
(* The alarm clock.                                                        *)

\* A client's alarms, by the active list and by all timers.
AlarmsIn(h, tm, cl) == {tm[t].data : t \in {u \in NodesOf(h, "active") : tm[u].tid = cl}}
DeadlinesOf(tm, cl) == {tm[t].data : t \in {u \in Timers : tm[u].tid = cl}}

\* A client's alarms are the deadlines of its timers.
LEMMA AlarmsValue ==
  ASSUME NEW h \in Links, NEW tm, NEW f, NEW n, NEW a, NEW k, Arranged(h, tm, f, n, a, k),
         NEW cl \in Clients
  PROVE  AlarmsIn(h, tm, cl) = DeadlinesOf(tm, cl)
<1>1. /\ \A t \in NodesOf(h, "active") : t \in Timers
      /\ \A t \in NodesOf(h, "free") : tm[t].tid = NoClient
      /\ NodesOf(h, "active") \cup NodesOf(h, "free") = Timers
  BY ActiveNodes
<1>2. {u \in NodesOf(h, "active") : tm[u].tid = cl} = {u \in Timers : tm[u].tid = cl}
  BY <1>1, NotifierNoClient
<1>3. QED
  BY <1>2 DEF AlarmsIn, DeadlinesOf

\* ... before a step,
LEMMA AlarmsNow ==
  ASSUME ListsOK, NEW cl \in Clients
  PROVE  Alarms(cl) = DeadlinesOf(timer, cl)
<1>1. PICK f, n, a, k : Arranged(lists, timer, f, n, a, k)
  BY DEF ListsOK
<1>2. lists \in Links
  BY DEF ListsOK
<1>3. AlarmsIn(lists, timer, cl) = DeadlinesOf(timer, cl)
  BY <1>1, <1>2, AlarmsValue
<1>4. QED
  BY <1>3 DEF Alarms, ActiveTimers, AlarmsIn

\* ... and after it.
LEMMA AlarmsThen ==
  ASSUME ListsOK', NEW cl \in Clients
  PROVE  Alarms(cl)' = DeadlinesOf(timer', cl)
<1>1. PICK f, n, a, k : Arranged(lists', timer', f, n, a, k)
  BY DEF ListsOK
<1>2. lists' \in Links
  BY DEF ListsOK
<1>3. AlarmsIn(lists', timer', cl) = DeadlinesOf(timer', cl)
  BY <1>1, <1>2, AlarmsValue
<1>4. QED
  BY <1>3 DEF Alarms, ActiveTimers, AlarmsIn

\* The abstract clock's alarms.
AlarmState == [cl \in Clients |-> Alarms(cl)]

\* The wake-up is the ringing of the abstract clock.
LEMMA WakesRings ==
  ASSUME ListInv, ListInv', NotifierWakes
  PROVE  Promise!Ring
<1>1. PICK f, n, a, k : Arranged(lists, timer, f, n, a, k)
  BY DEF ListsOK, ListInv
<1>2. /\ TypeOK /\ Deadlines /\ ListsOK /\ ListsOK' /\ lists \in Links
      /\ UpdateTicks /\ UNCHANGED now /\ Received(Notifier) /\ InboxOK /\ notifier' = "awaiting"
  BY DEF IInv, NotifierWakes, ListsOK, ListInv
<1>3. ticks' \in Nat /\ ticks' >= ticks
  BY <1>2, MessageClock DEF ListInv
<1>4. notifier = "sent"
  BY <1>2, Taken
<1>5. PICK r \in 0 .. k :
        /\ Over(ticks') = {a[i] : i \in 1 .. r}
        /\ \A i \in 1 .. r : timer[a[i]].data <= ticks'
        /\ \A i \in r + 1 .. k : timer[a[i]].data > ticks'
  BY <1>1, <1>2, <1>3, OverFirst
<1> DEFINE over == Over(ticks')
<1>6. timer' = [t \in Timers |-> IF t \in over THEN [tid |-> NoClient, data |-> 0] ELSE timer[t]]
  BY DEF NotifierWakes
<1> HIDE DEF over
<1>7. /\ k \in Nat /\ a \in [1 .. k -> Timers] /\ n \in Nat /\ f \in [1 .. n -> Timers]
      /\ \A i \in 1 .. n : timer[f[i]].tid = NoClient
      /\ \A t \in Timers : (\E i \in 1 .. n : f[i] = t) \/ (\E j \in 1 .. k : a[j] = t)
  BY <1>1 DEF Arranged, Holds
<1>8. \A t \in Timers : timer[t].tid \in Clients =>
        IF t \in over THEN ~(timer[t].data > ticks') ELSE timer[t].data > ticks'
  <2>1. TAKE t \in Timers
  <2>2. HAVE timer[t].tid \in Clients
  <2>3. PICK j \in 1 .. k : a[j] = t
    BY <1>7, <2>2, NotifierNoClient
  <2>4. timer[t].data \in Nat
    BY <1>2 DEF TypeOK
  <2>5. CASE t \in over
    BY <1>3, <1>5, <2>4, <2>5 DEF over
  <2>6. CASE t \notin over
    <3>1. j \notin 1 .. r
      BY <1>5, <2>3, <2>6 DEF over
    <3>2. j \in r + 1 .. k
      BY <1>7, <3>1
    <3>3. QED
      BY <1>5, <2>3, <2>6, <3>2
  <2>7. QED
    BY <2>5, <2>6
<1>9. \A t \in Timers : timer'[t] = IF t \in over THEN [tid |-> NoClient, data |-> 0] ELSE timer[t]
  BY <1>6
<1>10. \A cl \in Clients :
         DeadlinesOf(timer', cl) = {tick \in DeadlinesOf(timer, cl) : tick > ticks'}
  <2>1. TAKE cl \in Clients
  <2>2. \A t \in Timers : timer'[t].tid = cl <=> timer[t].tid = cl /\ timer[t].data > ticks'
    BY <1>8, <1>9, NotifierNoClient
  <2>3. \A t \in Timers : timer'[t].tid = cl => timer'[t].data = timer[t].data
    BY <1>9, NotifierNoClient
  <2>4. QED
    BY <2>2, <2>3 DEF DeadlinesOf
<1>11. \A cl \in Clients : Alarms(cl)' = {tick \in Alarms(cl) : tick > ticks'}
  BY <1>2, <1>10, AlarmsNow, AlarmsThen
<1>12. AlarmState' = [cl \in Clients |-> {tick \in AlarmState[cl] : tick > ticks'}]
  BY <1>11 DEF AlarmState
<1>13. QED
  BY <1>2, <1>3, <1>4, <1>12 DEF Promise!Ring, Promise!TimeGoesOn, AlarmState

\* At first no alarm is set.
LEMMA InitClock == Init => Promise!Init
<1>1. SUFFICES ASSUME Init PROVE Promise!Init
  OBVIOUS
<1>2. ListsOK /\ ticks = 0 /\ notifier = "awaiting"
      /\ timer = [t \in Timers |-> [tid |-> NoClient, data |-> 0]]
  BY <1>1, InitLists DEF Init
<1>3. \A cl \in Clients : Alarms(cl) = {}
  <2>1. \A cl \in Clients : DeadlinesOf(timer, cl) = {}
    BY <1>2, NotifierNoClient DEF DeadlinesOf
  <2>2. QED
    BY <1>2, <2>1, AlarmsNow
<1>4. QED
  BY <1>2, <1>3 DEF Promise!Init

\* A step that leaves the timers alone leaves the alarms alone.
LEMMA AlarmsStay ==
  ASSUME ListsOK, ListsOK', UNCHANGED timer
  PROVE  UNCHANGED AlarmState
<1>1. \A cl \in Clients : Alarms(cl)' = Alarms(cl)
  BY AlarmsNow, AlarmsThen
<1>2. QED
  BY <1>1 DEF AlarmState

\* When the notifier's message finds nobody waiting, no alarm is set.
LEMMA BlocksRings ==
  ASSUME ListInv, ListInv', NotifierBlocks
  PROVE  Promise!Ring
<1>1. PICK f, n, a, k : Arranged(lists, timer, f, n, a, k)
  BY DEF ListsOK, ListInv
<1>2. /\ TypeOK /\ ListsOK /\ ListsOK' /\ lists \in Links /\ Clock
      /\ UpdateTicks /\ UNCHANGED now /\ Received(Notifier) /\ InboxOK /\ notifier' = "held"
      /\ lists.active.front = Null /\ UNCHANGED timer
  BY DEF IInv, NotifierBlocks, ListsOK, ListInv
<1>3. ticks' \in Nat /\ ticks' >= ticks /\ notifier = "sent"
  BY <1>2, MessageClock, Taken DEF ListInv
<1>4. k = 0
  <2>1. Holds(lists, "active", a, k) /\ lists["active"].front = Null
    BY <1>1, <1>2 DEF Arranged, Links
  <2>2. k # 0 => 1 \in 1 .. k
    BY <2>1 DEF Holds
  <2>3. QED
    BY <2>1, <2>2 DEF Holds, Timers, Null
<1>5. \A t \in Timers : timer[t].tid = NoClient
  BY <1>1, <1>4 DEF Arranged
<1>6. \A cl \in Clients : Alarms(cl) = {}
  <2>1. \A cl \in Clients : DeadlinesOf(timer, cl) = {}
    BY <1>5, NotifierNoClient DEF DeadlinesOf
  <2>2. QED
    BY <1>2, <2>1, AlarmsNow
<1>7. UNCHANGED AlarmState
  BY <1>2, AlarmsStay
<1>8. AlarmState' = [cl \in Clients |-> {tick \in AlarmState[cl] : tick > ticks'}]
  BY <1>6, <1>7 DEF AlarmState
<1>9. QED
  BY <1>2, <1>3, <1>8 DEF Promise!Ring, Promise!TimeGoesOn, AlarmState

\* A delay sets the alarm of a client that had none.
LEMMA DelaySets ==
  ASSUME ListInv, ListInv', NEW cl \in Clients, DelayMessage(cl)
  PROVE  Promise!Delay(cl, request[cl].data) \/ Promise!DelayUntil(cl, request[cl].data)
<1>1. /\ IInv /\ ListsOK /\ ListsOK' /\ TypeOK /\ Deadlines
      /\ UpdateTicks /\ UNCHANGED now /\ Received(cl) /\ InboxOK /\ ReleaseNotifier(cl)
      /\ NotifierProtocol
  BY DEF IInv, DelayMessage, ListInv
<1>2. ticks' \in Nat /\ ticks' >= ticks
  BY <1>1, MessageClock
<1>3. client[cl] = "sent" /\ \E t \in Timers :
        /\ timer[t].tid = NoClient
        /\ timer' = [timer EXCEPT ![t] = [tid |-> cl, data |-> Deadline(cl)]]
  BY <1>1, DelayLists
<1>4. PICK t \in Timers :
        /\ timer[t].tid = NoClient
        /\ timer' = [timer EXCEPT ![t] = [tid |-> cl, data |-> Deadline(cl)]]
  BY <1>3
<1>5. \A u \in Timers :
        timer'[u] = IF u = t THEN [tid |-> cl, data |-> Deadline(cl)] ELSE timer[u]
  BY <1>1, <1>4 DEF TypeOK
<1>6. \A u \in Timers : timer[u].tid # cl
  BY <1>1, <1>3 DEF Deadlines
<1>7. \A c \in Clients : DeadlinesOf(timer', c)
                           = IF c = cl THEN {Deadline(cl)} ELSE DeadlinesOf(timer, c)
  <2>1. DeadlinesOf(timer', cl) = {Deadline(cl)}
    <3>1. \A u \in Timers : timer'[u].tid = cl <=> u = t
      BY <1>5, <1>6
    <3>2. timer'[t].data = Deadline(cl)
      BY <1>5
    <3>3. QED
      BY <3>1, <3>2 DEF DeadlinesOf
  <2>2. ASSUME NEW c \in Clients, c # cl PROVE DeadlinesOf(timer', c) = DeadlinesOf(timer, c)
    <3>1. \A u \in Timers : timer'[u].tid = c <=> timer[u].tid = c
      BY <1>4, <1>5, <2>2, NotifierNoClient
    <3>2. \A u \in Timers : timer[u].tid = c => timer'[u].data = timer[u].data
      BY <1>4, <1>5, <2>2, NotifierNoClient
    <3>3. QED
      BY <3>1, <3>2 DEF DeadlinesOf
  <2>3. QED
    BY <2>1, <2>2
<1>8. Alarms(cl) = {}
  <2>1. DeadlinesOf(timer, cl) = {}
    BY <1>6 DEF DeadlinesOf
  <2>2. QED
    BY <1>1, <2>1, AlarmsNow
<1>9. \A c \in Clients : Alarms(c)' = IF c = cl THEN {Deadline(cl)} ELSE Alarms(c)
  BY <1>1, <1>7, AlarmsNow, AlarmsThen
<1>10. AlarmState' = [AlarmState EXCEPT ![cl] = {Deadline(cl)}] /\ AlarmState[cl] = {}
  BY <1>8, <1>9 DEF AlarmState
<1>11. (notifier' = "sent") <=> (notifier = "sent")
  BY <1>1 DEF ReleaseNotifier, NotifierProtocol
<1>12. (notifier' = "sent") = (notifier = "sent")
  BY <1>11
<1>13. CASE request[cl].type = CLOCK_DELAY
  <2>1. Deadline(cl) = ticks' + request[cl].data
    BY <1>13 DEF Deadline
  <2>2. QED
    BY <1>2, <1>10, <1>12, <2>1 DEF Promise!Delay, Promise!Set, Promise!TimeGoesOn, AlarmState
<1>14. CASE request[cl].type # CLOCK_DELAY
  <2>1. Deadline(cl) = request[cl].data
    BY <1>14 DEF Deadline
  <2>2. QED
    BY <1>2, <1>10, <1>12, <2>1 DEF Promise!DelayUntil, Promise!Set, Promise!TimeGoesOn, AlarmState
<1>15. QED
  BY <1>13, <1>14

\* Every step of the server and of its callers is one of the abstract clock, or none.
LEMMA StepClock ==
  ASSUME ListInv, ListInv', [Next]_vars
  PROVE  [Promise!Next]_(Promise!vars)
<1>1. IInv /\ TypeOK /\ ListsOK /\ ListsOK' /\ RequestsOK /\ InboxOK /\ AsksOK /\ Clock
  BY DEF ListInv, IInv
<1>2. CASE UNCHANGED vars
  <2>1. UNCHANGED AlarmState
    BY <1>1, <1>2, AlarmsStay DEF vars
  <2>2. QED
    BY <1>2, <2>1 DEF vars, Promise!vars, AlarmState
<1>3. CASE Count \/ \E cl \in Clients, type \in Types, n \in Nat : Call(cl, type, n)
  <2>1. UNCHANGED <<ticks, timer, notifier>>
    BY <1>3 DEF Count, Call
  <2>2. UNCHANGED AlarmState
    BY <1>1, <2>1, AlarmsStay
  <2>3. QED
    BY <2>1, <2>2 DEF Promise!vars, AlarmState
<1>4. CASE Notify
  <2>1. UNCHANGED <<ticks, timer>> /\ notifier' = "sent"
    BY <1>4 DEF Notify
  <2>2. UNCHANGED AlarmState
    BY <1>1, <2>1, AlarmsStay
  <2>3. Promise!Interrupt
    BY <2>1, <2>2 DEF Promise!Interrupt, AlarmState
  <2>4. QED
    BY <2>3 DEF Promise!Next
<1>5. CASE NotifierBlocks \/ NotifierWakes
  BY <1>5, BlocksRings, WakesRings DEF Promise!Next
<1>6. ASSUME NEW cl \in Clients, TimeMessage(cl) PROVE [Promise!Next]_(Promise!vars)
  <2>1. UpdateTicks /\ UNCHANGED <<now, timer, notifier>>
    BY <1>6 DEF TimeMessage
  <2>2. ticks' \in Nat /\ ticks' >= ticks
    BY <1>1, <2>1, MessageClock
  <2>3. UNCHANGED AlarmState
    BY <1>1, <2>1, AlarmsStay
  <2>4. Promise!Advance
    BY <2>1, <2>2, <2>3 DEF Promise!Advance, Promise!TimeGoesOn, AlarmState
  <2>5. QED
    BY <2>4 DEF Promise!Next
<1>7. ASSUME NEW cl \in Clients, DelayMessage(cl) PROVE [Promise!Next]_(Promise!vars)
  <2>1. Promise!Delay(cl, request[cl].data) \/ Promise!DelayUntil(cl, request[cl].data)
    BY <1>7, DelaySets
  <2>2. request[cl].data \in Delays
    <3>1. client[cl] = "sent" /\ request[cl].type \in Waits
      BY <1>1, <1>7, DelayLists DEF DelayMessage, Waits
    <3>2. QED
      BY <1>1, <3>1 DEF AsksOK
  <2>3. QED
    BY <2>1, <2>2 DEF Promise!Next
<1>8. {CLOCK_DELAY, CLOCK_DELAY_UNTIL, CLOCK_TIME} \subseteq Types /\ Delays \subseteq Nat /\ 0 \in Nat
  BY CountsAssumption DEF Types, Waits
<1>9. QED
  BY <1>2, <1>3, <1>4, <1>5, <1>6, <1>7, <1>8 DEF Next, Server

\* The lists stay in order, and each client asks for what it may.
THEOREM InductiveLists == Spec => []ListInv
<1>1. Init => ListInv
  BY InitIInv, InitLists, InitAsks DEF ListInv
<1>2. ListInv /\ [Next]_vars => ListInv'
  BY NextListInv
<1>3. QED
  BY <1>1, <1>2, PTL DEF Spec

\* Every timer is free or active, never both, and who waits in Delay has exactly one:
\* no timer is lost, however long the server runs and in whatever order delays end.
THEOREM NoTimerLost == Spec => []TimersAccounted
<1>1. ListInv => TimersAccounted
  BY Accounted
<1>2. QED
  BY <1>1, InductiveLists, PTL

\* The clock server is an alarm clock: it starts as one, and each step of its queue,
\* register and lists is a step of AlarmClock, or none that it can tell.
THEOREM ImplementsAlarmClock == Spec => AlarmClockSpec
<1>1. Init => Promise!Init
  BY InitClock
<1>2. ListInv /\ ListInv' /\ [Next]_vars => [Promise!Next]_(Promise!vars)
  BY StepClock
<1>3. QED
  BY <1>1, <1>2, InductiveLists, PTL DEF Spec, AlarmClockSpec, Promise!Spec
=============================================================================
