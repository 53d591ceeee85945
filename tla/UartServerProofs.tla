-------------------------- MODULE UartServerProofs --------------------------
(* Proofs about UartServer, for every set of clients, every size of the     *)
(* buffers and every number of nodes: the types, that no notifier is        *)
(* forgotten, and that no client is lost between the wait lists.            *)
EXTENDS UartServer, TLAPS, WellFoundedInduction, FiniteSetTheorems, FunctionTheorems

-----------------------------------------------------------------------------
(* Two lists that share their links (list.c).                              *)

\* Induction, by sets of numbers: a set of them has a least one.
LEMMA LeastElement ==
  ASSUME NEW T \in SUBSET Nat, T # {}
  PROVE  \E x \in T : \A y \in T : x <= y
<1>1. PICK x \in T : \A y \in T : ~(<<y, x>> \in OpToRel(<, Nat))
  BY WFMin, NatLessThanWellFounded
<1>2. \A y \in T : y < x => <<y, x>> \in OpToRel(<, Nat)
  BY DEF OpToRel
<1>3. x \in Nat /\ \A y \in T : y \in Nat /\ ~(y < x)
  BY <1>1, <1>2
<1>4. \A y \in T : x <= y
  BY <1>3
<1>5. QED
  BY <1>4

\* ... and what holds of 0, and of the next number with each, holds of all.
LEMMA Induction ==
  ASSUME NEW T \in SUBSET Nat, 0 \in T, NEW n \in Nat, \A k \in 0 .. n - 1 : k \in T => k + 1 \in T
  PROVE  \A k \in 0 .. n : k \in T
<1> DEFINE B == {k \in 0 .. n : k \notin T}
<1>1. SUFFICES ASSUME B # {} PROVE FALSE
  OBVIOUS
<1>2. B \in SUBSET Nat
  OBVIOUS
<1>3. PICK b \in B : \A y \in B : b <= y
  <2> HIDE DEF B
  <2>1. QED BY <1>1, <1>2, LeastElement
<1>4. b # 0 /\ b \in 0 .. n /\ b \notin T
  OBVIOUS
<1>5. b - 1 \in 0 .. n - 1 /\ b - 1 \notin B
  BY <1>3, <1>4
<1>6. b - 1 \in T
  BY <1>5
<1>7. QED
  BY <1>4, <1>5, <1>6

\* Where a link can lead, and what the links and ends of two lists are.
NodeOrNull == Nodes \cup {Null}
Ends  == [front : NodeOrNull, back : NodeOrNull]
Links == [next : [Nodes -> NodeOrNull], free : Ends, wait : Ends]
Both == {"free", "wait"}

\* Links and ends after a step.
Put(h, l, next, ends) == [h EXCEPT !.next = next, ![l] = ends]

\* The parts of the links are links.
LEMMA LinksTyped ==
  ASSUME NEW h \in Links, NEW l \in Both
  PROVE  h.next \in [Nodes -> NodeOrNull] /\ h[l] \in Ends /\ h[l].front \in NodeOrNull /\ h[l].back \in NodeOrNull
<1>1. h["free"] \in Ends /\ h["wait"] \in Ends /\ h.next \in [Nodes -> NodeOrNull]
  BY DEF Links
<1>2. h[l] \in Ends
  BY <1>1 DEF Both
<1>3. QED
  BY <1>1, <1>2 DEF Ends

\* What a new list and new links leave of the other list.
LEMMA Fields ==
  ASSUME NEW h \in Links, NEW l \in Both, NEW m \in Both, m # l, NEW e \in Ends,
         NEW next \in [Nodes -> NodeOrNull]
  PROVE  LET g == Put(h, l, next, e)
         IN  g \in Links /\ g.next = next /\ g[l] = e /\ g[m] = h[m]
<1> DEFINE g == Put(h, l, next, e)
<1>1. ASSUME l = "free" PROVE g \in Links /\ g.next = next /\ g[l] = e /\ g["wait"] = h["wait"]
  BY <1>1 DEF Links, Put
<1>2. ASSUME l = "wait" PROVE g \in Links /\ g.next = next /\ g[l] = e /\ g["free"] = h["free"]
  BY <1>2 DEF Links, Put
<1>3. (l = "free" /\ m = "wait") \/ (l = "wait" /\ m = "free")
  BY DEF Both
<1>4. QED
  BY <1>1, <1>2, <1>3

\* Ends, and lists, with another front.
SetFront(e, x) == [e EXCEPT !.front = x]
SetBack(e, x)  == [e EXCEPT !.back = x]

PutFront(h, l, next, x) == [h EXCEPT !.next = next, ![l].front = x]
PutBack(h, l, next, x)  == [h EXCEPT !.next = next, ![l].back = x]

\* An assignment to one end of a list is one to the list.
LEMMA PutEnds ==
  ASSUME NEW h \in Links, NEW l \in Both, NEW next, NEW x
  PROVE  /\ PutFront(h, l, next, x) = Put(h, l, next, SetFront(h[l], x))
         /\ PutBack(h, l, next, x) = Put(h, l, next, SetBack(h[l], x))
<1>1. ASSUME l = "free"
      PROVE  /\ PutFront(h, l, next, x) = Put(h, l, next, SetFront(h[l], x))
             /\ PutBack(h, l, next, x) = Put(h, l, next, SetBack(h[l], x))
  BY <1>1 DEF Links, Put, PutFront, PutBack, SetFront, SetBack
<1>2. ASSUME l = "wait"
      PROVE  /\ PutFront(h, l, next, x) = Put(h, l, next, SetFront(h[l], x))
             /\ PutBack(h, l, next, x) = Put(h, l, next, SetBack(h[l], x))
  BY <1>2 DEF Links, Put, PutFront, PutBack, SetFront, SetBack
<1>3. QED
  BY <1>1, <1>2 DEF Both

\* The parts that list_pop_front changes.
LEMMA PopFields ==
  ASSUME NEW h \in Links, NEW l \in Both, NEW m \in Both, m # l, h[l].front # Null
  PROVE  LET g == list_pop_front(h, l)
             n == h[l].front
         IN  /\ g \in Links
             /\ n \in Nodes
             /\ g.next = [h.next EXCEPT ![n] = Null]
             /\ g[l].front = h.next[n]
             /\ g[l].back = IF h.next[n] = Null THEN Null ELSE h[l].back
             /\ g[m] = h[m]
<1> DEFINE n == h[l].front
           e == [front |-> h.next[n], back |-> IF h.next[n] = Null THEN Null ELSE h[l].back]
           next == [h.next EXCEPT ![n] = Null]
<1>1. n \in Nodes /\ h.next \in [Nodes -> NodeOrNull] /\ e \in Ends
  <2>1. n \in Nodes /\ h.next \in [Nodes -> NodeOrNull] /\ h[l].back \in NodeOrNull
    BY LinksTyped DEF NodeOrNull
  <2>2. h.next[n] \in NodeOrNull
    BY <2>1
  <2>3. QED
    BY <2>1, <2>2 DEF Ends, NodeOrNull
<1>2. next \in [Nodes -> NodeOrNull]
  BY <1>1 DEF NodeOrNull
<1>3. list_pop_front(h, l) = Put(h, l, next, e)
  BY DEF list_pop_front, Put
<1> HIDE DEF n, e, next
<1>4. LET g == Put(h, l, next, e)
      IN g \in Links /\ g.next = next /\ g[l] = e /\ g[m] = h[m]
  BY <1>1, <1>2, Fields
<1>5. QED
  BY <1>1, <1>3, <1>4 DEF n, e, next

\* From the front of list l the links lead through the sequence p of n different
\* nodes; a list that is whole ends in its back node.
Linked(h, l, p, n) ==
  /\ n \in Nat /\ p \in [1 .. n -> Nodes]
  /\ \A i, j \in 1 .. n : p[i] = p[j] => i = j
  /\ \A i \in 1 .. n : h.next[p[i]] = IF i = n THEN Null ELSE p[i + 1]
  /\ h[l].front = IF n = 0 THEN Null ELSE p[1]

\* ... and its back is the last of them.
Holds(h, l, p, n) == Linked(h, l, p, n) /\ (n # 0 => h[l].back = p[n])

\* There are NumNodes nodes.
LEMMA NodesFinite == IsFiniteSet(Nodes) /\ Cardinality(Nodes) = NumNodes
BY FS_Interval, NodesAssumption DEF Nodes

\* No list is longer than that.
LEMMA ShortList ==
  ASSUME NEW h, NEW l, NEW p, NEW n, Linked(h, l, p, n)
  PROVE  n <= NumNodes
<1>1. n \in Nat /\ p \in [1 .. n -> Nodes] /\ IsInjective(p)
  BY DEF Linked, IsInjective
<1>2. IsFiniteSet(1 .. n) /\ Cardinality(1 .. n) = n
  BY <1>1, FS_Interval
<1>3. p \in Injection(1 .. n, Nodes)
  BY <1>1 DEF Injection
<1>4. Cardinality(1 .. n) <= Cardinality(Nodes)
  BY <1>2, <1>3, NodesFinite, FS_Injection
<1>5. QED
  BY <1>2, <1>4, NodesFinite

\* Following the links from the front comes by the nodes in turn, then Null.
LEMMA PlacesValue ==
  ASSUME NEW h \in Links, NEW l \in Both, NEW p, NEW n, Linked(h, l, p, n)
  PROVE  /\ DOMAIN Places(h, l) = 1 .. NumNodes + 1
         /\ \A k \in 1 .. NumNodes + 1 :
              Places(h, l)[k] = IF k <= n THEN p[k] ELSE Null
<1> DEFINE S == 1 .. NumNodes + 1
           w == [k \in S |-> IF k <= n THEN p[k] ELSE Null]
           F(at) == [k \in S |-> IF k = 1 THEN h[l].front
                                 ELSE IF at[k - 1] = Null THEN Null
                                 ELSE h.next[at[k - 1]]]
           v == CHOOSE at : at = F(at)
<1>1. /\ n \in Nat /\ n <= NumNodes /\ NumNodes \in Nat
      /\ p \in [1 .. n -> Nodes]
      /\ \A i \in 1 .. n : p[i] # Null /\ h.next[p[i]] = IF i = n THEN Null ELSE p[i + 1]
      /\ h[l].front = IF n = 0 THEN Null ELSE p[1]
  <2>1. n <= NumNodes
    BY ShortList
  <2>2. QED
    BY <2>1, NodesAssumption DEF Linked, Nodes, Null
<1>2. \A k \in S : w[k] = F(w)[k]
  <2>1. TAKE k \in S
  <2>2. CASE k = 1
    BY <1>1, <2>2
  <2>3. CASE k # 1
    <3>1. k - 1 \in S /\ F(w)[k] = IF w[k - 1] = Null THEN Null ELSE h.next[w[k - 1]]
      BY <1>1, <2>3
    <3>2. CASE k - 1 <= n
      <4>1. k - 1 \in 1 .. n /\ w[k - 1] = p[k - 1] /\ (k - 1 = n <=> ~(k <= n))
        BY <1>1, <2>3, <3>1, <3>2
      <4>2. QED
        BY <1>1, <3>1, <4>1
    <3>3. CASE ~(k - 1 <= n)
      BY <1>1, <3>1, <3>3
    <3>4. QED
      BY <3>2, <3>3
  <2>4. QED
    BY <2>2, <2>3
<1>3. w = F(w)
  BY <1>2
<1>4. v = F(v)
  <2> HIDE DEF w, F
  <2>1. QED
    BY <1>3
<1>5. Cardinality(DOMAIN h.next) = NumNodes
  BY LinksTyped, NodesFinite
<1>6. Places(h, l) = v
  BY <1>5 DEF Places
<1>7. v[1] = w[1] /\ \A k \in S : k # 1 /\ v[k - 1] = w[k - 1] => v[k] = w[k]
  <2>1. DOMAIN v = S /\ \A k \in S : v[k] = F(v)[k]
    <3> HIDE DEF v
    <3>1. QED
      BY <1>4
  <2>2. 1 \in S
    BY <1>1
  <2> HIDE DEF w, v
  <2>3. v[1] = w[1]
    BY <1>2, <2>1, <2>2
  <2>4. \A k \in S : k # 1 /\ v[k - 1] = w[k - 1] => F(v)[k] = F(w)[k]
    OBVIOUS
  <2>5. QED
    BY <1>2, <2>1, <2>3, <2>4
<1>8. \A k \in 0 .. NumNodes : k \in {j \in Nat : v[j + 1] = w[j + 1]}
  <2> DEFINE T == {j \in Nat : v[j + 1] = w[j + 1]}
  <2> HIDE DEF w, v
  <2>1. 0 \in T
    BY <1>7
  <2>2. \A k \in 0 .. NumNodes - 1 : k \in T => k + 1 \in T
    <3>1. TAKE k \in 0 .. NumNodes - 1
    <3>2. k \in Nat /\ k + 1 \in Nat /\ (k + 1) + 1 \in S /\ (k + 1) + 1 # 1 /\ ((k + 1) + 1) - 1 = k + 1
      BY <1>1
    <3>3. QED
      BY <1>7, <3>2
  <2>3. T \in SUBSET Nat
    OBVIOUS
  <2>4. \A k \in 0 .. NumNodes : k \in T
    <3> HIDE DEF T
    <3>1. QED
      BY <1>1, <2>1, <2>2, <2>3, Induction
  <2>5. QED
    BY <2>4
<1>9. \A k \in S : v[k] = w[k]
  <2> HIDE DEF w, v
  <2>1. \A k \in S : k - 1 \in 0 .. NumNodes /\ (k - 1) + 1 = k
    BY <1>1
  <2>2. QED
    BY <1>8, <2>1
<1>10. DOMAIN v = S
  BY <1>4
<1>11. QED
  BY <1>6, <1>9, <1>10

\* The nodes of a list.
LEMMA NodesValue ==
  ASSUME NEW h \in Links, NEW l \in Both, NEW p, NEW n, Linked(h, l, p, n)
  PROVE  NodesOf(h, l) = {p[i] : i \in 1 .. n}
<1>1. /\ n \in Nat /\ n <= NumNodes /\ NumNodes \in Nat
      /\ \A i \in 1 .. n : p[i] \in Nodes /\ p[i] # Null
  <2>1. n <= NumNodes
    BY ShortList
  <2>2. QED
    BY <2>1, NodesAssumption DEF Linked, Nodes, Null
<1>2. /\ DOMAIN Places(h, l) = 1 .. NumNodes + 1
      /\ \A k \in 1 .. NumNodes + 1 : Places(h, l)[k] = IF k <= n THEN p[k] ELSE Null
  BY PlacesValue
<1>3. \A k \in 1 .. n : k \in DOMAIN Places(h, l) /\ Places(h, l)[k] = p[k]
  BY <1>1, <1>2
<1>4. \A k \in DOMAIN Places(h, l) : Places(h, l)[k] # Null => k \in 1 .. n
  BY <1>1, <1>2
<1>5. QED
  BY <1>1, <1>3, <1>4 DEF NodesOf

\* A list stays what it is while its ends and the links of its nodes do.
LEMMA SameList ==
  ASSUME NEW h, NEW g, NEW l, NEW p, NEW n, Linked(h, l, p, n), g[l] = h[l],
         \A i \in 1 .. n : g.next[p[i]] = h.next[p[i]]
  PROVE  Linked(g, l, p, n) /\ (Holds(h, l, p, n) => Holds(g, l, p, n))
BY DEF Linked, Holds

\* A sequence without its first node.
Rest(p, n) == [i \in 1 .. n - 1 |-> p[i + 1]]

\* list_pop_front takes the first node off a list, and leaves the other list alone.
LEMMA Popped ==
  ASSUME NEW h \in Links, NEW l \in Both, NEW m \in Both, m # l, NEW p, NEW n,
         Linked(h, l, p, n), n # 0
  PROVE  LET g == list_pop_front(h, l)
         IN  /\ g \in Links /\ g[m] = h[m]
             /\ g[l].back = IF n = 1 THEN Null ELSE h[l].back
             /\ h[l].front = p[1] /\ p[1] \in Nodes
             /\ Linked(g, l, Rest(p, n), n - 1)
             /\ \A t \in Nodes \ {p[1]} : g.next[t] = h.next[t]
<1> DEFINE g == list_pop_front(h, l)
           q == Rest(p, n)
<1>1. /\ n \in Nat \ {0} /\ p \in [1 .. n -> Nodes] /\ 1 \in 1 .. n
      /\ \A i, j \in 1 .. n : p[i] = p[j] => i = j
      /\ \A i \in 1 .. n : h.next[p[i]] = IF i = n THEN Null ELSE p[i + 1]
      /\ h[l].front = p[1]
  BY DEF Linked
<1>2. p[1] \in Nodes /\ h[l].front # Null
  BY <1>1 DEF Nodes, Null
<1>3. /\ g \in Links /\ g.next = [h.next EXCEPT ![p[1]] = Null]
      /\ g[l].front = h.next[p[1]]
      /\ g[l].back = IF h.next[p[1]] = Null THEN Null ELSE h[l].back
      /\ g[m] = h[m]
  <2>1. /\ g \in Links /\ g.next = [h.next EXCEPT ![h[l].front] = Null]
        /\ g[l].front = h.next[h[l].front]
        /\ g[l].back = IF h.next[h[l].front] = Null THEN Null ELSE h[l].back
        /\ g[m] = h[m]
    BY <1>2, PopFields
  <2> HIDE DEF g
  <2>2. QED
    BY <1>1, <2>1
<1>4. h.next \in [Nodes -> NodeOrNull]
  BY LinksTyped
<1>5. \A t \in Nodes \ {p[1]} : g.next[t] = h.next[t]
  BY <1>3, <1>4
<1> HIDE DEF g
<1>6. n - 1 \in Nat /\ q \in [1 .. n - 1 -> Nodes] /\ \A i \in 1 .. n - 1 : q[i] = p[i + 1] /\ i + 1 \in 1 .. n
  BY <1>1 DEF Rest
<1> HIDE DEF q
<1>7. \A i, j \in 1 .. n - 1 : q[i] = q[j] => i = j
  <2>1. \A i, j \in 1 .. n - 1 : i + 1 = j + 1 => i = j
    BY <1>1
  <2>2. QED
    BY <1>1, <1>6, <2>1
<1>8. \A i \in 1 .. n - 1 : g.next[q[i]] = IF i = n - 1 THEN Null ELSE q[i + 1]
  <2>1. TAKE i \in 1 .. n - 1
  <2>2. i + 1 \in 1 .. n /\ i + 1 # 1 /\ q[i] = p[i + 1] /\ q[i] \in Nodes \ {p[1]}
    BY <1>1, <1>6
  <2>3. g.next[q[i]] = IF i + 1 = n THEN Null ELSE p[(i + 1) + 1]
    BY <1>1, <1>5, <2>2
  <2>4. i # n - 1 => i + 1 \in 1 .. n - 1 /\ q[i + 1] = p[(i + 1) + 1]
    BY <1>1, <1>6
  <2>5. i + 1 = n <=> i = n - 1
    BY <1>1
  <2>6. QED
    BY <2>3, <2>4, <2>5
<1>9. g[l].front = IF n - 1 = 0 THEN Null ELSE q[1]
  <2>1. n - 1 # 0 => 1 \in 1 .. n - 1 /\ q[1] = p[1 + 1] /\ 1 # n
    BY <1>1, <1>6
  <2>2. QED
    BY <1>1, <1>3, <2>1
<1>10. g[l].back = IF n = 1 THEN Null ELSE h[l].back
  <2>1. n # 1 => 1 + 1 \in 1 .. n /\ h.next[p[1]] = p[1 + 1] /\ p[1 + 1] # Null
    BY <1>1 DEF Nodes, Null
  <2>2. n = 1 => h.next[p[1]] = Null
    BY <1>1
  <2>3. QED
    BY <1>3, <2>1, <2>2
<1>11. Linked(g, l, q, n - 1)
  BY <1>6, <1>7, <1>8, <1>9 DEF Linked
<1>12. QED
  BY <1>1, <1>2, <1>3, <1>5, <1>10, <1>11 DEF g, q

\* ... and if the list was whole, it still is.
LEMMA PoppedWhole ==
  ASSUME NEW h \in Links, NEW l \in Both, NEW m \in Both, m # l, NEW p, NEW n,
         Holds(h, l, p, n), n # 0
  PROVE  Holds(list_pop_front(h, l), l, Rest(p, n), n - 1)
<1> DEFINE g == list_pop_front(h, l)
<1>1. Linked(h, l, p, n) /\ h[l].back = p[n] /\ n \in Nat
  BY DEF Holds, Linked
<1>2. Linked(g, l, Rest(p, n), n - 1) /\ g[l].back = IF n = 1 THEN Null ELSE h[l].back
  BY <1>1, Popped
<1>3. n - 1 # 0 => Rest(p, n)[n - 1] = p[n]
  BY <1>1 DEF Rest
<1> HIDE DEF g
<1>4. QED
  BY <1>1, <1>2, <1>3 DEF Holds, g

\* What list_push_back writes, whatever the list is like.
IsPush(g, h, l, m, x) ==
  /\ g \in Links /\ g[m] = h[m] /\ g[l].back = x
  /\ h[l].front = Null => g.next = [h.next EXCEPT ![x] = Null] /\ g[l].front = x
  /\ h[l].front # Null =>
       /\ g.next = [h.next EXCEPT ![h[l].back] = x, ![x] = Null]
       /\ g[l].front = h[l].front

\* What list_push_back leaves alone.
LEMMA PushFields ==
  ASSUME NEW h \in Links, NEW l \in Both, NEW m \in Both, m # l, NEW x \in Nodes
  PROVE  IsPush(list_push_back(h, l, x), h, l, m, x)
<1> DEFINE g == list_push_back(h, l, x)
           empty == h[l].front = Null
           next == IF empty THEN [h.next EXCEPT ![x] = Null]
                            ELSE [h.next EXCEPT ![h[l].back] = x, ![x] = Null]
           e == [front |-> IF empty THEN x ELSE h[l].front, back |-> x]
<1>1. /\ h.next \in [Nodes -> NodeOrNull] /\ h[l].front \in NodeOrNull
      /\ x \in NodeOrNull /\ x # Null /\ h[l] = [front |-> h[l].front, back |-> h[l].back]
  BY LinksTyped DEF NodeOrNull, Nodes, Null, Ends
<1>2. next \in [Nodes -> NodeOrNull] /\ e \in Ends
  BY <1>1 DEF NodeOrNull, Ends
<1>3. g = Put(h, l, next, e)
  <2>1. CASE empty
    BY <2>1 DEF list_push_back, Put
  <2>2. CASE ~empty
    <3>1. g = PutBack(h, l, next, x)
      BY <2>2 DEF list_push_back, PutBack
    <3>2. SetBack(h[l], x) = e
      BY <1>1, <2>2 DEF SetBack
    <3> HIDE DEF next, g, e
    <3>3. g = Put(h, l, next, SetBack(h[l], x))
      BY <3>1, PutEnds
    <3>4. QED
      BY <3>2, <3>3
  <2>3. QED
    BY <2>1, <2>2
<1> HIDE DEF next, e, g
<1>4. LET k == Put(h, l, next, e)
      IN  k \in Links /\ k.next = next /\ k[l] = e /\ k[m] = h[m]
  BY <1>2, Fields
<1>5. QED
  BY <1>3, <1>4 DEF next, e, g, IsPush

\* A sequence with one more node.
Longer(p, n, x) == [i \in 1 .. n + 1 |-> IF i = n + 1 THEN x ELSE p[i]]

\* list_push_back puts a node of no list behind the last one.
LEMMA Pushed ==
  ASSUME NEW h \in Links, NEW l \in Both, NEW m \in Both, m # l, NEW p, NEW n,
         Holds(h, l, p, n), NEW x \in Nodes, \A i \in 1 .. n : p[i] # x
  PROVE  LET g == list_push_back(h, l, x)
         IN  /\ g \in Links /\ g[m] = h[m]
             /\ Holds(g, l, Longer(p, n, x), n + 1)
             /\ \A t \in Nodes \ {x} : (\A i \in 1 .. n : p[i] # t) => g.next[t] = h.next[t]
<1> DEFINE g == list_push_back(h, l, x)
           q == Longer(p, n, x)
<1>1. /\ n \in Nat /\ p \in [1 .. n -> Nodes] /\ \A i \in 1 .. n : p[i] # Null
      /\ \A i, j \in 1 .. n : p[i] = p[j] => i = j
      /\ \A i \in 1 .. n : h.next[p[i]] = IF i = n THEN Null ELSE p[i + 1]
      /\ h[l].front = IF n = 0 THEN Null ELSE p[1]
      /\ n # 0 => h[l].back = p[n]
  BY DEF Holds, Linked, Nodes, Null
<1>2. h.next \in [Nodes -> NodeOrNull] /\ h[l].front \in NodeOrNull /\ x \in NodeOrNull /\ x # Null
  BY LinksTyped DEF NodeOrNull, Nodes, Null
<1>3. n + 1 \in Nat /\ q \in [1 .. n + 1 -> Nodes] /\ q[n + 1] = x /\ \A i \in 1 .. n : q[i] = p[i]
  BY <1>1 DEF Longer
<1>4. \A i, j \in 1 .. n + 1 : q[i] = q[j] => i = j
  BY <1>1, <1>3
<1>5. /\ g \in Links /\ g[m] = h[m] /\ g[l].back = x
      /\ n = 0 => g.next = [h.next EXCEPT ![x] = Null] /\ g[l].front = x
      /\ n # 0 => g.next = [h.next EXCEPT ![p[n]] = x, ![x] = Null] /\ g[l].front = p[1]
  <2>1. n # 0 => 1 \in 1 .. n /\ h[l].front # Null
    BY <1>1
  <2>2. n = 0 => h[l].front = Null
    BY <1>1
  <2>3. IsPush(g, h, l, m, x)
    BY PushFields
  <2> HIDE DEF g
  <2>4. QED
    BY <1>1, <2>1, <2>2, <2>3 DEF IsPush
<1> HIDE DEF g, q
<1>6. CASE n = 0
  <2>1. /\ g.next[x] = Null /\ g[l].front = x /\ g[l].back = x
        /\ \A t \in Nodes \ {x} : g.next[t] = h.next[t]
    BY <1>2, <1>5, <1>6
  <2>2. Holds(g, l, q, n + 1)
    BY <1>3, <1>4, <1>6, <2>1 DEF Holds, Linked
  <2>3. QED
    BY <1>5, <1>6, <2>1, <2>2 DEF g, q
<1>7. CASE n # 0
  <2>1. n \in 1 .. n /\ 1 \in 1 .. n /\ p[n] \in Nodes \ {x}
    BY <1>1, <1>7
  <2>2. /\ g.next[x] = Null /\ g.next[p[n]] = x /\ g[l].front = p[1] /\ g[l].back = x
        /\ \A t \in Nodes \ {x} : t # p[n] => g.next[t] = h.next[t]
    BY <1>2, <1>5, <1>7, <2>1
  <2>3. \A i \in 1 .. n + 1 : g.next[q[i]] = IF i = n + 1 THEN Null ELSE q[i + 1]
    <3>1. TAKE i \in 1 .. n + 1
    <3>2. CASE i = n + 1
      BY <1>3, <2>2, <3>2
    <3>3. CASE i = n
      BY <1>1, <1>3, <2>1, <2>2, <3>3
    <3>4. CASE i # n /\ i # n + 1
      <4>1. i \in 1 .. n /\ i + 1 \in 1 .. n /\ q[i] = p[i] /\ q[i + 1] = p[i + 1]
        BY <1>1, <1>3, <3>4
      <4>2. p[i] \in Nodes \ {x} /\ p[i] # p[n]
        BY <1>1, <2>1, <3>4, <4>1
      <4>3. g.next[p[i]] = h.next[p[i]] /\ h.next[p[i]] = p[i + 1]
        BY <1>1, <2>2, <3>4, <4>1, <4>2
      <4>4. QED
        BY <3>4, <4>1, <4>3
    <3>5. QED
      BY <3>2, <3>3, <3>4
  <2>4. Holds(g, l, q, n + 1)
    BY <1>1, <1>3, <1>4, <2>1, <2>2, <2>3 DEF Holds, Linked
  <2>5. \A t \in Nodes \ {x} : (\A i \in 1 .. n : p[i] # t) => g.next[t] = h.next[t]
    BY <2>1, <2>2
  <2>6. QED
    BY <1>5, <1>7, <2>4, <2>5 DEF g, q
<1>8. QED
  BY <1>6, <1>7

-----------------------------------------------------------------------------
(* The free list and the wait list of putc (uart_server.c).                *)

\* Taking a node for a task that waits, and giving it back.
Take(h) == list_push_back(list_pop_front(h, "free"), "wait", h.free.front)
Give(h) == list_push_back(list_pop_front(h, "wait"), "free", h.wait.front)

\* The back of the free list is its last node, or a node that is nowhere (a node that
\* was given back behind such a one is lost), or still the node the list began with:
\* its front, or the first to wait.
BackOK(b, f, n, w, m) ==
  /\ b \in Nodes
  /\ \/ b = f[n]
     \/ (\A i \in 1 .. n : f[i] # b) /\ (\A j \in 1 .. m : w[j] # b)
     \/ m # 0 /\ b = w[1]
     \/ m = 0 /\ b = f[1]

\* The free nodes are f, the nodes in use w.
Arranged(h, f, n, w, m) ==
  /\ Linked(h, "free", f, n) /\ Holds(h, "wait", w, m)
  /\ \A i \in 1 .. n, j \in 1 .. m : f[i] # w[j]
  /\ n # 0 => BackOK(h.free.back, f, n, w, m)

\* Some nodes are free, some in use.
ArrangedOK(h) == h \in Links /\ \E f, n, w, m : Arranged(h, f, n, w, m)

\* It is so after start-up: all the nodes are free.
LEMMA InitArranged == ArrangedOK(InitialLists)
<1> DEFINE f == [i \in 1 .. NumNodes |-> i]
           w == [i \in 1 .. 0 |-> i]
           h == InitialLists
<1>1. NumNodes \in Nat \ {0} /\ 1 \in Nodes /\ NumNodes \in Nodes /\ Nodes = 1 .. NumNodes
  BY NodesAssumption DEF Nodes
<1>2. h \in Links
  <2>1. [n \in Nodes |-> IF n = NumNodes THEN Null ELSE n + 1] \in [Nodes -> NodeOrNull]
    BY <1>1 DEF NodeOrNull
  <2>2. [front |-> 1, back |-> 1] \in Ends /\ EmptyList \in Ends
    BY <1>1 DEF Ends, NodeOrNull, EmptyList
  <2>3. QED
    BY <2>1, <2>2 DEF Links, InitialLists
<1>3. Linked(h, "free", f, NumNodes)
  BY <1>1 DEF Linked, InitialLists
<1>4. Holds(h, "wait", w, 0)
  BY <1>1 DEF Holds, Linked, InitialLists, EmptyList
<1>5. BackOK(h.free.back, f, NumNodes, w, 0)
  BY <1>1 DEF BackOK, InitialLists
<1>6. Arranged(h, f, NumNodes, w, 0)
  BY <1>1, <1>3, <1>4, <1>5 DEF Arranged
<1>7. QED
  BY <1>2, <1>6 DEF ArrangedOK

\* No node is both free and in use.
LEMMA Apart ==
  ASSUME NEW h, ArrangedOK(h)
  PROVE  /\ NodesOf(h, "wait") \subseteq Nodes
         /\ NodesOf(h, "wait") \cap NodesOf(h, "free") = {}
<1>1. PICK f, n, w, m : Arranged(h, f, n, w, m)
  BY DEF ArrangedOK
<1>2. h \in Links /\ Linked(h, "free", f, n) /\ Linked(h, "wait", w, m)
      /\ \A i \in 1 .. n, j \in 1 .. m : f[i] # w[j]
  BY <1>1 DEF ArrangedOK, Arranged, Holds
<1>3. NodesOf(h, "free") = {f[i] : i \in 1 .. n} /\ NodesOf(h, "wait") = {w[i] : i \in 1 .. m}
  BY <1>2, NodesValue DEF Both
<1>4. \A i \in 1 .. m : w[i] \in Nodes
  BY <1>2 DEF Linked
<1>5. QED
  BY <1>2, <1>3, <1>4

\* The first free node becomes the last in use, and no other is taken.
LEMMA Takes ==
  ASSUME NEW h, ArrangedOK(h), h.free.front # Null
  PROVE  /\ ArrangedOK(Take(h))
         /\ h.free.front \in Nodes /\ h.free.front \notin NodesOf(h, "wait")
         /\ NodesOf(Take(h), "wait") = NodesOf(h, "wait") \cup {h.free.front}
<1>1. PICK f, n, w, m : Arranged(h, f, n, w, m)
  BY DEF ArrangedOK
<1> DEFINE e == list_pop_front(h, "free")
           g == Take(h)
           x == f[1]
           q == Rest(f, n)
           v == Longer(w, m, x)
           b == h.free.back
<1>2. "free" \in Both /\ "wait" \in Both /\ "free" # "wait" /\ h \in Links
  BY DEF Both, ArrangedOK
<1>3. /\ Linked(h, "free", f, n) /\ Holds(h, "wait", w, m)
      /\ \A i \in 1 .. n, j \in 1 .. m : f[i] # w[j]
      /\ h["free"].front = h.free.front /\ h["free"].back = b
  BY <1>1, <1>2 DEF Arranged, Links
<1>4. /\ n \in Nat \ {0} /\ 1 \in 1 .. n /\ f \in [1 .. n -> Nodes]
      /\ \A i, j \in 1 .. n : f[i] = f[j] => i = j
      /\ m \in Nat /\ w \in [1 .. m -> Nodes]
  <2>1. n \in Nat /\ n # 0
    BY <1>3 DEF Linked
  <2>2. 1 \in 1 .. n
    BY <2>1
  <2>3. QED
    BY <1>3, <2>1, <2>2 DEF Linked, Holds
<1>5. /\ e \in Links /\ e["wait"] = h["wait"] /\ h["free"].front = x /\ x \in Nodes
      /\ e["free"].back = (IF n = 1 THEN Null ELSE h["free"].back)
      /\ Linked(e, "free", q, n - 1)
      /\ \A t \in Nodes \ {x} : e.next[t] = h.next[t]
  BY <1>2, <1>3, <1>4, Popped
<1>6. g = list_push_back(e, "wait", x)
  BY <1>3, <1>5 DEF Take
<1> HIDE DEF e, g
<1>7. \A j \in 1 .. m : w[j] # x /\ w[j] \in Nodes \ {x}
  BY <1>3, <1>4
<1>8. Holds(e, "wait", w, m)
  <2>1. Linked(h, "wait", w, m)
    BY <1>3 DEF Holds
  <2>2. QED
    BY <1>3, <1>5, <1>7, <2>1, SameList
<1>9. /\ g \in Links /\ g["free"] = e["free"]
      /\ Holds(g, "wait", v, m + 1)
      /\ \A t \in Nodes \ {x} : (\A i \in 1 .. m : w[i] # t) => g.next[t] = e.next[t]
  BY <1>2, <1>5, <1>6, <1>7, <1>8, Pushed
<1>10. \A i \in 1 .. n - 1 : i + 1 \in 1 .. n /\ q[i] = f[i + 1] /\ q[i] \in Nodes \ {x}
                            /\ \A j \in 1 .. m : w[j] # q[i]
  <2>1. TAKE i \in 1 .. n - 1
  <2>2. i + 1 \in 1 .. n /\ i + 1 # 1 /\ q[i] = f[i + 1]
    BY <1>4 DEF Rest
  <2>3. QED
    BY <1>3, <1>4, <2>2
<1>11. /\ v \in [1 .. m + 1 -> Nodes] /\ v[m + 1] = x /\ \A i \in 1 .. m : v[i] = w[i]
       /\ m + 1 \in 1 .. m + 1 /\ m + 1 # 0
  BY <1>4, <1>5 DEF Longer
<1> HIDE DEF q, v
<1>12. Linked(g, "free", q, n - 1)
  <2>1. \A i \in 1 .. n - 1 : g.next[q[i]] = e.next[q[i]]
    BY <1>9, <1>10
  <2>2. QED
    BY <1>5, <1>9, <2>1, SameList
<1>13. \A i \in 1 .. n - 1, j \in 1 .. m + 1 : q[i] # v[j]
  <2>1. \A j \in 1 .. m + 1 : j = m + 1 \/ j \in 1 .. m
    BY <1>4
  <2>2. QED
    BY <1>10, <1>11, <2>1
<1>14. ASSUME n - 1 # 0 PROVE BackOK(g.free.back, q, n - 1, v, m + 1)
  <2>1. g.free.back = b /\ n # 1 /\ n - 1 \in 1 .. n - 1 /\ (n - 1) + 1 = n
    BY <1>3, <1>4, <1>5, <1>9, <1>14 DEF Links
  <2>2. BackOK(b, f, n, w, m)
    BY <1>1, <1>4 DEF Arranged
  <2> HIDE DEF b, x
  <2>3. CASE b = f[n]
    <3>1. b = q[n - 1]
      BY <1>10, <2>1, <2>3
    <3>2. QED
      BY <2>1, <2>2, <3>1 DEF BackOK
  <2>4. CASE (\A i \in 1 .. n : f[i] # b) /\ (\A j \in 1 .. m : w[j] # b)
    <3>1. \A i \in 1 .. n - 1 : q[i] # b
      BY <1>10, <2>4
    <3>2. \A j \in 1 .. m + 1 : v[j] # b
      <4>1. \A j \in 1 .. m + 1 : j = m + 1 \/ j \in 1 .. m
        BY <1>4
      <4>2. x # b
        BY <1>4, <2>4 DEF x
      <4>3. QED
        BY <1>11, <2>4, <4>1, <4>2
    <3>3. QED
      BY <2>1, <2>2, <3>1, <3>2 DEF BackOK
  <2>5. CASE m # 0 /\ b = w[1]
    <3>1. 1 \in 1 .. m
      BY <1>4, <2>5
    <3>2. v[1] = b
      BY <1>11, <2>5, <3>1
    <3>3. QED
      BY <1>11, <2>1, <2>2, <3>2 DEF BackOK
  <2>6. CASE m = 0 /\ b = f[1]
    <3>1. v[1] = b
      BY <1>11, <2>6 DEF x
    <3>2. QED
      BY <1>11, <2>1, <2>2, <3>1 DEF BackOK
  <2>7. QED
    BY <2>2, <2>3, <2>4, <2>5, <2>6 DEF BackOK
<1>15. Arranged(g, q, n - 1, v, m + 1)
  BY <1>9, <1>12, <1>13, <1>14 DEF Arranged
<1>16. NodesOf(h, "wait") = {w[i] : i \in 1 .. m} /\ NodesOf(g, "wait") = {v[i] : i \in 1 .. m + 1}
  <2>1. Linked(h, "wait", w, m) /\ Linked(g, "wait", v, m + 1)
    BY <1>3, <1>9 DEF Holds
  <2>2. QED
    BY <1>2, <1>9, <2>1, NodesValue
<1>17. {v[i] : i \in 1 .. m + 1} = {w[i] : i \in 1 .. m} \cup {x}
  <2>1. \A j \in 1 .. m + 1 : j = m + 1 \/ j \in 1 .. m
    BY <1>4
  <2>2. \A j \in 1 .. m : j \in 1 .. m + 1
    BY <1>4
  <2>3. QED
    BY <1>11, <2>1, <2>2
<1>18. ArrangedOK(g)
  BY <1>9, <1>15 DEF ArrangedOK
<1>19. QED
  BY <1>3, <1>5, <1>7, <1>16, <1>17, <1>18 DEF g

\* The first node in use is given back; the others stay in use.
LEMMA Gives ==
  ASSUME NEW h, ArrangedOK(h), h.wait.front # Null
  PROVE  /\ ArrangedOK(Give(h))
         /\ h.wait.front \in NodesOf(h, "wait")
         /\ NodesOf(Give(h), "wait") = NodesOf(h, "wait") \ {h.wait.front}
<1>1. PICK f, n, w, m : Arranged(h, f, n, w, m)
  BY DEF ArrangedOK
<1> DEFINE e == list_pop_front(h, "wait")
           g == Give(h)
           x == w[1]
           v == Rest(w, m)
           b == h.free.back
<1>2. "free" \in Both /\ "wait" \in Both /\ "free" # "wait" /\ h \in Links
  BY DEF Both, ArrangedOK
<1>3. /\ Linked(h, "free", f, n) /\ Holds(h, "wait", w, m) /\ Linked(h, "wait", w, m)
      /\ \A i \in 1 .. n, j \in 1 .. m : f[i] # w[j]
      /\ h["wait"].front = h.wait.front /\ h["free"].back = b
      /\ n # 0 => BackOK(b, f, n, w, m)
  BY <1>1, <1>2 DEF Arranged, Links, Holds
<1>4. /\ m \in Nat \ {0} /\ 1 \in 1 .. m /\ w \in [1 .. m -> Nodes]
      /\ \A i, j \in 1 .. m : w[i] = w[j] => i = j
      /\ n \in Nat /\ f \in [1 .. n -> Nodes]
      /\ h["free"].front = IF n = 0 THEN Null ELSE f[1]
  <2>1. m \in Nat /\ m # 0
    BY <1>3 DEF Linked
  <2>2. 1 \in 1 .. m
    BY <2>1
  <2>3. QED
    BY <1>3, <2>1, <2>2 DEF Linked
<1>5. /\ e \in Links /\ e["free"] = h["free"] /\ h["wait"].front = x /\ x \in Nodes
      /\ Holds(e, "wait", v, m - 1)
      /\ \A t \in Nodes \ {x} : e.next[t] = h.next[t]
  BY <1>2, <1>3, <1>4, Popped, PoppedWhole
<1>6. g = list_push_back(e, "free", x)
  BY <1>3, <1>5 DEF Give
<1> HIDE DEF e, g
<1>7. \A i \in 1 .. n : f[i] # x /\ f[i] \in Nodes \ {x}
  BY <1>3, <1>4
<1>8. Linked(e, "free", f, n) /\ (Holds(h, "free", f, n) => Holds(e, "free", f, n))
  BY <1>3, <1>5, <1>7, SameList
<1>9. \A i \in 1 .. m - 1 : i + 1 \in 1 .. m /\ i + 1 # 1 /\ v[i] = w[i + 1] /\ v[i] \in Nodes \ {x}
                           /\ \A j \in 1 .. n : f[j] # v[i]
  <2>1. TAKE i \in 1 .. m - 1
  <2>2. i + 1 \in 1 .. m /\ i + 1 # 1 /\ v[i] = w[i + 1]
    BY <1>4 DEF Rest
  <2>3. QED
    BY <1>3, <1>4, <2>2
<1> HIDE DEF v, x
<1>10. /\ g \in Links /\ g["wait"] = e["wait"] /\ g["free"].back = x
       /\ e["free"].front = Null =>
            g.next = [e.next EXCEPT ![x] = Null] /\ g["free"].front = x
       /\ e["free"].front # Null =>
            /\ g.next = [e.next EXCEPT ![e["free"].back] = x, ![x] = Null]
            /\ g["free"].front = e["free"].front
  <2>1. x \in Nodes /\ e \in Links
    BY <1>5
  <2>2. IsPush(list_push_back(e, "free", x), e, "free", "wait", x)
    BY <1>2, <2>1, PushFields
  <2>3. IsPush(g, e, "free", "wait", x)
    BY <1>6, <2>2
  <2>4. QED
    BY <2>3 DEF IsPush
<1>11. ASSUME n = 0 \/ b = f[n] PROVE \E q, k : Arranged(g, q, k, v, m - 1)
  <2>1. Holds(e, "free", f, n)
    BY <1>3, <1>4, <1>8, <1>11 DEF Holds
  <2> DEFINE q == Longer(f, n, x)
  <2>2. /\ Holds(g, "free", q, n + 1)
        /\ \A t \in Nodes \ {x} : (\A i \in 1 .. n : f[i] # t) => g.next[t] = e.next[t]
    BY <1>2, <1>5, <1>6, <1>7, <2>1, Pushed
  <2>3. q[n + 1] = x /\ \A i \in 1 .. n : q[i] = f[i]
    BY <1>4 DEF Longer
  <2> HIDE DEF q
  <2>4. Holds(g, "wait", v, m - 1)
    <3>1. \A i \in 1 .. m - 1 : g.next[v[i]] = e.next[v[i]]
      BY <1>9, <2>2
    <3>2. Linked(e, "wait", v, m - 1)
      BY <1>5 DEF Holds
    <3>3. QED
      BY <1>5, <1>10, <3>1, <3>2, SameList
  <2>5. \A i \in 1 .. n + 1, j \in 1 .. m - 1 : q[i] # v[j]
    <3>1. \A i \in 1 .. n + 1 : i = n + 1 \/ i \in 1 .. n
      BY <1>4
    <3>2. QED
      BY <1>9, <2>3, <3>1
  <2>6. BackOK(g.free.back, q, n + 1, v, m - 1)
    <3>1. g.free.back = x
      BY <1>10 DEF Links
    <3>2. QED
      BY <1>5, <2>3, <3>1 DEF BackOK
  <2>7. Linked(g, "free", q, n + 1)
    BY <2>2 DEF Holds
  <2>8. Arranged(g, q, n + 1, v, m - 1)
    BY <2>4, <2>5, <2>6, <2>7 DEF Arranged
  <2>9. QED
    BY <2>8
<1>12. ASSUME n # 0, b # f[n] PROVE \E q, k : Arranged(g, q, k, v, m - 1)
  <2>1. \/ (\A i \in 1 .. n : f[i] # b) /\ (\A j \in 1 .. m : w[j] # b)
        \/ b = w[1]
    BY <1>3, <1>4, <1>12 DEF BackOK
  <2>2. (\A i \in 1 .. n : f[i] # b) /\ (\A j \in 1 .. m - 1 : v[j] # b)
    <3>1. CASE (\A i \in 1 .. n : f[i] # b) /\ (\A j \in 1 .. m : w[j] # b)
      BY <1>9, <3>1
    <3>2. CASE b = w[1]
      BY <1>7, <1>9, <3>2 DEF x
    <3>3. QED
      BY <2>1, <3>1, <3>2
  <2>3. 1 \in 1 .. n /\ e["free"].front = f[1] /\ f[1] # Null /\ e["free"].back = b
    <3>1. 1 \in 1 .. n
      BY <1>4, <1>12
    <3>2. QED
      BY <1>3, <1>4, <1>5, <1>12, <3>1 DEF Nodes, Null
  <2>4. \A t \in Nodes \ {x} : t # b => g.next[t] = e.next[t]
    <3>1. g.next = [e.next EXCEPT ![b] = x, ![x] = Null]
      BY <1>10, <2>3
    <3>2. e.next \in [Nodes -> NodeOrNull]
      BY <1>2, <1>5, LinksTyped
    <3>3. QED
      BY <3>1, <3>2
  <2>5. Linked(g, "free", f, n)
    <3>1. \A i \in 1 .. n : g.next[f[i]] = e.next[f[i]]
      BY <1>7, <2>2, <2>4
    <3>2. g["free"].front = e["free"].front
      BY <1>10, <2>3
    <3>3. QED
      BY <1>8, <3>1, <3>2 DEF Linked
  <2>6. Holds(g, "wait", v, m - 1)
    <3>1. \A i \in 1 .. m - 1 : g.next[v[i]] = e.next[v[i]]
      BY <1>9, <2>2, <2>4
    <3>2. Linked(e, "wait", v, m - 1)
      BY <1>5 DEF Holds
    <3>3. QED
      BY <1>5, <1>10, <3>1, <3>2, SameList
  <2>7. BackOK(g.free.back, f, n, v, m - 1)
    <3>1. g.free.back = x
      BY <1>10 DEF Links
    <3>2. QED
      BY <1>5, <1>7, <1>9, <3>1 DEF BackOK
  <2>8. \A i \in 1 .. n, j \in 1 .. m - 1 : f[i] # v[j]
    BY <1>9
  <2>9. Arranged(g, f, n, v, m - 1)
    BY <2>5, <2>6, <2>7, <2>8 DEF Arranged
  <2>10. QED
    BY <2>9
<1>13. \E q, k : Arranged(g, q, k, v, m - 1)
  BY <1>11, <1>12
<1>14. NodesOf(h, "wait") = {w[i] : i \in 1 .. m} /\ NodesOf(g, "wait") = {v[i] : i \in 1 .. m - 1}
  <2>1. Linked(g, "wait", v, m - 1)
    BY <1>13 DEF Arranged, Holds
  <2>2. QED
    BY <1>2, <1>3, <1>10, <2>1, NodesValue
<1>15. {v[i] : i \in 1 .. m - 1} = {w[i] : i \in 1 .. m} \ {x}
  <2>1. ASSUME NEW j \in 1 .. m, j # 1 PROVE \E i \in 1 .. m - 1 : v[i] = w[j]
    <3>1. j - 1 \in 1 .. m - 1 /\ (j - 1) + 1 = j
      BY <1>4, <2>1
    <3>2. QED
      BY <1>9, <3>1
  <2>2. \A i \in 1 .. m - 1 : v[i] # x /\ \E j \in 1 .. m : v[i] = w[j]
    BY <1>9
  <2>3. QED
    BY <2>1, <2>2 DEF x
<1>16. x \in {w[i] : i \in 1 .. m}
  BY <1>4 DEF x
<1>17. ArrangedOK(g)
  BY <1>10, <1>13 DEF ArrangedOK
<1>18. QED
  BY <1>3, <1>5, <1>14, <1>15, <1>16, <1>17 DEF g

-----------------------------------------------------------------------------
(* Types and notifiers.                                                    *)

Senders  == Notifiers \cup {Client(cl) : cl \in Clients}
Requests == [operation : {GETC, PUTC}, com : Channels] \cup {NoRequest}

\* Whatever waits in the lists, the next step depends on no more of it than
\* these two say.
IInv == TypeOK /\ NotifierProtocol

LEMMA ChannelsOf ==
  ASSUME NEW c \in Channels
  PROVE  /\ RxNotifier(c) \in Notifiers /\ TxNotifier(c) \in Notifiers
         /\ \A d \in Channels : /\ RxNotifier(c) # TxNotifier(d)
                                /\ c # d => /\ RxNotifier(c) # RxNotifier(d)
                                            /\ TxNotifier(c) # TxNotifier(d)
<1>1. RxNotifier(c) \in Notifiers /\ TxNotifier(c) \in Notifiers
  BY DEF RxNotifier, TxNotifier, Notifiers
<1>2. ASSUME NEW d \in Channels
      PROVE  /\ RxNotifier(c) # TxNotifier(d)
             /\ c # d => RxNotifier(c) # RxNotifier(d) /\ TxNotifier(c) # TxNotifier(d)
  BY DEF RxNotifier, TxNotifier
<1> QED
  BY <1>1, <1>2

\* Sending to the server.
LEMMA SentOK ==
  ASSUME inbox \in Seq(Senders), NEW sender \in Senders
  PROVE  Append(inbox, sender) \in Seq(Senders)
OBVIOUS

\* Taking the first message off the queue.
LEMMA ReceivedOK ==
  ASSUME inbox \in Seq(Senders), NEW sender, Received(sender)
  PROVE  inbox' \in Seq(Senders)
BY DEF Received

\* Waking clients.
LEMMA ReturnOK ==
  ASSUME client \in [Clients -> {"running", "sent", "waiting"}],
         request \in [Clients -> Requests],
         NEW cls, Return(cls)
  PROVE  /\ client' \in [Clients -> {"running", "sent", "waiting"}]
         /\ request' \in [Clients -> Requests]
BY DEF Return, Requests

\* A client that has asked for something has a channel.
LEMMA RequestOf ==
  ASSUME request \in [Clients -> Requests], NEW cl \in Clients
  PROVE  request[cl].com \in Channels
BY DEF Requests, NoRequest, Channels, COM1, COM2

\* A reply to a notifier, or not, and what it does to the others.
LEMMA ReplyToOK ==
  ASSUME NEW status \in [Notifiers -> {"held", "awaiting", "sent"}], NEW n \in Notifiers
  PROVE  /\ ReplyTo(status, n) \in [Notifiers -> {"held", "awaiting", "sent"}]
         /\ ReplyTo(status, n)[n] # "held"
         /\ \A m \in Notifiers : m # n => ReplyTo(status, n)[m] = status[m]
BY DEF ReplyTo

\* A byte less in a buffer, or one more where there is room.
LEMMA LessRoom ==
  ASSUME NEW cb \in [Channels -> 0 .. Capacity], NEW c \in Channels
  PROVE  /\ [cb EXCEPT ![c] = IF @ > 0 THEN @ - 1 ELSE 0] \in [Channels -> 0 .. Capacity]
         /\ cb[c] > 0 => [cb EXCEPT ![c] = @ - 1] \in [Channels -> 0 .. Capacity]
<1>1. Capacity \in Nat /\ cb[c] \in 0 .. Capacity
  BY CapacityAssumption
<1>2. /\ (IF cb[c] > 0 THEN cb[c] - 1 ELSE 0) \in 0 .. Capacity
      /\ cb[c] > 0 => cb[c] - 1 \in 0 .. Capacity
  BY <1>1
<1> QED
  BY <1>2, Zenon

LEMMA MoreRoom ==
  ASSUME NEW cb \in [Channels -> 0 .. Capacity], NEW c \in Channels, cb[c] < Capacity
  PROVE  [cb EXCEPT ![c] = @ + 1] \in [Channels -> 0 .. Capacity]
<1>1. Capacity \in Nat /\ cb[c] \in 0 .. Capacity
  BY CapacityAssumption
<1>2. cb[c] + 1 \in 0 .. Capacity
  BY <1>1
<1> QED
  BY <1>2, Zenon

\* The end of the transmit branch leaves the notifier held if and only if the
\* flag says so.
LEMMA RearmOK ==
  ASSUME NEW c \in Channels, RearmTransmit(c),
         notifier \in [Notifiers -> {"held", "awaiting", "sent"}],
         tx_notifier_awaiting \in [Channels -> BOOLEAN],
         uart_tx_cb' \in [Channels -> 0 .. Capacity]
  PROVE  /\ notifier' \in [Notifiers -> {"held", "awaiting", "sent"}]
         /\ tx_notifier_awaiting' \in [Channels -> BOOLEAN]
         /\ notifier'[TxNotifier(c)] = "held" <=> ~tx_notifier_awaiting'[c]
         /\ \A m \in Notifiers : m # TxNotifier(c) => notifier'[m] = notifier[m]
         /\ \A d \in Channels : d # c => tx_notifier_awaiting'[d] = tx_notifier_awaiting[d]
<1> DEFINE held == [notifier EXCEPT ![TxNotifier(c)] = "held"]
<1>1. TxNotifier(c) \in Notifiers
  BY ChannelsOf
<1>2. /\ held \in [Notifiers -> {"held", "awaiting", "sent"}]
      /\ held[TxNotifier(c)] = "held"
      /\ \A m \in Notifiers : m # TxNotifier(c) => held[m] = notifier[m]
  BY <1>1
<1>3. tx_notifier_awaiting' = [tx_notifier_awaiting EXCEPT ![c] = uart_tx_cb'[c] > 0]
  BY DEF RearmTransmit
<1>4. /\ tx_notifier_awaiting'[c] <=> uart_tx_cb'[c] > 0
      /\ tx_notifier_awaiting' \in [Channels -> BOOLEAN]
      /\ \A d \in Channels : d # c => tx_notifier_awaiting'[d] = tx_notifier_awaiting[d]
  <2>1. CASE uart_tx_cb'[c] > 0
    BY <1>3, <2>1
  <2>2. CASE ~(uart_tx_cb'[c] > 0)
    <3>1. (uart_tx_cb'[c] > 0) = FALSE
      BY <2>2
    <3>2. tx_notifier_awaiting' = [tx_notifier_awaiting EXCEPT ![c] = FALSE]
      BY <1>3, <3>1
    <3> QED
      BY <2>2, <3>2, Zenon
  <2> QED
    BY <2>1, <2>2
<1>5. notifier' = IF uart_tx_cb'[c] > 0 THEN ReplyTo(held, TxNotifier(c)) ELSE held
  BY DEF RearmTransmit
<1> HIDE DEF held
<1>6. CASE uart_tx_cb'[c] > 0
  <2>1. notifier' = ReplyTo(held, TxNotifier(c))
    BY <1>5, <1>6
  <2>2. /\ ReplyTo(held, TxNotifier(c)) \in [Notifiers -> {"held", "awaiting", "sent"}]
        /\ ReplyTo(held, TxNotifier(c))[TxNotifier(c)] # "held"
        /\ \A m \in Notifiers : m # TxNotifier(c) =>
             ReplyTo(held, TxNotifier(c))[m] = held[m]
    BY <1>1, <1>2, ReplyToOK
  <2> QED
    BY <1>2, <1>4, <1>6, <2>1, <2>2, Zenon
<1>7. CASE ~(uart_tx_cb'[c] > 0)
  <2>1. notifier' = held
    BY <1>5, <1>7
  <2> QED
    BY <1>2, <1>4, <1>7, <2>1, Zenon
<1> QED
  BY <1>6, <1>7

\* The two halves of NotifierProtocol, from what a step does to one channel and
\* leaves alone of the others.
LEMMA ReceiveSide ==
  ASSUME NEW c \in Channels, NotifierProtocol,
         notifier'[RxNotifier(c)] = "held" <=> getc_wait_list'[c] = << >>,
         \A m \in Notifiers : m # RxNotifier(c) => notifier'[m] = notifier[m],
         \A d \in Channels : d # c => getc_wait_list'[d] = getc_wait_list[d],
         tx_notifier_awaiting' = tx_notifier_awaiting
  PROVE  NotifierProtocol'
BY ChannelsOf, Zenon DEF NotifierProtocol

LEMMA TransmitSide ==
  ASSUME NEW c \in Channels, NotifierProtocol,
         notifier'[TxNotifier(c)] = "held" <=> ~tx_notifier_awaiting'[c],
         \A m \in Notifiers : m # TxNotifier(c) => notifier'[m] = notifier[m],
         \A d \in Channels : d # c => tx_notifier_awaiting'[d] = tx_notifier_awaiting[d],
         getc_wait_list' = getc_wait_list
  PROVE  NotifierProtocol'
BY ChannelsOf, Zenon DEF NotifierProtocol

-----------------------------------------------------------------------------

LEMMA InitOK == Init => IInv
<1> SUFFICES ASSUME Init PROVE IInv
  OBVIOUS
<1>1. TypeOK
  BY CapacityAssumption DEF Init, TypeOK, Channels, COM1, COM2, NoRequest, NoClient
<1>2. NotifierProtocol
  BY ChannelsOf DEF Init, NotifierProtocol
<1> QED
  BY <1>1, <1>2 DEF IInv

LEMMA CallOK ==
  ASSUME IInv, NEW cl \in Clients, NEW operation \in {GETC, PUTC}, NEW c \in Channels,
         Call(cl, operation, c)
  PROVE  IInv'
<1>1. inbox' \in Seq(Senders)
  BY SentOK DEF IInv, TypeOK, Senders, Call
<1>2. /\ client' \in [Clients -> {"running", "sent", "waiting"}]
      /\ request' \in [Clients -> Requests]
  BY DEF IInv, TypeOK, Requests, Call
<1>3. TypeOK'
  BY <1>1, <1>2 DEF IInv, TypeOK, Senders, Requests, Call
<1>4. NotifierProtocol'
  BY DEF IInv, NotifierProtocol, Call
<1> QED
  BY <1>3, <1>4 DEF IInv

LEMMA NotifyOK ==
  ASSUME IInv, NEW n \in Notifiers, Notify(n)
  PROVE  IInv'
<1>1. TypeOK'
  <2>1. inbox' \in Seq(Senders)
    BY SentOK DEF IInv, TypeOK, Senders, Notify
  <2>2. notifier' \in [Notifiers -> {"held", "awaiting", "sent"}]
    BY DEF IInv, TypeOK, Notify
  <2> QED
    BY <2>1, <2>2 DEF IInv, TypeOK, Senders, Notify
<1>2. \A m \in Notifiers : notifier'[m] = "held" <=> notifier[m] = "held"
  BY DEF IInv, TypeOK, Notify
<1>3. NotifierProtocol'
  BY <1>2, ChannelsOf, Zenon DEF IInv, NotifierProtocol, Notify
<1> QED
  BY <1>1, <1>3 DEF IInv

LEMMA RxMessageOK ==
  ASSUME IInv, NEW c \in Channels, RxMessage(c)
  PROVE  IInv'
<1> DEFINE n == RxNotifier(c)
<1>1. n \in Notifiers
  BY ChannelsOf
<1>2. inbox' \in Seq(Senders)
  BY ReceivedOK DEF IInv, TypeOK, Senders, RxMessage
<1>3. /\ client' \in [Clients -> {"running", "sent", "waiting"}]
      /\ request' \in [Clients -> Requests]
  <2>1. PICK cls : Return(cls)
    BY DEF RxMessage
  <2> QED
    BY <2>1, ReturnOK DEF IInv, TypeOK, Requests
<1>4. /\ notifier' \in [Notifiers -> {"held", "awaiting", "sent"}]
      /\ notifier'[n] = "held"
      /\ \A m \in Notifiers : m # n => notifier'[m] = notifier[m]
  BY <1>1 DEF IInv, TypeOK, RxMessage
<1>5. /\ getc_wait_list' \in [Channels -> Seq(Clients)]
      /\ getc_wait_list'[c] = << >>
      /\ \A d \in Channels : d # c => getc_wait_list'[d] = getc_wait_list[d]
  <2>1. /\ getc_wait_list \in [Channels -> Seq(Clients)]
        /\ getc_wait_list' = [getc_wait_list EXCEPT ![c] = << >>]
    BY DEF IInv, TypeOK, RxMessage
  <2>2. << >> \in Seq(Clients)
    OBVIOUS
  <2> QED
    BY <2>1, <2>2, Zenon
<1>6. TypeOK'
  BY <1>2, <1>3, <1>4, <1>5 DEF IInv, TypeOK, Senders, Requests, RxMessage
<1>7. NotifierProtocol'
  BY <1>4, <1>5, ReceiveSide DEF IInv, RxMessage
<1> QED
  BY <1>6, <1>7 DEF IInv

LEMMA TxMessageOK ==
  ASSUME IInv, NEW c \in Channels, TxMessage(c)
  PROVE  IInv'
<1>1. inbox' \in Seq(Senders)
  BY ReceivedOK DEF IInv, TypeOK, Senders, TxMessage
<1>2. uart_tx_cb' \in [Channels -> 0 .. Capacity]
  BY LessRoom DEF IInv, TypeOK, TxMessage
<1>3. RearmTransmit(c)
  BY DEF TxMessage
<1>4. TypeOK'
  BY <1>1, <1>2, <1>3, RearmOK DEF IInv, TypeOK, Senders, TxMessage
<1>5. NotifierProtocol'
  BY <1>2, <1>3, RearmOK, TransmitSide DEF IInv, TypeOK, TxMessage
<1> QED
  BY <1>4, <1>5 DEF IInv

LEMMA TxMessageRefillOK ==
  ASSUME IInv, NEW c \in Channels, TxMessageRefill(c)
  PROVE  IInv'
<1> DEFINE node == putc_lists[c].wait.front
           read == [uart_tx_cb EXCEPT ![c] = @ - 1]
<1>1. inbox' \in Seq(Senders)
  BY ReceivedOK DEF IInv, TypeOK, Senders, TxMessageRefill
<1>2. /\ client' \in [Clients -> {"running", "sent", "waiting"}]
      /\ request' \in [Clients -> Requests]
  BY ReturnOK DEF IInv, TypeOK, Requests, TxMessageRefill
<1>3. uart_tx_cb' \in [Channels -> 0 .. Capacity]
  <2>1. read \in [Channels -> 0 .. Capacity]
    BY LessRoom DEF IInv, TypeOK, TxMessageRefill
  <2>2. read[msg_com] < Capacity /\ uart_tx_cb' = [read EXCEPT ![msg_com] = @ + 1]
    BY DEF TxMessageRefill
  <2> QED
    BY <2>1, <2>2, MoreRoom DEF IInv, TypeOK
<1>4. node_tid' \in [Channels -> [Nodes -> Clients \cup {NoClient}]]
  <2>1. node_tid' = [node_tid EXCEPT ![c][node] = NoClient]
    BY DEF TxMessageRefill
  <2> QED
    BY <2>1 DEF IInv, TypeOK
<1>5. RearmTransmit(c)
  BY DEF TxMessageRefill
<1>6. TypeOK'
  BY <1>1, <1>2, <1>3, <1>4, <1>5, RearmOK
     DEF IInv, TypeOK, Senders, Requests, TxMessageRefill
<1>7. NotifierProtocol'
  BY <1>3, <1>5, RearmOK, TransmitSide DEF IInv, TypeOK, TxMessageRefill
<1> QED
  BY <1>6, <1>7 DEF IInv

LEMMA GetcMessageOK ==
  ASSUME IInv, NEW cl \in Clients, GetcMessage(cl)
  PROVE  IInv'
<1> DEFINE c == request[cl].com
           n == RxNotifier(c)
<1>1. c \in Channels
  BY RequestOf DEF IInv, TypeOK, Requests
<1>2. n \in Notifiers
  BY <1>1, ChannelsOf
<1>3. inbox' \in Seq(Senders)
  BY ReceivedOK DEF IInv, TypeOK, Senders, GetcMessage
<1>4. client' \in [Clients -> {"running", "sent", "waiting"}]
  BY DEF IInv, TypeOK, GetcMessage
<1>5. /\ msg_com' = c
      /\ getc_wait_list' = [getc_wait_list EXCEPT ![c] = Append(@, cl)]
      /\ notifier' = IF getc_wait_list[c] = << >> THEN ReplyTo(notifier, n) ELSE notifier
  BY DEF GetcMessage
<1>6. /\ getc_wait_list' \in [Channels -> Seq(Clients)]
      /\ getc_wait_list'[c] # << >>
      /\ \A d \in Channels : d # c => getc_wait_list'[d] = getc_wait_list[d]
  <2>1. /\ getc_wait_list \in [Channels -> Seq(Clients)]
        /\ getc_wait_list[c] \in Seq(Clients)
    BY <1>1 DEF IInv, TypeOK
  <2>2. Append(getc_wait_list[c], cl) \in Seq(Clients)
        /\ Append(getc_wait_list[c], cl) # << >>
    BY <2>1
  <2> QED
    BY <1>1, <1>5, <2>1, <2>2, Zenon
<1>7. /\ notifier' \in [Notifiers -> {"held", "awaiting", "sent"}]
      /\ notifier'[n] # "held"
      /\ \A m \in Notifiers : m # n => notifier'[m] = notifier[m]
  <2>1. /\ ReplyTo(notifier, n) \in [Notifiers -> {"held", "awaiting", "sent"}]
        /\ ReplyTo(notifier, n)[n] # "held"
        /\ \A m \in Notifiers : m # n => ReplyTo(notifier, n)[m] = notifier[m]
    BY <1>2, ReplyToOK DEF IInv, TypeOK
  <2>2. getc_wait_list[c] # << >> => notifier[n] # "held"
    BY <1>1 DEF IInv, NotifierProtocol
  <2>3. notifier \in [Notifiers -> {"held", "awaiting", "sent"}]
    BY DEF IInv, TypeOK
  <2> QED
    BY <1>5, <2>1, <2>2, <2>3, Zenon
<1>8. TypeOK'
  BY <1>1, <1>3, <1>4, <1>5, <1>6, <1>7
     DEF IInv, TypeOK, Senders, Requests, GetcMessage
<1>9. tx_notifier_awaiting' = tx_notifier_awaiting
  BY DEF GetcMessage
<1>10. NotifierProtocol'
  BY <1>1, <1>6, <1>7, <1>9, ReceiveSide DEF IInv
<1> QED
  BY <1>8, <1>10 DEF IInv

LEMMA PutcMessageOK ==
  ASSUME IInv, NEW cl \in Clients, PutcMessage(cl)
  PROVE  IInv'
<1> DEFINE c == request[cl].com
           n == TxNotifier(c)
<1>1. c \in Channels
  BY RequestOf DEF IInv, TypeOK, Requests
<1>2. n \in Notifiers
  BY <1>1, ChannelsOf
<1>3. inbox' \in Seq(Senders)
  BY ReceivedOK DEF IInv, TypeOK, Senders, PutcMessage
<1>4. /\ client' \in [Clients -> {"running", "sent", "waiting"}]
      /\ request' \in [Clients -> Requests]
  BY ReturnOK DEF IInv, TypeOK, Requests, PutcMessage
<1>5. /\ msg_com' = c
      /\ uart_tx_cb[c] < Capacity
      /\ uart_tx_cb' = [uart_tx_cb EXCEPT ![c] = @ + 1]
      /\ tx_notifier_awaiting' = [tx_notifier_awaiting EXCEPT ![c] = TRUE]
      /\ notifier' = IF tx_notifier_awaiting[c] THEN notifier ELSE ReplyTo(notifier, n)
  BY DEF PutcMessage
<1>6. uart_tx_cb' \in [Channels -> 0 .. Capacity]
  BY <1>1, <1>5, MoreRoom DEF IInv, TypeOK
<1>7. /\ tx_notifier_awaiting' \in [Channels -> BOOLEAN]
      /\ tx_notifier_awaiting'[c]
      /\ \A d \in Channels : d # c => tx_notifier_awaiting'[d] = tx_notifier_awaiting[d]
  <2>1. tx_notifier_awaiting \in [Channels -> BOOLEAN]
    BY DEF IInv, TypeOK
  <2> QED
    BY <1>1, <1>5, <2>1, Zenon
<1>8. /\ notifier' \in [Notifiers -> {"held", "awaiting", "sent"}]
      /\ notifier'[n] # "held"
      /\ \A m \in Notifiers : m # n => notifier'[m] = notifier[m]
  <2>1. /\ ReplyTo(notifier, n) \in [Notifiers -> {"held", "awaiting", "sent"}]
        /\ ReplyTo(notifier, n)[n] # "held"
        /\ \A m \in Notifiers : m # n => ReplyTo(notifier, n)[m] = notifier[m]
    BY <1>2, ReplyToOK DEF IInv, TypeOK
  <2>2. tx_notifier_awaiting[c] => notifier[n] # "held"
    BY <1>1, Zenon DEF IInv, NotifierProtocol
  <2>3. notifier \in [Notifiers -> {"held", "awaiting", "sent"}]
    BY DEF IInv, TypeOK
  <2> QED
    BY <1>5, <2>1, <2>2, <2>3, Zenon
<1>9. TypeOK'
  BY <1>1, <1>3, <1>4, <1>5, <1>6, <1>7, <1>8
     DEF IInv, TypeOK, Senders, Requests, PutcMessage
<1>10. getc_wait_list' = getc_wait_list
  BY DEF PutcMessage
<1>11. NotifierProtocol'
  BY <1>1, <1>7, <1>8, <1>10, TransmitSide, Zenon DEF IInv
<1> QED
  BY <1>9, <1>11 DEF IInv

LEMMA PutcMessageWaitsOK ==
  ASSUME IInv, NEW cl \in Clients, PutcMessageWaits(cl)
  PROVE  IInv'
<1> DEFINE c    == request[cl].com
           node == putc_lists[c].free.front
<1>1. c \in Channels
  BY RequestOf DEF IInv, TypeOK, Requests
<1>2. inbox' \in Seq(Senders)
  BY ReceivedOK DEF IInv, TypeOK, Senders, PutcMessageWaits
<1>3. client' \in [Clients -> {"running", "sent", "waiting"}]
  BY DEF IInv, TypeOK, PutcMessageWaits
<1>4. msg_com' = c /\ node_tid' = [node_tid EXCEPT ![c][node] = cl]
  BY DEF PutcMessageWaits
<1>5. node_tid' \in [Channels -> [Nodes -> Clients \cup {NoClient}]]
  BY <1>4 DEF IInv, TypeOK
<1>6. TypeOK'
  BY <1>1, <1>2, <1>3, <1>4, <1>5 DEF IInv, TypeOK, Senders, Requests, PutcMessageWaits
<1>7. NotifierProtocol'
  BY DEF IInv, NotifierProtocol, PutcMessageWaits
<1> QED
  BY <1>6, <1>7 DEF IInv

LEMMA FailureOK ==
  ASSUME IInv,
         \/ \E c \in Channels : TxMessageFails(c)
         \/ \E cl \in Clients : PutcMessageFails(cl)
  PROVE  IInv'
<1>1. \E sender : Received(sender)
  BY DEF TxMessageFails, PutcMessageFails
<1>2. inbox' \in Seq(Senders)
  BY <1>1, ReceivedOK DEF IInv, TypeOK, Senders
<1>3. /\ UNCHANGED <<client, request, notifier, msg_com, tx_notifier_awaiting,
                     uart_tx_cb, getc_wait_list, putc_lists, node_tid>>
      /\ failed' \in {"no free node", "no room for a waiting byte"}
  BY DEF TxMessageFails, PutcMessageFails
<1>4. TypeOK'
  BY <1>2, <1>3 DEF IInv, TypeOK, Senders
<1>5. NotifierProtocol'
  BY <1>3 DEF IInv, NotifierProtocol
<1> QED
  BY <1>4, <1>5 DEF IInv

LEMMA StepOK == IInv /\ [Next]_vars => IInv'
<1> SUFFICES ASSUME IInv, [Next]_vars PROVE IInv'
  OBVIOUS
<1>1. CASE UNCHANGED vars
  BY <1>1 DEF vars, IInv, TypeOK, NotifierProtocol
<1>2. CASE Server
  <2>1. ASSUME NEW c \in Channels, RxMessage(c) PROVE IInv'
    BY <2>1, RxMessageOK
  <2>2. ASSUME NEW c \in Channels, TxMessage(c) PROVE IInv'
    BY <2>2, TxMessageOK
  <2>3. ASSUME NEW c \in Channels, TxMessageRefill(c) PROVE IInv'
    BY <2>3, TxMessageRefillOK
  <2>4. ASSUME NEW cl \in Clients, GetcMessage(cl) PROVE IInv'
    BY <2>4, GetcMessageOK
  <2>5. ASSUME NEW cl \in Clients, PutcMessage(cl) PROVE IInv'
    BY <2>5, PutcMessageOK
  <2>6. ASSUME NEW cl \in Clients, PutcMessageWaits(cl) PROVE IInv'
    BY <2>6, PutcMessageWaitsOK
  <2> QED
    BY <1>2, <2>1, <2>2, <2>3, <2>4, <2>5, <2>6, FailureOK DEF Server
<1>3. ASSUME NEW cl \in Clients, NEW operation \in {GETC, PUTC}, NEW c \in Channels,
             Call(cl, operation, c)
      PROVE  IInv'
  BY <1>3, CallOK
<1>4. ASSUME NEW n \in Notifiers, Notify(n) PROVE IInv'
  BY <1>4, NotifyOK
<1> QED
  BY <1>1, <1>2, <1>3, <1>4 DEF Next, Stopped

\* The types and the notifiers' protocol carry each other through every step.
THEOREM Inductive == Spec => []IInv
BY InitOK, StepOK, PTL DEF Spec

\* No step of the server takes a buffer past its room or a request to a channel
\* there is not.
THEOREM TypeCorrect == Spec => []TypeOK
<1>1. IInv => TypeOK
  BY DEF IInv
<1> QED
  BY <1>1, Inductive, PTL

\* A receive notifier is held exactly while nobody waits in Getc, a transmit
\* notifier exactly while tx_notifier_awaiting is clear: the server never
\* replies to one that does not wait, nor lets one wait that somebody needs.
THEOREM Protocol == Spec => []NotifierProtocol
<1>1. IInv => NotifierProtocol
  BY DEF IInv
<1> QED
  BY <1>1, Inductive, PTL

-----------------------------------------------------------------------------
(* The clients and the lists they wait on.                                 *)

Operations == {GETC, PUTC}

\* Client cl waits, and what for.
Waits(cl, operation, c) ==
  client[cl] = "waiting" /\ request[cl] = [operation |-> operation, com |-> c]

\* A client is in the server's queue once, while it is "sent".
QueueOK ==
  \A cl \in Clients : \A i \in DOMAIN inbox : inbox[i] = Client(cl) =>
    client[cl] = "sent" /\ \A j \in DOMAIN inbox : inbox[j] = Client(cl) => i = j

\* The wait list of a channel is the clients that wait in Getc, each once.
GettersOf(c) ==
  /\ \A i \in DOMAIN getc_wait_list[c] : Waits(getc_wait_list[c][i], GETC, c)
  /\ \A i, j \in DOMAIN getc_wait_list[c] :
       getc_wait_list[c][i] = getc_wait_list[c][j] => i = j
  /\ \A cl \in Clients : Waits(cl, GETC, c) =>
       \E i \in DOMAIN getc_wait_list[c] : getc_wait_list[c][i] = cl

\* The nodes in use are those of the clients that wait in Putc, one each.
PuttersOf(c) ==
  /\ \A n \in WaitNodes(c) : node_tid[c][n] \in Clients /\ Waits(node_tid[c][n], PUTC, c)
  /\ \A n, k \in WaitNodes(c) : node_tid[c][n] = node_tid[c][k] => n = k
  /\ \A cl \in Clients : Waits(cl, PUTC, c) => \E n \in WaitNodes(c) : node_tid[c][n] = cl

GettersOK == \A c \in Channels : GettersOf(c)
PuttersOK == \A c \in Channels : PuttersOf(c)

\* The links of each channel are arranged in a free list and a wait list.
ListsOK ==
  /\ putc_lists \in [Channels -> Links]
  /\ \A c \in Channels : ArrangedOK(putc_lists[c])

\* Everything about the lists and who waits on them.
WaitersOK == GettersOK /\ PuttersOK /\ ListsOK

\* The inductive invariant of ClientsAccounted.
ListInv == IInv /\ QueueOK /\ WaitersOK

\* The names of the senders are all different.
LEMMA ClientNames ==
  /\ \A cl, x \in Clients : Client(cl) = Client(x) => cl = x
  /\ \A cl \in Clients : Client(cl) \notin Notifiers
BY DEF Client, Notifiers

\* A message is queued.
LEMMA QueueSent ==
  ASSUME TypeOK, QueueOK, NEW sender \in Senders, inbox' = Append(inbox, sender),
         \A x \in Clients : client[x] = "sent" => client'[x] = "sent",
         \A x \in Clients : sender = Client(x) => client[x] # "sent" /\ client'[x] = "sent"
  PROVE  QueueOK'
<1>1. /\ inbox \in Seq(Senders) /\ Len(inbox) \in Nat /\ DOMAIN inbox = 1 .. Len(inbox)
      /\ DOMAIN inbox' = 1 .. Len(inbox) + 1
      /\ \A i \in DOMAIN inbox : inbox'[i] = inbox[i]
      /\ inbox'[Len(inbox) + 1] = sender
  <2>1. inbox \in Seq(Senders)
    BY DEF TypeOK, Senders
  <2>2. QED
    BY <2>1
<1>2. \A i \in DOMAIN inbox' : i = Len(inbox) + 1 \/ i \in DOMAIN inbox
  BY <1>1
<1>3. ASSUME NEW x \in Clients, NEW i \in DOMAIN inbox', inbox'[i] = Client(x)
      PROVE  client'[x] = "sent" /\ \A j \in DOMAIN inbox' : inbox'[j] = Client(x) => i = j
  <2>1. CASE sender = Client(x)
    <3>1. \A k \in DOMAIN inbox : inbox[k] # Client(x)
      BY <2>1 DEF QueueOK
    <3>2. QED
      BY <1>1, <1>2, <1>3, <2>1, <3>1
  <2>2. CASE sender # Client(x)
    <3>1. i \in DOMAIN inbox /\ inbox[i] = Client(x)
      BY <1>1, <1>2, <1>3, <2>2
    <3>2. client[x] = "sent" /\ \A j \in DOMAIN inbox : inbox[j] = Client(x) => i = j
      BY <3>1 DEF QueueOK
    <3>3. QED
      BY <1>1, <1>2, <2>2, <3>2
  <2>3. QED
    BY <2>1, <2>2
<1>4. QED
  BY <1>3 DEF QueueOK

\* A message is taken off the queue.
LEMMA QueueTaken ==
  ASSUME TypeOK, QueueOK, NEW sender, Received(sender),
         \A x \in Clients : sender # Client(x) => (client[x] = "sent" => client'[x] = "sent")
  PROVE  QueueOK' /\ \A x \in Clients : sender = Client(x) => client[x] = "sent"
<1>1. /\ inbox \in Seq(Senders) /\ inbox # << >> /\ inbox' = Tail(inbox) /\ inbox[1] = sender
  <2>1. inbox \in Seq(Senders)
    BY DEF TypeOK, Senders
  <2>2. QED
    BY <2>1 DEF Received
<1>2. /\ Len(inbox) \in Nat \ {0} /\ DOMAIN inbox = 1 .. Len(inbox) /\ 1 \in DOMAIN inbox
      /\ DOMAIN inbox' = 1 .. Len(inbox) - 1
      /\ \A i \in DOMAIN inbox' : inbox'[i] = inbox[i + 1]
  BY <1>1
<1>3. \A i \in DOMAIN inbox' : i + 1 \in DOMAIN inbox /\ i + 1 # 1
  BY <1>2
<1>4. \A i, j \in DOMAIN inbox' : i + 1 = j + 1 => i = j
  BY <1>2
<1>5. ASSUME NEW x \in Clients, NEW i \in DOMAIN inbox', inbox'[i] = Client(x)
      PROVE  client'[x] = "sent" /\ \A j \in DOMAIN inbox' : inbox'[j] = Client(x) => i = j
  <2>1. inbox[i + 1] = Client(x) /\ i + 1 \in DOMAIN inbox /\ i + 1 # 1
    BY <1>2, <1>3, <1>5
  <2>2. client[x] = "sent" /\ \A j \in DOMAIN inbox : inbox[j] = Client(x) => i + 1 = j
    BY <2>1 DEF QueueOK
  <2>3. sender # Client(x)
    BY <1>1, <1>2, <2>1, <2>2
  <2>4. QED
    BY <1>2, <1>3, <1>4, <2>2, <2>3
<1>6. \A x \in Clients : sender = Client(x) => client[x] = "sent"
  BY <1>1, <1>2 DEF QueueOK
<1>7. QED
  BY <1>5, <1>6 DEF QueueOK

\* The wait lists of Getc hold clients.
LEMMA GettersTyped ==
  ASSUME TypeOK, NEW c \in Channels, NEW i \in DOMAIN getc_wait_list[c]
  PROVE  getc_wait_list[c][i] \in Clients
<1>1. getc_wait_list[c] \in Seq(Clients)
  BY DEF TypeOK
<1>2. QED
  BY <1>1

\* Steps that leave the lists alone and let nobody begin or stop waiting.
LEMMA SameWaiters ==
  ASSUME WaitersOK, UNCHANGED <<getc_wait_list, putc_lists, node_tid>>,
         TypeOK,
         \A x \in Clients, operation \in Operations, c \in Channels :
           Waits(x, operation, c)' <=> Waits(x, operation, c)
  PROVE  WaitersOK'
<1>1. \A c \in Channels : WaitNodes(c)' = WaitNodes(c)
  BY DEF WaitNodes
<1>2. \A c \in Channels : \A i \in DOMAIN getc_wait_list[c] : getc_wait_list[c][i] \in Clients
  BY GettersTyped
<1>3. GettersOK'
  BY <1>2 DEF WaitersOK, GettersOK, GettersOf, Operations
<1>4. PuttersOK'
  BY <1>1 DEF WaitersOK, PuttersOK, PuttersOf, Operations
<1>5. ListsOK'
  BY DEF WaitersOK, ListsOK
<1>6. QED
  BY <1>3, <1>4, <1>5 DEF WaitersOK

\* Nobody waits after start-up.
LEMMA InitLists == Init => QueueOK /\ WaitersOK
<1>1. SUFFICES ASSUME Init PROVE QueueOK /\ WaitersOK
  OBVIOUS
<1>2. /\ inbox = << >> /\ client = [cl \in Clients |-> "running"]
      /\ getc_wait_list = [c \in Channels |-> << >>]
      /\ putc_lists = [c \in Channels |-> InitialLists]
  BY <1>1 DEF Init
<1>3. QueueOK /\ GettersOK
  BY <1>2 DEF QueueOK, GettersOK, GettersOf, Waits
<1>4. ListsOK
  BY <1>2, InitArranged DEF ListsOK, ArrangedOK
<1>5. \A c \in Channels : WaitNodes(c) = {}
  <2>1. Linked(InitialLists, "wait", [i \in 1 .. 0 |-> i], 0) /\ InitialLists \in Links
    BY InitArranged DEF Linked, InitialLists, EmptyList, ArrangedOK
  <2>2. NodesOf(InitialLists, "wait") = {}
    <3>1. NodesOf(InitialLists, "wait") = {[i \in 1 .. 0 |-> i][j] : j \in 1 .. 0}
      BY <2>1, NodesValue DEF Both
    <3>2. QED
      BY <3>1
  <2>3. QED
    BY <1>2, <2>2 DEF WaitNodes
<1>6. PuttersOK
  BY <1>2, <1>5 DEF PuttersOK, PuttersOf, Waits
<1>7. QED
  BY <1>3, <1>4, <1>6 DEF WaitersOK

\* A call: the caller is queued, and does not wait yet.
LEMMA CallLists ==
  ASSUME ListInv, NEW cl \in Clients, NEW operation \in Operations, NEW c \in Channels,
         Call(cl, operation, c)
  PROVE  QueueOK' /\ WaitersOK'
<1>1. /\ TypeOK /\ QueueOK /\ WaitersOK
      /\ client[cl] = "running" /\ client' = [client EXCEPT ![cl] = "sent"]
      /\ request' = [request EXCEPT ![cl] = [operation |-> operation, com |-> c]]
      /\ inbox' = Append(inbox, Client(cl)) /\ UNCHANGED <<getc_wait_list, putc_lists, node_tid>>
  BY DEF ListInv, IInv, Call
<1>2. \A x \in Clients : /\ client'[x] = IF x = cl THEN "sent" ELSE client[x]
                         /\ x # cl => request'[x] = request[x]
  BY <1>1 DEF TypeOK
<1>3. QueueOK'
  <2>1. Client(cl) \in Senders
    BY DEF Senders
  <2>2. QED
    BY <1>1, <1>2, <2>1, QueueSent, ClientNames
<1>4. WaitersOK'
  <2>1. \A x \in Clients, op \in Operations, d \in Channels :
          Waits(x, op, d)' <=> Waits(x, op, d)
    BY <1>1, <1>2 DEF Waits
  <2>2. QED
    BY <1>1, <2>1, SameWaiters
<1>5. QED
  BY <1>3, <1>4

\* A notifier reports: nothing changes for the clients.
LEMMA NotifyLists ==
  ASSUME ListInv, NEW n \in Notifiers, Notify(n)
  PROVE  QueueOK' /\ WaitersOK'
<1>1. /\ TypeOK /\ QueueOK /\ WaitersOK /\ n \in Senders
      /\ inbox' = Append(inbox, n)
      /\ UNCHANGED <<client, request, getc_wait_list, putc_lists, node_tid>>
  BY DEF ListInv, IInv, Notify, Senders
<1>2. QueueOK'
  BY <1>1, QueueSent, ClientNames
<1>3. \A x \in Clients, op \in Operations, d \in Channels : Waits(x, op, d)' <=> Waits(x, op, d)
  BY <1>1 DEF Waits
<1>4. WaitersOK'
  BY <1>1, <1>3, SameWaiters
<1>5. QED
  BY <1>2, <1>4

\* Who is replied to no longer waits, and nobody else is concerned.
LEMMA Returned ==
  ASSUME TypeOK, NEW cls, Return(cls)
  PROVE  /\ \A x \in Clients : client[x] = "sent" /\ x \notin cls => client'[x] = "sent"
         /\ \A x \in Clients, op \in Operations, d \in Channels :
              Waits(x, op, d)' <=> Waits(x, op, d) /\ x \notin cls
<1>1. \A x \in Clients : /\ client'[x] = IF x \in cls THEN "running" ELSE client[x]
                         /\ x \notin cls => request'[x] = request[x]
  BY DEF Return
<1>2. QED
  BY <1>1 DEF Waits

\* A byte is received: everyone who waits for one returns.
LEMMA RxMessageLists ==
  ASSUME ListInv, NEW c \in Channels, RxMessage(c)
  PROVE  QueueOK' /\ WaitersOK'
<1> DEFINE cls == {getc_wait_list[c][i] : i \in DOMAIN getc_wait_list[c]}
<1>1. /\ TypeOK /\ QueueOK /\ GettersOK /\ PuttersOK /\ ListsOK
      /\ Received(RxNotifier(c)) /\ Return(cls) /\ UNCHANGED <<putc_lists, node_tid>>
      /\ getc_wait_list' = [getc_wait_list EXCEPT ![c] = << >>]
  BY DEF ListInv, IInv, RxMessage, WaitersOK
<1>2. \A x \in cls : Waits(x, GETC, c)
  BY <1>1 DEF GettersOK, GettersOf
<1>3. \A x \in Clients : Waits(x, GETC, c) => x \in cls
  BY <1>1 DEF GettersOK, GettersOf
<1> HIDE DEF cls
<1>4. /\ \A x \in Clients : client[x] = "sent" /\ x \notin cls => client'[x] = "sent"
      /\ \A x \in Clients, op \in Operations, d \in Channels :
           Waits(x, op, d)' <=> Waits(x, op, d) /\ x \notin cls
  BY <1>1, Returned
<1>5. \A x \in Clients : client[x] = "sent" => x \notin cls
  BY <1>2 DEF Waits
<1>6. QueueOK'
  BY <1>1, <1>4, <1>5, QueueTaken
<1>7. /\ getc_wait_list'[c] = << >>
      /\ \A d \in Channels : d # c => getc_wait_list'[d] = getc_wait_list[d]
  BY <1>1 DEF TypeOK
<1>8. \A x \in cls, d \in Channels : d # c => ~Waits(x, GETC, d)
  BY <1>2 DEF Waits
<1>9. \A x \in cls, d \in Channels : ~Waits(x, PUTC, d)
  BY <1>2 DEF Waits, GETC, PUTC
<1>10. \A d \in Channels : \A i \in DOMAIN getc_wait_list[d] : getc_wait_list[d][i] \in Clients
  BY <1>1, GettersTyped
<1>11. ASSUME NEW d \in Channels PROVE GettersOf(d)'
  <2>1. CASE d = c
    <3>1. \A x \in Clients : ~Waits(x, GETC, c)'
      BY <1>3, <1>4 DEF Operations
    <3>2. QED
      BY <1>7, <2>1, <3>1 DEF GettersOf
  <2>2. CASE d # c
    <3>1. \A i \in DOMAIN getc_wait_list[d] : Waits(getc_wait_list[d][i], GETC, d)'
      BY <1>1, <1>4, <1>8, <1>10, <2>2 DEF GettersOK, GettersOf, Operations
    <3>2. \A x \in Clients : Waits(x, GETC, d)' => Waits(x, GETC, d)
      BY <1>4 DEF Operations
    <3>3. QED
      BY <1>1, <1>7, <2>2, <3>1, <3>2 DEF GettersOK, GettersOf
  <2>3. QED
    BY <2>1, <2>2
<1>12. PuttersOK'
  <2>1. \A d \in Channels : WaitNodes(d)' = WaitNodes(d)
    BY <1>1 DEF WaitNodes
  <2>2. \A x \in Clients, d \in Channels : Waits(x, PUTC, d)' <=> Waits(x, PUTC, d)
    BY <1>4, <1>9 DEF Operations
  <2>3. QED
    BY <1>1, <2>1, <2>2 DEF PuttersOK, PuttersOf
<1>13. ListsOK'
  BY <1>1 DEF ListsOK
<1>14. QED
  BY <1>6, <1>11, <1>12, <1>13 DEF WaitersOK, GettersOK

\* A byte is sent and nobody waits to put another.
LEMMA TxMessageLists ==
  ASSUME ListInv,
         \/ \E c \in Channels : TxMessage(c) \/ TxMessageFails(c)
         \/ \E cl \in Clients : PutcMessageFails(cl)
  PROVE  QueueOK' /\ WaitersOK'
<1>1. TypeOK /\ QueueOK /\ WaitersOK
  BY DEF ListInv, IInv
<1>2. UNCHANGED <<client, request, getc_wait_list, putc_lists, node_tid>>
  BY DEF TxMessage, TxMessageFails, PutcMessageFails
<1>3. PICK sender : Received(sender)
  BY DEF TxMessage, TxMessageFails, PutcMessageFails
<1>4. QueueOK'
  BY <1>1, <1>2, <1>3, QueueTaken
<1>5. \A x \in Clients, op \in Operations, d \in Channels : Waits(x, op, d)' <=> Waits(x, op, d)
  BY <1>2 DEF Waits
<1>6. WaitersOK'
  BY <1>1, <1>2, <1>5, SameWaiters
<1>7. QED
  BY <1>4, <1>6

\* A byte is sent and the first that waits in Putc returns; its node is given back.
LEMMA RefillLists ==
  ASSUME ListInv, NEW c \in Channels, TxMessageRefill(c)
  PROVE  QueueOK' /\ WaitersOK'
<1> DEFINE h == putc_lists[c]
           node == h.wait.front
           cl == node_tid[c][node]
<1>1. /\ TypeOK /\ QueueOK /\ GettersOK /\ PuttersOK /\ ListsOK
      /\ Received(TxNotifier(c)) /\ Return({cl}) /\ UNCHANGED getc_wait_list
      /\ node # Null
      /\ putc_lists' = [putc_lists EXCEPT ![c] =
                          list_push_back(list_pop_front(@, "wait"), "free", node)]
      /\ node_tid' = [node_tid EXCEPT ![c][node] = NoClient]
  BY DEF ListInv, IInv, TxMessageRefill, WaitersOK
<1>2. /\ putc_lists \in [Channels -> Links] /\ ArrangedOK(h)
      /\ \A d \in Channels : ArrangedOK(putc_lists[d])
  BY <1>1 DEF ListsOK
<1>3. /\ putc_lists'[c] = Give(h)
      /\ \A d \in Channels : d # c => putc_lists'[d] = putc_lists[d]
  BY <1>1, <1>2 DEF Give
<1>4. /\ ArrangedOK(putc_lists'[c]) /\ node \in WaitNodes(c)
      /\ WaitNodes(c)' = WaitNodes(c) \ {node}
      /\ \A d \in Channels : d # c => WaitNodes(d)' = WaitNodes(d)
  <2> DEFINE k == h
  <2>1. ArrangedOK(k) /\ k.wait.front # Null
    BY <1>1, <1>2
  <2> HIDE DEF k
  <2>2. /\ ArrangedOK(Give(k)) /\ k.wait.front \in NodesOf(k, "wait")
        /\ NodesOf(Give(k), "wait") = NodesOf(k, "wait") \ {k.wait.front}
    BY <2>1, Gives
  <2>3. QED
    BY <1>3, <2>2 DEF WaitNodes, k
<1>5. WaitNodes(c) \subseteq Nodes
  BY <1>2, Apart DEF WaitNodes
<1> HIDE DEF h, node
<1>6. /\ node_tid \in [Channels -> [Nodes -> Clients \cup {NoClient}]]
      /\ \A n \in Nodes : n # node => node_tid'[c][n] = node_tid[c][n]
      /\ \A d \in Channels : d # c => node_tid'[d] = node_tid[d]
  BY <1>1 DEF TypeOK
<1>7. cl \in Clients /\ Waits(cl, PUTC, c)
  BY <1>1, <1>4 DEF PuttersOK, PuttersOf
<1>8. \A n \in WaitNodes(c) : n # node => node_tid[c][n] # cl
  BY <1>1, <1>4 DEF PuttersOK, PuttersOf
<1> HIDE DEF cl
<1>9. /\ \A x \in Clients : client[x] = "sent" /\ x # cl => client'[x] = "sent"
      /\ \A x \in Clients, op \in Operations, d \in Channels :
           Waits(x, op, d)' <=> Waits(x, op, d) /\ x # cl
  <2>1. /\ \A x \in Clients : client[x] = "sent" /\ x \notin {cl} => client'[x] = "sent"
        /\ \A x \in Clients, op \in Operations, d \in Channels :
             Waits(x, op, d)' <=> Waits(x, op, d) /\ x \notin {cl}
    BY <1>1, Returned
  <2>2. QED
    BY <2>1
<1>10. QueueOK'
  <2>1. client[cl] # "sent"
    BY <1>7 DEF Waits
  <2>2. QED
    BY <1>1, <1>9, <2>1, QueueTaken
<1>11. \A d \in Channels : ~Waits(cl, GETC, d) /\ (d # c => ~Waits(cl, PUTC, d))
  BY <1>7 DEF Waits, GETC, PUTC
<1>12. GettersOK'
  <2>1. \A d \in Channels : \A i \in DOMAIN getc_wait_list[d] : getc_wait_list[d][i] \in Clients
    BY <1>1, GettersTyped
  <2>2. \A x \in Clients, d \in Channels : Waits(x, GETC, d)' <=> Waits(x, GETC, d)
    BY <1>9, <1>11 DEF Operations
  <2>3. QED
    BY <1>1, <2>1, <2>2 DEF GettersOK, GettersOf
<1>13. ASSUME NEW d \in Channels PROVE PuttersOf(d)'
  <2>1. CASE d = c
    <3>1. \A n \in WaitNodes(c)' : n \in WaitNodes(c) /\ n \in Nodes /\ n # node
                                   /\ node_tid'[c][n] = node_tid[c][n]
      BY <1>4, <1>5, <1>6
    <3>2. \A n \in WaitNodes(c)' :
            node_tid'[c][n] \in Clients /\ Waits(node_tid[c][n], PUTC, c)'
      <4>1. TAKE n \in WaitNodes(c)'
      <4>2. node_tid[c][n] \in Clients /\ Waits(node_tid[c][n], PUTC, c) /\ node_tid[c][n] # cl
        BY <1>1, <1>8, <3>1 DEF PuttersOK, PuttersOf
      <4>3. client'[node_tid[c][n]] = "waiting"
            /\ request'[node_tid[c][n]] = [operation |-> PUTC, com |-> c]
        <5>1. node_tid[c][n] \notin {cl}
          BY <4>2
        <5>2. QED
          BY <1>1, <4>2, <5>1 DEF Return, Waits
      <4>4. QED
        BY <3>1, <4>2, <4>3 DEF Waits
    <3>3. \A n, k \in WaitNodes(c)' : node_tid'[c][n] = node_tid'[c][k] => n = k
      BY <1>1, <3>1 DEF PuttersOK, PuttersOf
    <3>4. ASSUME NEW x \in Clients, Waits(x, PUTC, c)'
          PROVE  \E n \in WaitNodes(c)' : node_tid'[c][n] = x
      <4>1. Waits(x, PUTC, c) /\ x # cl
        BY <1>9, <3>4 DEF Operations
      <4>2. PICK n \in WaitNodes(c) : node_tid[c][n] = x
        BY <1>1, <4>1 DEF PuttersOK, PuttersOf
      <4>3. n # node
        BY <4>1, <4>2 DEF cl
      <4>4. QED
        BY <1>4, <3>1, <4>2, <4>3
    <3>5. QED
      BY <2>1, <3>2, <3>3, <3>4 DEF PuttersOf
  <2>2. CASE d # c
    <3>1. WaitNodes(d)' = WaitNodes(d) /\ node_tid'[d] = node_tid[d]
      BY <1>4, <1>6, <2>2
    <3>2. \A x \in Clients : Waits(x, PUTC, d)' <=> Waits(x, PUTC, d)
      BY <1>9, <1>11, <2>2 DEF Operations
    <3>3. QED
      BY <1>1, <3>1, <3>2 DEF PuttersOK, PuttersOf
  <2>3. QED
    BY <2>1, <2>2
<1>14. ListsOK'
  <2>1. putc_lists' \in [Channels -> Links]
    <3>1. putc_lists'[c] \in Links
      BY <1>4 DEF ArrangedOK
    <3>2. DOMAIN putc_lists' = Channels /\ putc_lists' = [d \in Channels |-> putc_lists'[d]]
      BY <1>1, <1>2
    <3>3. \A d \in Channels : putc_lists'[d] \in Links
      BY <1>2, <1>3, <3>1
    <3>4. QED
      BY <3>2, <3>3
  <2>2. QED
    BY <1>2, <1>3, <1>4, <2>1 DEF ListsOK
<1>15. QED
  BY <1>10, <1>12, <1>13, <1>14 DEF WaitersOK, PuttersOK

\* The request of a client by its operation.
LEMMA RequestIs ==
  ASSUME TypeOK, NEW cl \in Clients, NEW op \in Operations, request[cl].operation = op
  PROVE  \E c \in Channels : request[cl] = [operation |-> op, com |-> c]
<1>1. request[cl] \in [operation : {GETC, PUTC}, com : Channels] \cup {NoRequest}
  BY DEF TypeOK
<1>2. NoRequest.operation # op
  BY DEF NoRequest, Operations, GETC, PUTC
<1>3. request[cl] \in [operation : {GETC, PUTC}, com : Channels]
  BY <1>1, <1>2
<1>4. request[cl].com \in Channels /\ request[cl] = [operation |-> op, com |-> request[cl].com]
  BY <1>3
<1>5. QED
  BY <1>4

\* Getc: the caller is appended to the wait list of its channel.
LEMMA GetcMessageLists ==
  ASSUME ListInv, NEW cl \in Clients, GetcMessage(cl)
  PROVE  QueueOK' /\ WaitersOK'
<1>0. PICK c \in Channels : request[cl] = [operation |-> GETC, com |-> c]
  BY RequestIs DEF ListInv, IInv, GetcMessage, Operations
<1> DEFINE l == getc_wait_list[c]
<1>1. /\ TypeOK /\ QueueOK /\ GettersOK /\ PuttersOK /\ ListsOK
      /\ Received(Client(cl)) /\ UNCHANGED <<request, putc_lists, node_tid>>
      /\ getc_wait_list' = [getc_wait_list EXCEPT ![c] = Append(@, cl)]
      /\ client' = [client EXCEPT ![cl] = "waiting"]
  BY <1>0 DEF ListInv, IInv, GetcMessage, WaitersOK
<1>2. c \in Channels /\ request[cl] = [operation |-> GETC, com |-> c] /\ GETC \in Operations
  BY <1>0 DEF Operations
<1>3. \A x \in Clients : client'[x] = IF x = cl THEN "waiting" ELSE client[x]
  BY <1>1 DEF TypeOK
<1>4. QueueOK' /\ client[cl] = "sent"
  BY <1>1, <1>3, QueueTaken
<1>5. /\ \A x \in Clients, op \in Operations, d \in Channels :
           x # cl => (Waits(x, op, d)' <=> Waits(x, op, d))
      /\ \A op \in Operations, d \in Channels :
           /\ ~Waits(cl, op, d)
           /\ Waits(cl, op, d)' <=> op = GETC /\ d = c
  BY <1>1, <1>2, <1>3, <1>4 DEF Waits
<1>6. /\ l \in Seq(Clients) /\ Len(l) \in Nat /\ DOMAIN l = 1 .. Len(l)
      /\ getc_wait_list'[c] = Append(l, cl)
      /\ \A d \in Channels : d # c => getc_wait_list'[d] = getc_wait_list[d]
  <2>1. getc_wait_list \in [Channels -> Seq(Clients)]
    BY <1>1 DEF TypeOK
  <2>2. QED
    BY <1>1, <1>2, <2>1
<1>7. /\ DOMAIN getc_wait_list'[c] = 1 .. Len(l) + 1
      /\ getc_wait_list'[c][Len(l) + 1] = cl
      /\ \A i \in DOMAIN l : getc_wait_list'[c][i] = l[i] /\ l[i] \in Clients
  BY <1>6
<1>8. \A i \in DOMAIN getc_wait_list'[c] : i = Len(l) + 1 \/ i \in DOMAIN l
  BY <1>6, <1>7
<1>9. /\ \A i \in DOMAIN l : Waits(l[i], GETC, c) /\ l[i] # cl
      /\ \A i, j \in DOMAIN l : l[i] = l[j] => i = j
      /\ \A x \in Clients : Waits(x, GETC, c) => \E i \in DOMAIN l : l[i] = x
  BY <1>1, <1>2, <1>5 DEF GettersOK, GettersOf, Operations
<1>10. Len(l) + 1 \in DOMAIN getc_wait_list'[c] /\ DOMAIN l \subseteq DOMAIN getc_wait_list'[c]
  BY <1>6, <1>7
<1> HIDE DEF l
<1>11. ASSUME NEW d \in Channels PROVE GettersOf(d)'
  <2>1. CASE d = c
    <3>1. ASSUME NEW i \in DOMAIN getc_wait_list'[c]
          PROVE  client'[getc_wait_list'[c][i]] = "waiting"
                 /\ request'[getc_wait_list'[c][i]] = [operation |-> GETC, com |-> c]
      <4>1. CASE i = Len(l) + 1
        BY <1>1, <1>2, <1>3, <1>7, <4>1
      <4>2. CASE i \in DOMAIN l
        BY <1>1, <1>3, <1>7, <1>9, <4>2 DEF Waits
      <4>3. QED
        BY <1>8, <4>1, <4>2
    <3>2. \A i, j \in DOMAIN getc_wait_list'[c] :
            getc_wait_list'[c][i] = getc_wait_list'[c][j] => i = j
      BY <1>7, <1>8, <1>9
    <3>3. ASSUME NEW x \in Clients, Waits(x, GETC, c)'
          PROVE  \E i \in DOMAIN getc_wait_list'[c] : getc_wait_list'[c][i] = x
      <4>1. CASE x = cl
        BY <1>7, <1>10, <4>1
      <4>2. CASE x # cl
        <5>1. Waits(x, GETC, c)
          BY <1>2, <1>5, <3>3, <4>2 DEF Operations
        <5>2. QED
          BY <1>7, <1>9, <1>10, <5>1
      <4>3. QED
        BY <4>1, <4>2
    <3>4. QED
      BY <2>1, <3>1, <3>2, <3>3 DEF GettersOf, Waits
  <2>2. CASE d # c
    <3>1. GettersOf(d) /\ getc_wait_list'[d] = getc_wait_list[d]
      BY <1>1, <1>6, <2>2 DEF GettersOK
    <3>2. \A x \in Clients : Waits(x, GETC, d)' <=> Waits(x, GETC, d)
      BY <1>5, <2>2 DEF Operations
    <3>3. \A i \in DOMAIN getc_wait_list[d] : getc_wait_list[d][i] \in Clients
      BY <1>1, GettersTyped
    <3>4. QED
      BY <3>1, <3>2, <3>3 DEF GettersOf
  <2>3. QED
    BY <2>1, <2>2
<1>12. PuttersOK'
  <2>1. \A d \in Channels : WaitNodes(d)' = WaitNodes(d)
    BY <1>1 DEF WaitNodes
  <2>2. \A x \in Clients, d \in Channels : Waits(x, PUTC, d)' <=> Waits(x, PUTC, d)
    <3>1. GETC # PUTC
      BY DEF GETC, PUTC
    <3>2. QED
      BY <1>5, <3>1 DEF Operations
  <2>3. QED
    BY <1>1, <2>1, <2>2 DEF PuttersOK, PuttersOf
<1>13. ListsOK'
  BY <1>1 DEF ListsOK
<1>14. QED
  BY <1>4, <1>11, <1>12, <1>13 DEF WaitersOK, GettersOK

\* Putc with room in the buffer: the caller returns at once.
LEMMA PutcMessageLists ==
  ASSUME ListInv, NEW cl \in Clients, PutcMessage(cl)
  PROVE  QueueOK' /\ WaitersOK'
<1>1. /\ TypeOK /\ QueueOK /\ WaitersOK
      /\ Received(Client(cl)) /\ Return({cl}) /\ UNCHANGED <<getc_wait_list, putc_lists, node_tid>>
  BY DEF ListInv, IInv, PutcMessage
<1>2. /\ \A x \in Clients : client[x] = "sent" /\ x # cl => client'[x] = "sent"
      /\ \A x \in Clients, op \in Operations, d \in Channels :
           Waits(x, op, d)' <=> Waits(x, op, d) /\ x # cl
  <2>1. /\ \A x \in Clients : client[x] = "sent" /\ x \notin {cl} => client'[x] = "sent"
        /\ \A x \in Clients, op \in Operations, d \in Channels :
             Waits(x, op, d)' <=> Waits(x, op, d) /\ x \notin {cl}
    BY <1>1, Returned
  <2>2. QED
    BY <2>1
<1>3. QueueOK' /\ client[cl] = "sent"
  BY <1>1, <1>2, QueueTaken
<1>4. \A x \in Clients, op \in Operations, d \in Channels : Waits(x, op, d)' <=> Waits(x, op, d)
  <2>1. \A op, d : ~Waits(cl, op, d)
    BY <1>3 DEF Waits
  <2>2. QED
    BY <1>2, <2>1
<1>5. WaitersOK'
  BY <1>1, <1>4, SameWaiters
<1>6. QED
  BY <1>3, <1>5

\* Putc with a full buffer: the caller takes the first free node.
LEMMA PutcWaitsLists ==
  ASSUME ListInv, NEW cl \in Clients, PutcMessageWaits(cl)
  PROVE  QueueOK' /\ WaitersOK'
<1>0. PICK c \in Channels : request[cl] = [operation |-> PUTC, com |-> c]
  BY RequestIs DEF ListInv, IInv, PutcMessageWaits, Operations
<1>a. PICK h : h = putc_lists[c]
  OBVIOUS
<1>b. PICK node : node = h.free.front
  OBVIOUS
<1>1. /\ TypeOK /\ QueueOK /\ GettersOK /\ PuttersOK /\ ListsOK
      /\ Received(Client(cl)) /\ UNCHANGED <<request, getc_wait_list>>
      /\ node # Null
      /\ putc_lists' = [putc_lists EXCEPT ![c] =
                          list_push_back(list_pop_front(@, "free"), "wait", node)]
      /\ node_tid' = [node_tid EXCEPT ![c][node] = cl]
      /\ client' = [client EXCEPT ![cl] = "waiting"]
  BY <1>0, <1>a, <1>b DEF ListInv, IInv, PutcMessageWaits, WaitersOK
<1>2. c \in Channels /\ request[cl] = [operation |-> PUTC, com |-> c] /\ PUTC \in Operations
  BY <1>0 DEF Operations
<1>3. /\ putc_lists \in [Channels -> Links] /\ ArrangedOK(h)
      /\ \A d \in Channels : ArrangedOK(putc_lists[d])
  BY <1>1, <1>2, <1>a DEF ListsOK
<1>4. /\ putc_lists'[c] = Take(h)
      /\ \A d \in Channels : d # c => putc_lists'[d] = putc_lists[d]
  BY <1>1, <1>2, <1>3, <1>a, <1>b DEF Take
<1>5. /\ ArrangedOK(putc_lists'[c]) /\ node \in Nodes /\ node \notin WaitNodes(c)
      /\ WaitNodes(c)' = WaitNodes(c) \cup {node}
      /\ \A d \in Channels : d # c => WaitNodes(d)' = WaitNodes(d)
  <2>1. /\ ArrangedOK(Take(h)) /\ node \in Nodes /\ node \notin NodesOf(h, "wait")
        /\ NodesOf(Take(h), "wait") = NodesOf(h, "wait") \cup {node}
    BY <1>1, <1>3, <1>b, Takes
  <2>2. QED
    BY <1>4, <1>a, <2>1 DEF WaitNodes
<1>6. WaitNodes(c) \subseteq Nodes
  BY <1>3, Apart DEF WaitNodes
<1>7. /\ node_tid'[c][node] = cl
      /\ \A n \in Nodes : n # node => node_tid'[c][n] = node_tid[c][n]
      /\ \A d \in Channels : d # c => node_tid'[d] = node_tid[d]
  BY <1>1, <1>2, <1>5 DEF TypeOK
<1>8. \A x \in Clients : client'[x] = IF x = cl THEN "waiting" ELSE client[x]
  BY <1>1 DEF TypeOK
<1>9. QueueOK' /\ client[cl] = "sent"
  BY <1>1, <1>8, QueueTaken
<1>10. /\ \A x \in Clients, op \in Operations, d \in Channels :
            x # cl => (Waits(x, op, d)' <=> Waits(x, op, d))
       /\ \A op \in Operations, d \in Channels :
            /\ ~Waits(cl, op, d)
            /\ Waits(cl, op, d)' <=> op = PUTC /\ d = c
  BY <1>1, <1>2, <1>8, <1>9 DEF Waits
<1>11. GettersOK'
  <2>1. \A d \in Channels : \A i \in DOMAIN getc_wait_list[d] : getc_wait_list[d][i] \in Clients
    BY <1>1, GettersTyped
  <2>2. \A x \in Clients, d \in Channels : Waits(x, GETC, d)' <=> Waits(x, GETC, d)
    <3>1. GETC # PUTC
      BY DEF GETC, PUTC
    <3>2. QED
      BY <1>10, <3>1 DEF Operations
  <2>3. QED
    BY <1>1, <2>1, <2>2 DEF GettersOK, GettersOf
<1>12. /\ \A n \in WaitNodes(c) : /\ node_tid'[c][n] = node_tid[c][n] /\ n # node
                                  /\ node_tid[c][n] \in Clients \ {cl}
                                  /\ Waits(node_tid[c][n], PUTC, c)
       /\ \A n, k \in WaitNodes(c) : node_tid[c][n] = node_tid[c][k] => n = k
       /\ \A x \in Clients : Waits(x, PUTC, c) => \E n \in WaitNodes(c) : node_tid[c][n] = x
  <2>1. \A n \in WaitNodes(c) : node_tid'[c][n] = node_tid[c][n] /\ n # node
    BY <1>5, <1>6, <1>7
  <2>2. ~Waits(cl, PUTC, c)
    BY <1>2, <1>10 DEF Operations
  <2>3. QED
    BY <1>1, <1>2, <2>1, <2>2 DEF PuttersOK, PuttersOf
<1>13. ASSUME NEW d \in Channels PROVE PuttersOf(d)'
  <2>1. CASE d = c
    <3>1. ASSUME NEW n \in WaitNodes(c)'
          PROVE  /\ node_tid'[c][n] \in Clients
                 /\ client'[node_tid'[c][n]] = "waiting"
                 /\ request'[node_tid'[c][n]] = [operation |-> PUTC, com |-> c]
      <4>1. CASE n = node
        BY <1>1, <1>2, <1>7, <1>8, <4>1
      <4>2. CASE n \in WaitNodes(c)
        BY <1>1, <1>8, <1>12, <4>2 DEF Waits
      <4>3. QED
        BY <1>5, <4>1, <4>2
    <3>2. \A n, k \in WaitNodes(c)' : node_tid'[c][n] = node_tid'[c][k] => n = k
      BY <1>5, <1>7, <1>12
    <3>3. ASSUME NEW x \in Clients, Waits(x, PUTC, c)'
          PROVE  \E n \in WaitNodes(c)' : node_tid'[c][n] = x
      <4>1. CASE x = cl
        BY <1>5, <1>7, <4>1
      <4>2. CASE x # cl
        <5>1. Waits(x, PUTC, c)
          BY <1>2, <1>10, <3>3, <4>2 DEF Operations
        <5>2. QED
          BY <1>5, <1>12, <5>1
      <4>3. QED
        BY <4>1, <4>2
    <3>4. QED
      BY <2>1, <3>1, <3>2, <3>3 DEF PuttersOf, Waits
  <2>2. CASE d # c
    <3>1. WaitNodes(d)' = WaitNodes(d) /\ node_tid'[d] = node_tid[d] /\ PuttersOf(d)
      BY <1>1, <1>5, <1>7, <2>2 DEF PuttersOK
    <3>2. \A x \in Clients : Waits(x, PUTC, d)' <=> Waits(x, PUTC, d)
      BY <1>10, <2>2 DEF Operations
    <3>3. QED
      BY <3>1, <3>2 DEF PuttersOf
  <2>3. QED
    BY <2>1, <2>2
<1>14. ListsOK'
  <2>1. putc_lists' \in [Channels -> Links]
    <3>1. putc_lists'[c] \in Links
      BY <1>5 DEF ArrangedOK
    <3>2. putc_lists' = [d \in Channels |-> putc_lists'[d]]
      BY <1>1, <1>3
    <3>3. \A d \in Channels : putc_lists'[d] \in Links
      BY <1>3, <1>4, <3>1
    <3>4. QED
      BY <3>2, <3>3
  <2>2. QED
    BY <1>3, <1>4, <1>5, <2>1 DEF ListsOK
<1>15. QED
  BY <1>9, <1>11, <1>13, <1>14 DEF WaitersOK, PuttersOK

\* Every step keeps it so.
LEMMA NextListInv ==
  ASSUME ListInv, [Next]_vars
  PROVE  ListInv'
<1>1. IInv'
  BY StepOK DEF ListInv
<1>2. QueueOK' /\ WaitersOK'
  <2>1. CASE UNCHANGED vars
    <3>1. TypeOK /\ QueueOK /\ WaitersOK
          /\ UNCHANGED <<inbox, client, request, getc_wait_list, putc_lists, node_tid>>
      BY <2>1 DEF vars, ListInv, IInv
    <3>2. \A x \in Clients, op \in Operations, d \in Channels :
            Waits(x, op, d)' <=> Waits(x, op, d)
      BY <3>1 DEF Waits
    <3>3. WaitersOK'
      BY <3>1, <3>2, SameWaiters
    <3>4. QueueOK'
      BY <3>1 DEF QueueOK
    <3>5. QED
      BY <3>3, <3>4
  <2>2. CASE Server
    BY <2>2, RxMessageLists, TxMessageLists, RefillLists, GetcMessageLists,
       PutcMessageLists, PutcWaitsLists DEF Server
  <2>3. CASE \E cl \in Clients, operation \in {GETC, PUTC}, c \in Channels :
               Call(cl, operation, c)
    BY <2>3, CallLists DEF Operations
  <2>4. CASE \E n \in Notifiers : Notify(n)
    BY <2>4, NotifyLists
  <2>5. QED
    BY <2>1, <2>2, <2>3, <2>4 DEF Next, Stopped
<1>3. QED
  BY <1>1, <1>2 DEF ListInv

\* With the lists so, every client that waits is on one of them, once.
LEMMA Accounted == ListInv => ClientsAccounted
<1>1. SUFFICES ASSUME ListInv PROVE ClientsAccounted
  OBVIOUS
<1>2. TypeOK /\ GettersOK /\ PuttersOK /\ ListsOK
  BY <1>1 DEF ListInv, IInv, WaitersOK
<1>3. \A c \in Channels : WaitNodes(c) \cap FreeNodes(c) = {}
  BY <1>2, Apart DEF ListsOK, WaitNodes, FreeNodes
<1>4. ASSUME NEW cl \in Clients, NEW c \in Channels
      PROVE  LET getters == {i \in DOMAIN getc_wait_list[c] : getc_wait_list[c][i] = cl}
                 putters == {n \in WaitNodes(c) : node_tid[c][n] = cl}
                 called(operation) ==
                   client[cl] = "waiting" /\ request[cl] = [operation |-> operation, com |-> c]
             IN  /\ IF called(GETC) THEN \E i \in getters : getters = {i} ELSE getters = {}
                 /\ IF called(PUTC) THEN \E n \in putters : putters = {n} ELSE putters = {}
  <2> DEFINE getters == {i \in DOMAIN getc_wait_list[c] : getc_wait_list[c][i] = cl}
             putters == {n \in WaitNodes(c) : node_tid[c][n] = cl}
  <2>1. GettersOf(c) /\ PuttersOf(c)
    BY <1>2 DEF GettersOK, PuttersOK
  <2>2. IF Waits(cl, GETC, c) THEN \E i \in getters : getters = {i} ELSE getters = {}
    <3>1. CASE Waits(cl, GETC, c)
      <4>1. PICK i \in DOMAIN getc_wait_list[c] : getc_wait_list[c][i] = cl
        BY <2>1, <3>1 DEF GettersOf
      <4>2. getters = {i}
        BY <2>1, <4>1 DEF GettersOf
      <4>3. QED
        BY <3>1, <4>2
    <3>2. CASE ~Waits(cl, GETC, c)
      BY <2>1, <3>2 DEF GettersOf
    <3>3. QED
      BY <3>1, <3>2
  <2>3. IF Waits(cl, PUTC, c) THEN \E n \in putters : putters = {n} ELSE putters = {}
    <3>1. CASE Waits(cl, PUTC, c)
      <4>1. PICK n \in WaitNodes(c) : node_tid[c][n] = cl
        BY <2>1, <3>1 DEF PuttersOf
      <4>2. putters = {n}
        BY <2>1, <4>1 DEF PuttersOf
      <4>3. QED
        BY <3>1, <4>2
    <3>2. CASE ~Waits(cl, PUTC, c)
      BY <2>1, <3>2 DEF PuttersOf
    <3>3. QED
      BY <3>1, <3>2
  <2> HIDE DEF getters, putters
  <2>4. QED
    BY <2>2, <2>3 DEF Waits, getters, putters
<1>5. QED
  BY <1>2, <1>3, <1>4 DEF ClientsAccounted

\* The two lists of each channel and the queue, besides the invariant above.
THEOREM InductiveLists == Spec => []ListInv
<1>1. Init => ListInv
  BY InitOK, InitLists DEF ListInv
<1>2. ListInv /\ [Next]_vars => ListInv'
  BY NextListInv
<1>3. QED
  BY <1>1, <1>2, PTL DEF Spec

\* Whoever calls the server and however its buffers fill, a client it has not answered
\* is on the one wait list its request calls for, in one place of it.
THEOREM NobodyLost == Spec => []ClientsAccounted
<1>1. ListInv => ClientsAccounted
  BY Accounted
<1>2. QED
  BY <1>1, InductiveLists, PTL
=============================================================================
