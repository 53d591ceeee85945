----------------------------- MODULE LinkedLists -----------------------------
(***************************************************************************)
(* The singly linked lists of list.c and ordered_list.c: a record h holds  *)
(* one `next' link per node and any number of lists, each a front and a    *)
(* back node.  A node carries one link, so it is on one list at a time.    *)
(***************************************************************************)
EXTENDS Naturals, FiniteSets

Null == 0      \* nodes are numbered from 1

EmptyList == [front |-> Null, back |-> Null]

list_push_back(h, l, n) ==
  IF h[l].front = Null
  THEN [h EXCEPT !.next[n] = Null, ![l] = [front |-> n, back |-> n]]
  ELSE [h EXCEPT !.next = [@ EXCEPT ![h[l].back] = n, ![n] = Null],
                 ![l].back = n]

\* The node popped is h[l].front; an empty list stays as it is.
list_pop_front(h, l) ==
  LET n      == h[l].front
      second == h.next[n]
  IN  IF n = Null THEN h
      ELSE [h EXCEPT !.next[n] = Null,
                     ![l] = [front |-> second,
                             back  |-> IF second = Null THEN Null ELSE @.back]]

\* The nodes of list l from its front, then Null: one place more than nodes.
Places(h, l) ==
  LET at[k \in 1 .. Cardinality(DOMAIN h.next) + 1] ==
        IF k = 1 THEN h[l].front
        ELSE IF at[k - 1] = Null THEN Null
        ELSE h.next[at[k - 1]]
  IN  at

NodesOf(h, l) == {Places(h, l)[k] : k \in DOMAIN Places(h, l)} \ {Null}

\* The first place of list l that is empty or whose data is not smaller than n's.
PlaceOf(h, l, n, data) ==
  LET at == Places(h, l)
  IN  CHOOSE i \in DOMAIN at :
        /\ at[i] = Null \/ data[at[i]] >= data[n]
        /\ \A j \in 1 .. i - 1 : at[j] # Null /\ data[at[j]] < data[n]

ordered_list_add(h, l, n, data) ==
  LET k    == PlaceOf(h, l, n, data)
      cur  == Places(h, l)[k]
      prev == IF k = 1 THEN Null ELSE Places(h, l)[k - 1]
  IN  IF h[l].front = Null
      THEN [h EXCEPT !.next[n] = Null, ![l] = [front |-> n, back |-> n]]
      ELSE IF prev = Null
      THEN [h EXCEPT !.next[n] = cur, ![l].front = n]
      ELSE [h EXCEPT !.next = [@ EXCEPT ![prev] = n, ![n] = cur],
                     ![l].back = IF cur = Null THEN n ELSE @]
=============================================================================
