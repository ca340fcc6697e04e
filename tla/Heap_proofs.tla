------------------------------ MODULE Heap_proofs ------------------------------
(***************************************************************************)
(* For every heap and every sequence of calls: the nodes tile the memory,  *)
(* so that the blocks of the callers never overlap, and what has been      *)
(* freed is joined again.                                                  *)
(***************************************************************************)
EXTENDS Heap, TLAPS

\* The list and the memory agree: next leads to the node right behind, prev back.
Linked ==
  /\ first = NULL => DOMAIN mem = {}
  /\ first # NULL => Start \in DOMAIN mem
  /\ \A n \in DOMAIN mem : n >= Start
  /\ \A n \in DOMAIN mem : mem[n].next # NULL =>
        mem[n].next \in DOMAIN mem /\ mem[n].next = End(n) /\ mem[mem[n].next].prev = n
  /\ \A n \in DOMAIN mem : mem[n].prev # NULL =>
        mem[n].prev \in DOMAIN mem /\ mem[mem[n].prev].next = n

\* Nodes do not overlap, and only the one at the end has no successor.
Tiled ==
  /\ \A m, n \in DOMAIN mem : m < n => End(m) <= n
  /\ \A n \in DOMAIN mem : mem[n].next = NULL => \A m \in DOMAIN mem : m <= n

\* What a caller holds lies in a node that is used.
Held ==
  \A a \in DOMAIN live : \E n \in DOMAIN mem :
     a = n + HDR /\ mem[n].used /\ live[a] <= mem[n].size

\* malloc has passed over nodes that are used or too small only.
Searched ==
  pc = "alloc" =>
     /\ asked <= size
     /\ first # NULL => node # NULL
     /\ \A n \in DOMAIN mem : n < node => ~Fits(n)

\* Two unused neighbours are still in front of free's walk.
Walked == \A n \in DOMAIN mem : Joins(n) => pc = "free" /\ node # NULL /\ node <= n

\* The inductive invariant.
IInv == TypeOK /\ Linked /\ Tiled /\ Held /\ Searched /\ Walked

-----------------------------------------------------------------------------
\* Headers

\* A header is a header, with the fields that it is made of (heap.h hnode_t).
LEMMA HeaderType ==
  ASSUME NEW u \in BOOLEAN, NEW s \in Nat, NEW p \in Nat, NEW n \in Nat
  PROVE  hnode(u, s, p, n) \in Node
  BY DEF hnode, Node

LEMMA HeaderFields ==
  ASSUME NEW u, NEW s, NEW p, NEW n
  PROVE  /\ hnode(u, s, p, n).used = u /\ hnode(u, s, p, n).size = s
         /\ hnode(u, s, p, n).prev = p /\ hnode(u, s, p, n).next = n
  BY DEF hnode

\* The fields of every node have their types.
LEMMA NodeFields ==
  ASSUME TypeOK, NEW n \in DOMAIN mem
  PROVE  /\ mem[n].used \in BOOLEAN /\ mem[n].size \in Nat
         /\ mem[n].prev \in Nat /\ mem[n].next \in Nat
         /\ n \in Nat /\ n # 0 /\ End(n) \in Nat /\ n < End(n)
  <1>1. mem[n] \in Node /\ n \in Nat \ {0}
    BY DEF TypeOK, NULL
  <1> QED
    BY <1>1 DEF Node, End, HDR

-----------------------------------------------------------------------------
\* The allocation

\* Rounding up to whole headers loses nothing (types.h ALIGN).
LEMMA AlignRoundsUp == \A s \in Nat : Align(s) \in Nat /\ s <= Align(s)
  BY DEF Align, HDR

\* A block that is returned lies in its node, and the blocks that callers hold
\* stay where they are when the used nodes do (heap.c _heap_alloc).
LEMMA HeldStep ==
  ASSUME TypeOK, Held, NEW n \in DOMAIN mem', Return(n),
         mem'[n].used, asked <= mem'[n].size,
         \A m \in DOMAIN mem : mem[m].used =>
            m \in DOMAIN mem' /\ mem'[m].used /\ mem'[m].size = mem[m].size
  PROVE  Held'
  <1> SUFFICES ASSUME NEW a \in DOMAIN live'
               PROVE  \E m \in DOMAIN mem' :
                         a = m + HDR /\ mem'[m].used /\ live'[a] <= mem'[m].size
    BY DEF Held, HDR
  <1>1. CASE a = n + HDR
    BY <1>1 DEF Return
  <1>2. CASE a # n + HDR
    <2>1. a \in DOMAIN live /\ live'[a] = live[a]
      BY <1>2 DEF Return
    <2> QED
      BY <2>1 DEF Held
  <1> QED
    BY <1>1, <1>2

\* The types of the callers' view and the locals after a return.
LEMMA ReturnType ==
  ASSUME TypeOK, NEW n \in Nat, Return(n)
  PROVE  /\ pc' = "idle" /\ node' = NULL /\ size' \in Nat /\ asked' \in Nat
         /\ Blocks(live')
  BY DEF TypeOK, Return, Blocks, HDR

\* The first node (heap.c:36-46).
LEMMA CreateKeeps == ASSUME IInv, Create PROVE IInv'
  <1> USE HeapAssumption
  <1>1. /\ first = NULL /\ DOMAIN mem = {} /\ asked <= size /\ size \in Nat /\ asked \in Nat
        /\ first' = Start /\ Return(Start) /\ TypeOK /\ Held
    BY DEF IInv, Linked, Searched, Create, TypeOK
  <1>2. /\ DOMAIN mem' = {Start}
        /\ mem'[Start] = hnode(TRUE, size, NULL, NULL)
    BY DEF Create
  <1>3. TypeOK'
    <2>1. mem' \in [DOMAIN mem' -> Node]
      BY <1>1 DEF Create, Node, hnode, NULL
    <2> QED
      BY <1>1, <1>2, <2>1, ReturnType DEF TypeOK, NULL
  <1>4. Held'
    BY <1>1, <1>2, HeldStep DEF hnode
  <1>5. Linked' /\ Tiled'
    BY <1>1, <1>2 DEF Linked, Tiled, hnode, NULL
  <1>6. Searched'
    BY <1>1 DEF Searched, Return
  <1>7. Walked'
    BY <1>2 DEF Walked, Joins, hnode, NULL
  <1> QED
    BY <1>3, <1>4, <1>5, <1>6, <1>7 DEF IInv

\* A node that is split: the rest lies between it and its old successor, with
\* the room for its header (heap.c:52-79).
LEMMA SplitMemory ==
  ASSUME IInv, Split
  PROVE  LET new  == node + HDR + size
             next == mem[node].next
         IN /\ node \in DOMAIN mem /\ ~mem[node].used /\ new \notin DOMAIN mem
            /\ next # node /\ next # new /\ new # node
            /\ DOMAIN mem' = DOMAIN mem \cup {new}
            /\ mem'[new] = hnode(FALSE, mem[node].size - size - HDR, node, next)
            /\ mem'[node] = hnode(TRUE, size, mem[node].prev, new)
            /\ next # NULL => mem'[next] = hnode(mem[next].used, mem[next].size, new, mem[next].next)
            /\ \A m \in DOMAIN mem \ {node, next} : mem'[m] = mem[m]
            /\ mem[node].size - size - HDR \in Nat
  <1> DEFINE new  == node + HDR + size
             next == mem[node].next
  <1>1. /\ node \in DOMAIN mem /\ node \in Nat /\ size \in Nat /\ mem[node] \in Node
        /\ mem \in [DOMAIN mem -> Node] /\ DOMAIN mem \subseteq Nat
        /\ ~mem[node].used /\ size + 4 * HDR <= mem[node].size
    BY DEF IInv, TypeOK, Split, Fits, Free, Leftover, NULL, HDR, Node
  <1>2. new \notin DOMAIN mem /\ new # node
    <2>1. node < new /\ ~(End(node) <= new)
      BY <1>1 DEF End, HDR, Node
    <2> QED
      BY <1>1, <2>1 DEF IInv, Tiled
  <1>3. next # NULL => next \in DOMAIN mem /\ next = End(node)
    BY <1>1 DEF IInv, Linked
  <1>4. next # node /\ next # new
    BY <1>1, <1>2, <1>3 DEF End, HDR, NULL, Node, IInv, TypeOK
  <1>5. mem' = [n \in DOMAIN mem \cup {new} |->
                 IF n = new THEN Rest
                 ELSE IF n = node THEN hnode(TRUE, size, mem[n].prev, new)
                 ELSE IF n = next THEN hnode(mem[n].used, mem[n].size, new, mem[n].next)
                 ELSE mem[n]]
    BY DEF Split
  <1>6. mem'[new] = hnode(FALSE, mem[node].size - size - HDR, node, next)
    BY <1>5 DEF Rest, Leftover
  <1>7. mem'[node] = hnode(TRUE, size, mem[node].prev, new)
    BY <1>1, <1>2, <1>5
  <1>8. next # NULL =>
           mem'[next] = hnode(mem[next].used, mem[next].size, new, mem[next].next)
    BY <1>3, <1>4, <1>5
  <1>9. \A m \in DOMAIN mem \ {node, next} : mem'[m] = mem[m]
    BY <1>2, <1>5
  <1>10. DOMAIN mem' = DOMAIN mem \cup {new}
    BY <1>5
  <1>11. mem[node].size - size - HDR \in Nat
    BY <1>1 DEF HDR, Node
  <1> QED
    BY <1>1, <1>2, <1>4, <1>6, <1>7, <1>8, <1>9, <1>10, <1>11

LEMMA SplitKeeps == ASSUME IInv, Split PROVE IInv'
  <1> DEFINE new  == node + HDR + size
             next == mem[node].next
             EndThen(m) == m + HDR + mem'[m].size
  <1>1. /\ node \in DOMAIN mem /\ ~mem[node].used /\ new \notin DOMAIN mem
        /\ next # node /\ next # new /\ new # node
        /\ DOMAIN mem' = DOMAIN mem \cup {new}
        /\ mem'[new] = hnode(FALSE, mem[node].size - size - HDR, node, next)
        /\ mem'[node] = hnode(TRUE, size, mem[node].prev, new)
        /\ next # NULL => mem'[next] = hnode(mem[next].used, mem[next].size, new, mem[next].next)
        /\ \A m \in DOMAIN mem \ {node, next} : mem'[m] = mem[m]
        /\ mem[node].size - size - HDR \in Nat
    BY SplitMemory
  <1>2. /\ TypeOK /\ Linked /\ Tiled /\ Held /\ Searched /\ Walked
        /\ pc = "alloc" /\ first' = first /\ Return(node) /\ node # NULL
    BY DEF IInv, Split
  <1>3. /\ mem \in [DOMAIN mem -> Node] /\ DOMAIN mem \subseteq Nat \ {NULL}
        /\ size \in Nat /\ asked \in Nat /\ asked <= size /\ HDR = 32 /\ NULL = 0
        /\ node \in Nat /\ new \in Nat /\ new # NULL
        /\ \A m \in DOMAIN mem : mem[m] \in Node
        /\ mem[node].prev \in Nat /\ mem[node].size \in Nat
    BY <1>1, <1>2, NodeFields DEF TypeOK, Searched, NULL, HDR
  <1>4. next \in DOMAIN mem \cup {NULL}
    BY <1>1, <1>2 DEF Linked
  \* The nodes themselves
  <1>5. \A m \in DOMAIN mem' : mem'[m] \in Node
    <2> SUFFICES ASSUME NEW m \in DOMAIN mem' PROVE mem'[m] \in Node
      OBVIOUS
    <2>1. CASE m = new
      <3>1. next \in Nat
        BY <1>3, <1>4
      <3> QED
        <4>1. mem[node].size - size - HDR \in Nat /\ node \in Nat
          BY <1>1, <1>3
        <4>2. hnode(FALSE, mem[node].size - size - HDR, node, next) \in Node
          BY <3>1, <4>1 DEF hnode, Node
        <4> QED
          BY <1>1, <2>1, <4>2 DEF hnode
    <2>2. CASE m = node
      <3>1. hnode(TRUE, size, mem[node].prev, new) \in Node
        BY <1>3 DEF hnode, Node
      <3> QED
        BY <1>1, <2>2, <3>1 DEF hnode
    <2>3. CASE m = next /\ m \in DOMAIN mem
      <3>1. /\ mem[m].used \in BOOLEAN /\ mem[m].size \in Nat /\ mem[m].next \in Nat
        BY <1>2, <2>3, NodeFields
      <3>2. m # NULL
        BY <1>3, <2>3
      <3> QED
        BY <1>1, <1>3, <2>3, <3>1, <3>2, HeaderType
    <2>4. CASE m \in DOMAIN mem \ {node, next}
      BY <1>1, <1>3, <2>4
    <2> QED
      BY <1>1, <2>1, <2>2, <2>3, <2>4
  <1>6. TypeOK'
    <2>1. mem' \in [DOMAIN mem' -> Node]
      <3>1. mem' = [m \in DOMAIN mem' |-> mem'[m]]
        BY DEF Split
      <3> QED
        BY <1>5, <3>1
    <2>2. DOMAIN mem' \subseteq Nat \ {NULL}
      BY <1>1, <1>3
    <2>3. /\ pc' = "idle" /\ node' = NULL /\ size' \in Nat /\ asked' \in Nat /\ Blocks(live')
      BY <1>2, <1>3, ReturnType
    <2>4. first' \in {NULL, Start}
      BY <1>2 DEF TypeOK
    <2> QED
      BY <2>1, <2>2, <2>3, <2>4 DEF TypeOK
  \* The end of every node
  <1>7. /\ EndThen(node) = new /\ EndThen(new) = End(node)
        /\ \A m \in DOMAIN mem \ {node} : mem'[m].used = mem[m].used /\ mem'[m].size = mem[m].size
    <2>1. mem'[node].size = size /\ mem'[new].size = mem[node].size - size - HDR
      BY <1>1 DEF hnode
    <2>2. node + HDR + mem'[node].size = new
      BY <2>1
    <2>3. new + HDR + mem'[new].size = node + HDR + mem[node].size
      BY <1>3, <2>1
    <2>4. ASSUME NEW m \in DOMAIN mem \ {node}
          PROVE  mem'[m].used = mem[m].used /\ mem'[m].size = mem[m].size
      <3>1. CASE m = next
        BY <1>1, <1>3, <3>1, HeaderFields
      <3>2. CASE m # next
        BY <1>1, <3>2
      <3> QED
        BY <3>1, <3>2
    <2> QED
      BY <2>2, <2>3, <2>4 DEF End
  <1>8. \A m \in DOMAIN mem \ {node} : EndThen(m) = End(m)
    BY <1>7 DEF End
  <1>9. Held'
    <2>1. mem'[node].used /\ asked <= mem'[node].size
      BY <1>1, <1>3 DEF hnode
    <2> QED
      BY <1>1, <1>2, <1>7, <2>1, HeldStep
  <1>10. \A m, n \in DOMAIN mem' : m < n => EndThen(m) <= n
    <2> SUFFICES ASSUME NEW m \in DOMAIN mem', NEW n \in DOMAIN mem', m < n
                 PROVE  EndThen(m) <= n
      OBVIOUS
    <2>0. End(node) \in Nat /\ node < new /\ new < End(node)
      BY <1>1, <1>3 DEF End, Node
    <2>1. CASE m \in DOMAIN mem \ {node} /\ n \in DOMAIN mem
      BY <1>2, <1>8, <2>1 DEF Tiled
    <2>2. CASE m \in DOMAIN mem \ {node} /\ n = new
      <3>1. m < node \/ node < m
        BY <1>3, <2>2
      <3>2. CASE m < node
        BY <1>1, <1>2, <1>3, <1>8, <2>0, <2>2, <3>2 DEF Tiled, End, Node
      <3>3. CASE node < m
        BY <1>1, <1>2, <1>3, <2>0, <2>2, <3>3 DEF Tiled
      <3> QED
        BY <3>1, <3>2, <3>3
    <2>3. CASE m = node /\ n = new
      BY <1>3, <1>7, <2>3
    <2>4. CASE m = node /\ n \in DOMAIN mem
      <3>1. End(node) <= n
        BY <1>1, <1>2, <2>4 DEF Tiled
      <3> QED
        BY <1>3, <1>7, <2>0, <2>4, <3>1
    <2>5. CASE m = new /\ n \in DOMAIN mem
      <3>1. node < n
        BY <1>3, <2>0, <2>5
      <3>2. End(node) <= n
        BY <1>1, <1>2, <2>5, <3>1 DEF Tiled
      <3> QED
        BY <1>7, <2>5, <3>2
    <2> QED
      BY <1>1, <1>3, <2>1, <2>2, <2>3, <2>4, <2>5
  <1>11. \A n \in DOMAIN mem' : mem'[n].next = NULL => \A m \in DOMAIN mem' : m <= n
    <2> SUFFICES ASSUME NEW n \in DOMAIN mem', mem'[n].next = NULL, NEW m \in DOMAIN mem'
                 PROVE  m <= n
      OBVIOUS
    <2>0. End(node) \in Nat /\ node < new /\ new < End(node)
      BY <1>1, <1>3 DEF End, Node
    <2>1. CASE n = new
      <3>1. \A k \in DOMAIN mem : k <= node
        BY <1>1, <1>2, <2>1 DEF Tiled, hnode
      <3> QED
        BY <1>1, <1>3, <2>0, <2>1, <3>1
    <2>2. n # node
      BY <1>1, <1>3 DEF hnode
    <2>3. CASE n \in DOMAIN mem \ {node}
      <3>1. mem[n].next = NULL
        BY <1>1, <1>3, <1>4, <2>3 DEF hnode, Node
      <3>2. \A k \in DOMAIN mem : k <= n
        BY <1>2, <2>3, <3>1 DEF Tiled
      <3>3. End(node) <= n
        BY <1>1, <1>2, <1>3, <2>3, <3>2 DEF Tiled
      <3> QED
        BY <1>1, <1>3, <2>0, <3>2, <3>3
    <2> QED
      BY <1>1, <2>1, <2>2, <2>3
  <1>12. Linked'
    <2>1. \A n \in DOMAIN mem' : n >= Start
      BY <1>1, <1>2, <1>3, HeapAssumption DEF Linked
    <2>2. ASSUME NEW n \in DOMAIN mem', mem'[n].next # NULL
          PROVE  /\ mem'[n].next \in DOMAIN mem' /\ mem'[n].next = EndThen(n)
                 /\ mem'[mem'[n].next].prev = n
      <3>1. CASE n = new
        BY <1>1, <1>2, <1>4, <1>7, <2>2, <3>1 DEF Linked, hnode
      <3>2. CASE n = node
        BY <1>1, <1>7, <3>2 DEF hnode
      <3>3. CASE n \in DOMAIN mem \ {node}
        <4>1. mem'[n].next = mem[n].next
          BY <1>1, <1>3, <1>4, <3>3 DEF hnode, Node
        <4>2. /\ mem[n].next \in DOMAIN mem /\ mem[n].next = End(n)
              /\ mem[mem[n].next].prev = n
          BY <1>2, <2>2, <3>3, <4>1 DEF Linked
        <4>3. mem[n].next # next
          BY <1>1, <1>2, <1>3, <3>3, <4>2 DEF Linked
        <4>4. mem'[mem[n].next].prev = n
          BY <1>1, <4>2, <4>3 DEF hnode
        <4> QED
          BY <1>1, <1>8, <3>3, <4>1, <4>2, <4>4
      <3> QED
        BY <1>1, <3>1, <3>2, <3>3
    <2>3. ASSUME NEW n \in DOMAIN mem', mem'[n].prev # NULL
          PROVE  mem'[n].prev \in DOMAIN mem' /\ mem'[mem'[n].prev].next = n
      <3>1. CASE n = new
        BY <1>1, <3>1 DEF hnode
      <3>2. CASE n = next /\ n \in DOMAIN mem /\ n # node
        BY <1>1, <1>3, <3>2 DEF hnode
      <3>3. CASE n \in DOMAIN mem /\ (n = node \/ n # next)
        <4>1. mem'[n].prev = mem[n].prev
          BY <1>1, <3>3 DEF hnode
        <4>2. mem[n].prev \in DOMAIN mem /\ mem[mem[n].prev].next = n
          BY <1>2, <2>3, <3>3, <4>1 DEF Linked
        <4>3. mem[n].prev # node
          BY <1>1, <3>3, <4>2
        <4>4. mem'[mem[n].prev].next = n
          BY <1>1, <1>3, <1>4, <4>2, <4>3 DEF hnode, Node
        <4> QED
          BY <1>1, <4>1, <4>2, <4>4
      <3> QED
        BY <1>1, <3>1, <3>2, <3>3
    <2> QED
      BY <1>1, <1>2, <2>1, <2>2, <2>3 DEF Linked, End
  <1>13. Searched'
    BY <1>2 DEF Searched, Return
  <1>14. Walked'
    <2>1. \A n \in DOMAIN mem : ~Joins(n)
      BY <1>2 DEF Walked
    <2> SUFFICES ASSUME NEW n \in DOMAIN mem', Joins(n)'
                 PROVE  FALSE
      BY DEF Walked
    <2>2. ~mem'[n].used /\ mem'[n].prev # NULL /\ ~mem'[mem'[n].prev].used
      BY DEF Joins, Free
    <2>3. n # new /\ n # node
      BY <1>1, <2>2 DEF hnode
    <2>4. n \in DOMAIN mem /\ ~mem[n].used
      BY <1>1, <1>7, <2>2, <2>3
    <2>5. CASE n = next
      <3>1. mem[n].prev = node
        BY <1>1, <1>2, <1>3, <2>4, <2>5 DEF Linked
      <3> QED
        BY <1>1, <1>2, <2>1, <2>4, <3>1 DEF Joins, Free
    <2>6. CASE n # next
      <3>1. mem'[n].prev = mem[n].prev
        BY <1>1, <2>3, <2>4, <2>6
      <3>2. mem[n].prev \in DOMAIN mem
        BY <1>2, <2>2, <2>4, <3>1 DEF Linked
      <3>3. ~mem[mem[n].prev].used
        BY <1>1, <1>7, <2>2, <3>1, <3>2
      <3> QED
        BY <2>1, <2>2, <2>4, <3>1, <3>3 DEF Joins, Free
    <2> QED
      BY <2>5, <2>6
  <1> QED
    BY <1>6, <1>9, <1>10, <1>11, <1>12, <1>13, <1>14 DEF IInv, Tiled, End

\* Setting the used flag of a node changes nothing else.
LEMMA FlagMemory ==
  ASSUME TypeOK, NEW k \in DOMAIN mem, NEW flag \in BOOLEAN,
         mem' = [mem EXCEPT ![k].used = flag]
  PROVE  /\ DOMAIN mem' = DOMAIN mem
         /\ mem' \in [DOMAIN mem' -> Node]
         /\ \A m \in DOMAIN mem : /\ mem'[m].size = mem[m].size
                                  /\ mem'[m].prev = mem[m].prev
                                  /\ mem'[m].next = mem[m].next
                                  /\ m # k => mem'[m].used = mem[m].used
         /\ mem'[k].used = flag
  <1>1. mem \in [DOMAIN mem -> Node]
    BY DEF TypeOK
  <1>2. DOMAIN mem' = DOMAIN mem /\ mem' \in [DOMAIN mem -> Node]
    BY <1>1 DEF Node
  <1>3. mem'[k] = [mem[k] EXCEPT !.used = flag]
    BY <1>1
  <1>4. \A m \in DOMAIN mem : m # k => mem'[m] = mem[m]
    BY <1>1
  <1>5. mem[k] \in Node
    BY <1>1
  <1>6. /\ mem'[k].used = flag /\ mem'[k].size = mem[k].size
        /\ mem'[k].prev = mem[k].prev /\ mem'[k].next = mem[k].next
    BY <1>3, <1>5 DEF Node
  <1> QED
    BY <1>2, <1>4, <1>6

\* It leaves the list as it is.
LEMMA FlagKeepsList ==
  ASSUME TypeOK, Linked, Tiled, NEW k \in DOMAIN mem, NEW flag \in BOOLEAN,
         mem' = [mem EXCEPT ![k].used = flag], first' = first
  PROVE  Linked' /\ Tiled'
  <1>1. /\ DOMAIN mem' = DOMAIN mem
        /\ \A m \in DOMAIN mem : /\ mem'[m].size = mem[m].size
                                 /\ mem'[m].prev = mem[m].prev
                                 /\ mem'[m].next = mem[m].next
    BY FlagMemory
  <1>2. \A m \in DOMAIN mem : m + HDR + mem'[m].size = End(m)
    BY <1>1 DEF End
  <1>3. Tiled'
    BY <1>1, <1>2 DEF Tiled, End
  <1>4. Linked'
    <2>1. \A n \in DOMAIN mem' : mem'[n].next # NULL =>
             /\ mem'[n].next \in DOMAIN mem' /\ mem'[n].next = n + HDR + mem'[n].size
             /\ mem'[mem'[n].next].prev = n
      BY <1>1, <1>2 DEF Linked
    <2>2. \A n \in DOMAIN mem' : mem'[n].prev # NULL =>
             mem'[n].prev \in DOMAIN mem' /\ mem'[mem'[n].prev].next = n
      BY <1>1 DEF Linked
    <2> QED
      BY <1>1, <2>1, <2>2 DEF Linked, End
  <1> QED
    BY <1>3, <1>4

\* The whole node is used (heap.c:73-79).
LEMMA TakeWholeKeeps == ASSUME IInv, TakeWhole PROVE IInv'
  <1>1. /\ TypeOK /\ Linked /\ Tiled /\ Held /\ Searched /\ Walked
        /\ pc = "alloc" /\ first' = first /\ Return(node)
        /\ node \in DOMAIN mem /\ ~mem[node].used /\ size <= mem[node].size
        /\ mem' = [mem EXCEPT ![node].used = TRUE]
    BY DEF IInv, TakeWhole, TypeOK, Fits, Free
  <1>2. /\ DOMAIN mem' = DOMAIN mem
        /\ mem' \in [DOMAIN mem' -> Node]
        /\ \A m \in DOMAIN mem : /\ mem'[m].size = mem[m].size
                                 /\ mem'[m].prev = mem[m].prev
                                 /\ mem'[m].next = mem[m].next
                                 /\ m # node => mem'[m].used = mem[m].used
        /\ mem'[node].used = TRUE
    BY <1>1, FlagMemory
  <1>3. node \in Nat /\ mem[node].size \in Nat
    BY <1>1, NodeFields
  <1>4. TypeOK'
    <2>1. /\ pc' = "idle" /\ node' = NULL /\ size' \in Nat /\ asked' \in Nat /\ Blocks(live')
      BY <1>1, <1>3, ReturnType
    <2>2. DOMAIN mem' \subseteq Nat \ {NULL} /\ first' \in {NULL, Start}
      BY <1>1, <1>2 DEF TypeOK
    <2> QED
      BY <1>2, <2>1, <2>2 DEF TypeOK
  <1>5. Linked' /\ Tiled'
    BY <1>1, FlagKeepsList
  <1>6. Held'
    <2>1. mem'[node].used
      BY <1>2
    <2>2. asked <= mem'[node].size
      <3>1. asked <= size /\ asked \in Nat /\ size \in Nat
        BY <1>1 DEF TypeOK, Searched
      <3>2. mem'[node].size = mem[node].size
        BY <1>1, <1>2
      <3> QED
        BY <1>1, <1>3, <3>1, <3>2
    <2>3. \A m \in DOMAIN mem : mem[m].used =>
             m \in DOMAIN mem' /\ mem'[m].used /\ mem'[m].size = mem[m].size
      BY <1>1, <1>2
    <2> QED
      BY <1>1, <1>2, <2>1, <2>2, <2>3, HeldStep
  <1>7. Searched'
    BY <1>1 DEF Searched, Return
  <1>8. Walked'
    <2> SUFFICES ASSUME NEW n \in DOMAIN mem', Joins(n)'
                 PROVE  FALSE
      BY DEF Walked
    <2>1. ~mem'[n].used /\ mem'[n].prev # NULL /\ ~mem'[mem'[n].prev].used
      BY DEF Joins, Free
    <2>2. n # node /\ n \in DOMAIN mem /\ ~mem[n].used /\ mem'[n].prev = mem[n].prev
      BY <1>2, <2>1
    <2>3. mem[n].prev \in DOMAIN mem /\ mem[n].prev # node
      BY <1>1, <1>2, <2>1, <2>2 DEF Linked
    <2>4. ~mem[mem[n].prev].used
      BY <1>2, <2>1, <2>2, <2>3
    <2> QED
      BY <1>1, <2>1, <2>2, <2>4 DEF Walked, Joins, Free
  <1> QED
    BY <1>4, <1>5, <1>6, <1>7, <1>8 DEF IInv

\* A new node behind the last one (heap.c:89-97).
LEMMA AppendKeeps == ASSUME IInv, Append PROVE IInv'
  <1> DEFINE new == End(node)
             EndThen(m) == m + HDR + mem'[m].size
  <1>1. /\ TypeOK /\ Linked /\ Tiled /\ Held /\ Searched /\ Walked
        /\ pc = "alloc" /\ first' = first /\ Return(new)
        /\ node \in DOMAIN mem /\ mem[node].next = NULL
    BY DEF IInv, Append, TypeOK
  <1>2. /\ DOMAIN mem \subseteq Nat \ {NULL} /\ NULL = 0 /\ HDR = 32
        /\ size \in Nat /\ asked \in Nat /\ asked <= size
        /\ mem \in [DOMAIN mem -> Node]
        /\ node \in Nat /\ new \in Nat /\ node < new
        /\ mem[node].used \in BOOLEAN /\ mem[node].size \in Nat /\ mem[node].prev \in Nat
    BY <1>1, NodeFields DEF TypeOK, Searched, NULL, HDR
  <1>3. \A m \in DOMAIN mem : m <= node /\ m < new /\ m \in Nat
    BY <1>1, <1>2 DEF Tiled
  <1>4. new \notin DOMAIN mem /\ new # node
    BY <1>2, <1>3
  <1>5. mem' = [n \in DOMAIN mem \cup {new} |->
             IF n = new THEN hnode(TRUE, size, node, NULL)
             ELSE IF n = node THEN hnode(mem[n].used, mem[n].size, mem[n].prev, new)
             ELSE mem[n]]
    BY DEF Append
  <1>6. /\ DOMAIN mem' = DOMAIN mem \cup {new}
        /\ mem'[new] = hnode(TRUE, size, node, NULL)
        /\ mem'[node] = hnode(mem[node].used, mem[node].size, mem[node].prev, new)
        /\ \A m \in DOMAIN mem \ {node} : mem'[m] = mem[m]
    BY <1>1, <1>4, <1>5
  <1>7. /\ mem'[new].used = TRUE /\ mem'[new].size = size
        /\ mem'[new].prev = node /\ mem'[new].next = NULL
    BY <1>6 DEF hnode
  <1>8. /\ mem'[node].next = new /\ mem'[node].size = mem[node].size
        /\ mem'[node].prev = mem[node].prev /\ mem'[node].used = mem[node].used
    BY <1>6 DEF hnode
  <1>9. \A m \in DOMAIN mem : /\ mem'[m].used = mem[m].used /\ mem'[m].size = mem[m].size
                              /\ mem'[m].prev = mem[m].prev
                              /\ m # node => mem'[m].next = mem[m].next
    BY <1>6, <1>8
  <1>10. TypeOK'
    <2>1. mem'[new] \in Node
      <3>1. hnode(TRUE, size, node, NULL) \in Node
        BY <1>2 DEF hnode, Node
      <3> QED
        BY <1>6, <3>1 DEF hnode
    <2>2. mem'[node] \in Node
      BY <1>2, <1>6, HeaderType
    <2>3. \A m \in DOMAIN mem' : mem'[m] \in Node
      BY <1>2, <1>6, <2>1, <2>2
    <2>4. mem' = [m \in DOMAIN mem' |-> mem'[m]]
      BY <1>5
    <2>5. mem' \in [DOMAIN mem' -> Node]
      BY <2>3, <2>4
    <2>6. DOMAIN mem' \subseteq Nat \ {NULL}
      BY <1>2, <1>6
    <2>7. /\ pc' = "idle" /\ node' = NULL /\ size' \in Nat /\ asked' \in Nat /\ Blocks(live')
      BY <1>1, <1>2, ReturnType
    <2>8. first' \in {NULL, Start}
      BY <1>1 DEF TypeOK
    <2> QED
      BY <2>5, <2>6, <2>7, <2>8 DEF TypeOK
  <1>11. \A m \in DOMAIN mem : EndThen(m) = End(m)
    BY <1>9 DEF End
  <1>12. \A m, n \in DOMAIN mem' : m < n => EndThen(m) <= n
    <2> SUFFICES ASSUME NEW m \in DOMAIN mem', NEW n \in DOMAIN mem', m < n
                 PROVE  EndThen(m) <= n
      OBVIOUS
    <2>1. m \in DOMAIN mem
      BY <1>2, <1>3, <1>6
    <2>2. CASE n \in DOMAIN mem
      BY <1>1, <1>11, <2>1, <2>2 DEF Tiled
    <2>3. CASE n = new
      <3>1. m = node \/ m < node
        BY <1>2, <1>3, <2>1
      <3>2. m = node \/ End(m) <= node
        BY <1>1, <2>1, <3>1 DEF Tiled
      <3>3. End(m) \in Nat
        BY <1>1, <2>1, NodeFields
      <3> QED
        BY <1>2, <1>11, <2>1, <2>3, <3>2, <3>3
    <2> QED
      BY <1>6, <2>2, <2>3
  <1>13. \A n \in DOMAIN mem' : mem'[n].next = NULL => \A m \in DOMAIN mem' : m <= n
    <2> SUFFICES ASSUME NEW n \in DOMAIN mem', mem'[n].next = NULL
                 PROVE  \A m \in DOMAIN mem' : m <= n
      OBVIOUS
    <2>1. n = new
      <3>1. n # node
        BY <1>2, <1>8
      <3>2. ASSUME n \in DOMAIN mem
            PROVE  FALSE
        <4>1. mem[n].next = NULL
          BY <1>9, <3>1, <3>2
        <4>2. node <= n
          BY <1>1, <3>2, <4>1 DEF Tiled
        <4> QED
          BY <1>2, <1>3, <3>1, <3>2, <4>2
      <3> QED
        BY <1>6, <3>2
    <2> QED
      BY <1>2, <1>3, <1>6, <2>1
  <1>14. Linked'
    <2>1. \A n \in DOMAIN mem' : n >= Start
      BY <1>1, <1>2, <1>6, HeapAssumption DEF Linked
    <2>2. ASSUME NEW n \in DOMAIN mem', mem'[n].next # NULL
          PROVE  /\ mem'[n].next \in DOMAIN mem' /\ mem'[n].next = EndThen(n)
                 /\ mem'[mem'[n].next].prev = n
      <3>1. n \in DOMAIN mem
        BY <1>6, <1>7, <2>2
      <3>2. CASE n = node
        BY <1>6, <1>7, <1>8, <1>11, <3>1, <3>2
      <3>3. CASE n # node
        <4>1. mem'[n].next = mem[n].next
          BY <1>9, <3>1, <3>3
        <4>2. /\ mem[n].next \in DOMAIN mem /\ mem[n].next = End(n)
              /\ mem[mem[n].next].prev = n
          BY <1>1, <2>2, <3>1, <4>1 DEF Linked
        <4> QED
          BY <1>6, <1>9, <1>11, <3>1, <4>1, <4>2
      <3> QED
        BY <3>2, <3>3
    <2>3. ASSUME NEW n \in DOMAIN mem', mem'[n].prev # NULL
          PROVE  mem'[n].prev \in DOMAIN mem' /\ mem'[mem'[n].prev].next = n
      <3>1. CASE n = new
        BY <1>1, <1>6, <1>7, <1>8, <3>1
      <3>2. CASE n \in DOMAIN mem
        <4>1. mem[n].prev \in DOMAIN mem /\ mem[mem[n].prev].next = n /\ mem'[n].prev = mem[n].prev
          BY <1>1, <1>9, <2>3, <3>2 DEF Linked
        <4>2. mem[n].prev # node
          BY <1>1, <1>2, <3>2, <4>1
        <4> QED
          BY <1>6, <1>9, <4>1, <4>2
      <3> QED
        BY <1>6, <3>1, <3>2
    <2> QED
      BY <1>1, <1>6, <2>1, <2>2, <2>3 DEF Linked, End
  <1>15. Held'
    BY <1>1, <1>2, <1>6, <1>7, <1>9, HeldStep
  <1>16. Searched'
    BY <1>1 DEF Searched, Return
  <1>17. Walked'
    <2> SUFFICES ASSUME NEW n \in DOMAIN mem', Joins(n)'
                 PROVE  FALSE
      BY DEF Walked
    <2>1. ~mem'[n].used /\ mem'[n].prev # NULL /\ ~mem'[mem'[n].prev].used
      BY DEF Joins, Free
    <2>2. n \in DOMAIN mem /\ ~mem[n].used /\ mem'[n].prev = mem[n].prev
      BY <1>6, <1>7, <1>9, <2>1
    <2>3. mem[n].prev \in DOMAIN mem
      BY <1>1, <2>1, <2>2 DEF Linked
    <2>4. ~mem[mem[n].prev].used
      BY <1>9, <2>1, <2>2, <2>3
    <2> QED
      BY <1>1, <2>1, <2>2, <2>4 DEF Walked, Joins, Free
  <1> QED
    BY <1>10, <1>12, <1>13, <1>14, <1>15, <1>16, <1>17 DEF IInv, Tiled, End

-----------------------------------------------------------------------------
\* The release

\* Two nodes are joined: p reaches to the end of node, which is no longer a node,
\* and x, if there is one, follows p (heap.c:107-118).
JoinedAt(p, x) ==
  /\ p = mem[node].prev /\ x = mem[node].next
  /\ node \in DOMAIN mem /\ p \in DOMAIN mem /\ p < node
  /\ x # NULL => x \in DOMAIN mem /\ node < x /\ x = End(node)
  /\ x # p /\ x # node
  /\ ~mem[node].used /\ ~mem[p].used
  /\ DOMAIN mem' = DOMAIN mem \ {node}
  /\ p + HDR + mem'[p].size = End(node) /\ End(p) = node
  /\ mem'[p].used = FALSE /\ mem'[p].prev = mem[p].prev /\ mem'[p].next = x
  /\ x # NULL => /\ mem'[x].used = mem[x].used /\ mem'[x].size = mem[x].size
                 /\ mem'[x].prev = p /\ mem'[x].next = mem[x].next
  /\ \A m \in DOMAIN mem \ {node, p, x} : mem'[m] = mem[m]
  /\ mem' \in [DOMAIN mem' -> Node]

LEMMA MergeMemory == ASSUME IInv, Merge PROVE \E p, x : JoinedAt(p, x)
  <1> SUFFICES ASSUME NEW p, NEW x, p = mem[node].prev, x = mem[node].next
               PROVE  JoinedAt(p, x)
    OBVIOUS
  <1>1. /\ TypeOK /\ Linked /\ Tiled
        /\ node \in DOMAIN mem /\ ~mem[node].used /\ p # NULL /\ ~mem[p].used
    BY DEF IInv, Merge, TypeOK, Joins, Free
  <1>2. p \in DOMAIN mem /\ mem[p].next = node
    BY <1>1 DEF Linked
  <1>3. /\ node \in Nat /\ node # NULL /\ p \in Nat /\ HDR = 32 /\ NULL = 0
        /\ mem[p].size \in Nat /\ mem[p].prev \in Nat
        /\ mem[node].size \in Nat /\ End(node) \in Nat /\ node < End(node) /\ p < End(p)
        /\ x \in Nat
    BY <1>1, <1>2, NodeFields DEF NULL, HDR
  <1>4. End(p) = node /\ p < node
    <2>1. End(p) = node
      BY <1>1, <1>2, <1>3 DEF Linked
    <2> QED
      BY <1>3, <2>1
  <1>5. x # NULL => x \in DOMAIN mem /\ x = End(node)
    BY <1>1 DEF Linked
  <1>6. x # p /\ x # node /\ (x # NULL => node < x)
    BY <1>1, <1>3, <1>4, <1>5
  <1>7. mem' = [n \in DOMAIN mem \ {node} |->
             IF n = p THEN hnode(FALSE, mem[n].size + mem[node].size + HDR, mem[n].prev, x)
             ELSE IF n = x THEN hnode(mem[n].used, mem[n].size, p, mem[n].next)
             ELSE mem[n]]
    BY DEF Merge, Joined
  <1>8. /\ DOMAIN mem' = DOMAIN mem \ {node}
        /\ mem'[p] = hnode(FALSE, mem[p].size + mem[node].size + HDR, mem[p].prev, x)
        /\ x # NULL => mem'[x] = hnode(mem[x].used, mem[x].size, p, mem[x].next)
        /\ \A m \in DOMAIN mem \ {node, p, x} : mem'[m] = mem[m]
    BY <1>2, <1>3, <1>4, <1>5, <1>6, <1>7
  <1>9. /\ mem'[p].size = mem[p].size + mem[node].size + HDR
        /\ mem'[p].used = FALSE /\ mem'[p].prev = mem[p].prev /\ mem'[p].next = x
    BY <1>8 DEF hnode
  <1>10. x # NULL => /\ mem'[x].used = mem[x].used /\ mem'[x].size = mem[x].size
                     /\ mem'[x].prev = p /\ mem'[x].next = mem[x].next
    BY <1>8 DEF hnode
  <1>11. p + HDR + mem'[p].size = End(node)
    BY <1>3, <1>4, <1>9 DEF End
  <1>12. mem' \in [DOMAIN mem' -> Node]
    <2>1. mem'[p] \in Node
      <3>1. mem[p].size + mem[node].size + HDR \in Nat
        BY <1>3
      <3>2. hnode(FALSE, mem[p].size + mem[node].size + HDR, mem[p].prev, x) \in Node
        BY <1>3, <3>1 DEF hnode, Node
      <3> QED
        BY <1>8, <3>2 DEF hnode
    <2>2. x # NULL => mem'[x] \in Node
      <3>1. x # NULL => mem[x].used \in BOOLEAN /\ mem[x].size \in Nat /\ mem[x].next \in Nat
        BY <1>1, <1>5, NodeFields
      <3> QED
        BY <1>3, <1>8, <3>1, HeaderType
    <2>3. \A m \in DOMAIN mem \ {node, p, x} : mem[m] \in Node
      BY <1>1 DEF TypeOK
    <2>4. \A m \in DOMAIN mem' : mem'[m] \in Node
      <3> SUFFICES ASSUME NEW m \in DOMAIN mem' PROVE mem'[m] \in Node
        OBVIOUS
      <3>1. m # NULL
        BY <1>1, <1>8 DEF TypeOK
      <3> QED
        BY <1>8, <2>1, <2>2, <2>3, <3>1
    <2>5. mem' = [m \in DOMAIN mem' |-> mem'[m]]
      BY <1>7
    <2> QED
      BY <2>4, <2>5
  <1> QED
    BY <1>1, <1>2, <1>4, <1>5, <1>6, <1>8, <1>9, <1>10, <1>11, <1>12 DEF JoinedAt

LEMMA MergeKeeps == ASSUME IInv, Merge PROVE IInv'
  <1>0. PICK p, x : JoinedAt(p, x)
    BY MergeMemory
  <1> DEFINE EndThen(m) == m + HDR + mem'[m].size
  <1>1. /\ p = mem[node].prev /\ x = mem[node].next
        /\ node \in DOMAIN mem /\ p \in DOMAIN mem /\ p < node
        /\ x # NULL => x \in DOMAIN mem /\ node < x /\ x = End(node)
        /\ x # p /\ x # node
        /\ ~mem[node].used /\ ~mem[p].used
        /\ DOMAIN mem' = DOMAIN mem \ {node}
        /\ EndThen(p) = End(node) /\ End(p) = node
        /\ mem'[p].used = FALSE /\ mem'[p].prev = mem[p].prev /\ mem'[p].next = x
        /\ x # NULL => /\ mem'[x].used = mem[x].used /\ mem'[x].size = mem[x].size
                       /\ mem'[x].prev = p /\ mem'[x].next = mem[x].next
        /\ \A m \in DOMAIN mem \ {node, p, x} : mem'[m] = mem[m]
        /\ mem' \in [DOMAIN mem' -> Node]
    BY <1>0 DEF JoinedAt
  <1>2. /\ TypeOK /\ Linked /\ Tiled /\ Held /\ Walked
        /\ pc = "free" /\ pc' = "free" /\ first' = first /\ node' = x
        /\ size' = size /\ asked' = asked /\ live' = live
    BY <1>1 DEF IInv, Merge
  <1>3. /\ DOMAIN mem \subseteq Nat \ {NULL} /\ NULL = 0 /\ HDR = 32
        /\ node \in Nat /\ p \in Nat
        /\ \A m \in DOMAIN mem : m \in Nat /\ End(m) \in Nat /\ m < End(m)
    BY <1>1, <1>2, NodeFields DEF TypeOK, NULL, HDR
  <1>4. \A m \in DOMAIN mem \ {node, p} :
           /\ mem'[m].used = mem[m].used /\ mem'[m].size = mem[m].size
           /\ mem'[m].next = mem[m].next /\ EndThen(m) = End(m)
           /\ m # x => mem'[m].prev = mem[m].prev
    <2> SUFFICES ASSUME NEW m \in DOMAIN mem \ {node, p}
                 PROVE  /\ mem'[m].used = mem[m].used /\ mem'[m].size = mem[m].size
                        /\ mem'[m].next = mem[m].next
                        /\ m # x => mem'[m].prev = mem[m].prev
      BY DEF End
    <2>1. CASE m = x
      BY <1>1, <1>3, <2>1
    <2>2. CASE m # x
      BY <1>1, <2>2
    <2> QED
      BY <2>1, <2>2
  <1>5. TypeOK'
    <2>1. x \in DOMAIN mem' \cup {NULL}
      BY <1>1
    <2>2. DOMAIN mem' \subseteq Nat \ {NULL}
      BY <1>1, <1>3
    <2> QED
      BY <1>1, <1>2, <2>1, <2>2 DEF TypeOK
  <1>6. \A m, n \in DOMAIN mem' : m < n => EndThen(m) <= n
    <2> SUFFICES ASSUME NEW m \in DOMAIN mem', NEW n \in DOMAIN mem', m < n
                 PROVE  EndThen(m) <= n
      OBVIOUS
    <2>1. CASE m # p
      BY <1>1, <1>2, <1>4, <2>1 DEF Tiled
    <2>2. CASE m = p
      <3>1. node <= n
        BY <1>1, <1>2, <2>2 DEF Tiled
      <3>2. node < n
        BY <1>1, <1>3, <3>1
      <3>3. End(node) <= n
        BY <1>1, <1>2, <3>2 DEF Tiled
      <3> QED
        BY <1>1, <2>2, <3>3
    <2> QED
      BY <2>1, <2>2
  <1>7. \A n \in DOMAIN mem' : mem'[n].next = NULL => \A m \in DOMAIN mem' : m <= n
    <2> SUFFICES ASSUME NEW n \in DOMAIN mem', mem'[n].next = NULL, NEW m \in DOMAIN mem'
                 PROVE  m <= n
      OBVIOUS
    <2>1. CASE n # p
      BY <1>1, <1>2, <1>4, <2>1 DEF Tiled
    <2>2. CASE n = p
      <3>1. \A k \in DOMAIN mem : k <= node
        BY <1>1, <1>2, <2>2 DEF Tiled
      <3>2. m < node
        BY <1>1, <1>3, <3>1
      <3>3. ~(p < m)
        <4>1. p < m => node <= m
          BY <1>1, <1>2 DEF Tiled
        <4> QED
          BY <1>1, <1>3, <3>2, <4>1
      <3> QED
        BY <1>1, <1>3, <2>2, <3>3
    <2> QED
      BY <2>1, <2>2
  <1>8. Linked'
    <2>1. \A n \in DOMAIN mem' : n >= Start
      BY <1>1, <1>2 DEF Linked
    <2>2. ASSUME NEW n \in DOMAIN mem', mem'[n].next # NULL
          PROVE  /\ mem'[n].next \in DOMAIN mem' /\ mem'[n].next = EndThen(n)
                 /\ mem'[mem'[n].next].prev = n
      <3>1. CASE n = p
        BY <1>1, <2>2, <3>1
      <3>2. CASE n # p
        <4>1. n \in DOMAIN mem \ {node, p} /\ mem'[n].next = mem[n].next
          BY <1>1, <1>4, <3>2
        <4>2. /\ mem[n].next \in DOMAIN mem /\ mem[n].next = End(n)
              /\ mem[mem[n].next].prev = n
          BY <1>2, <2>2, <4>1 DEF Linked
        <4>3. mem[n].next # node /\ mem[n].next # x
          <5>1. x # NULL => mem[x].prev = node
            BY <1>1, <1>2 DEF Linked
          <5> QED
            BY <1>1, <1>3, <4>1, <4>2, <5>1
        <4>4. mem'[mem[n].next].prev = n
          <5>1. CASE mem[n].next = p
            BY <1>1, <4>2, <5>1
          <5>2. CASE mem[n].next # p
            BY <1>4, <4>2, <4>3, <5>2
          <5> QED
            BY <5>1, <5>2
        <4> QED
          BY <1>1, <1>4, <4>1, <4>2, <4>3, <4>4
      <3> QED
        BY <3>1, <3>2
    <2>3. ASSUME NEW n \in DOMAIN mem', mem'[n].prev # NULL
          PROVE  mem'[n].prev \in DOMAIN mem' /\ mem'[mem'[n].prev].next = n
      <3>1. CASE n = x
        BY <1>1, <1>3, <3>1
      <3>2. CASE n # x
        <4>1. n \in DOMAIN mem /\ n # node /\ mem'[n].prev = mem[n].prev
          BY <1>1, <1>4, <3>2
        <4>2. mem[n].prev \in DOMAIN mem /\ mem[mem[n].prev].next = n
          BY <1>2, <2>3, <4>1 DEF Linked
        <4>3. mem[n].prev # node /\ mem[n].prev # p
          <5>1. mem[p].next = node
            BY <1>1, <1>2, <1>3 DEF Linked
          <5> QED
            BY <1>1, <3>2, <4>1, <4>2, <5>1
        <4> QED
          BY <1>1, <1>4, <4>1, <4>2, <4>3
      <3> QED
        BY <3>1, <3>2
    <2>4. (first = NULL => DOMAIN mem' = {}) /\ (first # NULL => Start \in DOMAIN mem')
      <3>1. Start # node
        <4>1. p >= Start
          BY <1>1, <1>2 DEF Linked
        <4> QED
          BY <1>1, <1>3, <4>1, HeapAssumption
      <3> QED
        BY <1>1, <1>2, <3>1 DEF Linked
    <2> QED
      BY <1>2, <2>1, <2>2, <2>3, <2>4 DEF Linked, End
  <1>9. Held'
    <2> SUFFICES ASSUME NEW a \in DOMAIN live
                 PROVE  \E n \in DOMAIN mem' :
                           a = n + HDR /\ mem'[n].used /\ live[a] <= mem'[n].size
      BY <1>2 DEF Held, HDR
    <2>1. PICK n \in DOMAIN mem : a = n + HDR /\ mem[n].used /\ live[a] <= mem[n].size
      BY <1>2 DEF Held
    <2>2. n # node /\ n # p
      BY <1>1, <2>1
    <2> QED
      BY <1>1, <1>4, <2>1, <2>2
  <1>10. Searched'
    BY <1>2 DEF Searched
  <1>11. Walked'
    <2> SUFFICES ASSUME NEW n \in DOMAIN mem', Joins(n)'
                 PROVE  x # NULL /\ x <= n
      BY <1>2 DEF Walked
    <2>1. ~mem'[n].used /\ mem'[n].prev # NULL /\ ~mem'[mem'[n].prev].used
      BY DEF Joins, Free
    <2>2. CASE n = x
      BY <1>1, <1>3, <2>2
    <2>3. CASE n # x
      <3>1. n \in DOMAIN mem /\ n # node /\ mem'[n].prev = mem[n].prev /\ ~mem[n].used
        BY <1>1, <1>4, <2>1, <2>3
      <3>2. mem[n].prev \in DOMAIN mem /\ mem[mem[n].prev].next = n
        BY <1>2, <2>1, <3>1 DEF Linked
      <3>3. ~mem[mem[n].prev].used
        <4>1. mem[n].prev # node
          BY <1>1, <2>3, <3>2
        <4> QED
          BY <1>1, <1>4, <2>1, <3>1, <3>2, <4>1
      <3>4. node <= n
        BY <1>2, <2>1, <3>1, <3>3 DEF Walked, Joins, Free
      <3>5. node < n
        BY <1>1, <1>3, <3>1, <3>4
      <3>6. x # NULL
        BY <1>1, <1>2, <1>3, <3>1, <3>5 DEF Tiled
      <3>7. End(node) <= n
        BY <1>1, <1>2, <3>1, <3>5 DEF Tiled
      <3> QED
        BY <1>1, <3>6, <3>7
    <2> QED
      BY <2>2, <2>3
  <1> QED
    BY <1>5, <1>6, <1>7, <1>8, <1>9, <1>10, <1>11 DEF IInv, Tiled, End

\* A block is released: its node is unused, and the walk starts (heap.c:100-104).
LEMMA FreeBlockKeeps ==
  ASSUME IInv, NEW a \in DOMAIN live, FreeBlock(a)
  PROVE  IInv'
  <1>1. /\ TypeOK /\ Linked /\ Tiled /\ Held /\ Walked
        /\ pc = "idle" /\ pc' = "free" /\ first' = first /\ node' = first
        /\ size' = size /\ asked' = asked
        /\ mem' = [mem EXCEPT ![a - HDR].used = FALSE]
        /\ live' = [b \in DOMAIN live \ {a} |-> live[b]]
    BY DEF IInv, FreeBlock
  <1>2. PICK k \in DOMAIN mem : a = k + HDR
    BY <1>1 DEF Held
  <1>3. k \in Nat /\ a - HDR = k
    BY <1>1, <1>2, NodeFields DEF HDR
  <1>4. /\ DOMAIN mem' = DOMAIN mem
        /\ mem' \in [DOMAIN mem' -> Node]
        /\ \A m \in DOMAIN mem : /\ mem'[m].size = mem[m].size
                                 /\ mem'[m].prev = mem[m].prev
                                 /\ mem'[m].next = mem[m].next
                                 /\ m # k => mem'[m].used = mem[m].used
        /\ mem'[k].used = FALSE
    <2>1. mem' = [mem EXCEPT ![k].used = FALSE]
      BY <1>1, <1>3
    <2> QED
      BY <1>1, <2>1, FlagMemory
  <1>5. first \in DOMAIN mem \cup {NULL} /\ first # NULL
    BY <1>1, <1>2 DEF TypeOK, Linked
  <1>6. TypeOK'
    <2>1. Blocks(live')
      BY <1>1 DEF TypeOK, Blocks
    <2> QED
      BY <1>1, <1>4, <1>5, <2>1 DEF TypeOK
  <1>7. Linked' /\ Tiled'
    <2>1. mem' = [mem EXCEPT ![k].used = FALSE]
      BY <1>1, <1>3
    <2> QED
      BY <1>1, <2>1, FlagKeepsList
  <1>8. Held'
    <2> SUFFICES ASSUME NEW b \in DOMAIN live'
                 PROVE  \E n \in DOMAIN mem' :
                           b = n + HDR /\ mem'[n].used /\ live'[b] <= mem'[n].size
      BY DEF Held, HDR
    <2>1. b \in DOMAIN live /\ b # a /\ live'[b] = live[b]
      BY <1>1
    <2>2. PICK n \in DOMAIN mem : b = n + HDR /\ mem[n].used /\ live[b] <= mem[n].size
      BY <1>1, <2>1 DEF Held
    <2>3. n # k
      BY <1>2, <2>1, <2>2
    <2> QED
      BY <1>4, <2>1, <2>2, <2>3
  <1>9. Searched'
    BY <1>1 DEF Searched
  <1>10. Walked'
    <2>1. \A n \in DOMAIN mem' : first <= n
      BY <1>1, <1>4, <1>5 DEF Linked, TypeOK
    <2> QED
      BY <1>1, <1>5, <2>1 DEF Walked
  <1> QED
    BY <1>6, <1>7, <1>8, <1>9, <1>10 DEF IInv

-----------------------------------------------------------------------------
\* The steps that only move on

\* They leave the list and the callers' view as they are.
LEMMA ListStays ==
  ASSUME IInv, UNCHANGED <<list, live>>
  PROVE  Linked' /\ Tiled' /\ Held'
  <1>1. mem' = mem /\ first' = first /\ live' = live
    BY DEF list
  <1>2. Linked'
    BY <1>1 DEF IInv, Linked, End
  <1>3. Tiled'
    BY <1>1 DEF IInv, Tiled, End
  <1>4. Held'
    BY <1>1 DEF IInv, Held
  <1> QED
    BY <1>2, <1>3, <1>4

\* The search for a block starts at the first node (heap.c:33-48).
LEMMA MallocKeeps ==
  ASSUME IInv, NEW s \in Sizes, Malloc(s)
  PROVE  IInv'
  <1>1. /\ TypeOK /\ Linked /\ Walked
        /\ pc = "idle" /\ pc' = "alloc" /\ asked' = s /\ size' = Align(s)
        /\ node' = first /\ first' = first /\ mem' = mem /\ live' = live
    BY DEF IInv, Malloc, list
  <1>2. s \in Nat /\ Align(s) \in Nat /\ s <= Align(s)
    BY HeapAssumption, AlignRoundsUp
  <1>3. TypeOK'
    BY <1>1, <1>2 DEF TypeOK, Linked, Blocks
  <1>4. Linked' /\ Tiled' /\ Held'
    BY <1>1, ListStays DEF list
  <1>5. Searched'
    <2>1. asked' <= size'
      BY <1>1, <1>2
    <2>2. \A n \in DOMAIN mem : first # NULL => ~(n < first)
      BY <1>1, HeapAssumption DEF Linked, TypeOK
    <2>3. \A n \in DOMAIN mem : ~(n < first)
      BY <1>1, <2>2 DEF Linked
    <2> QED
      BY <1>1, <2>1, <2>3 DEF Searched
  <1>6. Walked'
    <2>1. \A n \in DOMAIN mem : ~Joins(n)
      BY <1>1 DEF Walked
    <2> QED
      BY <1>1, <2>1 DEF Walked, Joins, Free
  <1> QED
    BY <1>3, <1>4, <1>5, <1>6 DEF IInv

\* The next node of the search (heap.c:82-86).
LEMMA TryNextKeeps == ASSUME IInv, TryNext PROVE IInv'
  <1>1. /\ TypeOK /\ Linked /\ Tiled /\ Searched /\ Walked
        /\ pc = "alloc" /\ pc' = "alloc" /\ asked' = asked /\ size' = size
        /\ node \in DOMAIN mem /\ node # NULL /\ ~Fits(node)
        /\ mem[node].next # NULL /\ node' = mem[node].next
        /\ first' = first /\ mem' = mem /\ live' = live
    BY DEF IInv, TryNext, TypeOK, list
  <1>2. mem[node].next \in DOMAIN mem /\ mem[node].next = End(node)
    BY <1>1 DEF Linked
  <1>3. TypeOK'
    BY <1>1, <1>2 DEF TypeOK, Blocks
  <1>4. Linked' /\ Tiled' /\ Held'
    BY <1>1, ListStays DEF list
  <1>5. Searched'
    <2>1. ASSUME NEW n \in DOMAIN mem, n < mem[node].next
          PROVE  ~Fits(n)
      <3>1. n \in Nat /\ node \in Nat /\ End(node) \in Nat
        BY <1>1, NodeFields
      <3>2. ~(node < n)
        <4>1. node < n => End(node) <= n
          BY <1>1 DEF Tiled
        <4> QED
          BY <1>2, <2>1, <3>1, <4>1
      <3>3. n < node \/ n = node
        BY <3>1, <3>2
      <3> QED
        BY <1>1, <3>3 DEF Searched
    <2>2. \A n \in DOMAIN mem : (Fits(n))' <=> Fits(n)
      BY <1>1 DEF Fits, Free
    <2> QED
      BY <1>1, <2>1, <2>2 DEF Searched
  <1>6. Walked'
    BY <1>1 DEF Walked, Joins, Free
  <1> QED
    BY <1>3, <1>4, <1>5, <1>6 DEF IInv

\* The next node of the walk (heap.c:118).
LEMMA PassKeeps == ASSUME IInv, Pass PROVE IInv'
  <1>1. /\ TypeOK /\ Linked /\ Tiled /\ Walked
        /\ pc = "free" /\ pc' = "free" /\ asked' = asked /\ size' = size
        /\ node \in DOMAIN mem /\ node # NULL /\ ~Joins(node)
        /\ node' = mem[node].next
        /\ first' = first /\ mem' = mem /\ live' = live
    BY DEF IInv, Pass, TypeOK, list
  <1>2. mem[node].next # NULL => mem[node].next \in DOMAIN mem /\ mem[node].next = End(node)
    BY <1>1 DEF Linked
  <1>3. TypeOK'
    BY <1>1, <1>2 DEF TypeOK, Blocks
  <1>4. Linked' /\ Tiled' /\ Held'
    BY <1>1, ListStays DEF list
  <1>5. Searched'
    BY <1>1 DEF Searched
  <1>6. Walked'
    <2> SUFFICES ASSUME NEW n \in DOMAIN mem, Joins(n)
                 PROVE  mem[node].next # NULL /\ mem[node].next <= n
      BY <1>1 DEF Walked, Joins, Free
    <2>1. n \in Nat /\ node \in Nat
      BY <1>1, NodeFields
    <2>2. node < n
      <3>1. node <= n /\ n # node
        BY <1>1 DEF Walked
      <3> QED
        BY <2>1, <3>1
    <2>3. End(node) <= n
      BY <1>1, <2>2 DEF Tiled
    <2>4. mem[node].next # NULL
      <3>1. ~(n <= node)
        BY <2>1, <2>2
      <3> QED
        BY <1>1, <3>1 DEF Tiled
    <2> QED
      BY <1>2, <2>3, <2>4
  <1> QED
    BY <1>3, <1>4, <1>5, <1>6 DEF IInv

\* The walk is over (heap.c:105, 120).
LEMMA FreedKeeps == ASSUME IInv, Freed PROVE IInv'
  <1>1. /\ TypeOK /\ Walked /\ pc = "free" /\ pc' = "idle" /\ node = NULL
        /\ node' = node /\ asked' = asked /\ size' = size
        /\ first' = first /\ mem' = mem /\ live' = live
    BY DEF IInv, Freed, list, local
  <1>2. TypeOK'
    BY <1>1 DEF TypeOK, Blocks
  <1>3. Linked' /\ Tiled' /\ Held'
    BY <1>1, ListStays DEF list
  <1>4. Searched'
    BY <1>1 DEF Searched
  <1>5. Walked'
    <2>1. \A n \in DOMAIN mem : ~Joins(n)
      BY <1>1 DEF Walked
    <2> QED
      BY <1>1, <2>1 DEF Walked, Joins, Free
  <1> QED
    BY <1>2, <1>3, <1>4, <1>5 DEF IInv

-----------------------------------------------------------------------------
\* The invariant and what follows from it

LEMMA InitInv == Init => IInv
  <1> SUFFICES ASSUME Init PROVE IInv
    OBVIOUS
  <1>1. /\ DOMAIN mem = {} /\ DOMAIN live = {} /\ first = NULL /\ node = NULL
        /\ pc = "idle" /\ size = 0 /\ asked = 0
    BY DEF Init
  <1>2. TypeOK
    <2>1. mem \in [DOMAIN mem -> Node]
      BY DEF Init
    <2> QED
      BY <1>1, <2>1 DEF TypeOK, Blocks
  <1>3. Linked /\ Tiled /\ Held /\ Searched /\ Walked
    BY <1>1 DEF Linked, Tiled, Held, Searched, Walked
  <1> QED
    BY <1>2, <1>3 DEF IInv

LEMMA NextInv == IInv /\ [Next]_vars => IInv'
  <1> SUFFICES ASSUME IInv, [Next]_vars PROVE IInv'
    OBVIOUS
  <1>1. ASSUME NEW s \in Sizes, Malloc(s) PROVE IInv'
    BY <1>1, MallocKeeps
  <1>2. ASSUME NEW a \in DOMAIN live, FreeBlock(a) PROVE IInv'
    BY <1>2, FreeBlockKeeps
  <1>3. CASE Create
    BY <1>3, CreateKeeps
  <1>4. CASE Split
    BY <1>4, SplitKeeps
  <1>5. CASE TakeWhole
    BY <1>5, TakeWholeKeeps
  <1>6. CASE TryNext
    BY <1>6, TryNextKeeps
  <1>7. CASE Append
    BY <1>7, AppendKeeps
  <1>8. CASE Merge
    BY <1>8, MergeKeeps
  <1>9. CASE Pass
    BY <1>9, PassKeeps
  <1>10. CASE Freed
    BY <1>10, FreedKeeps
  <1>11. CASE UNCHANGED vars
    BY <1>11 DEF vars, IInv, TypeOK, Linked, Tiled, Held, Searched, Walked, Joins, Fits,
                 Free, End, Blocks
  <1> QED
    BY <1>1, <1>2, <1>3, <1>4, <1>5, <1>6, <1>7, <1>8, <1>9, <1>10, <1>11 DEF Next, Step

LEMMA Invariant == Spec => []IInv
  BY InitInv, NextInv, PTL DEF Spec

\* The list stays well formed: no pointer of it leads to anything but a node, and
\* neither walk leaves it (heap.c, all of it).
THEOREM HeapTypeCorrect == Spec => []TypeOK
  <1>1. IInv => TypeOK
    BY DEF IInv
  <1> QED
    BY <1>1, Invariant, PTL

\* Between calls no two unused nodes are neighbours (heap.c:105-119).
THEOREM AlwaysCoalesced == Spec => []Coalesced
  <1>1. IInv => Coalesced
    BY DEF IInv, Walked, Coalesced
  <1> QED
    BY <1>1, Invariant, PTL

\* The heap grows only if no unused node can hold the request (heap.c:82-97).
THEOREM GrowsOnlyWhenFull == Spec => GrowsOnlyIfFull
  <1>1. ASSUME IInv, Append, NEW n \in DOMAIN mem
        PROVE  mem[n].used \/ mem[n].size < size
    <2>1. /\ TypeOK /\ Tiled /\ Searched /\ pc = "alloc" /\ node \in DOMAIN mem
          /\ ~Fits(node) /\ mem[node].next = NULL
      BY <1>1 DEF IInv, Append, TypeOK
    <2>2. n <= node
      BY <2>1 DEF Tiled
    <2>3. n \in Nat /\ node \in Nat /\ mem[n].size \in Nat /\ size \in Nat
      BY <2>1, NodeFields DEF TypeOK
    <2>4. ~Fits(n)
      <3>1. n = node \/ n < node
        BY <2>2, <2>3
      <3> QED
        BY <2>1, <3>1 DEF Searched
    <2>5. mem[n].used \/ ~(size <= mem[n].size)
      BY <2>4 DEF Fits, Free
    <2> QED
      BY <2>3, <2>5
  <1>2. IInv /\ [Next]_vars => [Append => \A n \in DOMAIN mem : mem[n].used \/ mem[n].size < size]_vars
    BY <1>1
  <1> QED
    BY <1>2, Invariant, PTL DEF Spec, GrowsOnlyIfFull

-----------------------------------------------------------------------------
\* The promise to the callers

\* A node that was not used before holds a block that shares no byte with another.
LEMMA GrantsSeparate ==
  ASSUME IInv, IInv', pc = "alloc", NEW n \in DOMAIN mem', Return(n),
         mem'[n].used, asked <= mem'[n].size,
         \A m \in DOMAIN mem : mem[m].used =>
            m # n /\ m \in DOMAIN mem' /\ mem'[m].size = mem[m].size
  PROVE  Promise!Grant
  <1>1. /\ TypeOK /\ Held /\ TypeOK' /\ Tiled'
        /\ pc' = "idle" /\ asked' = 0 /\ asked \in Nat
        /\ live' = [a \in DOMAIN live \cup {n + HDR} |-> IF a = n + HDR THEN asked ELSE live[a]]
    BY DEF IInv, TypeOK, Return
  <1>2. /\ n \in Nat /\ mem'[n].size \in Nat /\ HDR = 32
        /\ DOMAIN mem' \subseteq Nat /\ \A m \in DOMAIN mem' : mem'[m].size \in Nat
    BY <1>1 DEF TypeOK, Node, HDR
  <1>3. n + HDR \in DOMAIN live' /\ n + HDR # 0
    BY <1>1, <1>2
  <1>4. Promise!Separate(n + HDR, asked)
    <2> SUFFICES ASSUME NEW b \in DOMAIN live
                 PROVE  b # n + HDR /\ (b + live[b] <= n + HDR \/ n + HDR + asked <= b)
      BY DEF Promise!Separate
    <2>1. PICK m \in DOMAIN mem : b = m + HDR /\ mem[m].used /\ live[b] <= mem[m].size
      BY <1>1 DEF Held
    <2>2. m # n /\ m \in DOMAIN mem' /\ mem'[m].size = mem[m].size
      BY <2>1
    <2>3. live[b] \in Nat /\ m \in Nat /\ mem'[m].size \in Nat
      BY <1>1, <1>2, <2>2 DEF TypeOK, Blocks
    <2>4. CASE m < n
      <3>1. m + HDR + mem'[m].size <= n
        BY <1>1, <2>2, <2>4 DEF Tiled, End
      <3> QED
        BY <1>2, <2>1, <2>2, <2>3, <2>4, <3>1
    <2>5. CASE n < m
      <3>1. n + HDR + mem'[n].size <= m
        BY <1>1, <2>2, <2>5 DEF Tiled, End
      <3> QED
        BY <1>1, <1>2, <2>1, <2>3, <2>5, <3>1
    <2> QED
      BY <1>2, <2>2, <2>3, <2>4, <2>5
  <1> QED
    BY <1>1, <1>3, <1>4 DEF Promise!Grant

\* Each of the four ways out of malloc grants such a block.
LEMMA AllocGrants ==
  ASSUME IInv, IInv', Create \/ Split \/ TakeWhole \/ Append
  PROVE  Promise!Grant
  <1>1. /\ TypeOK /\ Linked /\ Tiled /\ pc = "alloc" /\ asked <= size
        /\ size \in Nat /\ asked \in Nat
    BY DEF IInv, TypeOK, Searched, Create, Split, TakeWhole, Append
  <1>2. CASE Create
    <2>1. /\ DOMAIN mem = {} /\ DOMAIN mem' = {Start} /\ Return(Start)
          /\ mem'[Start] = hnode(TRUE, size, NULL, NULL)
      BY <1>1, <1>2 DEF Create, Linked
    <2>2. mem'[Start].used /\ asked <= mem'[Start].size
      BY <1>1, <2>1 DEF hnode
    <2> QED
      BY <1>1, <2>1, <2>2, GrantsSeparate
  <1>3. CASE Split
    <2> DEFINE new  == node + HDR + size
               next == mem[node].next
    <2>1. /\ node \in DOMAIN mem /\ ~mem[node].used /\ new \notin DOMAIN mem
          /\ DOMAIN mem' = DOMAIN mem \cup {new}
          /\ mem'[node] = hnode(TRUE, size, mem[node].prev, new)
          /\ next # NULL => mem'[next] = hnode(mem[next].used, mem[next].size, new, mem[next].next)
          /\ \A m \in DOMAIN mem \ {node, next} : mem'[m] = mem[m]
      BY <1>3, SplitMemory
    <2>2. mem'[node].used /\ asked <= mem'[node].size
      BY <1>1, <2>1 DEF hnode
    <2>3. \A m \in DOMAIN mem \ {node} : mem'[m].size = mem[m].size
      <3>1. next # NULL => mem'[next].size = mem[next].size
        BY <2>1 DEF hnode
      <3>2. NULL \notin DOMAIN mem
        BY <1>1 DEF TypeOK
      <3> QED
        BY <2>1, <3>1, <3>2
    <2>4. Return(node)
      BY <1>3 DEF Split
    <2> QED
      BY <1>1, <2>1, <2>2, <2>3, <2>4, GrantsSeparate
  <1>4. CASE TakeWhole
    <2>1. /\ node \in DOMAIN mem /\ ~mem[node].used /\ size <= mem[node].size
          /\ mem' = [mem EXCEPT ![node].used = TRUE] /\ Return(node)
      BY <1>1, <1>4 DEF TakeWhole, TypeOK, Fits, Free
    <2>2. /\ DOMAIN mem' = DOMAIN mem /\ mem'[node].used = TRUE
          /\ \A m \in DOMAIN mem : mem'[m].size = mem[m].size
      BY <1>1, <2>1, FlagMemory
    <2>3. asked <= mem'[node].size
      <3>1. mem[node].size \in Nat
        BY <1>1, <2>1, NodeFields
      <3>2. mem'[node].size = mem[node].size
        BY <2>1, <2>2
      <3> QED
        BY <1>1, <2>1, <3>1, <3>2
    <2> QED
      BY <1>1, <2>1, <2>2, <2>3, GrantsSeparate
  <1>5. CASE Append
    <2> DEFINE new == End(node)
    <2>1. /\ node \in DOMAIN mem /\ mem[node].next = NULL /\ Return(new)
          /\ node \in Nat /\ new \in Nat /\ node < new
      BY <1>1, <1>5, NodeFields DEF Append, TypeOK
    <2>2. \A m \in DOMAIN mem : m <= node /\ m \in Nat
      BY <1>1, <2>1 DEF Tiled, TypeOK
    <2>3. new \notin DOMAIN mem
      BY <2>1, <2>2
    <2>4. mem' = [n \in DOMAIN mem \cup {new} |->
               IF n = new THEN hnode(TRUE, size, node, NULL)
               ELSE IF n = node THEN hnode(mem[n].used, mem[n].size, mem[n].prev, new)
               ELSE mem[n]]
      BY <1>5 DEF Append
    <2>5. /\ DOMAIN mem' = DOMAIN mem \cup {new}
          /\ mem'[new].used /\ mem'[new].size = size
          /\ \A m \in DOMAIN mem : mem'[m].size = mem[m].size
      BY <2>3, <2>4 DEF hnode
    <2> QED
      BY <1>1, <2>1, <2>3, <2>5, GrantsSeparate
  <1> QED
    BY <1>2, <1>3, <1>4, <1>5

\* Blocks that callers hold at the same time never overlap, whatever was split,
\* joined and used again before: every step is a step of the abstract allocator or
\* changes nothing that a caller sees (heap.c, malloc and free).
THEOREM HeapKeepsThePromise == Spec => Promise!Init /\ [][Promise!Next]_(Promise!promise)
  <1>1. Init => Promise!Init
    BY DEF Init, Promise!Init
  <1>2. ASSUME IInv, IInv', [Next]_vars
        PROVE  [Promise!Next]_(Promise!promise)
    <2>1. ASSUME NEW s \in Sizes, Malloc(s)
          PROVE  Promise!Request
      BY <2>1 DEF Malloc, Promise!Request
    <2>2. ASSUME NEW a \in DOMAIN live, FreeBlock(a)
          PROVE  Promise!GiveBack
      BY <2>2 DEF FreeBlock, Promise!GiveBack
    <2>3. CASE Create \/ Split \/ TakeWhole \/ Append
      BY <1>2, <2>3, AllocGrants DEF Promise!Next
    <2>4. CASE TryNext \/ Merge \/ Pass
      BY <2>4 DEF TryNext, Merge, Pass, Promise!promise
    <2>5. CASE Freed
      BY <2>5 DEF Freed, local, Promise!Done, Promise!Next
    <2>6. CASE UNCHANGED vars
      BY <2>6 DEF vars, Promise!promise
    <2> QED
      BY <1>2, <2>1, <2>2, <2>3, <2>4, <2>5, <2>6 DEF Next, Step, Promise!Next
  <1> QED
    BY <1>1, <1>2, Invariant, PTL DEF Spec
=============================================================================
