--------------------------------- MODULE Heap ---------------------------------
(***************************************************************************)
(* malloc and free (bdk/mem/heap.c): a list of nodes, each a header in     *)
(* front of its block, that is searched first-fit, split, extended at its  *)
(* end, and joined again.  One action per round of a loop, so that the     *)
(* list is seen in the middle of a call too.                               *)
(***************************************************************************)
EXTENDS Naturals

CONSTANTS Start,    \* heap->start
          Sizes,    \* sizes that callers ask for, in bytes
          Limit     \* the callers never fill the RAM beyond this address

ASSUME HeapAssumption == Start \in Nat \ {0} /\ Sizes \subseteq Nat /\ Limit \in Nat

VARIABLES pc,
          first,    \* heap->first
          mem,      \* the nodes in memory, by address
          node,     \* the local of either loop
          size,     \* local of _heap_alloc
          asked,    \* argument of the malloc under way
          live      \* callers' view: the size asked for, by address of the block

list  == <<first, mem>>
local == <<node, size, asked>>
vars  == <<pc, first, mem, node, size, asked, live>>

NULL == 0
HDR  == 32                                     \* sizeof(hnode_t)

Align(s) == ((s + HDR - 1) \div HDR) * HDR

Node == [used : BOOLEAN, size : Nat, prev : Nat, next : Nat]

hnode(u, s, p, n) == [used |-> u, size |-> s, prev |-> p, next |-> n]

Free(n) == ~mem[n].used
\* Mutant: a node of exactly the size is passed over.
FitsWithRoom(n) == Free(n) /\ size < mem[n].size
Fits(n) == Free(n) /\ size <= mem[n].size
End(n)  == n + HDR + mem[n].size               \* the first byte behind a node

Blocks(f) == DOMAIN f \subseteq Nat /\ \A a \in DOMAIN f : f[a] \in Nat

TypeOK ==
  /\ pc \in {"idle", "alloc", "free"}
  /\ first \in {NULL, Start}
  /\ DOMAIN mem \subseteq Nat \ {NULL}
  /\ mem \in [DOMAIN mem -> Node]
  /\ node \in DOMAIN mem \cup {NULL}
  /\ size \in Nat /\ asked \in Nat
  /\ Blocks(live)

Init ==
  /\ pc = "idle" /\ first = NULL /\ mem = [n \in {} |-> 0] /\ node = NULL
  /\ size = 0 /\ asked = 0
  /\ live = [a \in {} |-> 0]

-----------------------------------------------------------------------------
\* malloc

\* The RAM is taken to be large enough: the request fits into an unused node, or
\* behind the last one below the limit.
Room(s) ==
  \/ \E n \in DOMAIN mem : Free(n) /\ s <= mem[n].size
  \/ \A n \in DOMAIN mem : End(n) + HDR + s <= Limit

Malloc(s) ==
  /\ pc = "idle"
  /\ Room(Align(s))
  /\ pc' = "alloc"
  /\ asked' = s
  /\ size' = Align(s)
  /\ node' = first
  /\ UNCHANGED <<list, live>>

\* return node + sizeof(hnode_t): from now on the caller holds the block.
Return(n) ==
  /\ pc' = "idle"
  /\ live' = [a \in DOMAIN live \cup {n + HDR} |-> IF a = n + HDR THEN asked ELSE live[a]]
  /\ node' = NULL /\ size' = 0 /\ asked' = 0

\* The first call creates the first node.
Create ==
  /\ pc = "alloc" /\ first = NULL
  /\ mem' = [n \in {Start} |-> hnode(TRUE, size, NULL, NULL)]
  /\ first' = Start
  /\ Return(Start)

Leftover == mem[node].size - size

\* Mutant: the header of the new node is not counted.
RestWithHeader == hnode(FALSE, Leftover, node, mem[node].next)

Rest == hnode(FALSE, Leftover - HDR, node, mem[node].next)

\* An unused node with room to spare: the rest becomes an unused node behind it.
Split ==
  /\ pc = "alloc" /\ node # NULL /\ Fits(node)
  /\ Leftover >= 4 * HDR
  /\ LET new == node + HDR + size
     IN mem' = [n \in DOMAIN mem \cup {new} |->
          IF n = new THEN Rest
          ELSE IF n = node THEN hnode(TRUE, size, mem[n].prev, new)
          ELSE IF n = mem[node].next THEN hnode(mem[n].used, mem[n].size, new, mem[n].next)
          ELSE mem[n]]
  /\ Return(node)
  /\ UNCHANGED first

\* Just enough: the block is the whole node.
TakeWhole ==
  /\ pc = "alloc" /\ node # NULL /\ Fits(node)
  /\ Leftover < 4 * HDR
  /\ mem' = [mem EXCEPT ![node].used = TRUE]
  /\ Return(node)
  /\ UNCHANGED first

TryNext ==
  /\ pc = "alloc" /\ node # NULL /\ ~Fits(node)
  /\ mem[node].next # NULL
  /\ node' = mem[node].next
  /\ UNCHANGED <<pc, list, size, asked, live>>

\* No node fits: a new one behind the last.
Append ==
  /\ pc = "alloc" /\ node # NULL /\ ~Fits(node)
  /\ mem[node].next = NULL
  /\ LET new == End(node)
     IN /\ mem' = [n \in DOMAIN mem \cup {new} |->
             IF n = new THEN hnode(TRUE, size, node, NULL)
             ELSE IF n = node THEN hnode(mem[n].used, mem[n].size, mem[n].prev, new)
             ELSE mem[n]]
        /\ Return(new)
  /\ UNCHANGED first

-----------------------------------------------------------------------------
\* free

\* Callers free what malloc gave them, once.
FreeBlock(a) ==
  /\ pc = "idle"
  /\ a \in DOMAIN live
  /\ pc' = "free"
  /\ mem' = [mem EXCEPT ![a - HDR].used = FALSE]
  /\ node' = first
  /\ live' = [b \in DOMAIN live \ {a} |-> live[b]]
  /\ UNCHANGED <<first, size, asked>>

Joins(n) == Free(n) /\ mem[n].prev # NULL /\ Free(mem[n].prev)

\* Mutant: prev->next is forgotten.
JoinedKeepsNext(n) == hnode(FALSE, mem[n].size + mem[node].size + HDR, mem[n].prev, mem[n].next)

Joined(n) == hnode(FALSE, mem[n].size + mem[node].size + HDR, mem[n].prev, mem[node].next)

\* An unused node behind an unused one becomes part of it.  The loop reads the
\* next pointer of the header that is no longer a node.
Merge ==
  /\ pc = "free" /\ node # NULL /\ Joins(node)
  /\ mem' = [n \in DOMAIN mem \ {node} |->
       IF n = mem[node].prev THEN Joined(n)
       ELSE IF n = mem[node].next THEN hnode(mem[n].used, mem[n].size, mem[node].prev, mem[n].next)
       ELSE mem[n]]
  /\ node' = mem[node].next
  /\ UNCHANGED <<pc, first, size, asked, live>>

Pass ==
  /\ pc = "free" /\ node # NULL /\ ~Joins(node)
  /\ node' = mem[node].next
  /\ UNCHANGED <<pc, list, size, asked, live>>

\* Mutant: the walk may stop anywhere.
FreedEarly ==
  /\ pc = "free"
  /\ pc' = "idle"
  /\ UNCHANGED <<list, local, live>>

Freed ==
  /\ pc = "free" /\ node = NULL
  /\ pc' = "idle"
  /\ UNCHANGED <<list, local, live>>

-----------------------------------------------------------------------------
Step == Create \/ Split \/ TakeWhole \/ TryNext \/ Append \/ Merge \/ Pass \/ Freed

Next ==
  \/ \E s \in Sizes : Malloc(s)
  \/ \E a \in DOMAIN live : FreeBlock(a)
  \/ Step

\* The processor runs: a call goes on until it returns.
Fairness == WF_vars(Step)

Spec == Init /\ [][Next]_vars /\ Fairness

-----------------------------------------------------------------------------
\* Properties

\* The promise to the callers is kept: blocks that are held at the same time
\* never overlap, whatever was split, joined and used again before, and every
\* walk of the list comes to its end.
Promise == INSTANCE Allocator WITH call <- IF pc = "idle" THEN "none"
                                           ELSE IF pc = "alloc" THEN "malloc" ELSE pc

Promised == Promise!Spec

\* Between calls no two unused nodes are neighbours: what has been freed can be
\* used for a request as large as all of it, and once everything is freed the
\* heap is a single node again.
Coalesced ==
  pc = "idle" => \A n \in DOMAIN mem : ~Joins(n)

\* The heap grows only for a request that no unused node can hold.
GrowsOnlyIfFull ==
  [][Append => \A n \in DOMAIN mem : mem[n].used \/ mem[n].size < size]_vars
=============================================================================
