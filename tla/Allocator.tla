------------------------------- MODULE Allocator -------------------------------
(***************************************************************************)
(* What malloc and free promise to their callers: every call returns, and  *)
(* a block that is handed out shares no byte with another one.  Where      *)
(* blocks lie, and what becomes of them later, is not told.                *)
(***************************************************************************)
EXTENDS Naturals

CONSTANT Sizes     \* the sizes that callers ask for, in bytes

VARIABLES call,    \* the call under way: "none", "malloc" or "free"
          asked,   \* the size that the malloc under way asks for, else 0
          live     \* the blocks that callers hold: their sizes by address

promise == <<call, asked, live>>

\* The block at address a with s bytes shares none with the blocks that are held.
Separate(a, s) ==
  \A b \in DOMAIN live : b # a /\ (b + live[b] <= a \/ a + s <= b)

Init == call = "none" /\ asked = 0 /\ live = [a \in {} |-> 0]

Request == call = "none" /\ call' = "malloc" /\ asked' \in Sizes /\ UNCHANGED live

Grant ==
  /\ call = "malloc"
  /\ call' = "none"
  /\ \E a \in DOMAIN live' :
        /\ a # 0
        /\ Separate(a, asked)
        /\ live' = [b \in DOMAIN live \cup {a} |-> IF b = a THEN asked ELSE live[b]]
  /\ asked' = 0

GiveBack ==
  /\ call = "none"
  /\ call' = "free"
  /\ \E a \in DOMAIN live : live' = [b \in DOMAIN live \ {a} |-> live[b]]
  /\ UNCHANGED asked

Done == call = "free" /\ call' = "none" /\ UNCHANGED <<asked, live>>

Next == Request \/ Grant \/ GiveBack \/ Done

\* Every call returns.
Returns == (call # "none") ~> (call = "none")

Spec == Init /\ [][Next]_promise /\ Returns
=============================================================================
