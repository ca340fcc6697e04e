------------------------------- MODULE SdPromise -------------------------------
(***************************************************************************)
(* What the SD layer promises to FatFs: a call that is made returns, and   *)
(* when it returns success every part of the buffer has its own part of    *)
(* the card.  How often it tries, and at which speed, is not told.         *)
(***************************************************************************)
EXTENDS Naturals

CONSTANT Chunks    \* length of a transfer

VARIABLES busy,    \* a call is under way
          result,  \* "none", or what the last call returned: "ok", "failed"
          buf      \* for every part of the buffer the part of the card in it

promise == <<busy, result, buf>>

\* 0: something else than a part of the card
Content == [1 .. Chunks -> 0 .. Chunks]
Complete == [k \in 1 .. Chunks |-> k]

Init == busy = FALSE /\ result = "none" /\ buf \in Content

Call == ~busy /\ busy' = TRUE /\ result' = "none" /\ buf' \in Content

Fill == busy /\ buf' \in Content /\ UNCHANGED <<busy, result>>

Succeed == busy /\ busy' = FALSE /\ result' = "ok" /\ buf' = Complete

Fail == busy /\ busy' = FALSE /\ result' = "failed" /\ buf' \in Content

Next == Call \/ Fill \/ Succeed \/ Fail

Spec == Init /\ [][Next]_promise /\ WF_promise(Succeed \/ Fail)
=============================================================================
