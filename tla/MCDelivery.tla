----------------------------- MODULE MCDelivery -----------------------------
(* Instances of Delivery for TLC.                                          *)
EXTENDS Delivery, TLC

CONSTANTS a1, r1, r2

OneAgent == {a1}
TwoRequests == {r1, r2}

(* Requests are interchangeable in the safety run.                         *)
Interchangeable == Permutations(TwoRequests)
=============================================================================
