-------------------------------- MODULE MCBulk --------------------------------
EXTENDS Bulk

CONSTANTS w1, w2

MCOptions == [stream : BOOLEAN, atomic : BOOLEAN, parallel : BOOLEAN, cont : BOOLEAN]

Count(b, x) == Cardinality({i \in DOMAIN b : b[i] = x})

(* Every body of up to three elements, and those of four of which one is   *)
(* refused and one panics; one at most panics or is not decoded, and one   *)
(* needs what the panicking one locks.                                     *)
MCBodies ==
  {b \in UNION {[1 .. n -> Element] : n \in 0 .. 4} :
     /\ Len(b) = 4 => Count(b, "refused") = 1 /\ Count(b, "panics") = 1
     /\ Count(b, "malformed") + Count(b, "empty") + Count(b, "panics") <= 1
     /\ Count(b, "sharing") <= Count(b, "panics")}
=============================================================================
