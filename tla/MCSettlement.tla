---------------------------- MODULE MCSettlement ----------------------------
(* Two sources of three and two units against two documents owed two each,  *)
(* and every kind of request between them.                                  *)
EXTENDS Settlement, TLC

CONSTANTS x1, x2

Interchangeable == Permutations(Sessions)

MCWorth == x1 :> 3 @@ x2 :> 2
MCOwed == 1 :> 2 @@ 2 :> 2

R(op, x, a, b) == [op |-> op, source |-> x, amount |-> 1 :> a @@ 2 :> b, total |-> a + b]
Refund(x, n) == [op |-> "refund", source |-> x, amount |-> 1 :> 0 @@ 2 :> 0, total |-> n]

MCRequests == {
  R("create", x1, 1, 0), R("create", x2, 0, 0),
  R("allocate", x1, 1, 1), R("allocate", x1, 2, 0), R("allocate", x2, 1, 1), R("allocate", x2, 0, 1),
  Refund(x1, 1), Refund(x2, 2),
  R("writeOff", NoSource, 1, 0), R("writeOff", NoSource, 0, 2)}
=============================================================================
