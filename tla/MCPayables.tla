----------------------------- MODULE MCPayables -----------------------------
(* Bills of two units and of one, of two vendors; a payment of two, a       *)
(* credit drawn from the first bill.  Where there are two entities, the     *)
(* second bill is of the other.                                             *)
EXTENDS Payables, TLC

CONSTANTS p1, v1, v2, e1, e2

MCTotal == [b \in Bills |-> IF b = 1 THEN 2 ELSE 1]
MCAmount == [p \in Payments |-> 2]
MCCreditOf == [c \in Credits |-> 1]
MCVendorOf == [b \in Bills |-> IF b = 1 THEN v1 ELSE v2]
MCEntityOf == [x \in Bills \cup Payments |-> e1]
MCEntitiesApart == [x \in Bills \cup Payments |-> IF x = 2 THEN e2 ELSE e1]

Interchangeable == Permutations(Holds)
=============================================================================
