-------------------------- MODULE VendorBankDetails --------------------------
(***************************************************************************)
(* A vendor's bank details: a change closes the current version and adds   *)
(* the next, under the vendor's row lock (ap.service).  The account number *)
(* itself is only in the secret store, which encrypted_ref points at.      *)
(***************************************************************************)
EXTENDS Integers, Sequences

CONSTANTS
  Vendors,
  Banks, Refs,     \* values of a field that is shown, and of encrypted_ref
  Versions         \* bound on a vendor's versions

Unstated == "unstated"
Fields == [bank : Banks \cup {Unstated}, ref : Refs \cup {Unstated}]

VARIABLE details   \* contact_bank_details of a vendor, by version

CreateVendor == [v \in Vendors |-> <<>>]
Init == details = CreateVendor

Current(v) == IF details[v] = <<>> THEN [version |-> 0, bank |-> Unstated, ref |-> Unstated, open |-> TRUE]
              ELSE details[v][Len(details[v])]
Closed(v) == [n \in DOMAIN details[v] |-> [details[v][n] EXCEPT !.open = FALSE]]

UpdateVendorBankDetails(v, input) ==
  /\ Len(details[v]) < Versions
  /\ details' = [details EXCEPT ![v] = Append(Closed(v),
       [version |-> Current(v).version + 1,
        bank |-> IF input.bank = Unstated THEN Current(v).bank ELSE input.bank,
        ref |-> input.ref, open |-> TRUE])]

Next == \E v \in Vendors, input \in Fields : UpdateVendorBankDetails(v, input)
Spec == Init /\ [][Next]_details
-----------------------------------------------------------------------------
(* A payment finds one set of details: the versions count up from one, and  *)
(* only the last is valid.                                                  *)
OneVersionIsValid ==
  \A v \in Vendors : \A n \in DOMAIN details[v] :
    details[v][n].version = n /\ (details[v][n].open <=> n = Len(details[v]))

(* "Unstated fields carry forward from the current version": what a change  *)
(* does not state stays as it was (refuted: the reference to the account    *)
(* number is not carried).                                                  *)
CarriedForward ==
  \A v \in Vendors : \A n \in DOMAIN details[v] \ {1} :
    details[v][n - 1].ref # Unstated => details[v][n].ref # Unstated
=============================================================================
