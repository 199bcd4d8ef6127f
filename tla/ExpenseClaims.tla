---------------------------- MODULE ExpenseClaims ----------------------------
(***************************************************************************)
(* Expense claims, from draft to posted, and the policy flags submission   *)
(* leaves for the approver (procurement.service).  A claim has one item.   *)
(* Handlers lock the claim; other claims are read unlocked.  Nothing       *)
(* rejects a claim.                                                        *)
(***************************************************************************)
EXTENDS Integers

CONSTANTS
  Users, Claims,
  Claimant,        \* of a claim: a user
  Item             \* of a claim: what was spent, when and with whom

VARIABLES
  claim,       \* status
  flagged,     \* the claims whose item carries DUPLICATE_SUSPECTED
  approver,    \* audit_log: who approved
  payable      \* entries credited to the payable account, by claim

vars == <<claim, flagged, approver, payable>>
None == "none"

Init ==
  /\ claim = [c \in Claims |-> None]
  /\ flagged = {}
  /\ approver = [c \in Claims |-> None]
  /\ payable = [c \in Claims |-> 0]

CreateExpenseClaim(c) ==   \* also on behalf of another
  /\ claim[c] = None
  /\ claim' = [claim EXCEPT ![c] = "DRAFT"]
  /\ UNCHANGED <<flagged, approver, payable>>

(* The claimant's other claims that hold an equal item, drafts included.    *)
Prior_Submitted(c) ==   \* mutant: only claims that have been approved count
  {d \in Claims \ {c} : /\ claim[d] \in {"APPROVED", "POSTED"}
                        /\ Claimant[d] = Claimant[c] /\ Item[d] = Item[c]}
Prior(c) ==
  {d \in Claims \ {c} : claim[d] # None /\ Claimant[d] = Claimant[c] /\ Item[d] = Item[c]}

SubmitExpenseClaim(c) ==
  /\ claim[c] = "DRAFT"
  /\ flagged' = IF Prior(c) # {} THEN flagged \cup {c} ELSE flagged
  /\ claim' = [claim EXCEPT ![c] = "SUBMITTED"]
  /\ UNCHANGED <<approver, payable>>

ApproveExpenseClaim(c, u) ==   \* never by the claimant
  /\ u # Claimant[c]
  /\ claim[c] = "SUBMITTED"
  /\ claim' = [claim EXCEPT ![c] = "APPROVED"]
  /\ approver' = [approver EXCEPT ![c] = u]
  /\ UNCHANGED <<flagged, payable>>

PostExpenseClaim(c) ==   \* posted again, it is returned as it is
  /\ claim[c] = "APPROVED"
  /\ claim' = [claim EXCEPT ![c] = "POSTED"]
  /\ payable' = [payable EXCEPT ![c] = @ + 1]
  /\ UNCHANGED <<flagged, approver>>

Next ==
  \E c \in Claims : \/ CreateExpenseClaim(c) \/ SubmitExpenseClaim(c) \/ PostExpenseClaim(c)
                    \/ \E u \in Users : ApproveExpenseClaim(c, u)

Spec == Init /\ [][Next]_vars
-----------------------------------------------------------------------------
(* Nothing is paid back twice unseen: of the claims that hold one person's  *)
(* same item and were submitted, at most one carries no flag, and whatever  *)
(* is owed for one was approved, once, by somebody else.                    *)
EverySecondClaimIsFlagged ==
  /\ \A c, d \in Claims :
       c # d /\ Claimant[c] = Claimant[d] /\ Item[c] = Item[d]
         /\ {claim[c], claim[d]} \cap {None, "DRAFT"} = {} => c \in flagged \/ d \in flagged
  /\ \A c \in Claims : payable[c] > 0 =>
       payable[c] = 1 /\ approver[c] \in Users \ {Claimant[c]}
=============================================================================
