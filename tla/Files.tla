-------------------------------- MODULE Files --------------------------------
(***************************************************************************)
(* files.service: attachments, whose rows are in the database and whose    *)
(* bytes are in an object store that takes part in no transaction.         *)
(*                                                                         *)
(* A file's key in the store is its own.  Content stands for its hash.     *)
(***************************************************************************)
EXTENDS FiniteSets

CONSTANTS Ids, Contents, Documents, Sessions

None == "none"

ContentsAssumption == None \notin Contents

VARIABLES
  file,       \* files: upload_state and sha256
  object,     \* what the store has at a file's key
  links,      \* file_links
  posted,     \* documents that have left DRAFT, PENDING_APPROVAL and APPROVED
  deleting,   \* per session: the file whose row it has locked to delete, how far it is
  urls,       \* files whose pre-signed upload URL has not run out
  verified,   \* history: the store confirmed the recorded hash, nothing was put since
  torn        \* files without bytes because a deletion was rolled back after them

vars == <<file, object, links, posted, deleting, urls, verified, torn>>

NoFile == [state |-> None, sha256 |-> None]
Idle == [file |-> None, step |-> None]
Locked(f) == \E s \in Sessions : deleting[s].file = f

Init ==
  /\ file = [f \in Ids |-> NoFile]
  /\ object = [f \in Ids |-> None]
  /\ links = {} /\ posted = {} /\ urls = {} /\ verified = {} /\ torn = {}
  /\ deleting = [s \in Sessions |-> Idle]

(* Content that is there already is linked to instead: no row is written.   *)
CreateUploadUrl(f, declared) ==
  /\ file[f] = NoFile /\ object[f] = None /\ f \notin urls   \* the id is new
  /\ declared # None =>
       ~\E g \in Ids : file[g] = [state |-> "COMPLETED", sha256 |-> declared]
  /\ file' = [file EXCEPT ![f] = [state |-> "PENDING", sha256 |-> declared]]
  /\ urls' = urls \cup {f}
  /\ UNCHANGED <<object, links, posted, deleting, verified, torn>>

(* The client puts to the URL it was given for as long as that lasts: again,*)
(* something else, after the file was confirmed, after it was deleted.      *)
Upload(f, content) ==
  /\ f \in urls
  /\ object' = [object EXCEPT ![f] = content]
  /\ verified' = verified \ {f} /\ torn' = torn \ {f}
  /\ UNCHANGED <<file, links, posted, deleting, urls>>

ExpireUrl(f) ==   \* 900 seconds after it was signed
  /\ f \in urls
  /\ urls' = urls \ {f}
  /\ UNCHANGED <<file, object, links, posted, deleting, verified, torn>>

(* The store is asked whether it has the file, and says of what hash if it  *)
(* kept one (S3Storage does not ask for it).  Only where both are known is  *)
(* the declared hash compared; it is recorded either way.                   *)
Arrived(f, declared, head) ==
  /\ object[f] # None
  /\ head \in {None, object[f]}
  /\ declared = None \/ head = None \/ head = declared
CompleteUpload(f, sha256, head, given) ==
  LET declared == IF sha256 # None THEN sha256 ELSE file[f].sha256 IN
  /\ file[f] # NoFile /\ ~Locked(f)
  /\ \/ file[f].state = "COMPLETED" /\ UNCHANGED <<file, verified>>   \* it is only linked
     \/ /\ file[f].state = "PENDING" /\ Arrived(f, declared, head)
        /\ file' = [file EXCEPT ![f] = [state |-> "COMPLETED",
                                        sha256 |-> IF declared # None THEN declared ELSE head]]
        /\ verified' = IF head = None THEN verified ELSE verified \cup {f}
  /\ links' = links \cup ({f} \X given)
  /\ UNCHANGED <<object, posted, deleting, urls, torn>>

PostDocument(d) ==   \* a document's own transaction; it asks for no file
  /\ d \notin posted
  /\ posted' = posted \cup {d}
  /\ UNCHANGED <<file, object, links, deleting, urls, verified, torn>>
-----------------------------------------------------------------------------
(* deleteFile: nothing but the file's row is locked.                        *)
Evidence(f) == {d \in posted : <<f, d>> \in links}
DeleteRows_RemovesFirst(s, f) ==   \* mutant: the bytes go before the check
  /\ deleting[s] = Idle /\ file[f] # NoFile /\ ~Locked(f)
  /\ object' = [object EXCEPT ![f] = None]
  /\ deleting' = IF Evidence(f) = {} THEN [deleting EXCEPT ![s] = [file |-> f, step |-> "rows"]]
                 ELSE deleting
  /\ UNCHANGED <<file, links, posted, urls, verified, torn>>
DeleteRows(s, f) ==
  /\ deleting[s] = Idle /\ file[f] # NoFile /\ ~Locked(f)
  /\ Evidence(f) = {}
  /\ deleting' = [deleting EXCEPT ![s] = [file |-> f, step |-> "rows"]]
  /\ UNCHANGED <<file, object, links, posted, urls, verified, torn>>

RemoveObject(s) ==   \* storage.remove, before the commit
  /\ deleting[s].step = "rows"
  /\ object' = [object EXCEPT ![deleting[s].file] = None]
  /\ deleting' = [deleting EXCEPT ![s].step = "removed"]
  /\ UNCHANGED <<file, links, posted, urls, verified, torn>>

CommitDelete(s) ==
  LET f == deleting[s].file IN
  /\ deleting[s].step = "removed"
  /\ file' = [file EXCEPT ![f] = NoFile]
  /\ links' = {l \in links : l[1] # f}
  /\ deleting' = [deleting EXCEPT ![s] = Idle]
  /\ verified' = verified \ {f} /\ torn' = torn \ {f}
  /\ UNCHANGED <<object, posted, urls>>

(* The store, the audit row or the connection fails: the rows come back.    *)
Removed(s, f) == deleting[s] = [file |-> f, step |-> "removed"] /\ object[f] = None
RollbackDelete(s) ==
  /\ deleting[s] # Idle
  /\ deleting' = [deleting EXCEPT ![s] = Idle]
  /\ torn' = torn \cup {f \in Ids : Removed(s, f)}
  /\ UNCHANGED <<file, object, links, posted, urls, verified>>

Next ==
  \/ \E f \in Ids, c \in Contents \cup {None} : CreateUploadUrl(f, c)
  \/ \E f \in Ids, c \in Contents : Upload(f, c)
  \/ \E f \in Ids : ExpireUrl(f)
  \/ \E f \in Ids, c, head \in Contents \cup {None}, ds \in SUBSET Documents :
       CompleteUpload(f, c, head, ds)
  \/ \E d \in Documents : PostDocument(d)
  \/ \E s \in Sessions : \/ \E f \in Ids : DeleteRows(s, f)
                         \/ RemoveObject(s) \/ CommitDelete(s) \/ RollbackDelete(s)

Spec == Init /\ [][Next]_vars
-----------------------------------------------------------------------------
(* What a link leads to is a confirmed file, and behind a confirmed file    *)
(* are bytes: the only way to lose them is a deletion that was not refused, *)
(* one still going on, or one that failed after it had removed them.  They  *)
(* are those of the recorded hash where the store confirmed it and nothing  *)
(* was put to the URL since.                                                *)
Gone(f) == f \in torn \/ \E s \in Sessions : Removed(s, f)
AttachmentsAreThere ==
  /\ \A l \in links : file[l[1]].state = "COMPLETED"
  /\ \A f \in Ids : file[f].state = "COMPLETED" =>
       /\ object[f] # None \/ Gone(f)
       /\ f \in verified => object[f] = file[f].sha256 \/ Gone(f)

(* "Confirms the bytes arrived, and verifies it rather than believing it."  *)
(* (refuted: without the store's hash the declared one is believed, and a   *)
(* later put replaces what was confirmed)                                   *)
ConfirmedIsVerified ==
  \A f \in Ids : file[f].state = "COMPLETED" /\ file[f].sha256 # None =>
    object[f] = file[f].sha256 \/ Gone(f)

(* "Deletes a file, refusing anything attached to posted history."          *)
(* (refuted: the document is posted between the check and the commit)       *)
EvidenceIsKept ==
  [][\A l \in links : l[2] \in posted => l \in links']_vars
=============================================================================
