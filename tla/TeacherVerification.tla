------------------------- MODULE TeacherVerification -------------------------
(***************************************************************************)
(* One teacher from registration to anonymization: the documents, the      *)
(* status derived from them, the decisions of admins, the listing, and the *)
(* copy of the listing in the search index.                                *)
(*                                                                         *)
(* A handler loads the profile, works, and commits at the end; it writes   *)
(* the columns whose value it changed, computed from what it loaded.  The  *)
(* index is told between the two, and its failures are only logged.  A     *)
(* server that starts rebuilds the index from the rows it read first.      *)
(***************************************************************************)
EXTENDS Naturals, TLC

CONSTANTS
  DocumentType,  \* the required document types
  MaxCopies,     \* bound: documents uploaded per type
  Request,       \* requests the servers work on at a time
  MaxOverlap,    \* bound: once requests have met, none starts with more documents
  Server         \* servers that rebuild the index when they start

ASSUME TeacherAssumption == DocumentType # {} /\ MaxCopies \in Nat /\ MaxOverlap \in Nat

Document == DocumentType \X (1..MaxCopies)
NoDocument == <<>>

VARIABLES
  document,  \* verification_documents.status, "absent" before the upload
  status,    \* teacher_profiles.verification_status
  listed,    \* teacher_profiles.is_listed
  account,   \* "open", "closing", "due" for anonymization, or "anonymized"
  indexed,   \* the search index has the teacher
  missed,    \* since the index was last right, it was told wrong or not at all
  request,   \* the requests under way
  overlapped, \* some request has met another one under way
  rebuild    \* the rebuilds of the index under way

row   == <<document, status, listed, account>>
index == <<indexed, missed>>
vars  == <<row, index, request, overlapped, rebuild>>

Idle == [at |-> "idle", kind |-> "none", document |-> NoDocument, mark |-> "pending",
         was |-> "pending", wasListed |-> FALSE, to |-> "pending", list |-> FALSE]
Quiet == \A r \in Request : request[r] = Idle
Resting  == [at |-> "idle", found |-> FALSE, late |-> TRUE]
Deciding == \E r \in Request : request[r].kind = "decide"

-----------------------------------------------------------------------------
(* verification_documents.py                                               *)
Has(documents, type, statuses) == \E d \in Document : d[1] = type /\ documents[d] \in statuses

Usable   == {"pending", "approved"}
Uploaded(documents) == \A type \in DocumentType : Has(documents, type, Usable)
Approved(documents) == \A type \in DocumentType : Has(documents, type, {"approved"})
Rejected(documents) ==
  {type \in DocumentType : Has(documents, type, {"rejected"}) /\ ~Has(documents, type, Usable)}

(* Mutant: documents lift a suspension.                                    *)
DeriveFromDocuments(current, documents) ==
  CASE Approved(documents) -> IF current = "verified" THEN "verified" ELSE "under_review"
    [] ~Approved(documents) /\ Rejected(documents) # {} -> "rejected"
    [] OTHER -> IF Uploaded(documents) THEN "under_review" ELSE "pending"

Derive(current, documents) ==
  CASE current = "suspended"     -> "suspended"
    [] current # "suspended" /\ Approved(documents) ->
         IF current = "verified" THEN "verified" ELSE "under_review"
    [] current # "suspended" /\ ~Approved(documents) /\ Rejected(documents) # {} -> "rejected"
    [] OTHER -> IF Uploaded(documents) THEN "under_review" ELSE "pending"

(* What serialize_teacher_search_document makes a document of.             *)
Shown(verification, listing) == verification = "verified" /\ listing

(* list_teachers: the hits of the index, looked up in the rows; the rows   *)
(* alone when the index does not answer.                                   *)
FoundByRows  == listed /\ status = "verified"
FoundByIndex == indexed /\ FoundByRows

-----------------------------------------------------------------------------
Init ==
  /\ document = [d \in Document |-> "absent"]
  /\ status = "pending"
  /\ listed = FALSE
  /\ account = "open"
  /\ indexed = FALSE
  /\ missed = FALSE
  /\ request = [r \in Request |-> Idle]
  /\ overlapped = FALSE
  /\ rebuild = [w \in Server |-> Resting]

(* A handler loads the row and goes on with what it will write.  A rebuild *)
(* that has read the rows is late for the decision that arrives.           *)
Load(r, kind, at, d, mark, to, list) ==
  /\ request[r] = Idle
  /\ request' = [request EXCEPT ![r] =
       [at |-> at, kind |-> kind, document |-> d, mark |-> mark,
        was |-> status, wasListed |-> listed, to |-> to, list |-> list]]
  /\ overlapped' = (overlapped \/ ~Quiet)
  /\ overlapped' => ~\E n \in Document : n[2] > MaxOverlap /\ document[n] # "absent"
  /\ rebuild' = IF kind = "decide" THEN [w \in Server |-> [rebuild[w] EXCEPT !.late = TRUE]]
                ELSE rebuild
  /\ UNCHANGED <<row, index>>

(* A teacher uploads.  The status is derived from the profile loaded       *)
(* before the file went to storage and from the documents read after.      *)
Upload(r, d) ==
  /\ account = "open"
  /\ document[d] = "absent"
  /\ \A q \in Request : request[q].document # d
  /\ Load(r, "upload", "storing", d, "pending", status, listed)

Stored(r) ==
  /\ request[r].at = "storing"
  /\ LET me == request[r]
         to == Derive(me.was, [document EXCEPT ![me.document] = "pending"])
     IN  request' = [request EXCEPT ![r].at = "commit", ![r].to = to,
                                    ![r].list = me.wasListed /\ to = "verified"]
  /\ UNCHANGED <<row, index, overlapped, rebuild>>

(* Mutant: a review leaves the listing alone.                              *)
ReviewKeepingListing(r, d, mark) ==
  /\ document[d] # "absent"
  /\ Load(r, "review", "commit", d, mark, Derive(status, [document EXCEPT ![d] = mark]), listed)

(* Mutant: a review leaves the status alone.                               *)
ReviewKeepingStatus(r, d, mark) ==
  /\ document[d] # "absent"
  /\ Load(r, "review", "commit", d, mark, status, listed)

(* An admin approves or rejects one document; the index is not told.       *)
Review(r, d, mark) ==
  /\ document[d] # "absent"
  /\ LET to == Derive(status, [document EXCEPT ![d] = mark]) IN
       Load(r, "review", "commit", d, mark, to, listed /\ to = "verified")

(* Mutant: the index is not told.                                          *)
DecideUntold(r, to) ==
  /\ to = "verified" => Approved(document)
  /\ Load(r, "decide", "commit", NoDocument, "pending", to, to = "verified")

(* An admin verifies, rejects or suspends the teacher.                     *)
Decide(r, to) ==
  /\ to = "verified" => Approved(document)
  /\ Load(r, "decide", "sync", NoDocument, "pending", to, to = "verified")

(* The teacher edits the profile or the subjects, an admin the premium.    *)
Edit(r) == Load(r, "edit", "sync", NoDocument, "pending", status, listed)

(* sync_teacher_document_by_id: from the flushed row, before the commit.   *)
Sync(r) ==
  /\ request[r].at = "sync"
  /\ request' = [request EXCEPT ![r].at = "commit"]
  /\ \/ /\ indexed' = Shown(request[r].to, request[r].list)
        /\ missed' = FALSE
     \/ missed' = TRUE /\ UNCHANGED indexed
  /\ UNCHANGED <<row, overlapped, rebuild>>

(* The owner closes the account: request_account_deletion.                 *)
Close(r) ==
  /\ account = "open"
  /\ Load(r, "close", "commit", NoDocument, "pending", status, FALSE)

GraceEnds ==
  /\ account = "closing"
  /\ account' = "due"
  /\ UNCHANGED <<document, status, listed, index, request, overlapped, rebuild>>

(* The daily job anonymizes whom it finds due: anonymize_user_account.     *)
Anonymize(r) ==
  /\ account = "due"
  /\ Load(r, "anonymize", "commit", NoDocument, "pending", "suspended", FALSE)

(* Only columns that changed against the loaded row are written.           *)
Commit(r) ==
  /\ request[r].at = "commit"
  /\ LET me == request[r] IN
       /\ document' = IF me.document = NoDocument THEN document
                      ELSE [document EXCEPT ![me.document] = me.mark]
       /\ status' = IF me.to = me.was THEN status ELSE me.to
       /\ listed' = IF me.list = me.wasListed THEN listed ELSE me.list
       /\ account' = CASE me.kind = "close" -> "closing"
                       [] me.kind = "anonymize" -> "anonymized"
                       [] OTHER -> account
  /\ request' = [request EXCEPT ![r] = Idle]
  /\ UNCHANGED <<index, overlapped, rebuild>>

(* A request fails or its server dies; the index keeps what it was told.   *)
Die(r) ==
  /\ request[r] # Idle
  /\ request' = [request EXCEPT ![r] = Idle]
  /\ missed' = (missed \/ (request[r].kind = "decide" /\ request[r].at = "commit"))
  /\ UNCHANGED <<row, indexed, overlapped, rebuild>>

-----------------------------------------------------------------------------
(* rebuild_teacher_search_index of server w: the committed rows are read,  *)
(* while the other servers are at work;                                    *)
ReadRows(w) ==
  /\ rebuild[w] = Resting
  /\ rebuild' = [rebuild EXCEPT ![w] =
       [at |-> "empty", found |-> Shown(status, listed), late |-> Deciding]]
  /\ UNCHANGED <<row, index, request, overlapped>>

(* the index is emptied;                                                   *)
EmptyIndex(w) ==
  /\ rebuild[w].at = "empty"
  /\ rebuild' = [rebuild EXCEPT ![w].at = "add"]
  /\ indexed' = FALSE /\ missed' = TRUE
  /\ UNCHANGED <<row, request, overlapped>>

(* and what was read is added to what the index was told since.            *)
AddRead(w) ==
  /\ rebuild[w].at = "add"
  /\ rebuild' = [rebuild EXCEPT ![w] = Resting]
  /\ indexed' = (indexed \/ rebuild[w].found) /\ missed' = rebuild[w].late
  /\ UNCHANGED <<row, request, overlapped>>

(* A rebuild that fails may have emptied the index, or may still do so.    *)
RebuildFails(w) ==
  /\ rebuild[w] # Resting
  /\ rebuild' = [rebuild EXCEPT ![w] = Resting]
  /\ indexed' \in {indexed, FALSE} /\ missed' = TRUE
  /\ UNCHANGED <<row, request, overlapped>>

Next ==
  \/ \E r \in Request :
       \/ \E d \in Document : Upload(r, d) \/ \E mark \in {"approved", "rejected"} : Review(r, d, mark)
       \/ \E to \in {"verified", "rejected", "suspended"} : Decide(r, to)
       \/ Edit(r) \/ Close(r) \/ Anonymize(r)
       \/ Stored(r) \/ Sync(r) \/ Commit(r) \/ Die(r)
  \/ GraceEnds
  \/ \E w \in Server : ReadRows(w) \/ EmptyIndex(w) \/ AddRead(w) \/ RebuildFails(w)

Spec == Init /\ [][Next]_vars

Symmetry == Permutations(Request) \cup Permutations(DocumentType)

-----------------------------------------------------------------------------
(* While handlers come in turn, only a teacher verified by an admin whose  *)
(* every required document is still approved is listed, through re-uploads, *)
(* changed reviews, suspension and closing (_sync_..._verification_state). *)
ListedIsApproved == ~overlapped /\ listed => status = "verified" /\ Approved(document)

(* While handlers come in turn nobody waits in vain: a teacher is under    *)
(* review only with a usable document of every type, and pending only      *)
(* while one is missing (derive_teacher_verification_status, called by     *)
(* each handler that touches a document).                                  *)
NobodyWaitsInVain ==
  ~overlapped =>
    /\ status = "under_review" => Uploaded(document)
    /\ status = "pending" => ~Uploaded(document)

(* However handlers overlap, a suspension ends only with the decision of   *)
(* an admin, or is overwritten by a handler that loaded the teacher before *)
(* the suspension was committed, as upload_document does when it has       *)
(* waited for the storage: what loads a suspended teacher never lifts it.  *)
SuspensionHolds ==
  [][status = "suspended" /\ status' # "suspended" =>
       \E r \in Request :
         /\ request[r] # Idle /\ request'[r] = Idle
         /\ request[r].kind = "decide" \/ request[r].was # "suspended"]_vars

(* While handlers come in turn parents find a listed teacher whether or    *)
(* not the index answers.  The exceptions: the index failed, or a decision *)
(* was lost after it was told (sync_teacher_document_by_id comes before    *)
(* the commit), or a rebuild is replacing the index, or replaced it with   *)
(* what it had read before a decision was committed.                       *)
ListedIsFound ==
  ~overlapped /\ Quiet /\ listed => FoundByRows /\ (missed \/ FoundByIndex)
=============================================================================
