---------------------- MODULE TeacherVerificationProofs ----------------------
(***************************************************************************)
(* What holds of every teacher, for any set of required documents, any     *)
(* number of uploads, handlers and servers: first however they overlap,    *)
(* then while handlers come in turn.                                       *)
(***************************************************************************)
EXTENDS TeacherVerification, TLAPS

DocumentStatuses == {"absent", "pending", "approved", "rejected"}
Statuses == {"pending", "under_review", "verified", "rejected", "suspended"}

Work == [at: {"idle", "storing", "sync", "commit"},
         kind: {"none", "upload", "review", "decide", "edit", "close", "anonymize"},
         document: Document \cup {NoDocument}, mark: {"pending", "approved", "rejected"},
         was: Statuses, wasListed: BOOLEAN, to: Statuses, list: BOOLEAN]

Rebuilds == [at: {"idle", "empty", "add"}, found: BOOLEAN, late: BOOLEAN]

(* Every column and every pending write has a value of its type.           *)
TypeOK ==
  /\ document \in [Document -> DocumentStatuses]
  /\ status \in Statuses
  /\ listed \in BOOLEAN
  /\ account \in {"open", "closing", "due", "anonymized"}
  /\ indexed \in BOOLEAN
  /\ missed \in BOOLEAN
  /\ request \in [Request -> Work]
  /\ overlapped \in BOOLEAN
  /\ rebuild \in [Server -> Rebuilds]

-----------------------------------------------------------------------------
(* derive_teacher_verification_status.                                     *)

(* Documents that are all approved have all been uploaded.                 *)
LEMMA ApprovedIsUploaded ==
  ASSUME NEW documents PROVE Approved(documents) => Uploaded(documents)
  BY DEF Approved, Uploaded, Has, Usable

(* What the status says of the documents it was derived from.              *)
LEMMA Derived ==
  ASSUME NEW documents, NEW current \in Statuses
  PROVE  LET to == Derive(current, documents)
         IN  /\ to \in Statuses
             /\ to = "verified" => current = "verified" /\ Approved(documents)
             /\ to = "under_review" => Uploaded(documents)
             /\ to = "pending" => ~Uploaded(documents)
             /\ current = "suspended" => to = "suspended"
<1>1. CASE current = "suspended"
  BY <1>1 DEF Derive, Statuses
<1>2. CASE current # "suspended" /\ Approved(documents)
  BY <1>2, ApprovedIsUploaded DEF Derive, Statuses
<1>3. CASE current # "suspended" /\ ~Approved(documents) /\ Rejected(documents) # {}
  BY <1>3 DEF Derive, Statuses
<1>4. CASE current # "suspended" /\ ~Approved(documents) /\ Rejected(documents) = {}
  BY <1>4 DEF Derive, Statuses
<1> QED
  BY <1>1, <1>2, <1>3, <1>4

(* No uploaded document is the placeholder for none.                       *)
LEMMA DocumentIsNamed == NoDocument \notin Document
  BY DEF Document, NoDocument

-----------------------------------------------------------------------------
LEMMA TypeInit == Init => TypeOK
<1>1. Idle \in Work /\ Resting \in Rebuilds
  BY DEF Idle, Work, Statuses, Resting, Rebuilds
<1> QED
  BY <1>1 DEF Init, TypeOK, DocumentStatuses, Statuses

(* A handler that loads goes on with values of their types.                *)
LEMMA LoadTypes ==
  ASSUME TypeOK, NEW r \in Request,
         NEW kind \in {"upload", "review", "decide", "edit", "close", "anonymize"},
         NEW at \in {"storing", "sync", "commit"}, NEW d \in Document \cup {NoDocument},
         NEW mark \in {"pending", "approved", "rejected"}, NEW to \in Statuses,
         NEW list \in BOOLEAN, Load(r, kind, at, d, mark, to, list)
  PROVE  TypeOK'
<1>1. request' \in [Request -> Work]
  BY DEF Load, TypeOK, Work
<1>2. rebuild' \in [Server -> Rebuilds]
  BY DEF Load, TypeOK, Rebuilds
<1>3. overlapped' \in BOOLEAN
  BY DEF Load, TypeOK
<1>4. UNCHANGED <<document, status, listed, account, indexed, missed>>
  BY DEF Load, row, index
<1> QED
  BY <1>1, <1>2, <1>3, <1>4 DEF TypeOK

LEMMA TypeStep == ASSUME TypeOK, [Next]_vars PROVE TypeOK'
<1> USE DEF row, index
<1>1. ASSUME NEW r \in Request, NEW d \in Document, Upload(r, d) PROVE TypeOK'
  BY <1>1, LoadTypes DEF Upload, TypeOK
<1>2. ASSUME NEW r \in Request, Stored(r) PROVE TypeOK'
  <2> DEFINE me == request[r]
             to == Derive(me.was, [document EXCEPT ![me.document] = "pending"])
  <2>1. me \in Work
    BY DEF TypeOK
  <2>2. me.was \in Statuses /\ me.wasListed \in BOOLEAN
    BY <2>1 DEF Work
  <2>3. to \in Statuses
    BY <2>2, Derived
  <2>4. request' = [request EXCEPT ![r].at = "commit", ![r].to = to,
                                   ![r].list = me.wasListed /\ to = "verified"]
    BY <1>2 DEF Stored
  <2> DEFINE list == me.wasListed /\ to = "verified"
  <2>5. list \in BOOLEAN
    OBVIOUS
  <2> HIDE DEF to, list
  <2>6. [me EXCEPT !.at = "commit", !.to = to, !.list = list] \in Work
    BY <2>1, <2>3, <2>5 DEF Work
  <2>7. request' = [request EXCEPT ![r] =
                      [request[r] EXCEPT !.at = "commit", !.to = to, !.list = list]]
    BY <2>4 DEF list, TypeOK
  <2>8. request' \in [Request -> Work]
    BY <2>6, <2>7 DEF TypeOK
  <2> QED
    BY <1>2, <2>8 DEF Stored, TypeOK
<1>3. ASSUME NEW r \in Request, NEW d \in Document, NEW mark \in {"approved", "rejected"},
             Review(r, d, mark)
      PROVE TypeOK'
  <2> DEFINE to == Derive(status, [document EXCEPT ![d] = mark])
  <2>1. to \in Statuses
    BY Derived DEF TypeOK
  <2>2. Load(r, "review", "commit", d, mark, to, listed /\ to = "verified")
    BY <1>3 DEF Review
  <2> HIDE DEF to
  <2>3. (listed /\ to = "verified") \in BOOLEAN
    OBVIOUS
  <2> QED
    BY <2>1, <2>2, <2>3, LoadTypes
<1>4. ASSUME NEW r \in Request, NEW to \in {"verified", "rejected", "suspended"}, Decide(r, to)
      PROVE TypeOK'
  <2>1. (to = "verified") \in BOOLEAN /\ to \in Statuses
    BY DEF Statuses
  <2> QED
    BY <1>4, <2>1, LoadTypes DEF Decide
<1>5. ASSUME NEW r \in Request, Edit(r) PROVE TypeOK'
  BY <1>5, LoadTypes DEF Edit, TypeOK
<1>6. ASSUME NEW r \in Request, Close(r) PROVE TypeOK'
  BY <1>6, LoadTypes DEF Close, TypeOK
<1>7. ASSUME NEW r \in Request, Anonymize(r) PROVE TypeOK'
  BY <1>7, LoadTypes DEF Anonymize, TypeOK, Statuses
<1>8. ASSUME NEW r \in Request, Sync(r) PROVE TypeOK'
  <2>1. request' \in [Request -> Work]
    BY <1>8 DEF Sync, TypeOK, Work
  <2>2. indexed' \in BOOLEAN /\ missed' \in BOOLEAN
    BY <1>8 DEF Sync, Shown, TypeOK
  <2> QED
    BY <1>8, <2>1, <2>2 DEF Sync, TypeOK
<1>9. ASSUME NEW r \in Request, Commit(r) PROVE TypeOK'
  <2>1. request[r] \in Work
    BY DEF TypeOK
  <2>2. document' \in [Document -> DocumentStatuses]
    BY <1>9, <2>1 DEF Commit, TypeOK, Work, DocumentStatuses
  <2>3. status' \in Statuses /\ listed' \in BOOLEAN
    BY <1>9, <2>1 DEF Commit, TypeOK, Work
  <2>4. account' \in {"open", "closing", "due", "anonymized"}
    BY <1>9 DEF Commit, TypeOK
  <2>5. request' \in [Request -> Work]
    BY <1>9 DEF Commit, TypeOK, Idle, Work, Statuses
  <2> QED
    BY <1>9, <2>2, <2>3, <2>4, <2>5 DEF Commit, TypeOK
<1>10. ASSUME NEW r \in Request, Die(r) PROVE TypeOK'
  <2>1. request' \in [Request -> Work]
    BY <1>10 DEF Die, TypeOK, Idle, Work, Statuses
  <2> QED
    BY <1>10, <2>1 DEF Die, TypeOK
<1>11. ASSUME NEW w \in Server, ReadRows(w) \/ EmptyIndex(w) \/ AddRead(w) \/ RebuildFails(w)
      PROVE TypeOK'
  <2>1. rebuild[w] \in Rebuilds /\ Resting \in Rebuilds
    BY DEF TypeOK, Resting, Rebuilds
  <2>2. rebuild' \in [Server -> Rebuilds]
    <3>1. CASE ReadRows(w)
      BY <3>1 DEF ReadRows, Shown, Deciding, Rebuilds, TypeOK
    <3>2. CASE EmptyIndex(w)
      BY <2>1, <3>2 DEF EmptyIndex, Rebuilds, TypeOK
    <3>3. CASE AddRead(w) \/ RebuildFails(w)
      BY <2>1, <3>3 DEF AddRead, RebuildFails, TypeOK
    <3> QED
      BY <1>11, <3>1, <3>2, <3>3
  <2>3. indexed' \in BOOLEAN /\ missed' \in BOOLEAN
    BY <1>11, <2>1 DEF ReadRows, EmptyIndex, AddRead, RebuildFails, Rebuilds, TypeOK
  <2> QED
    BY <1>11, <2>2, <2>3 DEF ReadRows, EmptyIndex, AddRead, RebuildFails, TypeOK
<1>12. CASE GraceEnds
  BY <1>12 DEF GraceEnds, TypeOK
<1>13. CASE UNCHANGED vars
  BY <1>13 DEF vars, TypeOK
<1> QED
  BY <1>1, <1>2, <1>3, <1>4, <1>5, <1>6, <1>7, <1>8, <1>9, <1>10, <1>11, <1>12, <1>13 DEF Next

-----------------------------------------------------------------------------
(* However handlers overlap, one that loaded a suspended teacher keeps the *)
(* suspension, unless it is the decision of an admin.                      *)
Keeps(r) ==
  request[r].kind # "decide" /\ request[r].was = "suspended" => request[r].to = "suspended"

LEMMA KeepsStep ==
  ASSUME TypeOK, \A r \in Request : Keeps(r), [Next]_vars
  PROVE  \A r \in Request : Keeps(r)'
<1> SUFFICES ASSUME NEW q \in Request PROVE Keeps(q)'
  OBVIOUS
<1>1. Keeps(q) /\ status \in Statuses /\ request \in [Request -> Work]
  BY DEF TypeOK
<1>2. ASSUME request'[q] = request[q] \/ request'[q] = Idle PROVE Keeps(q)'
  BY <1>1, <1>2 DEF Keeps, Idle
<1>3. ASSUME NEW r \in Request, r # q, NEW v, request' = [request EXCEPT ![r] = v] PROVE Keeps(q)'
  BY <1>1, <1>2, <1>3
<1>4. ASSUME NEW r \in Request, NEW kind, NEW at, NEW d, NEW mark, NEW to, NEW list,
             Load(r, kind, at, d, mark, to, list),
             kind # "decide" /\ status = "suspended" => to = "suspended"
      PROVE  Keeps(q)'
  <2>1. CASE r = q
    <3>1. request'[q].kind = kind /\ request'[q].was = status /\ request'[q].to = to
      BY <1>1, <1>4, <2>1 DEF Load
    <3> QED
      BY <1>4, <3>1 DEF Keeps
  <2>2. CASE r # q
    BY <1>2, <1>4, <2>2 DEF Load
  <2> QED
    BY <2>1, <2>2
<1>5. ASSUME NEW r \in Request, NEW d \in Document, Upload(r, d) PROVE Keeps(q)'
  BY <1>4, <1>5 DEF Upload
<1>6. ASSUME NEW r \in Request, NEW d \in Document, NEW mark \in {"approved", "rejected"},
             Review(r, d, mark)
      PROVE  Keeps(q)'
  <2>1. status = "suspended" => Derive(status, [document EXCEPT ![d] = mark]) = "suspended"
    BY <1>1, Derived
  <2> QED
    BY <1>4, <1>6, <2>1 DEF Review
<1>7. ASSUME NEW r \in Request, NEW to \in {"verified", "rejected", "suspended"}, Decide(r, to)
      PROVE Keeps(q)'
  BY <1>4, <1>7 DEF Decide
<1>8. ASSUME NEW r \in Request, Edit(r) \/ Close(r) \/ Anonymize(r) PROVE Keeps(q)'
  BY <1>4, <1>8 DEF Edit, Close, Anonymize
<1>9. ASSUME NEW r \in Request, Stored(r) PROVE Keeps(q)'
  <2> DEFINE to == Derive(request[r].was, [document EXCEPT ![request[r].document] = "pending"])
  <2>1. request[r].was \in Statuses /\ request[r] \in Work
    BY <1>1 DEF Work
  <2>2. request[r].was = "suspended" => to = "suspended"
    BY <2>1, Derived
  <2>3. request' = [request EXCEPT ![r].at = "commit", ![r].to = to,
                                   ![r].list = request[r].wasListed /\ to = "verified"]
    BY <1>9 DEF Stored
  <2> HIDE DEF to
  <2>4. CASE r = q
    <3>1. request'[q].was = request[q].was /\ request'[q].to = to
      BY <1>1, <2>1, <2>3, <2>4 DEF Work
    <3> QED
      BY <2>2, <2>4, <3>1 DEF Keeps
  <2>5. CASE r # q
    BY <1>1, <1>2, <2>3, <2>5
  <2> QED
    BY <2>4, <2>5
<1>10. ASSUME NEW r \in Request, Sync(r) PROVE Keeps(q)'
  <2>1. /\ request'[q].kind = request[q].kind /\ request'[q].was = request[q].was
        /\ request'[q].to = request[q].to
    BY <1>1, <1>10 DEF Sync, Work
  <2> QED
    BY <1>1, <2>1 DEF Keeps
<1>11. ASSUME NEW r \in Request, Commit(r) \/ Die(r) PROVE Keeps(q)'
  <2>1. request'[q] = request[q] \/ request'[q] = Idle
    BY <1>1, <1>11 DEF Commit, Die
  <2> QED
    BY <1>2, <2>1
<1>12. CASE UNCHANGED request
  BY <1>2, <1>12
<1> QED
  BY <1>5, <1>6, <1>7, <1>8, <1>9, <1>10, <1>11, <1>12
     DEF Next, vars, GraceEnds, ReadRows, EmptyIndex, AddRead, RebuildFails

-----------------------------------------------------------------------------
(* While handlers come in turn, what a handler has loaded is still there   *)
(* when it commits, so the row it is about to leave is as it should be.    *)

(* The documents as the pending commit of request r leaves them.           *)
After(r) ==
  IF request[r].document = NoDocument THEN document
  ELSE [document EXCEPT ![request[r].document] = request[r].mark]

(* A row with these values is as the properties want it.                   *)
Consistent(verification, listing, documents) ==
  /\ listing => verification = "verified" /\ Approved(documents)
  /\ verification = "under_review" => Uploaded(documents)
  /\ verification = "pending" => ~Uploaded(documents)

(* What request r will commit.                                             *)
Pending(r) ==
  /\ request[r].was = status /\ request[r].wasListed = listed
  /\ Consistent(request[r].to, request[r].list, After(r))
  /\ request[r].kind # "decide" /\ request[r].list => listed

(* A file on its way to storage: nothing is decided yet.                   *)
Storing(r) ==
  /\ request[r].was = status /\ request[r].wasListed = listed
  /\ request[r].kind = "upload"
  /\ request[r].document \in Document
  /\ request[r].mark = "pending"

(* A decision waits for its commit, of which the index has been told.      *)
Decided(r) == request[r].kind = "decide" /\ request[r].at = "commit"

OnItsWay(r) ==
  /\ request[r].at \in {"sync", "commit"} => Pending(r)
  /\ request[r].at = "storing" => Storing(r)
  /\ request[r].at = "idle" => request[r] = Idle
  /\ request[r].at = "commit" /\ request[r].list => missed \/ indexed
  /\ request[r].at = "sync" => request[r].kind \in {"decide", "edit"}
  /\ request[r].at = "sync" /\ request[r].kind = "edit" =>
       request[r].to = request[r].was /\ request[r].list = request[r].wasListed

(* What the index holds of the row, and what a rebuild has read of it.     *)
IndexTells == listed => missed \/ indexed \/ \E r \in Request : Decided(r)

RebuildTells(w) ==
  /\ Deciding => rebuild[w].late
  /\ listed /\ ~rebuild[w].late => rebuild[w].found

(* Only one request is under way.                                          *)
Alone == \A q, r \in Request : request[q] # Idle /\ request[r] # Idle => q = r

Turn ==
  /\ Alone
  /\ Consistent(status, listed, document)
  /\ IndexTells
  /\ \A r \in Request : OnItsWay(r)
  /\ \A w \in Server : RebuildTells(w)

Inv ==
  /\ TypeOK
  /\ \A r \in Request : Keeps(r)
  /\ ~overlapped => Turn

LEMMA InvInit == Init => Inv
<1> SUFFICES ASSUME Init PROVE Inv
  OBVIOUS
<1>1. TypeOK
  BY TypeInit
<1>2. ~Uploaded(document)
  BY TeacherAssumption DEF Init, Uploaded, Has, Usable
<1>3. Consistent(status, listed, document)
  BY <1>2 DEF Init, Consistent
<1>4. ASSUME NEW r \in Request PROVE OnItsWay(r) /\ Keeps(r)
  BY DEF Init, OnItsWay, Keeps, Idle
<1>5. Alone /\ IndexTells
  BY DEF Init, Alone, IndexTells
<1>6. ASSUME NEW w \in Server PROVE RebuildTells(w)
  BY DEF Init, RebuildTells, Resting
<1> QED
  BY <1>1, <1>3, <1>4, <1>5, <1>6 DEF Inv, Turn

-----------------------------------------------------------------------------
(* The step of one request, while the others are idle.                     *)
LEMMA OnlyOne ==
  ASSUME Turn, NEW r \in Request, \A q \in Request \ {r} : request'[q] = request[q],
         request[r] # Idle \/ Quiet
  PROVE  \A q \in Request \ {r} : request[q] = Idle /\ request'[q] = Idle
  BY DEF Turn, Alone, Quiet

LEMMA Takes ==
  ASSUME Turn, NEW r \in Request, \A q \in Request \ {r} : request'[q] = request[q],
         request[r] # Idle \/ Quiet,
         Consistent(status, listed, document)', IndexTells', OnItsWay(r)',
         \A w \in Server : RebuildTells(w)'
  PROVE  Turn'
<1>1. \A q \in Request \ {r} : request'[q] = Idle
  BY OnlyOne
<1>2. Alone'
  BY <1>1 DEF Alone
<1>3. ASSUME NEW q \in Request PROVE OnItsWay(q)'
  <2>1. CASE q = r
    BY <2>1
  <2>2. CASE q # r
    <3>1. request'[q] = Idle
      BY <1>1, <2>2
    <3> QED
      BY <3>1 DEF OnItsWay, Idle
  <2> QED
    BY <2>1, <2>2
<1> QED
  BY <1>2, <1>3 DEF Turn

(* A rebuild stays as right or as late as it was.                          *)
LEMMA RebuildStays ==
  ASSUME Turn, UNCHANGED rebuild, Deciding' => Deciding, listed' => listed \/ Deciding
  PROVE  \A w \in Server : RebuildTells(w)'
  BY DEF Turn, RebuildTells

(* Who loads the row finds nobody else at work.                            *)
LEMMA Loads ==
  ASSUME TypeOK, ~overlapped => Turn, ~overlapped', NEW r \in Request,
         NEW kind, NEW at, NEW d, NEW mark, NEW to, NEW list,
         Load(r, kind, at, d, mark, to, list)
  PROVE  /\ ~overlapped /\ Turn /\ Quiet
         /\ request'[r] = [at |-> at, kind |-> kind, document |-> d, mark |-> mark,
                           was |-> status, wasListed |-> listed, to |-> to, list |-> list]
         /\ UNCHANGED <<document, status, listed, account, indexed, missed>>
         /\ \A q \in Request \ {r} : request'[q] = request[q]
         /\ \A w \in Server : RebuildTells(w)'
<1>1. ~overlapped /\ Turn /\ Quiet
  BY DEF Load
<1>2. /\ request'[r] = [at |-> at, kind |-> kind, document |-> d, mark |-> mark,
                        was |-> status, wasListed |-> listed, to |-> to, list |-> list]
      /\ \A q \in Request \ {r} : request'[q] = request[q]
  BY DEF Load, TypeOK
<1>3. UNCHANGED <<document, status, listed, account, indexed, missed>>
  BY DEF Load, row, index
<1>4. \A w \in Server : RebuildTells(w)'
  <2>1. CASE kind = "decide"
    <3>1. \A w \in Server : rebuild'[w].late
      BY <2>1 DEF Load, TypeOK, Rebuilds
    <3> QED
      BY <3>1 DEF RebuildTells
  <2>2. CASE kind # "decide"
    <3>1. UNCHANGED rebuild
      BY <2>2 DEF Load
    <3>2. ~Deciding'
      BY <1>1, <1>2, <2>2 DEF Deciding, Quiet, Idle
    <3> QED
      BY <1>1, <1>3, <3>1, <3>2, RebuildStays
  <2> QED
    BY <2>1, <2>2
<1> QED
  BY <1>1, <1>2, <1>3, <1>4

(* Nothing is pending when all is quiet.                                   *)
LEMMA QuietIndex == ASSUME Turn, Quiet PROVE listed => missed \/ indexed
  BY DEF Turn, IndexTells, Decided, Quiet, Idle

(* A handler that loads the row and decides at once.                       *)
LEMMA LoadDecided ==
  ASSUME TypeOK, ~overlapped => Turn, ~overlapped', NEW r \in Request,
         NEW kind \in {"upload", "review", "decide", "edit", "close", "anonymize"},
         NEW at \in {"sync", "commit"}, NEW d \in Document \cup {NoDocument},
         NEW mark \in {"pending", "approved", "rejected"}, NEW to \in Statuses,
         NEW list \in BOOLEAN, Load(r, kind, at, d, mark, to, list),
         Consistent(to, list, IF d = NoDocument THEN document ELSE [document EXCEPT ![d] = mark]),
         kind # "decide" /\ list => listed,
         at = "commit" => kind # "decide",
         at = "sync" => kind \in {"decide", "edit"},
         kind = "edit" => to = status /\ list = listed
  PROVE  Turn'
<1>1. /\ ~overlapped /\ Turn /\ Quiet
      /\ request'[r] = [at |-> at, kind |-> kind, document |-> d, mark |-> mark,
                        was |-> status, wasListed |-> listed, to |-> to, list |-> list]
      /\ UNCHANGED <<document, status, listed, account, indexed, missed>>
      /\ \A q \in Request \ {r} : request'[q] = request[q]
      /\ \A w \in Server : RebuildTells(w)'
  BY Loads
<1>2. Consistent(status, listed, document)'
  BY <1>1 DEF Turn, Consistent, Approved, Uploaded, Has
<1>3. listed => missed \/ indexed
  BY <1>1, QuietIndex
<1>4. IndexTells'
  BY <1>1, <1>3 DEF IndexTells
<1>5. Pending(r)'
  <2>1. After(r)' = IF d = NoDocument THEN document ELSE [document EXCEPT ![d] = mark]
    BY <1>1 DEF After
  <2> QED
    BY <1>1, <2>1 DEF Pending, Consistent, Approved, Uploaded, Has
<1>6. OnItsWay(r)'
  BY <1>1, <1>3, <1>5 DEF OnItsWay
<1> QED
  BY <1>1, <1>2, <1>4, <1>6, Takes

(* A teacher's upload begins.                                              *)
LEMMA UploadStep ==
  ASSUME TypeOK, ~overlapped => Turn, ~overlapped', NEW r \in Request, NEW d \in Document,
         Upload(r, d)
  PROVE  Turn'
<1>1. /\ ~overlapped /\ Turn /\ Quiet
      /\ request'[r] = [at |-> "storing", kind |-> "upload", document |-> d, mark |-> "pending",
                        was |-> status, wasListed |-> listed, to |-> status, list |-> listed]
      /\ UNCHANGED <<document, status, listed, account, indexed, missed>>
      /\ \A q \in Request \ {r} : request'[q] = request[q]
      /\ \A w \in Server : RebuildTells(w)'
  BY Loads DEF Upload
<1>2. Consistent(status, listed, document)'
  BY <1>1 DEF Turn, Consistent, Approved, Uploaded, Has
<1>3. IndexTells'
  BY <1>1, QuietIndex DEF IndexTells
<1>4. Storing(r)'
  BY <1>1 DEF Storing
<1>5. OnItsWay(r)'
  BY <1>1, <1>4 DEF OnItsWay
<1> QED
  BY <1>1, <1>2, <1>3, <1>5, Takes

(* The status is derived from the documents as the upload leaves them.     *)
LEMMA StoredStep ==
  ASSUME TypeOK, ~overlapped, Turn, NEW r \in Request, Stored(r)
  PROVE  Turn'
<1> DEFINE d  == request[r].document
           to == Derive(status, [document EXCEPT ![d] = "pending"])
           list == listed /\ to = "verified"
<1>1. OnItsWay(r) /\ Storing(r) /\ request[r].at = "storing" /\ request[r] # Idle
  BY DEF Stored, Turn, OnItsWay, Idle
<1>2. request' = [request EXCEPT ![r].at = "commit", ![r].to = to, ![r].list = list]
  BY <1>1 DEF Stored, Storing
<1>3. UNCHANGED <<document, status, listed, account, indexed, missed, rebuild>>
  BY DEF Stored, row, index
<1>4. status \in Statuses /\ listed \in BOOLEAN /\ request \in [Request -> Work]
  BY DEF TypeOK
<1>5. /\ to \in Statuses
      /\ to = "verified" => status = "verified" /\ Approved([document EXCEPT ![d] = "pending"])
      /\ to = "under_review" => Uploaded([document EXCEPT ![d] = "pending"])
      /\ to = "pending" => ~Uploaded([document EXCEPT ![d] = "pending"])
  BY <1>4, Derived
<1> HIDE DEF to
<1>6. list \in BOOLEAN /\ (list => listed /\ to = "verified")
  BY <1>4
<1>7. Consistent(to, list, [document EXCEPT ![d] = "pending"])
  BY <1>5, <1>6 DEF Consistent
<1> HIDE DEF list
<1>8. /\ request'[r] = [request[r] EXCEPT !.at = "commit", !.to = to, !.list = list]
      /\ \A q \in Request \ {r} : request'[q] = request[q]
  BY <1>2, <1>4
<1>9. /\ request'[r].at = "commit" /\ request'[r].to = to /\ request'[r].list = list
      /\ request'[r].kind = request[r].kind /\ request'[r].document = request[r].document
      /\ request'[r].mark = request[r].mark /\ request'[r].was = request[r].was
      /\ request'[r].wasListed = request[r].wasListed
  BY <1>4, <1>8 DEF Work
<1>10. Pending(r)'
  <2>1. After(r)' = [document EXCEPT ![d] = "pending"]
    BY <1>1, <1>3, <1>9, DocumentIsNamed DEF After, Storing
  <2>2. Consistent(request[r].to, request[r].list, After(r))'
    BY <1>7, <1>9, <2>1 DEF Consistent
  <2> QED
    BY <1>1, <1>3, <1>6, <1>9, <2>2 DEF Pending, Storing
<1>11. \A q \in Request \ {r} : request[q] = Idle /\ request'[q] = Idle
  BY <1>1, <1>8, OnlyOne
<1>12. listed => missed \/ indexed
  BY <1>1, <1>11 DEF Turn, IndexTells, Decided, Idle
<1>13. Consistent(status, listed, document)'
  BY <1>3 DEF Turn, Consistent, Approved, Uploaded, Has
<1>14. OnItsWay(r)'
  BY <1>1, <1>3, <1>6, <1>9, <1>10, <1>12 DEF OnItsWay
<1>15. IndexTells'
  BY <1>3, <1>12 DEF IndexTells
<1>16. Deciding' => Deciding
  BY <1>9, <1>11 DEF Deciding
<1>17. \A w \in Server : RebuildTells(w)'
  BY <1>3, <1>16, RebuildStays
<1> QED
  BY <1>1, <1>8, <1>13, <1>14, <1>15, <1>17, Takes

(* The index is told what is about to be committed.                        *)
LEMMA SyncStep ==
  ASSUME TypeOK, ~overlapped, Turn, NEW r \in Request, Sync(r)
  PROVE  Turn'
<1>1. request \in [Request -> Work]
  BY DEF TypeOK
<1>2. /\ request'[r] = [request[r] EXCEPT !.at = "commit"]
      /\ \A q \in Request \ {r} : request'[q] = request[q]
  BY <1>1 DEF Sync
<1>3. /\ request'[r].at = "commit" /\ request'[r].to = request[r].to
      /\ request'[r].list = request[r].list /\ request'[r].kind = request[r].kind
      /\ request'[r].document = request[r].document
      /\ request'[r].mark = request[r].mark /\ request'[r].was = request[r].was
      /\ request'[r].wasListed = request[r].wasListed
  BY <1>1, <1>2 DEF Work
<1>4. UNCHANGED <<document, status, listed, account, rebuild>>
  BY DEF Sync, row
<1>5. /\ OnItsWay(r) /\ Pending(r) /\ request[r].at = "sync" /\ request[r] # Idle
      /\ Consistent(status, listed, document)
  BY DEF Sync, Turn, OnItsWay, Idle
<1>6. Consistent(status, listed, document)'
  BY <1>4, <1>5 DEF Consistent, Approved, Uploaded, Has
<1>7. Pending(r)'
  <2>1. After(r)' = After(r)
    BY <1>3, <1>4 DEF After
  <2> QED
    BY <1>3, <1>4, <1>5, <2>1 DEF Pending, Consistent
<1>8. request[r].list => missed' \/ indexed'
  BY <1>5 DEF Sync, Pending, Consistent, Shown
<1>9. OnItsWay(r)'
  BY <1>3, <1>7, <1>8 DEF OnItsWay
<1>10. IndexTells'
  <2>1. CASE request[r].kind = "decide"
    <3>1. Decided(r)'
      BY <1>3, <2>1 DEF Decided
    <3> QED
      BY <3>1 DEF IndexTells
  <2>2. CASE request[r].kind # "decide"
    BY <1>4, <1>5, <1>8, <2>2 DEF IndexTells, OnItsWay, Pending
  <2> QED
    BY <2>1, <2>2
<1>11. Deciding' => Deciding
  BY <1>2, <1>3 DEF Deciding
<1>12. \A w \in Server : RebuildTells(w)'
  BY <1>4, <1>11, RebuildStays
<1> QED
  BY <1>2, <1>5, <1>6, <1>9, <1>10, <1>12, Takes

(* The commit leaves what it had ready.                                    *)
LEMMA CommitStep ==
  ASSUME TypeOK, ~overlapped, Turn, NEW r \in Request, Commit(r)
  PROVE  Turn'
<1>1. OnItsWay(r) /\ Pending(r) /\ request[r].at = "commit" /\ request[r] # Idle
  BY DEF Commit, Turn, OnItsWay, Idle
<1>2. document' = After(r)
  BY DEF Commit, After
<1>3. status' = request[r].to /\ listed' = request[r].list
  BY <1>1 DEF Commit, Pending
<1>4. Consistent(status, listed, document)'
  BY <1>1, <1>2, <1>3 DEF Pending, Consistent
<1>5. /\ request'[r] = Idle /\ UNCHANGED <<indexed, missed, rebuild>>
      /\ \A q \in Request \ {r} : request'[q] = request[q]
  BY DEF Commit, index, TypeOK
<1>6. OnItsWay(r)'
  BY <1>5 DEF OnItsWay, Idle
<1>7. IndexTells'
  BY <1>1, <1>3, <1>5 DEF OnItsWay, IndexTells
<1>8. (Deciding' => Deciding) /\ (listed' => listed \/ Deciding)
  BY <1>1, <1>3, <1>5 DEF Deciding, Pending, Idle
<1>9. \A w \in Server : RebuildTells(w)'
  BY <1>5, <1>8, RebuildStays
<1> QED
  BY <1>1, <1>4, <1>5, <1>6, <1>7, <1>9, Takes

(* A request that dies leaves the row as it was.                           *)
LEMMA DieStep ==
  ASSUME TypeOK, ~overlapped, Turn, NEW r \in Request, Die(r)
  PROVE  Turn'
<1>1. /\ request'[r] = Idle /\ UNCHANGED <<document, status, listed, account, indexed, rebuild>>
      /\ \A q \in Request \ {r} : request'[q] = request[q]
      /\ missed' = (missed \/ Decided(r)) /\ request[r] # Idle
  BY DEF Die, row, TypeOK, Decided
<1>2. Consistent(status, listed, document)'
  BY <1>1 DEF Turn, Consistent, Approved, Uploaded, Has
<1>3. \A q \in Request \ {r} : request[q] = Idle
  BY <1>1, OnlyOne
<1>4. OnItsWay(r)'
  BY <1>1 DEF OnItsWay, Idle
<1>5. IndexTells'
  BY <1>1, <1>3 DEF Turn, IndexTells, Decided, Idle
<1>6. Deciding' => Deciding
  BY <1>1 DEF Deciding, Idle
<1>7. \A w \in Server : RebuildTells(w)'
  BY <1>1, <1>6, RebuildStays
<1> QED
  BY <1>1, <1>2, <1>4, <1>5, <1>7, Takes

(* A rebuild may lose what was decided since it read the rows, and then it *)
(* is late; what it loses otherwise is not listed.                         *)
LEMMA RebuildStep ==
  ASSUME TypeOK, ~overlapped, Turn, NEW w \in Server,
         ReadRows(w) \/ EmptyIndex(w) \/ AddRead(w) \/ RebuildFails(w)
  PROVE  Turn'
<1>1. UNCHANGED <<document, status, listed, account, request>>
  BY DEF ReadRows, EmptyIndex, AddRead, RebuildFails, row
<1>2. Consistent(status, listed, document)'
  BY <1>1 DEF Turn, Consistent, Approved, Uploaded, Has
<1>3. Alone' /\ Deciding' = Deciding
  BY <1>1 DEF Turn, Alone, Deciding
<1>4. RebuildTells(w) /\ Consistent(status, listed, document)
  BY DEF Turn
<1>5. rebuild \in [Server -> Rebuilds] /\ rebuild[w] \in Rebuilds
  BY DEF TypeOK
<1>6. listed => missed' \/ indexed' \/ (UNCHANGED <<indexed, missed>>)
  BY <1>4 DEF ReadRows, EmptyIndex, AddRead, RebuildFails, RebuildTells, index
<1>7. IndexTells'
  BY <1>1, <1>6 DEF Turn, IndexTells, Decided
<1>8. ASSUME NEW r \in Request PROVE OnItsWay(r)'
  <2>1. OnItsWay(r) /\ After(r)' = After(r)
    BY <1>1 DEF Turn, After
  <2>2. request[r].at = "commit" /\ request[r].list => missed' \/ indexed'
    <3> SUFFICES ASSUME request[r].at = "commit", request[r].list, ~missed' PROVE indexed'
      OBVIOUS
    <3>1. missed \/ indexed
      BY <2>1 DEF OnItsWay
    <3>2. ASSUME AddRead(w) PROVE indexed'
      <4>1. ~rebuild[w].late
        BY <3>2 DEF AddRead
      <4>2. request[r].kind # "decide"
        BY <1>4, <4>1 DEF RebuildTells, Deciding
      <4>3. listed
        BY <2>1, <4>2 DEF OnItsWay, Pending
      <4> QED
        BY <1>4, <3>2, <4>1, <4>3 DEF AddRead, RebuildTells
    <3>3. ASSUME ReadRows(w) PROVE indexed'
      BY <3>1, <3>3 DEF ReadRows, index
    <3>4. ASSUME EmptyIndex(w) \/ RebuildFails(w) PROVE missed'
      BY <3>4 DEF EmptyIndex, RebuildFails
    <3> QED
      BY <3>2, <3>3, <3>4
  <2> QED
    BY <1>1, <2>1, <2>2 DEF OnItsWay, Pending, Storing, Consistent
<1>9. ASSUME NEW v \in Server PROVE RebuildTells(v)'
  <2>1. RebuildTells(v)
    BY DEF Turn
  <2>2. CASE v # w
    <3>1. rebuild'[v] = rebuild[v]
      BY <1>5, <2>2 DEF ReadRows, EmptyIndex, AddRead, RebuildFails
    <3> QED
      BY <1>1, <1>3, <2>1, <3>1 DEF RebuildTells
  <2>3. CASE v = w
    <3>1. CASE ReadRows(w)
      <4>1. rebuild'[w] = [at |-> "empty", found |-> Shown(status, listed), late |-> Deciding]
        BY <1>5, <3>1 DEF ReadRows
      <4>2. rebuild'[w].found <=> Shown(status, listed)
        BY <4>1
      <4>3. rebuild'[w].late <=> Deciding
        BY <4>1
      <4>4. listed => Shown(status, listed)
        BY <1>4 DEF Shown, Consistent
      <4>5. (Deciding' <=> Deciding) /\ (listed' <=> listed)
        BY <1>1, <1>3
      <4>6. (Deciding' => rebuild'[w].late) /\ (listed' => rebuild'[w].found)
        BY ONLY <4>2, <4>3, <4>4, <4>5, Zenon
      <4> QED
        BY ONLY <2>3, <4>6, Zenon DEF RebuildTells
    <3>2. CASE EmptyIndex(w)
      <4>1. rebuild'[w].late = rebuild[w].late /\ rebuild'[w].found = rebuild[w].found
        BY <1>5, <3>2 DEF EmptyIndex, Rebuilds
      <4> QED
        BY <1>1, <1>3, <2>1, <2>3, <4>1 DEF RebuildTells
    <3>3. CASE AddRead(w) \/ RebuildFails(w)
      <4>1. rebuild' = [rebuild EXCEPT ![w] = Resting]
        BY <3>3, Zenon DEF AddRead, RebuildFails
      <4>2. rebuild'[w] = Resting
        BY <1>5, <4>1
      <4>3. rebuild'[w].late
        BY ONLY <4>2 DEF Resting
      <4> QED
        BY <2>3, <4>3 DEF RebuildTells
    <3> QED
      BY <3>1, <3>2, <3>3
  <2> QED
    BY <2>2, <2>3
<1> QED
  BY <1>2, <1>3, <1>7, <1>8, <1>9 DEF Turn

(* Nothing that the invariant speaks of changes.                           *)
LEMMA TurnUnchanged ==
  ASSUME Turn, UNCHANGED <<document, status, listed, indexed, missed, request, rebuild>>
  PROVE  Turn'
<1>1. Consistent(status, listed, document)'
  BY DEF Turn, Consistent, Approved, Uploaded, Has
<1>2. ASSUME NEW r \in Request PROVE OnItsWay(r)'
  <2>1. OnItsWay(r) /\ After(r)' = After(r)
    BY DEF Turn, After
  <2> QED
    BY <2>1 DEF OnItsWay, Pending, Storing, Consistent
<1>3. Alone' /\ IndexTells'
  BY DEF Turn, Alone, IndexTells, Decided
<1>4. \A w \in Server : RebuildTells(w)'
  BY RebuildStays DEF Deciding
<1> QED
  BY <1>1, <1>2, <1>3, <1>4 DEF Turn

LEMMA TurnStep == ASSUME TypeOK, ~overlapped => Turn, [Next]_vars, ~overlapped' PROVE Turn'
<1>1. TypeOK' /\ status \in Statuses /\ listed \in BOOLEAN
  BY TypeStep DEF TypeOK
<1>2. ASSUME ~overlapped PROVE Consistent(status, listed, document)
  BY <1>2 DEF Turn
<1>3. NoDocument \in Document \cup {NoDocument}
  OBVIOUS
<1>4. ASSUME NEW r \in Request, NEW d \in Document, NEW mark \in {"approved", "rejected"},
             Review(r, d, mark)
      PROVE Turn'
  <2> DEFINE after == [document EXCEPT ![d] = mark]
             to == Derive(status, after)
             list == listed /\ to = "verified"
  <2>1. Load(r, "review", "commit", d, mark, to, list)
    BY <1>4 DEF Review
  <2>2. /\ to \in Statuses
        /\ to = "verified" => status = "verified" /\ Approved(after)
        /\ to = "under_review" => Uploaded(after)
        /\ to = "pending" => ~Uploaded(after)
    BY <1>1, Derived
  <2> HIDE DEF after, to
  <2>3. list \in BOOLEAN /\ (list => listed /\ to = "verified")
    BY <1>1
  <2>4. Consistent(to, list, after)
    BY <2>2, <2>3 DEF Consistent
  <2> HIDE DEF list
  <2>5. d # NoDocument
    BY DocumentIsNamed
  <2>6. Consistent(to, list, IF d = NoDocument THEN document ELSE [document EXCEPT ![d] = mark])
    BY <2>4, <2>5 DEF after
  <2> QED
    BY <1>1, <2>1, <2>2, <2>3, <2>6, LoadDecided
<1>5. ASSUME NEW r \in Request, NEW to \in {"verified", "rejected", "suspended"}, Decide(r, to)
      PROVE Turn'
  <2> DEFINE list == to = "verified"
  <2>1. Load(r, "decide", "sync", NoDocument, "pending", to, list)
    BY <1>5 DEF Decide
  <2>2. Consistent(to, list, document) /\ list \in BOOLEAN /\ to \in Statuses
    BY <1>5 DEF Decide, Consistent, Statuses
  <2> HIDE DEF list
  <2> QED
    BY <1>1, <1>3, <2>1, <2>2, LoadDecided
<1>6. ASSUME NEW r \in Request, Edit(r) PROVE Turn'
  <2>1. Load(r, "edit", "sync", NoDocument, "pending", status, listed) /\ ~overlapped
    BY <1>6 DEF Edit, Load
  <2> QED
    BY <1>1, <1>2, <1>3, <2>1, LoadDecided
<1>7. ASSUME NEW r \in Request, Close(r) PROVE Turn'
  <2>1. Load(r, "close", "commit", NoDocument, "pending", status, FALSE) /\ ~overlapped
    BY <1>7 DEF Close, Load
  <2>2. Consistent(status, FALSE, document)
    BY <1>2, <2>1 DEF Consistent
  <2> QED
    BY <1>1, <1>3, <2>1, <2>2, LoadDecided
<1>8. ASSUME NEW r \in Request, Anonymize(r) PROVE Turn'
  <2>1. Consistent("suspended", FALSE, document) /\ "suspended" \in Statuses
    BY DEF Consistent, Statuses
  <2> QED
    BY <1>1, <1>3, <1>8, <2>1, LoadDecided DEF Anonymize
<1>9. ASSUME NEW r \in Request, Stored(r) \/ Sync(r) \/ Commit(r) \/ Die(r) PROVE Turn'
  <2>1. ~overlapped
    BY <1>9 DEF Stored, Sync, Commit, Die
  <2> QED
    BY <1>9, <2>1, StoredStep, SyncStep, CommitStep, DieStep
<1>10. ASSUME NEW w \in Server, ReadRows(w) \/ EmptyIndex(w) \/ AddRead(w) \/ RebuildFails(w)
      PROVE Turn'
  <2>1. ~overlapped
    BY <1>10 DEF ReadRows, EmptyIndex, AddRead, RebuildFails
  <2> QED
    BY <1>10, <2>1, RebuildStep
<1>11. CASE GraceEnds
  BY <1>11, TurnUnchanged DEF GraceEnds, index
<1>12. CASE UNCHANGED vars
  BY <1>12, TurnUnchanged DEF vars, row, index
<1> QED
  BY <1>4, <1>5, <1>6, <1>7, <1>8, <1>9, <1>10, <1>11, <1>12, UploadStep DEF Next

LEMMA InvStep == ASSUME Inv, [Next]_vars PROVE Inv'
<1>1. TypeOK'
  BY TypeStep DEF Inv
<1>2. (\A r \in Request : Keeps(r))'
  BY KeepsStep DEF Inv
<1>3. ~overlapped' => Turn'
  BY TurnStep DEF Inv
<1> QED
  BY <1>1, <1>2, <1>3 DEF Inv

-----------------------------------------------------------------------------
(* The invariant holds of every behaviour.                                 *)
THEOREM TeacherSafe == Spec => []Inv
  BY InvInit, InvStep, PTL DEF Spec

(* While handlers come in turn, only a verified teacher with every         *)
(* required document approved is listed: no order of uploads, reviews,     *)
(* decisions, closing and anonymization leads to a listing without         *)
(* (_sync_..._verification_state).                                         *)
THEOREM ListedTeachersAreApproved == Spec => []ListedIsApproved
<1>1. Inv => ListedIsApproved
  BY DEF Inv, Turn, Consistent, ListedIsApproved
<1> QED
  BY <1>1, TeacherSafe, PTL

(* While handlers come in turn, a teacher under review has uploaded        *)
(* everything, one who is pending has not                                  *)
(* (derive_teacher_verification_status).                                   *)
THEOREM StatusFollowsDocuments == Spec => []NobodyWaitsInVain
<1>1. Inv => NobodyWaitsInVain
  BY DEF Inv, Turn, Consistent, NobodyWaitsInVain
<1> QED
  BY <1>1, TeacherSafe, PTL

(* While handlers come in turn, a listed teacher is in the index between   *)
(* requests, unless it was told wrong or not at all, or a rebuild that     *)
(* read the rows before a decision came has replaced it, or one is at it   *)
(* (sync_teacher_document_by_id, rebuild_teacher_search_index).            *)
THEOREM ListedTeachersAreFound == Spec => []ListedIsFound
<1>1. ASSUME Inv PROVE ListedIsFound
  <2> SUFFICES ASSUME ~overlapped, Quiet, listed PROVE FoundByRows /\ (missed \/ FoundByIndex)
    BY DEF ListedIsFound
  <2>1. FoundByRows
    BY <1>1 DEF Inv, Turn, Consistent, FoundByRows
  <2>2. missed \/ indexed
    BY <1>1, QuietIndex DEF Inv
  <2> QED
    BY <2>1, <2>2 DEF FoundByIndex
<1> QED
  BY <1>1, TeacherSafe, PTL

(* However handlers overlap, what ends a suspension is the commit of an    *)
(* admin's decision, or of a handler that had loaded the teacher before    *)
(* the suspension (upload_document, review_verification_document).         *)
THEOREM SuspensionIsLifted == Spec => SuspensionHolds
<1>1. ASSUME Inv, [Next]_vars, status = "suspended", status' # "suspended"
      PROVE  \E r \in Request :
               /\ request[r] # Idle /\ request'[r] = Idle
               /\ request[r].kind = "decide" \/ request[r].was # "suspended"
  <2>1. PICK r \in Request : Commit(r)
    BY <1>1 DEF Next, vars, row, Upload, Review, Decide, Edit, Close, Anonymize, Load,
                Stored, Sync, Die, GraceEnds, ReadRows, EmptyIndex, AddRead, RebuildFails
  <2>2. request[r].to # "suspended" /\ request[r] # Idle
    BY <1>1, <2>1 DEF Commit, Idle
  <2>3. request'[r] = Idle
    BY <1>1, <2>1 DEF Commit, Inv, TypeOK
  <2>4. request[r].kind = "decide" \/ request[r].was # "suspended"
    BY <1>1, <2>2 DEF Inv, Keeps
  <2> QED
    BY <2>2, <2>3, <2>4
<1>2. Inv /\ [Next]_vars =>
        [status = "suspended" /\ status' # "suspended" =>
           \E r \in Request :
             /\ request[r] # Idle /\ request'[r] = Idle
             /\ request[r].kind = "decide" \/ request[r].was # "suspended"]_vars
  BY <1>1
<1> QED
  BY <1>2, TeacherSafe, PTL DEF Spec, SuspensionHolds
=============================================================================
