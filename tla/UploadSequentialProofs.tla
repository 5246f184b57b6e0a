-------------------------- MODULE UploadSequentialProofs --------------------------
(***************************************************************************)
(* Proofs of what UploadService promises requests that do not overlap, for   *)
(* any number of slots: answers are exact while no two requests are about the *)
(* same session, and a session that has ended stays ended; a key names one    *)
(* session while no two creations with it are between their lookup and their *)
(* write.                                                                    *)
(***************************************************************************)
EXTENDS UploadConvergenceProofs, UploadServiceClaims

(* The invariants of the two proofs. *)
CInv == IInv /\ CopiesAreCurrent
KInv == IInv /\ KeysAreFree

(* A single slot: a client that waits for each answer, or for a failure, before  *)
(* it sends its next request.                                                 *)
OneSlot == \A p, q \in Procs : p = q

LEMMA InitEstablishes == Init => CInv /\ KInv
<1> SUFFICES ASSUME Init PROVE CopiesAreCurrent /\ KeysAreFree
  BY InitEstablishesIInv DEF CInv, KInv
<1>1. \A u \in UploadIDs : ~Stored(u)
  BY DEF Init, EmptyCollection, Stored
<1>2. ASSUME NEW p \in Procs PROVE req[p].pc = "idle"
  BY DEF Init, Idle, NewRequest
<1> QED
  BY <1>1, <1>2 DEF CopiesAreCurrent, CopyIsCurrent, KeysAreFree, KeyIsFree, OneSessionPerKey

(* What the invariant says of the request that moves. *)
LEMMA MoverKnows ==
    ASSUME IInv, NEW p \in Procs
    PROVE  /\ req[p] \in Request /\ store \in Collections
           /\ RequestOK(req[p], store, gcs, clock)
BY RequestsAreTyped DEF IInv, TypeOK, Collections

-----------------------------------------------------------------------------
(* Copies. *)

(* A request that is answered without success relies on no copy.                *)
LEMMA FailureIsCurrent ==
    ASSUME NEW r \in Request, NEW c, NEW code \in {400, 404, 410, 500}
    PROVE  CopyIsCurrent(Answer(r, code), c)
BY AnswersRespond DEF CopyIsCurrent

(* Nor does one that is idle, looking its key up, creating or loading.           *)
LEMMA StartIsCurrent ==
    ASSUME NEW r, r.pc \in {"idle", "lookup", "sign", "persist", "load"}, NEW c
    PROVE  CopyIsCurrent(r, c)
BY DEF CopyIsCurrent

LEMMA CopyMakesCurrent ==
    ASSUME NEW r, NEW c, r.session = c[r.uploadID]
    PROVE  CopyIsCurrent(r, c)
BY DEF CopyIsCurrent

(* A step that writes nothing: what matters is where its request is now.        *)
LEMMA QuietStep ==
    ASSUME CInv, NEW p \in Procs, NEW r, Continue(p, r), UNCHANGED store,
           CopyIsCurrent(r, store)
    PROVE  CopiesAreCurrent'
<1>1. req' = [req EXCEPT ![p] = r] /\ req \in [Procs -> Request]
  BY DEF Continue, CInv, IInv, TypeOK
<1>2. \A q \in Procs : req'[q] = IF q = p THEN r ELSE req[q]
  BY <1>1
<1> QED
  BY <1>2 DEF CInv, CopiesAreCurrent

(* A step that writes the session of its request: no other has a copy of it.    *)
LEMMA WritingStep ==
    ASSUME CInv, NoSharing, NEW p \in Procs, ~At(p, "idle"), NEW r, Continue(p, r),
           \A u \in UploadIDs : u # req[p].uploadID => store'[u] = store[u],
           CopyIsCurrent(r, store')
    PROVE  CopiesAreCurrent'
<1>1. req' = [req EXCEPT ![p] = r] /\ req \in [Procs -> Request]
  BY DEF Continue, CInv, IInv, TypeOK
<1>2. ASSUME NEW q \in Procs, q # p PROVE CopyIsCurrent(req[q], store')
  <2> DEFINE s == req[q]
             holds == \/ s.pc \in {"checkTTL", "markExpired", "queryGCS", "markCompleted",
                                   "updateStatus", "markCancelled"}
                      \/ s.pc = "respond" /\ s.code \in {200, 201}
  <2>1. holds => s.uploadID \in UploadIDs /\ s.session = store[s.uploadID]
    BY MoverKnows DEF RequestOK, CInv, CopiesAreCurrent, CopyIsCurrent
  <2>2. holds /\ s.uploadID \in UploadIDs => s.uploadID # req[p].uploadID
    BY <1>2 DEF NoSharing, At
  <2>3. holds => s.session = store'[s.uploadID]
    BY <2>1, <2>2
  <2> QED
    BY <2>3 DEF CopyIsCurrent
<1>3. \A q \in Procs : req'[q] = IF q = p THEN r ELSE req[q]
  BY <1>1
<1> QED
  BY <1>2, <1>3 DEF CopiesAreCurrent

LEMMA AcceptIsCurrent ==
    ASSUME CInv, NEW p \in Procs, Accept(p)
    PROVE  CopiesAreCurrent'
<1>1. CASE CreateStart(p)
  <2>1. PICK user \in Users, key \in IdempotencyKeys \cup {NoKey}, size \in Sizes :
          Continue(p, Validated(NewRequest("create", NoID, user, key, size, clock)))
    BY <1>1 DEF CreateStart
  <2> DEFINE n == NewRequest("create", NoID, user, key, size, clock)
  <2>2. n \in Request
    BY BoundsAssumption DEF NewRequest, Request, PCs, Operations, CInv, IInv, TypeOK
  <2> HIDE DEF n
  <2>3. CASE Validated(n) \in {Answer(n, 400), Answer(n, 500)}
    BY <1>1, <2>1, <2>2, <2>3, FailureIsCurrent, QuietStep DEF CreateStart, n
  <2>4. CASE Validated(n) \in {GoTo(n, "lookup"), GoTo(n, "sign")}
    <3>1. Validated(n).pc \in {"lookup", "sign"}
      BY <2>2, <2>4 DEF GoTo, Request
    <3> QED
      BY <1>1, <2>1, <3>1, StartIsCurrent, QuietStep DEF CreateStart, n
  <2> QED
    BY <2>3, <2>4 DEF Validated
<1>2. CASE SessionStart(p)
  <2>1. PICK op, user, u : Continue(p, GoTo(NewRequest(op, u, user, NoKey, 0, 0), "load"))
    BY <1>2 DEF SessionStart
  <2> DEFINE n == GoTo(NewRequest(op, u, user, NoKey, 0, 0), "load")
  <2>2. n.pc = "load"
    BY DEF GoTo, NewRequest
  <2> HIDE DEF n
  <2> QED
    BY <1>2, <2>1, <2>2, StartIsCurrent, QuietStep DEF SessionStart, n
<1>3. CASE RejectBody(p)
  <2>1. PICK op \in Operations, user \in Users :
          Continue(p, Answer(NewRequest(op, NoID, user, NoKey, 0, 0), 400))
    BY <1>3 DEF RejectBody, Operations
  <2>2. NewRequest(op, NoID, user, NoKey, 0, 0) \in Request
    BY DEF NewRequest, Request, PCs
  <2>3. CopyIsCurrent(Answer(NewRequest(op, NoID, user, NoKey, 0, 0), 400), store)
    BY <2>2, FailureIsCurrent
  <2> QED
    BY <1>3, <2>1, <2>3, QuietStep DEF RejectBody
<1> QED
  BY <1>1, <1>2, <1>3 DEF Accept

LEMMA LookupIsCurrent ==
    ASSUME CInv, NEW p \in Procs, LookupIdempotencyKey(p)
    PROVE  CopiesAreCurrent'
<1> DEFINE r == req[p]
           hits == ByIdempotencyKey(store, ContextUser(r), r.key)
<1>1. /\ r \in Request /\ UNCHANGED store
      /\ \/ Continue(p, Answer(r, 500))
         \/ \E u \in hits : Continue(p, Answer(WithSession(r, u, store[u]), 201))
         \/ Continue(p, GoTo(r, "sign"))
  BY MoverKnows DEF LookupIdempotencyKey, CInv
<1>2. CASE Continue(p, Answer(r, 500))
  BY <1>1, <1>2, FailureIsCurrent, QuietStep
<1>3. ASSUME NEW u, Continue(p, Answer(WithSession(r, u, store[u]), 201))
      PROVE  CopiesAreCurrent'
  <2> DEFINE n == Answer(WithSession(r, u, store[u]), 201)
  <2>1. n.uploadID = u /\ n.session = store[u]
    BY <1>1 DEF Answer, WithSession, Request
  <2> HIDE DEF n
  <2> QED
    BY <1>1, <1>3, <2>1, CopyMakesCurrent, QuietStep DEF n
<1>4. CASE Continue(p, GoTo(r, "sign"))
  <2>1. GoTo(r, "sign").pc = "sign"
    BY <1>1 DEF GoTo, Request
  <2> QED
    BY <1>1, <1>4, <2>1, StartIsCurrent, QuietStep
<1> QED
  BY <1>1, <1>2, <1>3, <1>4

LEMMA SignIsCurrent ==
    ASSUME CInv, NEW p \in Procs, SignResumableUploadURL(p)
    PROVE  CopiesAreCurrent'
<1> DEFINE r == req[p]
<1>1. r \in Request /\ UNCHANGED store
  BY MoverKnows DEF SignResumableUploadURL, CInv
<1>2. CASE Continue(p, Answer(r, 500))
  BY <1>1, <1>2, FailureIsCurrent, QuietStep
<1>3. ASSUME NEW u, NEW s, Continue(p, WithSession(GoTo(r, "persist"), u, s))
      PROVE  CopiesAreCurrent'
  <2> DEFINE n == WithSession(GoTo(r, "persist"), u, s)
  <2>1. n.pc = "persist"
    BY <1>1 DEF WithSession, GoTo, Request
  <2> HIDE DEF n
  <2> QED
    BY <1>1, <1>3, <2>1, StartIsCurrent, QuietStep DEF n
<1> QED
  BY <1>2, <1>3 DEF SignResumableUploadURL

LEMMA LoadIsCurrent ==
    ASSUME CInv, NEW p \in Procs, LoadSession(p)
    PROVE  CopiesAreCurrent'
<1> DEFINE r == req[p]
           found == GetByID(store, r.uploadID)
           q == GoTo(r, "checkTTL")
           n == [q EXCEPT !.session = found]
<1>1. /\ r \in Request /\ UNCHANGED store
      /\ \/ Continue(p, Answer(r, 500)) \/ Continue(p, Answer(r, 404))
         \/ Continue(p, n)
  BY MoverKnows DEF LoadSession, CInv
<1>2. CASE Continue(p, Answer(r, 500)) \/ Continue(p, Answer(r, 404))
  BY <1>1, <1>2, FailureIsCurrent, QuietStep
<1>3. CASE Continue(p, n)
  <2>1. q \in Request /\ q.pc = "checkTTL" /\ q.uploadID = r.uploadID
    BY <1>1 DEF GoTo, Request, PCs
  <2> HIDE DEF q
  <2>2. n.pc = "checkTTL" /\ n.uploadID = r.uploadID /\ n.session = store[r.uploadID]
    BY <2>1 DEF Request, GetByID
  <2> HIDE DEF n
  <2>3. CopyIsCurrent(n, store)
    BY <2>2, CopyMakesCurrent
  <2> QED
    BY <1>1, <1>3, <2>3, QuietStep
<1> QED
  BY <1>1, <1>2, <1>3

LEMMA CheckTTLIsCurrent ==
    ASSUME CInv, NEW p \in Procs, CheckTTL(p)
    PROVE  CopiesAreCurrent'
<1> DEFINE r == req[p]
<1>1. PICK n \in {GoTo(r, "markExpired"), GoTo(r, "queryGCS"), GoTo(r, "markCancelled"),
                  Answer(r, 200)} : Continue(p, n)
  BY DEF CheckTTL, AfterTTLCheck
<1>2. r \in Request /\ UNCHANGED store /\ r.session = store[r.uploadID]
  BY MoverKnows DEF CheckTTL, At, CInv, CopiesAreCurrent, CopyIsCurrent
<1>3. /\ n.pc \in {"markExpired", "queryGCS", "markCancelled", "respond"}
      /\ n.session = r.session /\ n.uploadID = r.uploadID
  <2>1. CASE n = Answer(r, 200)
    BY <1>2, <2>1 DEF Answer, Request
  <2>2. ASSUME NEW pc \in {"markExpired", "queryGCS", "markCancelled"}, n = GoTo(r, pc)
        PROVE  n.pc = pc /\ n.session = r.session /\ n.uploadID = r.uploadID
    BY <1>2, <2>2 DEF GoTo, Request
  <2> QED
    BY <1>1, <2>1, <2>2
<1>4. CopyIsCurrent(n, store)
  BY <1>2, <1>3, CopyMakesCurrent
<1> QED
  BY <1>1, <1>2, <1>4, QuietStep

LEMMA QueryGCSIsCurrent ==
    ASSUME CInv, NEW p \in Procs, QueryGCS(p)
    PROVE  CopiesAreCurrent'
<1> DEFINE r == req[p]
<1>1. r \in Request /\ UNCHANGED store /\ r.session = store[r.uploadID]
  BY MoverKnows DEF QueryGCS, At, CInv, CopiesAreCurrent, CopyIsCurrent
<1>2. CASE Continue(p, Answer(r, 500))
  BY <1>1, <1>2, FailureIsCurrent, QuietStep
<1>3. ASSUME NEW pc \in {"markCompleted", "updateStatus"}, NEW bytes,
             Continue(p, [GoTo(r, pc) EXCEPT !.gcsBytes = bytes])
      PROVE  CopiesAreCurrent'
  <2> DEFINE q == GoTo(r, pc)
             n == [q EXCEPT !.gcsBytes = bytes]
  <2>1. q \in Request /\ q.pc = pc /\ q.uploadID = r.uploadID /\ q.session = r.session
    BY <1>1 DEF GoTo, Request, PCs
  <2> HIDE DEF q
  <2>2. n.pc = pc /\ n.uploadID = r.uploadID /\ n.session = r.session
    BY <2>1 DEF Request
  <2> HIDE DEF n
  <2>3. CopyIsCurrent(n, store)
    BY <1>1, <2>2, CopyMakesCurrent
  <2> QED
    BY <1>1, <1>3, <2>3, QuietStep DEF n, q
<1> QED
  BY <1>2, <1>3 DEF QueryGCS

(* The three writes that patch the copy as they patch the document, and the one  *)
(* that is answered with an error.                                             *)
LEMMA PatchingStep ==
    ASSUME CInv, NoSharing, NEW p \in Procs,
           ~At(p, "idle"), req[p].uploadID \in UploadIDs,
           NEW d, NEW ok, NEW failed,
           StoreWrite(p, [store EXCEPT ![req[p].uploadID] = d], ok, failed),
           CopyIsCurrent(ok, [store EXCEPT ![req[p].uploadID] = d]),
           \A c : CopyIsCurrent(failed, c)
    PROVE  CopiesAreCurrent'
<1>1. store \in Collections
  BY MoverKnows DEF CInv
<1>2. \A u \in UploadIDs : u # req[p].uploadID => store'[u] = store[u]
  BY <1>1 DEF StoreWrite, Collections
<1>3. CASE store' = [store EXCEPT ![req[p].uploadID] = d] /\ Continue(p, ok)
  BY <1>2, <1>3, WritingStep
<1>4. CASE Continue(p, failed)
  BY <1>2, <1>4, WritingStep
<1> QED
  BY <1>3, <1>4 DEF StoreWrite

(* The copy of a session, patched and answered. *)
LEMMA PatchedCopy ==
    ASSUME NEW r \in Request, r.session \in UploadSession, NEW status, NEW bytes
    PROVE  LET n == Answer(WithCopy(r, status, bytes), 200)
           IN  /\ n.pc = "respond" /\ n.uploadID = r.uploadID
               /\ n.session = WithProgress(r.session, status, bytes)
<1> DEFINE w == WithCopy(r, status, bytes)
<1>1. /\ w = [r EXCEPT !.session = WithProgress(r.session, status, bytes)]
      /\ w.uploadID = r.uploadID /\ w.session = WithProgress(r.session, status, bytes)
  BY DEF WithCopy, Request
<1>2. \A x : [w EXCEPT !.pc = "respond", !.code = x].pc = "respond"
  BY <1>1 DEF Request
<1>3. \A x : /\ [w EXCEPT !.pc = "respond", !.code = x].uploadID = w.uploadID
             /\ [w EXCEPT !.pc = "respond", !.code = x].session = w.session
  BY <1>1 DEF Request
<1> QED
  BY <1>1, <1>2, <1>3 DEF Answer

LEMMA WritesAreCurrent ==
    ASSUME CInv, NoSharing, NEW p \in Procs,
           ExpireSession(p) \/ CompleteSession(p) \/ RecordProgress(p) \/ CancelSession(p)
    PROVE  CopiesAreCurrent'
<1> DEFINE r == req[p]
           u == r.uploadID
<1>1. /\ r \in Request /\ u \in UploadIDs /\ Stored(u) /\ r.session = store[u]
      /\ store[u] \in UploadSession /\ store \in Collections /\ ~At(p, "idle")
  <2>1. r \in Request /\ u \in UploadIDs /\ SameSession(r.session, store[u])
        /\ r.session = store[u] /\ store \in Collections /\ ~At(p, "idle")
    BY MoverKnows DEF ExpireSession, CompleteSession, RecordProgress, CancelSession, At,
                      RequestOK, CInv, CopiesAreCurrent, CopyIsCurrent
  <2> QED
    BY <2>1 DEF SameSession, Stored, Collections
<1>2. \A c, code : code \in {400, 404, 410, 500} => CopyIsCurrent(Answer(r, code), c)
  BY <1>1, FailureIsCurrent
<1>3. CASE ExpireSession(p)
  <2>1. StoreWrite(p, [store EXCEPT ![u] = WithStatus(store[u], "expired")],
                   Answer(r, 410), Answer(r, 410))
    BY <1>1, <1>3 DEF ExpireSession, MarkExpired, SetStatus, Stored
  <2> QED
    BY <1>1, <1>2, <2>1, PatchingStep
<1>4. ASSUME NEW status, NEW bytes, NEW d,
             d = WithProgress(store[u], status, bytes),
             StoreWrite(p, [store EXCEPT ![u] = d],
                        Answer(WithCopy(r, status, bytes), 200), Answer(r, 500))
      PROVE  CopiesAreCurrent'
  <2> DEFINE n == Answer(WithCopy(r, status, bytes), 200)
             c == [store EXCEPT ![u] = d]
  <2>1. n.pc = "respond" /\ n.uploadID = u /\ n.session = d
    BY <1>1, <1>4, PatchedCopy
  <2>2. c[u] = d
    BY <1>1 DEF Collections
  <2>3. CopyIsCurrent(n, c)
    <3> HIDE DEF n, c
    <3> QED
      BY <2>1, <2>2, CopyMakesCurrent
  <2> QED
    BY <1>1, <1>2, <1>4, <2>3, PatchingStep
<1>5. CASE CompleteSession(p)
  BY <1>1, <1>4, <1>5 DEF CompleteSession, MarkCompleted, Update, Stored
<1>6. CASE RecordProgress(p)
  BY <1>1, <1>4, <1>6 DEF RecordProgress, UpdateStatus, Update, Stored
<1>7. CASE CancelSession(p)
  <2>1. WithStatus(store[u], "cancelled")
          = WithProgress(store[u], "cancelled", r.session.uploadedBytes)
    BY <1>1 DEF WithStatus, WithProgress, UploadSession
  <2> QED
    BY <1>1, <1>4, <1>7, <2>1 DEF CancelSession, MarkCancelled, SetStatus, Stored
<1> QED
  BY <1>3, <1>5, <1>6, <1>7

LEMMA PersistIsCurrent ==
    ASSUME CInv, NoSharing, NEW p \in Procs, Persist(p)
    PROVE  CopiesAreCurrent'
<1> DEFINE r == req[p]
           u == r.uploadID
<1>1. /\ r \in Request /\ u \in UploadIDs /\ store \in Collections /\ ~At(p, "idle")
      /\ \A c : CopyIsCurrent(Answer(r, 500), c)
  BY MoverKnows, FailureIsCurrent DEF Persist, At, RequestOK, CInv
<1>2. \A v \in UploadIDs : v # u => store'[v] = store[v]
  BY <1>1 DEF Persist, StoreWrite, Create, Collections
<1>3. CASE Continue(p, Answer(r, 500))
  BY <1>1, <1>2, <1>3, WritingStep
<1>4. CASE ~Continue(p, Answer(r, 500))
  <2> DEFINE n == Answer(r, 201)
  <2>1. Continue(p, n) /\ store' = [store EXCEPT ![u] = r.session]
    BY <1>4 DEF Persist, StoreWrite, Create
  <2>2. n.uploadID = u /\ n.session = r.session
    BY <1>1 DEF Answer, Request
  <2>3. store'[u] = r.session
    BY <1>1, <2>1 DEF Collections
  <2> HIDE DEF n
  <2>4. CopyIsCurrent(n, store')
    BY <2>2, <2>3, CopyMakesCurrent
  <2> QED
    BY <1>1, <1>2, <2>1, <2>4, WritingStep
<1> QED
  BY <1>3, <1>4

LEMMA ReleaseIsCurrent ==
    ASSUME CInv, NEW p \in Procs, Respond(p) \/ Crash(p)
    PROVE  CopiesAreCurrent'
<1>1. Idle.pc = "idle"
  BY DEF Idle, NewRequest
<1>2. CopyIsCurrent(Idle, store)
  BY <1>1, StartIsCurrent
<1> QED
  BY <1>2, QuietStep DEF Respond, Crash

LEMMA NextIsCurrent ==
    ASSUME CInv, NoSharing, [Next]_vars
    PROVE  CopiesAreCurrent'
<1>1. CASE UNCHANGED <<store, req>>
  BY <1>1 DEF CInv, CopiesAreCurrent
<1>2. ASSUME NEW p \in Procs, Accept(p) \/ Serve(p) \/ Crash(p)
      PROVE  CopiesAreCurrent'
  BY <1>2, AcceptIsCurrent, LookupIsCurrent, SignIsCurrent, PersistIsCurrent,
     LoadIsCurrent, CheckTTLIsCurrent, QueryGCSIsCurrent, WritesAreCurrent,
     ReleaseIsCurrent DEF Serve
<1>3. CASE \E u \in UploadIDs : ClientUpload(u) \/ ClientFinalize(u)
  BY <1>1, <1>3 DEF ClientUpload, ClientFinalize
<1>4. CASE Tick
  BY <1>1, <1>4 DEF Tick
<1> QED
  BY <1>1, <1>2, <1>3, <1>4 DEF Next, vars

(* A write made from a current copy leaves the status alone, or ends the session. *)
LEMMA TerminalsStay ==
    ASSUME CInv, [Next]_vars, NEW u \in UploadIDs, StatusOf(u) \in Terminal
    PROVE  StatusOf(u)' \in Terminal
<1>1. Stored(u) /\ store[u] \in UploadSession /\ store[u].status \in Terminal
  BY DEF StatusOf, Terminal, CInv, IInv, TypeOK, Stored
<1>2. store'[u] # NoDoc
  BY <1>1, NextIsGood DEF CInv, GoodStep, Grows, Stored
<1>3. \A status, n : /\ WithStatus(store[u], status).status = status
                    /\ WithProgress(store[u], status, n).status = status
  BY <1>1 DEF WithStatus, WithProgress, UploadSession
<1>4. ASSUME NEW p \in Procs,
             ExpireSession(p) \/ CompleteSession(p) \/ RecordProgress(p) \/ CancelSession(p)
      PROVE  store'[u].status \in Terminal
  <2>1. \/ u # req[p].uploadID /\ store'[u] = store[u]
        \/ u = req[p].uploadID /\ RecordProgress(p)
        \/ \/ store'[u] = store[u]
           \/ store'[u] = WithStatus(store[u], "expired")
           \/ store'[u] = WithProgress(store[u], "completed", store[u].sizeBytes)
           \/ store'[u] = WithStatus(store[u], "cancelled")
    BY <1>4, WritingRequests DEF CInv
  <2>2. ASSUME u = req[p].uploadID, RecordProgress(p) PROVE store'[u].status \in Terminal
    <3>1. req[p].session = store[u]
      BY <2>2 DEF RecordProgress, At, CInv, CopiesAreCurrent, CopyIsCurrent
    <3>2. store' \in {store, [store EXCEPT ![u] =
                         WithProgress(store[u], store[u].status, req[p].gcsBytes)]}
      BY <1>1, <2>2, <3>1 DEF RecordProgress, StoreWrite, UpdateStatus, Update, Stored
    <3>3. store \in Collections
      BY DEF CInv, IInv, TypeOK, Collections
    <3>4. store'[u] \in {store[u],
                         WithProgress(store[u], store[u].status, req[p].gcsBytes)}
      BY <3>2, <3>3 DEF Collections
    <3> QED
      BY <1>1, <1>3, <3>4
  <2> QED
    BY <1>1, <1>3, <2>1, <2>2 DEF Terminal
<1>5. ASSUME store'[u] = store[u] PROVE store'[u].status \in Terminal
  BY <1>1, <1>5
<1>6. ASSUME NEW p \in Procs, CheckTTL(p) \/ QueryGCS(p) PROVE UNCHANGED store
  BY <1>6 DEF CheckTTL, QueryGCS
<1>7. store'[u].status \in Terminal
  BY <1>1, <1>4, <1>5, <1>6, NextCases, QuietRequests, PersistingRequests DEF CInv
<1> QED
  BY <1>2, <1>7 DEF StatusOf, Stored

-----------------------------------------------------------------------------
(* Keys. *)

(* Without a new document, keys go on naming one session each, and a key that    *)
(* names none still names none.                                                *)
LEMMA NoNewDocument ==
    ASSUME KInv, [Next]_vars, \A u \in UploadIDs : Stored(u)' => Stored(u)
    PROVE  /\ OneSessionPerKey'
           /\ \A r : KeyIsFree(r, store) => KeyIsFree(r, store')
<1>1. \A u \in UploadIDs : Stored(u)' =>
        /\ Stored(u) /\ store'[u].userID = store[u].userID
        /\ store'[u].idempotencyKey = store[u].idempotencyKey
  BY NextIsGood DEF GoodStep, Grows, Stored, Identity, KInv
<1>2. \A user, key : ByIdempotencyKey(store', user, key) \subseteq ByIdempotencyKey(store, user, key)
  BY <1>1 DEF ByIdempotencyKey, Documents, Stored
<1> QED
  BY <1>1, <1>2 DEF OneSessionPerKey, Stored, KInv, KeysAreFree, KeyIsFree

(* A step that adds no document: what matters is where its request is now.      *)
LEMMA NoKeyStep ==
    ASSUME KInv, [Next]_vars, NEW p \in Procs, NEW r, Continue(p, r),
           \A u \in UploadIDs : Stored(u)' => Stored(u),
           KeyIsFree(r, store)
    PROVE  KeysAreFree'
<1>1. req' = [req EXCEPT ![p] = r] /\ req \in [Procs -> Request]
  BY DEF Continue, KInv, IInv, TypeOK
<1>2. \A q \in Procs : req'[q] = IF q = p THEN r ELSE req[q]
  BY <1>1
<1> QED
  BY <1>2, NoNewDocument DEF KInv, KeysAreFree

(* Requests that are not creating rely on no key. *)
LEMMA OthersNeedNoKey ==
    ASSUME NEW r, r.pc \notin {"sign", "persist"}, NEW c
    PROVE  KeyIsFree(r, c)
BY DEF KeyIsFree

(* Nor does one that is answered. *)
LEMMA AnsweredStep ==
    ASSUME KInv, [Next]_vars, NEW p \in Procs, NEW r \in Request, NEW code,
           Continue(p, Answer(r, code)),
           \A u \in UploadIDs : Stored(u)' => Stored(u)
    PROVE  KeysAreFree'
<1>1. KeyIsFree(Answer(r, code), store)
  <2>1. Answer(r, code).pc = "respond"
    BY AnswersRespond
  <2> QED
    BY <2>1, OthersNeedNoKey
<1> QED
  BY <1>1, NoKeyStep

LEMMA AcceptKeepsKeys ==
    ASSUME KInv, [Next]_vars, NEW p \in Procs, Accept(p)
    PROVE  KeysAreFree'
<1>1. \A u \in UploadIDs : Stored(u)' => Stored(u)
  BY DEF Accept, CreateStart, SessionStart, RejectBody, Stored
<1>2. CASE CreateStart(p)
  <2>1. PICK user \in Users, key \in IdempotencyKeys \cup {NoKey}, size \in Sizes :
          Continue(p, Validated(NewRequest("create", NoID, user, key, size, clock)))
    BY <1>2 DEF CreateStart
  <2> DEFINE n == NewRequest("create", NoID, user, key, size, clock)
  <2>2. n \in Request
    BY BoundsAssumption DEF NewRequest, Request, PCs, Operations, KInv, IInv, TypeOK
  <2> HIDE DEF n
  <2>3. CASE n.key = NoKey /\ Validated(n) = GoTo(n, "sign")
    <3>1. GoTo(n, "sign").pc = "sign" /\ GoTo(n, "sign").key = NoKey
      BY <2>2, <2>3 DEF GoTo, Request
    <3>2. \A user2 : ByIdempotencyKey(store, user2, NoKey) = {}
      BY DEF ByIdempotencyKey
    <3>3. KeyIsFree(Validated(n), store)
      BY <2>3, <3>1, <3>2 DEF KeyIsFree
    <3> QED
      BY <1>1, <2>1, <3>3, NoKeyStep DEF n
  <2>4. CASE Validated(n) \in {Answer(n, 400), Answer(n, 500)}
    BY <1>1, <2>1, <2>2, <2>4, AnsweredStep DEF n
  <2>5. CASE Validated(n) = GoTo(n, "lookup")
    <3>1. Validated(n).pc = "lookup"
      BY <2>2, <2>5 DEF GoTo, Request
    <3> QED
      BY <1>1, <2>1, <3>1, OthersNeedNoKey, NoKeyStep DEF n
  <2> QED
    BY <2>3, <2>4, <2>5 DEF Validated
<1>3. CASE SessionStart(p)
  <2>1. PICK op, user, u : Continue(p, GoTo(NewRequest(op, u, user, NoKey, 0, 0), "load"))
    BY <1>3 DEF SessionStart
  <2> DEFINE n == GoTo(NewRequest(op, u, user, NoKey, 0, 0), "load")
  <2>2. n.pc = "load"
    BY DEF GoTo, NewRequest
  <2> HIDE DEF n
  <2> QED
    BY <1>1, <2>1, <2>2, OthersNeedNoKey, NoKeyStep DEF n
<1>4. CASE RejectBody(p)
  <2>1. PICK op \in Operations, user \in Users :
          Continue(p, Answer(NewRequest(op, NoID, user, NoKey, 0, 0), 400))
    BY <1>4 DEF RejectBody, Operations
  <2>2. NewRequest(op, NoID, user, NoKey, 0, 0) \in Request
    BY DEF NewRequest, Request, PCs
  <2> QED
    BY <1>1, <2>1, <2>2, AnsweredStep
<1> QED
  BY <1>2, <1>3, <1>4 DEF Accept

(* The lookup that misses is what frees the key. *)
LEMMA LookupKeepsKeys ==
    ASSUME KInv, [Next]_vars, NEW p \in Procs, LookupIdempotencyKey(p)
    PROVE  KeysAreFree'
<1> DEFINE r == req[p]
           hits == ByIdempotencyKey(store, ContextUser(r), r.key)
<1>1. /\ r \in Request /\ (\A u \in UploadIDs : Stored(u)' => Stored(u))
      /\ \/ Continue(p, Answer(r, 500))
         \/ \E u : Continue(p, Answer(WithSession(r, u, store[u]), 201))
         \/ hits = {} /\ Continue(p, GoTo(r, "sign"))
  BY MoverKnows DEF LookupIdempotencyKey, KInv, Stored
<1>2. CASE Continue(p, Answer(r, 500))
  BY <1>1, <1>2, AnsweredStep
<1>3. ASSUME NEW u, Continue(p, Answer(WithSession(r, u, store[u]), 201))
      PROVE  KeysAreFree'
  <2>1. Answer(WithSession(r, u, store[u]), 201).pc = "respond"
    BY <1>1 DEF Answer, WithSession, Request
  <2> QED
    BY <1>1, <1>3, <2>1, OthersNeedNoKey, NoKeyStep
<1>4. CASE hits = {} /\ Continue(p, GoTo(r, "sign"))
  <2> DEFINE n == GoTo(r, "sign")
  <2>1. n.pc = "sign" /\ n.key = r.key
    BY <1>1 DEF GoTo, Request
  <2> HIDE DEF n
  <2>2. KeyIsFree(n, store)
    BY <1>4, <2>1 DEF KeyIsFree, ContextUser
  <2> QED
    BY <1>1, <1>4, <2>2, NoKeyStep DEF n
<1> QED
  BY <1>1, <1>2, <1>3, <1>4

LEMMA SignKeepsKeys ==
    ASSUME KInv, [Next]_vars, NEW p \in Procs, SignResumableUploadURL(p)
    PROVE  KeysAreFree'
<1> DEFINE r == req[p]
           s == NewSession(ContextUser(r), r.key, r.size, r.startTime, clock)
<1>1. /\ r \in Request /\ r.pc = "sign" /\ KeyIsFree(r, store)
      /\ \A u \in UploadIDs : Stored(u)' => Stored(u)
      /\ \/ Continue(p, Answer(r, 500))
         \/ \E u \in GeneratedUploadID : Continue(p, WithSession(GoTo(r, "persist"), u, s))
  BY MoverKnows DEF SignResumableUploadURL, At, KInv, KeysAreFree, Stored
<1>2. CASE Continue(p, Answer(r, 500))
  BY <1>1, <1>2, AnsweredStep
<1>3. CASE \E u \in GeneratedUploadID : Continue(p, WithSession(GoTo(r, "persist"), u, s))
  <2>1. PICK u \in GeneratedUploadID : Continue(p, WithSession(GoTo(r, "persist"), u, s))
    BY <1>3
  <2> DEFINE n == WithSession(GoTo(r, "persist"), u, s)
  <2>2. s.userID = ContextUser(r) /\ s.idempotencyKey = r.key
    BY DEF NewSession
  <2> HIDE DEF s
  <2>3. n.pc = "persist" /\ n.key = r.key /\ n.session = s
    BY <1>1 DEF WithSession, GoTo, Request
  <2> HIDE DEF n
  <2>4. KeyIsFree(n, store)
    BY <1>1, <2>2, <2>3 DEF KeyIsFree, ContextUser
  <2> QED
    BY <1>1, <2>1, <2>4, NoKeyStep DEF n
<1> QED
  BY <1>1, <1>2, <1>3

(* The write of a creation, the only step that adds a document: its key names no *)
(* other, and no other creation relies on it.                                  *)
LEMMA PersistKeepsKeys ==
    ASSUME KInv, OneCreationPerKey, [Next]_vars, NEW p \in Procs, Persist(p)
    PROVE  KeysAreFree'
<1> DEFINE r == req[p]
           u == r.uploadID
           s == r.session
           c == [store EXCEPT ![u] = s]
<1>1. /\ r \in Request /\ u \in UploadIDs /\ store \in Collections
      /\ KeyIsFree(r, store) /\ r.pc = "persist"
  BY MoverKnows DEF Persist, At, RequestOK, KInv, KeysAreFree
<1>2. CASE UNCHANGED store
  <2>1. PICK code : Continue(p, Answer(r, code))
    BY DEF Persist, StoreWrite
  <2> QED
    BY <1>1, <1>2, <2>1, AnsweredStep DEF Stored
<1>3. CASE store[u] = NoDoc /\ store' = c
  <2>1. PICK code : Continue(p, Answer(r, code))
    BY DEF Persist, StoreWrite
  <2>2. c[u] = s /\ \A v \in UploadIDs : v # u => c[v] = store[v]
    BY <1>1 DEF Collections
  <2>3. /\ ByIdempotencyKey(store, s.userID, s.idempotencyKey) = {}
        /\ s.idempotencyKey = r.key
    BY <1>1 DEF KeyIsFree
  <2>4. \A v \in UploadIDs : Stored(v) /\ s.idempotencyKey # NoKey
          => ~(store[v].userID = s.userID /\ store[v].idempotencyKey = s.idempotencyKey)
    BY <2>3 DEF ByIdempotencyKey, Documents, Stored
  <2>5. OneSessionPerKey'
    <3>1. OneSessionPerKey
      BY DEF KInv, KeysAreFree
    <3> HIDE DEF c, s
    <3>2. SUFFICES ASSUME NEW v \in UploadIDs, NEW x \in UploadIDs,
                          c[v] # NoDoc, c[x] # NoDoc, c[v].idempotencyKey # NoKey,
                          c[v].idempotencyKey = c[x].idempotencyKey,
                          c[v].userID = c[x].userID, v # x
                   PROVE  FALSE
      BY <1>3 DEF OneSessionPerKey, Stored
    <3>3. CASE v = u
      BY <2>2, <2>4, <3>2, <3>3 DEF Stored
    <3>4. CASE x = u
      BY <2>2, <2>4, <3>2, <3>4 DEF Stored
    <3>5. CASE v # u /\ x # u
      BY <2>2, <3>1, <3>2, <3>5 DEF OneSessionPerKey, Stored
    <3> QED
      BY <3>3, <3>4, <3>5
  <2>6. ASSUME NEW q \in Procs, q # p, Creating(q)
        PROVE  ByIdempotencyKey(c, ContextUser(req[q]), req[q].key) = {}
    <3>1. ByIdempotencyKey(store, ContextUser(req[q]), req[q].key) = {}
      BY <2>6 DEF KInv, KeysAreFree, KeyIsFree, Creating
    <3>2. req[q].key # NoKey => s.idempotencyKey # req[q].key
      BY <1>1, <2>3, <2>6 DEF OneCreationPerKey, Creating
    <3> HIDE DEF c, s
    <3> QED
      BY <2>2, <3>1, <3>2 DEF ByIdempotencyKey, Documents
  <2>7. ASSUME NEW q \in Procs PROVE KeyIsFree(req'[q], store')
    <3>1. req'[q] = IF q = p THEN Answer(r, code) ELSE req[q]
      BY <2>1 DEF Continue, KInv, IInv, TypeOK
    <3>2. KeyIsFree(Answer(r, code), store')
      BY <1>1, AnswersRespond, OthersNeedNoKey
    <3>3. q # p => KeyIsFree(req[q], store')
      BY <1>3, <2>6 DEF KeyIsFree, Creating, KInv, KeysAreFree
    <3> QED
      BY <3>1, <3>2, <3>3
  <2> QED
    BY <2>5, <2>7 DEF KeysAreFree
<1> QED
  BY <1>2, <1>3 DEF Persist, StoreWrite, Create

(* The operations on an existing session add no document and create nothing.    *)
LEMMA OthersKeepKeys ==
    ASSUME KInv, [Next]_vars, NEW p \in Procs,
           \/ LoadSession(p) \/ CheckTTL(p) \/ QueryGCS(p)
           \/ ExpireSession(p) \/ CompleteSession(p) \/ RecordProgress(p) \/ CancelSession(p)
           \/ Respond(p) \/ Crash(p)
    PROVE  KeysAreFree'
<1> DEFINE r == req[p]
<1>1. r \in Request /\ store \in Collections
  BY MoverKnows DEF KInv
<1>2. \A u \in UploadIDs : Stored(u)' => Stored(u)
  <2>1. CASE UNCHANGED store
    BY <2>1 DEF Stored
  <2>2. ASSUME NEW v, NEW d, store[v] # NoDoc, store' = [store EXCEPT ![v] = d]
        PROVE  \A u \in UploadIDs : Stored(u)' => Stored(u)
    BY <1>1, <2>2 DEF Stored, Collections
  <2> QED
    BY <2>1, <2>2 DEF LoadSession, CheckTTL, QueryGCS, ExpireSession, CompleteSession,
       RecordProgress, CancelSession, Respond, Crash, StoreWrite, MarkExpired, SetStatus,
       MarkCompleted, Update, UpdateStatus, MarkCancelled
<1>3. ASSUME NEW n, Continue(p, n), n.pc \notin {"sign", "persist"}
      PROVE  KeysAreFree'
  BY <1>2, <1>3, OthersNeedNoKey, NoKeyStep
<1>4. CASE LoadSession(p)
  <2>1. ASSUME NEW s
        PROVE  [GoTo(r, "checkTTL") EXCEPT !.session = s].pc = "checkTTL"
    BY <1>1 DEF GoTo, Request
  <2>2. \A code : Answer(r, code).pc = "respond"
    BY <1>1, AnswersRespond
  <2> QED
    BY <1>3, <1>4, <2>1, <2>2 DEF LoadSession
<1>5. CASE CheckTTL(p)
  <2>1. PICK n \in {GoTo(r, "markExpired"), GoTo(r, "queryGCS"), GoTo(r, "markCancelled"),
                    Answer(r, 200)} : Continue(p, n)
    BY <1>5 DEF CheckTTL, AfterTTLCheck
  <2>2. n.pc \in {"markExpired", "queryGCS", "markCancelled", "respond"}
    BY <1>1, <2>1, AnswersRespond DEF GoTo, Request
  <2> QED
    BY <1>3, <2>1, <2>2
<1>6. CASE QueryGCS(p)
  <2>1. ASSUME NEW pc, NEW bytes
        PROVE  [GoTo(r, pc) EXCEPT !.gcsBytes = bytes].pc = pc
    BY <1>1 DEF GoTo, Request
  <2>2. \A code : Answer(r, code).pc = "respond"
    BY <1>1, AnswersRespond
  <2> QED
    BY <1>3, <1>6, <2>1, <2>2 DEF QueryGCS
<1>7. CASE ExpireSession(p) \/ CompleteSession(p) \/ RecordProgress(p) \/ CancelSession(p)
  <2>1. \/ \E code : Continue(p, Answer(r, code))
        \/ \E status, n : Continue(p, Answer(WithCopy(r, status, n), 200))
    BY <1>7 DEF ExpireSession, CompleteSession, RecordProgress, CancelSession, StoreWrite
  <2>2. \A code, status, n : /\ Answer(r, code).pc = "respond"
                             /\ Answer(WithCopy(r, status, n), code).pc = "respond"
    BY <1>1 DEF Answer, WithCopy, Request
  <2> QED
    BY <1>3, <2>1, <2>2
<1>8. CASE Respond(p) \/ Crash(p)
  <2>1. Continue(p, Idle) /\ Idle.pc = "idle"
    BY <1>8 DEF Respond, Crash, Idle, NewRequest
  <2> QED
    BY <1>3, <2>1
<1> QED
  BY <1>4, <1>5, <1>6, <1>7, <1>8

LEMMA NextKeepsKeys ==
    ASSUME KInv, OneCreationPerKey, [Next]_vars
    PROVE  KeysAreFree'
<1>1. CASE UNCHANGED <<store, req>>
  BY <1>1 DEF KInv, KeysAreFree, OneSessionPerKey, Stored
<1>2. ASSUME NEW p \in Procs, Accept(p) \/ Serve(p) \/ Crash(p)
      PROVE  KeysAreFree'
  BY <1>2, AcceptKeepsKeys, LookupKeepsKeys, SignKeepsKeys, PersistKeepsKeys,
     OthersKeepKeys DEF Serve
<1>3. CASE \E u \in UploadIDs : ClientUpload(u) \/ ClientFinalize(u)
  BY <1>1, <1>3 DEF ClientUpload, ClientFinalize
<1>4. CASE Tick
  BY <1>1, <1>4 DEF Tick
<1> QED
  BY <1>1, <1>2, <1>3, <1>4 DEF Next, vars

-----------------------------------------------------------------------------
(* The theorems. *)

(* While no two requests are about the same session, a successful answer         *)
(* describes the stored session field by field, although the copy it is built    *)
(* from was read before the calls and patched by hand after the writes.          *)
THEOREM AnswersAgree == Spec /\ []NoSharing => []AnswerAgreesWithStore
<1>1. Init => CInv
  BY InitEstablishes
<1>2. CInv /\ NoSharing /\ [Next]_vars => CInv'
  BY NextIsCurrent, NextIsGood DEF CInv, GoodStep
<1>3. CInv => AnswerAgreesWithStore
  BY DEF CInv, CopiesAreCurrent, CopyIsCurrent, AnswerAgreesWithStore, At
<1> QED
  BY <1>1, <1>2, <1>3, PTL DEF Spec

(* While no two requests are about the same session, the transitions the comment *)
(* on UploadStatus names are kept: a session that was completed, cancelled or     *)
(* expired is never open again.  Without the hypothesis it may be reopened, by a  *)
(* refresh that writes back the status it had loaded.                            *)
THEOREM OnlyOverlapsReopen == Spec /\ []NoSharing => TerminalIsNeverReopened
<1>1. Init => CInv
  BY InitEstablishes
<1>2. CInv /\ NoSharing /\ [Next]_vars => CInv'
  BY NextIsCurrent, NextIsGood DEF CInv, GoodStep
<1>3. CInv /\ [Next]_vars
        => [\A u \in UploadIDs :
              StatusOf(u) \in Terminal => StatusOf(u)' \in Terminal]_store
  BY TerminalsStay
<1> QED
  BY <1>1, <1>2, <1>3, PTL DEF Spec, TerminalIsNeverReopened

(* While no two creations with one key are between the lookup that missed and    *)
(* the write, retries of a creation, after failed writes, lost answers and       *)
(* crashes, find the session an earlier attempt may have stored: for any number  *)
(* of keys, users and sizes, a key names one session.  What other requests do    *)
(* meanwhile does not matter.                                                  *)
THEOREM KeysNameOneSession == Spec /\ []OneCreationPerKey => []OneSessionPerKey
<1>1. Init => KInv
  BY InitEstablishes
<1>2. KInv /\ OneCreationPerKey /\ [Next]_vars => KInv'
  BY NextKeepsKeys, NextIsGood DEF KInv, GoodStep
<1>3. KInv => OneSessionPerKey
  BY DEF KInv, KeysAreFree
<1> QED
  BY <1>1, <1>2, <1>3, PTL DEF Spec

(* A client that waits for each of its answers, or failures, has all three.      *)
THEOREM OneRequestAtATime ==
    ASSUME OneSlot
    PROVE  Spec => []AnswerAgreesWithStore /\ []OneSessionPerKey /\ TerminalIsNeverReopened
<1>1. NoSharing /\ OneCreationPerKey
  BY DEF OneSlot, NoSharing, OneCreationPerKey
<1> QED
  BY <1>1, AnswersAgree, KeysNameOneSession, OnlyOverlapsReopen, PTL
================================================================================
