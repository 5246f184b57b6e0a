------------------------ MODULE UploadConvergenceProofs ------------------------
(***************************************************************************)
(* What the two liveness properties of UploadService rest on: requests that  *)
(* act on an old copy run out, and once they have, what the record says of an *)
(* expired session or a finished upload stays.  No fairness is assumed here.  *)
(***************************************************************************)
EXTENDS UploadServiceProofs

(* The points between a passed TTL check and the last write.                  *)
Late == {"queryGCS", "markCompleted", "updateStatus", "markCancelled"}

(* Slot p alone moves. *)
Moves(p) == \A q \in Procs : q # p => req'[q] = req[q]

LEMMA OneMoves ==
    ASSUME IInv, NEW p \in Procs, NEW r, Continue(p, r)
    PROVE  Moves(p) /\ req'[p] = r
BY DEF IInv, TypeOK, Continue, Moves

LEMMA AnswersRespond ==
    ASSUME NEW r \in Request, NEW code
    PROVE  Answer(r, code).pc = "respond" /\ Answer(r, code).code = code
BY DEF Answer, Request

-----------------------------------------------------------------------------
(* Where each step takes its request. *)

LEMMA AcceptedRequests ==
    ASSUME IInv, NEW p \in Procs, Accept(p)
    PROVE  Moves(p) /\ req'[p].pc \notin Late
<1>1. ASSUME NEW op, NEW u, NEW user, NEW key, NEW size, NEW t
      PROVE  /\ \A pc : GoTo(NewRequest(op, u, user, key, size, t), pc).pc = pc
             /\ \A code : Answer(NewRequest(op, u, user, key, size, t), code).pc = "respond"
  BY DEF NewRequest, GoTo, Answer
<1>2. CASE CreateStart(p)
  <2>1. PICK user \in Users, key \in IdempotencyKeys \cup {NoKey}, size \in Sizes :
          Continue(p, Validated(NewRequest("create", NoID, user, key, size, clock)))
    BY <1>2 DEF CreateStart
  <2> DEFINE r == NewRequest("create", NoID, user, key, size, clock)
  <2>2. \E pc \in {"sign", "lookup"}, code \in {400, 500} :
          Validated(r) \in {GoTo(r, pc), Answer(r, code)}
    BY DEF Validated
  <2>3. Validated(r).pc \in {"sign", "lookup", "respond"}
    BY <1>1, <2>2
  <2> QED
    BY <2>1, <2>3, OneMoves DEF Late
<1>3. CASE SessionStart(p)
  <2>1. PICK op, user, u : Continue(p, GoTo(NewRequest(op, u, user, NoKey, 0, 0), "load"))
    BY <1>3 DEF SessionStart
  <2> QED
    BY <1>1, <2>1, OneMoves DEF Late
<1>4. CASE RejectBody(p)
  <2>1. PICK op, user : Continue(p, Answer(NewRequest(op, NoID, user, NoKey, 0, 0), 400))
    BY <1>4 DEF RejectBody
  <2> QED
    BY <1>1, <2>1, OneMoves DEF Late
<1> QED
  BY <1>2, <1>3, <1>4 DEF Accept

LEMMA ReleasedRequests ==
    ASSUME IInv, NEW p \in Procs, Respond(p) \/ Crash(p)
    PROVE  Moves(p) /\ req'[p].pc \notin Late
<1>1. Continue(p, Idle) /\ Idle.pc = "idle"
  BY DEF Respond, Crash, Idle, NewRequest
<1> QED
  BY <1>1, OneMoves DEF Late

LEMMA CreatingRequests ==
    ASSUME IInv, NEW p \in Procs,
           LookupIdempotencyKey(p) \/ SignResumableUploadURL(p) \/ LoadSession(p)
    PROVE  Moves(p) /\ req'[p].pc \notin Late
<1> DEFINE r == req[p]
<1>1. r \in Request
  BY RequestsAreTyped
<1>2. ASSUME NEW code, Continue(p, Answer(r, code)) PROVE Moves(p) /\ req'[p].pc \notin Late
  BY <1>1, <1>2, OneMoves, AnswersRespond DEF Late
<1>3. CASE LookupIdempotencyKey(p)
  <2>1. ASSUME NEW u, Continue(p, Answer(WithSession(r, u, store[u]), 201))
        PROVE  Moves(p) /\ req'[p].pc \notin Late
    <3>1. Answer(WithSession(r, u, store[u]), 201).pc = "respond"
      BY <1>1 DEF Answer, WithSession, Request
    <3> QED
      BY <2>1, <3>1, OneMoves DEF Late
  <2>2. GoTo(r, "sign").pc = "sign"
    BY <1>1 DEF GoTo, Request
  <2>3. Continue(p, GoTo(r, "sign")) => Moves(p) /\ req'[p].pc \notin Late
    BY <2>2, OneMoves DEF Late
  <2> QED
    BY <1>2, <1>3, <2>1, <2>3 DEF LookupIdempotencyKey
<1>4. CASE SignResumableUploadURL(p)
  <2>1. ASSUME NEW u, NEW s, Continue(p, WithSession(GoTo(r, "persist"), u, s))
        PROVE  Moves(p) /\ req'[p].pc \notin Late
    <3>1. WithSession(GoTo(r, "persist"), u, s).pc = "persist"
      BY <1>1 DEF WithSession, GoTo, Request
    <3> QED
      BY <2>1, <3>1, OneMoves DEF Late
  <2> QED
    BY <1>2, <1>4, <2>1 DEF SignResumableUploadURL
<1>5. CASE LoadSession(p)
  <2>1. ASSUME NEW s, Continue(p, [GoTo(r, "checkTTL") EXCEPT !.session = s])
        PROVE  Moves(p) /\ req'[p].pc \notin Late
    <3>1. [GoTo(r, "checkTTL") EXCEPT !.session = s].pc = "checkTTL"
      BY <1>1 DEF GoTo, Request
    <3> QED
      BY <2>1, <3>1, OneMoves DEF Late
  <2> QED
    BY <1>2, <1>5, <2>1 DEF LoadSession
<1> QED
  BY <1>3, <1>4, <1>5

(* A creation does not touch a session that is there. *)
LEMMA PersistingRequests ==
    ASSUME IInv, NEW p \in Procs, Persist(p)
    PROVE  /\ Moves(p) /\ req'[p].pc \notin Late
           /\ \A u \in UploadIDs : Stored(u) => store'[u] = store[u]
<1> DEFINE v == req[p].uploadID
<1>1. req[p] \in Request /\ v \in UploadIDs /\ store \in Collections
  BY RequestsAreTyped DEF Persist, At, RequestOK, IInv, TypeOK, Collections
<1>2. \E code : Continue(p, Answer(req[p], code))
  BY DEF Persist, StoreWrite
<1>3. Moves(p) /\ req'[p].pc \notin Late
  BY <1>1, <1>2, OneMoves, AnswersRespond DEF Late
<1>4. store' = store \/ (store[v] = NoDoc /\ store' = [store EXCEPT ![v] = req[p].session])
  BY DEF Persist, StoreWrite, Create
<1>5. \A u \in UploadIDs : Stored(u) => store'[u] = store[u]
  BY <1>1, <1>4 DEF Stored, Collections
<1> QED
  BY <1>3, <1>5

(* Who passes the TTL check has a session that is not past its TTL.           *)
LEMMA CheckingRequests ==
    ASSUME IInv, NEW p \in Procs, CheckTTL(p)
    PROVE  /\ Moves(p) /\ UNCHANGED store /\ req'[p].uploadID = req[p].uploadID
           /\ req'[p].pc \in Late =>
                /\ req'[p].pc # "updateStatus"
                /\ ~TTLElapsed(clock, store[req[p].uploadID])
<1> DEFINE r == req[p]
           n == IF TTLElapsed(clock, r.session) THEN GoTo(r, "markExpired") ELSE AfterTTLCheck(r)
<1>1. /\ r \in Request /\ UNCHANGED store /\ Continue(p, n)
      /\ SameSession(r.session, store[r.uploadID])
  BY RequestsAreTyped DEF CheckTTL, At, RequestOK
<1>2. r.session.expiresAt = store[r.uploadID].expiresAt
  BY <1>1 DEF SameSession, Identity
<1>3. /\ \A pc : GoTo(r, pc).pc = pc /\ GoTo(r, pc).uploadID = r.uploadID
      /\ \A code : Answer(r, code).pc = "respond" /\ Answer(r, code).uploadID = r.uploadID
  BY <1>1 DEF GoTo, Answer, Request
<1>4. CASE TTLElapsed(clock, r.session)
  <2>1. n = GoTo(r, "markExpired")
    BY <1>4
  <2> HIDE DEF n
  <2> QED
    BY <1>1, <1>3, <2>1, OneMoves DEF Late
<1>5. CASE ~TTLElapsed(clock, r.session)
  <2>1. n \in {GoTo(r, "queryGCS"), GoTo(r, "markCancelled"), Answer(r, 200)}
    BY <1>5 DEF AfterTTLCheck
  <2>2. ~TTLElapsed(clock, store[r.uploadID])
    BY <1>2, <1>5 DEF TTLElapsed
  <2> HIDE DEF n
  <2>3. n.pc \in {"queryGCS", "markCancelled", "respond"} /\ n.uploadID = r.uploadID
    BY <1>3, <2>1
  <2> QED
    BY <1>1, <2>2, <2>3, OneMoves
<1> QED
  BY <1>4, <1>5

(* Who learns from GCS that bytes are missing asked before the upload was over. *)
LEMMA QueryingRequests ==
    ASSUME IInv, NEW p \in Procs, QueryGCS(p)
    PROVE  /\ Moves(p) /\ UNCHANGED store /\ req'[p].uploadID = req[p].uploadID
           /\ req[p].pc \in Late
           /\ req'[p].pc = "updateStatus" =>
                ~UploadFinished(gcs[req[p].uploadID], store[req[p].uploadID])
<1> DEFINE r == req[p]
           s == r.session
           o == gcs[r.uploadID]
           bytes == UploadedBytes(StatusReply(o), s.sizeBytes)
           next == IF bytes >= s.sizeBytes THEN "markCompleted" ELSE "updateStatus"
           q == GoTo(r, next)
           n == [q EXCEPT !.gcsBytes = bytes]
<1>1. /\ r.pc = "queryGCS" /\ UNCHANGED store
      /\ Continue(p, Answer(r, 500)) \/ Continue(p, n)
  BY DEF QueryGCS, At
<1>2. /\ r \in Request /\ s \in UploadSession /\ o \in GCSObject
      /\ Identity(s) = Identity(store[r.uploadID])
  BY <1>1, WriterKnows
<1>3. CASE Continue(p, Answer(r, 500))
  <2>1. Answer(r, 500).pc = "respond" /\ Answer(r, 500).uploadID = r.uploadID
    BY <1>2 DEF Answer, Request
  <2> QED
    BY <1>1, <1>3, <2>1, OneMoves DEF Late
<1>4. CASE Continue(p, n)
  <2>1. bytes = IF o.final THEN s.sizeBytes ELSE o.held
    BY <1>2, RepliesAreUnderstood
  <2>2. s.sizeBytes \in Nat /\ o.held \in Nat /\ s.sizeBytes = store[r.uploadID].sizeBytes
    BY <1>2 DEF GCSObject, UploadSession, Identity
  <2>3. next = "updateStatus" => ~UploadFinished(o, store[r.uploadID])
    <3> HIDE DEF bytes
    <3> QED
      BY <2>1, <2>2 DEF UploadFinished
  <2> HIDE DEF next, bytes
  <2>4. n.pc = next /\ n.uploadID = r.uploadID
    BY <1>2 DEF GoTo, Request
  <2> HIDE DEF n
  <2> QED
    BY <1>1, <1>4, <2>3, <2>4, OneMoves DEF Late
<1> QED
  BY <1>1, <1>3, <1>4

(* The four writes to an existing session v touch no other, and end the request. *)
LEMMA WritingRequests ==
    ASSUME IInv, NEW p \in Procs,
           ExpireSession(p) \/ CompleteSession(p) \/ RecordProgress(p) \/ CancelSession(p)
    PROVE  LET v == req[p].uploadID
           IN  /\ Moves(p) /\ req'[p].pc \notin Late /\ v \in UploadIDs
               /\ \A u \in UploadIDs : u # v => store'[u] = store[u]
               /\ \/ store'[v] = store[v]
                  \/ ExpireSession(p) /\ store'[v] = WithStatus(store[v], "expired")
                  \/ /\ CompleteSession(p)
                     /\ store'[v] = WithProgress(store[v], "completed", store[v].sizeBytes)
                  \/ RecordProgress(p)
                  \/ CancelSession(p) /\ store'[v] = WithStatus(store[v], "cancelled")
<1> DEFINE v == req[p].uploadID
<1>1. req[p].pc \in {"markExpired", "markCompleted", "updateStatus", "markCancelled"}
  BY DEF ExpireSession, CompleteSession, RecordProgress, CancelSession, At
<1>2. /\ req[p] \in Request /\ v \in UploadIDs /\ store[v] # NoDoc /\ store \in Collections
      /\ req[p].session.sizeBytes = store[v].sizeBytes
  BY <1>1, WriterKnows DEF IInv, TypeOK, Collections, Identity
<1>3. \/ \E code : Continue(p, Answer(req[p], code))
      \/ \E code, status, n : Continue(p, Answer(WithCopy(req[p], status, n), code))
  <2>1. CASE ExpireSession(p)
    BY <2>1 DEF ExpireSession, StoreWrite
  <2>2. CASE CompleteSession(p)
    BY <2>2 DEF CompleteSession, StoreWrite
  <2>3. CASE RecordProgress(p)
    BY <2>3 DEF RecordProgress, StoreWrite
  <2>4. CASE CancelSession(p)
    BY <2>4 DEF CancelSession, StoreWrite
  <2> QED
    BY <2>1, <2>2, <2>3, <2>4
<1>4. \A code, status, n : /\ Answer(req[p], code).pc = "respond"
                           /\ Answer(WithCopy(req[p], status, n), code).pc = "respond"
  BY <1>2 DEF Answer, WithCopy, Request
<1>5. Moves(p) /\ req'[p].pc \notin Late
  BY <1>3, <1>4, OneMoves DEF Late
<1>6. CASE ExpireSession(p)
  <2>1. store' \in {store, [store EXCEPT ![v] = WithStatus(store[v], "expired")]}
    BY <1>2, <1>6 DEF ExpireSession, StoreWrite, MarkExpired, SetStatus
  <2> QED
    BY <1>2, <1>5, <1>6, <2>1 DEF Collections
<1>7. CASE CompleteSession(p)
  <2>1. store' \in {store, [store EXCEPT ![v] =
                              WithProgress(store[v], "completed", store[v].sizeBytes)]}
    BY <1>2, <1>7 DEF CompleteSession, StoreWrite, MarkCompleted, Update
  <2> QED
    BY <1>2, <1>5, <1>7, <2>1 DEF Collections
<1>8. CASE RecordProgress(p)
  <2>1. \E d : store' \in {store, [store EXCEPT ![v] = d]}
    BY <1>2, <1>8 DEF RecordProgress, StoreWrite, UpdateStatus, Update
  <2> QED
    BY <1>2, <1>5, <1>8, <2>1 DEF Collections
<1>9. CASE CancelSession(p)
  <2>1. store' \in {store, [store EXCEPT ![v] = WithStatus(store[v], "cancelled")]}
    BY <1>2, <1>9 DEF CancelSession, StoreWrite, MarkCancelled, SetStatus
  <2> QED
    BY <1>2, <1>5, <1>9, <2>1 DEF Collections
<1> QED
  BY <1>6, <1>7, <1>8, <1>9

-----------------------------------------------------------------------------
(* The two sets of late requests. *)

(* A request that moves, and is not late afterwards, joins neither set and       *)
(* leaves the ones it was in.                                                  *)
LEMMA LateRequestsLeave ==
    ASSUME NEW p \in Procs, Moves(p), req'[p].pc \notin Late, NEW u
    PROVE  /\ PastTheCheck(u)' \subseteq PastTheCheck(u) /\ p \notin PastTheCheck(u)'
           /\ HoldingShortCount(u)' \subseteq HoldingShortCount(u)
           /\ p \notin HoldingShortCount(u)'
BY DEF Moves, Late, PastTheCheck, HoldingShortCount

(* A step that moves no request leaves both sets alone. *)
LEMMA LateRequestsStay ==
    ASSUME UNCHANGED req, NEW u
    PROVE  PastTheCheck(u)' = PastTheCheck(u) /\ HoldingShortCount(u)' = HoldingShortCount(u)
BY DEF PastTheCheck, HoldingShortCount

(* What the next-state relation is made of, by what it does to requests. *)
LEMMA NextCases ==
    ASSUME [Next]_vars
    PROVE  \/ UNCHANGED <<store, req>>
           \/ \E p \in Procs :
                \/ Accept(p) \/ Respond(p) \/ Crash(p)
                \/ LookupIdempotencyKey(p) \/ SignResumableUploadURL(p) \/ LoadSession(p)
                \/ Persist(p) \/ CheckTTL(p) \/ QueryGCS(p)
                \/ ExpireSession(p) \/ CompleteSession(p) \/ RecordProgress(p)
                \/ CancelSession(p)
BY DEF Next, vars, Serve, ClientUpload, ClientFinalize, Tick

(* A step that changes no stored session: *)
LEMMA QuietRequests ==
    ASSUME NEW p \in Procs,
           \/ Accept(p) \/ Respond(p) \/ Crash(p)
           \/ LookupIdempotencyKey(p) \/ SignResumableUploadURL(p) \/ LoadSession(p)
    PROVE  UNCHANGED store
BY DEF Accept, CreateStart, SessionStart, RejectBody, Respond, Crash, LookupIdempotencyKey,
       SignResumableUploadURL, LoadSession

-----------------------------------------------------------------------------
(* Expired sessions. *)

(* What LateWritersRunOut asks of a step. *)
LateWritersStep(u) ==
    /\ PastTheCheck(u)' \subseteq PastTheCheck(u)
    /\ store[u].status = "expired" /\ store'[u].status # "expired"
         => PastTheCheck(u)' # PastTheCheck(u)

(* Past the TTL every step of the program, its clients and the clock does it.    *)
LEMMA NextUsesUpLateWriters ==
    ASSUME IInv, [Next]_vars, NEW u \in UploadIDs, Stored(u), TTLElapsed(clock, store[u])
    PROVE  LateWritersStep(u)
<1>1. CASE UNCHANGED <<store, req>>
  BY <1>1, LateRequestsStay DEF LateWritersStep
<1>2. ASSUME NEW p \in Procs,
             \/ Accept(p) \/ Respond(p) \/ Crash(p) \/ Persist(p)
             \/ LookupIdempotencyKey(p) \/ SignResumableUploadURL(p) \/ LoadSession(p)
      PROVE  LateWritersStep(u)
  <2>1. Moves(p) /\ req'[p].pc \notin Late /\ store'[u] = store[u]
    BY <1>2, AcceptedRequests, ReleasedRequests, CreatingRequests, PersistingRequests,
       QuietRequests
  <2> QED
    BY <2>1, LateRequestsLeave DEF LateWritersStep
<1>3. ASSUME NEW p \in Procs, CheckTTL(p)
      PROVE  LateWritersStep(u)
  <2>1. /\ Moves(p) /\ UNCHANGED store
        /\ req'[p].uploadID = u => req'[p].pc \notin Late
    BY <1>3, CheckingRequests
  <2>2. PastTheCheck(u)' \subseteq PastTheCheck(u)
    BY <2>1 DEF Moves, Late, PastTheCheck
  <2> QED
    BY <2>1, <2>2 DEF LateWritersStep
<1>4. ASSUME NEW p \in Procs, QueryGCS(p)
      PROVE  LateWritersStep(u)
  <2>1. /\ Moves(p) /\ UNCHANGED store /\ req'[p].uploadID = req[p].uploadID
        /\ req[p].pc \in Late
    BY <1>4, QueryingRequests
  <2>2. PastTheCheck(u)' \subseteq PastTheCheck(u)
    BY <2>1 DEF Moves, Late, PastTheCheck
  <2> QED
    BY <2>1, <2>2 DEF LateWritersStep
<1>5. ASSUME NEW p \in Procs,
             ExpireSession(p) \/ CompleteSession(p) \/ RecordProgress(p) \/ CancelSession(p)
      PROVE  LateWritersStep(u)
  <2>1. /\ PastTheCheck(u)' \subseteq PastTheCheck(u) /\ p \notin PastTheCheck(u)'
    BY <1>5, WritingRequests, LateRequestsLeave
  <2>2. CASE u # req[p].uploadID
    BY <1>5, <2>1, <2>2, WritingRequests DEF LateWritersStep
  <2>3. CASE u = req[p].uploadID /\ ExpireSession(p)
    <3>1. store'[u] \in {store[u], WithStatus(store[u], "expired")} \/ ~ExpireSession(p)
      BY <2>3, WritingRequests DEF ExpireSession, CompleteSession, RecordProgress,
                                   CancelSession, At
    <3>2. WithStatus(store[u], "expired").status = "expired"
      BY RequestsAreTyped, <1>5 DEF WithStatus, UploadSession, Stored
    <3> QED
      BY <2>1, <2>3, <3>1, <3>2 DEF LateWritersStep
  <2>4. CASE u = req[p].uploadID /\ ~ExpireSession(p)
    <3>1. p \in PastTheCheck(u)
      BY <1>5, <2>4 DEF CompleteSession, RecordProgress, CancelSession, At, PastTheCheck
    <3> QED
      BY <2>1, <3>1 DEF LateWritersStep
  <2> QED
    BY <2>2, <2>3, <2>4
<1> QED
  BY <1>1, <1>2, <1>3, <1>4, <1>5, NextCases
-----------------------------------------------------------------------------
(* Finished uploads. *)

(* What ShortCountsRunOut asks of a step. *)
ShortCountsStep(u) ==
    /\ HoldingShortCount(u)' \subseteq HoldingShortCount(u)
    /\ FallsBack(store[u], store'[u]) => HoldingShortCount(u)' # HoldingShortCount(u)

(* A session that is not written does not fall back, nor does one whose status   *)
(* moves away from "created" while its count does not drop.                     *)
LEMMA RecordsHold ==
    ASSUME NEW s \in UploadSession, NEW status, status # "created"
    PROVE  /\ ~FallsBack(s, s) /\ ~FallsBack(s, WithStatus(s, status))
           /\ s.uploadedBytes <= s.sizeBytes
                => ~FallsBack(s, WithProgress(s, status, s.sizeBytes))
<1>1. WithStatus(s, status).status = status /\ WithStatus(s, status).uploadedBytes = s.uploadedBytes
  BY DEF WithStatus, UploadSession
<1>2. \A n : WithProgress(s, status, n).status = status /\ WithProgress(s, status, n).uploadedBytes = n
  BY DEF WithProgress, UploadSession
<1>3. s.uploadedBytes \in Nat /\ s.sizeBytes \in Nat
  BY DEF UploadSession
<1> QED
  BY <1>1, <1>2, <1>3 DEF FallsBack

(* With the upload finished every step of the program, its clients and the clock *)
(* does it.                                                                    *)
LEMMA NextUsesUpShortCounts ==
    ASSUME IInv, [Next]_vars, NEW u \in UploadIDs, Stored(u),
           UploadFinished(gcs[u], store[u])
    PROVE  ShortCountsStep(u)
<1>s. store[u] \in UploadSession /\ SessionTrue(store[u], gcs[u], clock)
  BY DEF IInv, TypeOK, Stored
<1>h. ~FallsBack(store[u], store[u])
  BY <1>s, RecordsHold
<1>1. CASE UNCHANGED <<store, req>>
  BY <1>1, <1>h, LateRequestsStay DEF ShortCountsStep
<1>2. ASSUME NEW p \in Procs,
             \/ Accept(p) \/ Respond(p) \/ Crash(p) \/ Persist(p)
             \/ LookupIdempotencyKey(p) \/ SignResumableUploadURL(p) \/ LoadSession(p)
      PROVE  ShortCountsStep(u)
  <2>1. Moves(p) /\ req'[p].pc \notin Late /\ store'[u] = store[u]
    BY <1>2, AcceptedRequests, ReleasedRequests, CreatingRequests, PersistingRequests,
       QuietRequests
  <2> QED
    BY <1>h, <2>1, LateRequestsLeave DEF ShortCountsStep
<1>3. ASSUME NEW p \in Procs, CheckTTL(p) \/ QueryGCS(p)
      PROVE  ShortCountsStep(u)
  <2>1. /\ Moves(p) /\ UNCHANGED store /\ req'[p].uploadID = req[p].uploadID
        /\ req'[p].uploadID = u => req'[p].pc # "updateStatus"
    <3>1. CASE CheckTTL(p)
      BY <3>1, CheckingRequests DEF Late
    <3>2. CASE QueryGCS(p)
      BY <3>2, QueryingRequests
    <3> QED
      BY <1>3, <3>1, <3>2
  <2>2. HoldingShortCount(u)' \subseteq HoldingShortCount(u)
    BY <2>1 DEF Moves, HoldingShortCount
  <2> QED
    BY <1>h, <2>1, <2>2 DEF ShortCountsStep
<1>4. ASSUME NEW p \in Procs,
             ExpireSession(p) \/ CompleteSession(p) \/ RecordProgress(p) \/ CancelSession(p)
      PROVE  ShortCountsStep(u)
  <2>1. /\ HoldingShortCount(u)' \subseteq HoldingShortCount(u)
        /\ p \notin HoldingShortCount(u)'
    BY <1>4, WritingRequests, LateRequestsLeave
  <2>2. CASE u # req[p].uploadID
    BY <1>4, <1>h, <2>1, <2>2, WritingRequests DEF ShortCountsStep
  <2>3. CASE u = req[p].uploadID /\ RecordProgress(p)
    <3>1. p \in HoldingShortCount(u)
      BY <2>3 DEF RecordProgress, At, HoldingShortCount
    <3> QED
      BY <2>1, <3>1 DEF ShortCountsStep
  <2>4. CASE u = req[p].uploadID /\ ~RecordProgress(p)
    <3>1. store'[u] \in {store[u], WithStatus(store[u], "expired"),
                         WithProgress(store[u], "completed", store[u].sizeBytes),
                         WithStatus(store[u], "cancelled")}
      BY <1>4, <2>4, WritingRequests
    <3>2. store[u].uploadedBytes <= store[u].sizeBytes
      BY <1>s DEF SessionTrue
    <3>3. ~FallsBack(store[u], store'[u])
      BY <1>s, <3>1, <3>2, RecordsHold
    <3> QED
      BY <2>1, <3>3 DEF ShortCountsStep
  <2> QED
    BY <2>2, <2>3, <2>4
<1> QED
  BY <1>1, <1>2, <1>3, <1>4, NextCases

-----------------------------------------------------------------------------
(* The theorems. *)

(* Past the TTL of a session no request gets past its check any more (CheckTTL   *)
(* reads the clock after the load), and "expired" is overwritten only by one of  *)
(* those that were past it, which that step ends: with k of them in flight, at   *)
(* most k times, however they are delayed and whatever else is requested.       *)
THEOREM LateWritersAreUsedUp == Spec => LateWritersRunOut
<1> DEFINE Step == \A u \in UploadIDs : Stored(u) /\ TTLElapsed(clock, store[u]) =>
                     /\ PastTheCheck(u)' \subseteq PastTheCheck(u)
                     /\ store[u].status = "expired" /\ store'[u].status # "expired"
                          => PastTheCheck(u)' # PastTheCheck(u)
<1>1. IInv /\ [Next]_vars => [Step]_vars
  BY NextUsesUpLateWriters DEF LateWritersStep
<1> QED
  BY <1>1, InvariantHolds, PTL DEF Spec, LateWritersRunOut

(* Once its upload is finished no refresh of a session reads a short count from  *)
(* GCS any more, and the record falls back, to "created" or to a lower count,    *)
(* only by the write of one that had read it before, which that step ends.       *)
THEOREM ShortCountsAreUsedUp == Spec => ShortCountsRunOut
<1> DEFINE Step == \A u \in UploadIDs : Stored(u) /\ UploadFinished(gcs[u], store[u]) =>
                     /\ HoldingShortCount(u)' \subseteq HoldingShortCount(u)
                     /\ FallsBack(store[u], store'[u])
                          => HoldingShortCount(u)' # HoldingShortCount(u)
<1>1. IInv /\ [Next]_vars => [Step]_vars
  BY NextUsesUpShortCounts DEF ShortCountsStep
<1> QED
  BY <1>1, InvariantHolds, PTL DEF Spec, ShortCountsRunOut

(* The state SessionsEndExpired ends in: recorded as expired, and no request     *)
(* left that passed its check in time.                                         *)
ExpiredForGood(u) == Stored(u) /\ store[u].status = "expired" /\ PastTheCheck(u) = {}

(* Once there, a session stays expired, whatever is requested of it later: no    *)
(* refresh, completion or cancellation that starts now brings it back.          *)
THEOREM ExpiredStaysExpired ==
    ASSUME NEW u \in UploadIDs
    PROVE  Spec => [](ExpiredForGood(u) => []ExpiredForGood(u))
<1>1. IInv /\ ExpiredForGood(u) /\ [Next]_vars => ExpiredForGood(u)'
  <2> SUFFICES ASSUME IInv, ExpiredForGood(u), [Next]_vars PROVE ExpiredForGood(u)'
    OBVIOUS
  <2>1. TTLElapsed(clock, store[u])
    BY DEF IInv, SessionTrue, ExpiredForGood
  <2>2. LateWritersStep(u)
    BY <2>1, NextUsesUpLateWriters DEF ExpiredForGood
  <2>3. store'[u] # NoDoc
    BY NextIsGood DEF GoodStep, Grows, ExpiredForGood, Stored
  <2> QED
    BY <2>2, <2>3 DEF LateWritersStep, ExpiredForGood, Stored
<1> QED
  BY <1>1, InvariantHolds, PTL DEF Spec

(* The state FinishedUploadsAreRecognised ends in: the upload is finished, the   *)
(* record does not say "created", and no refresh holds a short count.           *)
RecognisedForGood(u) ==
    /\ Stored(u) /\ UploadFinished(gcs[u], store[u]) /\ store[u].status # "created"
    /\ HoldingShortCount(u) = {}

(* Once there, a session is never "created" again, and its count never drops.    *)
THEOREM RecognisedStaysRecognised ==
    ASSUME NEW u \in UploadIDs
    PROVE  /\ Spec => [](RecognisedForGood(u) => []RecognisedForGood(u))
           /\ Spec => [][RecognisedForGood(u)
                           => store[u].uploadedBytes <= store'[u].uploadedBytes]_vars
<1>1. ASSUME IInv, RecognisedForGood(u), [Next]_vars
      PROVE  RecognisedForGood(u)' /\ store[u].uploadedBytes <= store'[u].uploadedBytes
  <2>1. ShortCountsStep(u)
    BY <1>1, NextUsesUpShortCounts DEF RecognisedForGood
  <2>2. ~FallsBack(store[u], store'[u]) /\ HoldingShortCount(u)' = {}
    BY <1>1, <2>1 DEF ShortCountsStep, RecognisedForGood
  <2>3. /\ store'[u] # NoDoc /\ Identity(store'[u]) = Identity(store[u])
        /\ gcs[u].held <= gcs'[u].held /\ (gcs[u].final => gcs'[u].final)
        /\ IInv'
    BY <1>1, NextIsGood DEF GoodStep, Grows, RecognisedForGood, Stored
  <2>4. /\ store[u] \in UploadSession /\ store'[u] \in UploadSession
        /\ gcs[u] \in GCSObject /\ gcs'[u] \in GCSObject
    BY <1>1, <2>3 DEF IInv, TypeOK, RecognisedForGood, Stored
  <2>5. UploadFinished(gcs'[u], store'[u])
    <3>1. store'[u].sizeBytes = store[u].sizeBytes
      BY <2>3 DEF Identity
    <3> QED
      BY <1>1, <2>3, <2>4, <3>1 DEF UploadFinished, RecognisedForGood, UploadSession, GCSObject
  <2>6. store'[u].status # "created" /\ store[u].uploadedBytes <= store'[u].uploadedBytes
    BY <1>1, <2>2, <2>4 DEF FallsBack, RecognisedForGood, UploadSession
  <2> QED
    BY <2>2, <2>3, <2>5, <2>6 DEF RecognisedForGood, Stored
<1>2. Spec => [](RecognisedForGood(u) => []RecognisedForGood(u))
  <2>1. IInv /\ RecognisedForGood(u) /\ [Next]_vars => RecognisedForGood(u)'
    BY <1>1
  <2> QED
    BY <2>1, InvariantHolds, PTL DEF Spec
<1>3. Spec => [][RecognisedForGood(u)
                  => store[u].uploadedBytes <= store'[u].uploadedBytes]_vars
  <2>1. IInv /\ [Next]_vars
          => [RecognisedForGood(u) => store[u].uploadedBytes <= store'[u].uploadedBytes]_vars
    BY <1>1
  <2> QED
    BY <2>1, InvariantHolds, PTL DEF Spec
<1> QED
  BY <1>2, <1>3
================================================================================
