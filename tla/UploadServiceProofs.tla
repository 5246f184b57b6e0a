--------------------------- MODULE UploadServiceProofs ---------------------------
(***************************************************************************)
(* Proofs about UploadService, for any set of request slots, upload ids,    *)
(* users, keys and sizes and any bounds.                                    *)
(***************************************************************************)
EXTENDS UploadService, TLAPS

(* From collection c, objects g and time t to c2, g2 and t2 nothing is lost:  *)
(* documents stay and keep their identity, uploads and the clock only go on.  *)
Grows(c, g, t, c2, g2, t2) ==
    /\ t <= t2
    /\ \A u \in UploadIDs :
         /\ c[u] # NoDoc => c2[u] # NoDoc /\ Identity(c2[u]) = Identity(c[u])
         /\ g[u].held <= g2[u].held /\ (g[u].final => g2[u].final)

(* A step that keeps the invariant and loses nothing.                         *)
GoodStep == IInv' /\ Grows(store, gcs, clock, store', gcs', clock')

Collections == [UploadIDs -> UploadSession \cup {NoDoc}]
Objects == [UploadIDs -> GCSObject]

(* A session document that is true stays true. *)
LEMMA SessionStaysTrue ==
    ASSUME NEW s \in UploadSession, NEW o \in GCSObject, NEW o2 \in GCSObject,
           NEW t \in Nat, NEW t2 \in Nat,
           t <= t2, o.held <= o2.held, o.final => o2.final, SessionTrue(s, o, t)
    PROVE  SessionTrue(s, o2, t2)
BY DEF SessionTrue, TTLElapsed, UploadFinished, UploadSession, GCSObject

(* What a waiting request relies on is not taken away by the others. *)
LEMMA RequestStaysOK ==
    ASSUME NEW r \in Request,
           NEW c \in Collections, NEW g \in Objects, NEW t \in Nat,
           NEW c2 \in Collections, NEW g2 \in Objects, NEW t2 \in Nat,
           Grows(c, g, t, c2, g2, t2), RequestOK(r, c, g, t)
    PROVE  RequestOK(r, c2, g2, t2)
<1> DEFINE waiting == {"checkTTL", "markExpired", "queryGCS", "markCompleted",
                       "updateStatus", "markCancelled"}
           answered == r.pc = "respond" /\ r.code \in {200, 201, 410}
<1>1. r.pc \in waiting \/ answered =>
        /\ r.uploadID \in UploadIDs /\ r.session \in UploadSession
        /\ SameSession(r.session, c2[r.uploadID])
        /\ SessionTrue(r.session, g2[r.uploadID], t2)
  <2> SUFFICES ASSUME r.pc \in waiting \/ answered
               PROVE  /\ r.uploadID \in UploadIDs /\ r.session \in UploadSession
                      /\ SameSession(r.session, c2[r.uploadID])
                      /\ SessionTrue(r.session, g2[r.uploadID], t2)
    OBVIOUS
  <2>1. /\ r.uploadID \in UploadIDs
        /\ SameSession(r.session, c[r.uploadID])
        /\ SessionTrue(r.session, g[r.uploadID], t)
    BY DEF RequestOK
  <2>2. r.session \in UploadSession
    BY <2>1 DEF SameSession, Request
  <2>3. SameSession(r.session, c2[r.uploadID])
    BY <2>1 DEF SameSession, Grows
  <2>4. SessionTrue(r.session, g2[r.uploadID], t2)
    BY <2>1, <2>2, SessionStaysTrue DEF Grows, Objects
  <2> QED
    BY <2>1, <2>2, <2>3, <2>4
<1>2. r.pc \in {"lookup", "sign"} => r.size \in Sizes \ {0} /\ r.startTime <= t2
  BY DEF RequestOK, Grows, Request
<1>7. r.pc = "persist" => r.session # NoDoc /\ FreshSession(r.session, t2)
  <2> SUFFICES ASSUME r.pc = "persist"
               PROVE  r.session # NoDoc /\ FreshSession(r.session, t2)
    OBVIOUS
  <2>1. 0..t \subseteq 0..t2
    BY DEF Grows
  <2> QED
    BY <2>1 DEF RequestOK, FreshSession
<1>3. r.pc = "markExpired" \/ (r.pc = "respond" /\ r.code = 410) => TTLElapsed(t2, r.session)
  BY <1>1 DEF RequestOK, Grows, TTLElapsed, UploadSession
<1>4. r.pc = "markCompleted" => UploadFinished(g2[r.uploadID], r.session)
  BY <1>1 DEF RequestOK, Grows, UploadFinished, UploadSession, Objects, GCSObject
<1>5. r.pc = "updateStatus" => r.gcsBytes <= g2[r.uploadID].held
  BY <1>1 DEF RequestOK, Grows, Objects, GCSObject, Request
<1>6. r.pc = "respond" /\ r.code = 200 => r.session.status # "expired"
  BY DEF RequestOK
<1> QED
  BY <1>1, <1>2, <1>3, <1>4, <1>5, <1>6, <1>7 DEF RequestOK

(* From the invariant, any step under which nothing is lost, the collection   *)
(* stays true and one slot at most goes on to a request that is OK.           *)
LEMMA GrowingStep ==
    ASSUME IInv, NEW p \in Procs, NEW r \in Request,
           Continue(p, r) \/ UNCHANGED req,
           store' \in Collections, gcs' \in Objects, clock' \in Nat,
           Grows(store, gcs, clock, store', gcs', clock'),
           \A u \in UploadIDs : store'[u] # NoDoc => SessionTrue(store'[u], gcs'[u], clock'),
           RequestOK(r, store', gcs', clock') \/ UNCHANGED req
    PROVE  GoodStep
<1>1. TypeOK'
  BY DEF IInv, TypeOK, Continue, Collections, Objects
<1>2. ASSUME NEW q \in Procs PROVE RequestOK(req'[q], store', gcs', clock')
  <2>1. CASE req'[q] = req[q]
    <3>1. RequestOK(req[q], store', gcs', clock')
      BY RequestStaysOK DEF IInv, TypeOK, Collections, Objects
    <3> QED
      BY <2>1, <3>1
  <2>2. CASE req'[q] # req[q]
    <3>1. ~UNCHANGED req
      BY <2>2
    <3>2. q = p /\ req'[q] = r
      BY <2>2, <3>1 DEF Continue, IInv, TypeOK
    <3> QED
      BY <3>1, <3>2
  <2> QED
    BY <2>1, <2>2
<1> QED
  BY <1>1, <1>2 DEF GoodStep, IInv, Stored

(* A step of one request that writes nothing. *)
LEMMA LocalStep ==
    ASSUME IInv, NEW p \in Procs, NEW r \in Request, Continue(p, r),
           RequestOK(r, store, gcs, clock), UNCHANGED <<store, gcs, clock>>
    PROVE  GoodStep
<1>1. store' \in Collections /\ gcs' \in Objects /\ clock' \in Nat
  BY DEF IInv, TypeOK, Collections, Objects
<1>2. Grows(store, gcs, clock, store', gcs', clock')
  BY DEF Grows, IInv, TypeOK, GCSObject
<1>3. \A u \in UploadIDs : store'[u] # NoDoc => SessionTrue(store'[u], gcs'[u], clock')
  BY DEF IInv, Stored
<1>4. RequestOK(r, store', gcs', clock')
  OBVIOUS
<1> QED
  BY <1>1, <1>2, <1>3, <1>4, GrowingStep

(* A step of one request that writes document d under u, or fails to. *)
LEMMA WriteStep ==
    ASSUME IInv, NEW p \in Procs, NEW r \in Request, Continue(p, r),
           NEW u \in UploadIDs, NEW d \in UploadSession,
           SessionTrue(d, gcs[u], clock),
           store[u] # NoDoc => Identity(d) = Identity(store[u]),
           store' \in {store, [store EXCEPT ![u] = d]},
           RequestOK(r, store', gcs, clock), UNCHANGED <<gcs, clock>>
    PROVE  GoodStep
<1>1. store' \in Collections /\ gcs' \in Objects /\ clock' \in Nat
  BY DEF IInv, TypeOK, Collections, Objects
<1>2. \A v \in UploadIDs : store'[v] = store[v] \/ (v = u /\ store'[v] = d)
  BY DEF IInv, TypeOK
<1>3. Grows(store, gcs, clock, store', gcs', clock')
  BY <1>2, NoDocAssumption DEF Grows, IInv, TypeOK, GCSObject
<1>4. \A v \in UploadIDs : store'[v] # NoDoc => SessionTrue(store'[v], gcs'[v], clock')
  BY <1>2 DEF IInv, Stored
<1>5. RequestOK(r, store', gcs', clock')
  OBVIOUS
<1> QED
  BY <1>1, <1>3, <1>4, <1>5, GrowingStep

-----------------------------------------------------------------------------
(* The moves of a request are requests. *)

LEMMA GoToIsTyped ==
    ASSUME NEW r \in Request, NEW pc \in PCs
    PROVE  GoTo(r, pc) \in Request /\ GoTo(r, pc).pc = pc
BY DEF GoTo, Request

LEMMA AnswerIsTyped ==
    ASSUME NEW r \in Request, NEW code \in {200, 201, 400, 404, 410, 500}
    PROVE  Answer(r, code) \in Request
<1> DEFINE s == [r EXCEPT !.pc = "respond"]
<1>1. s \in Request
  BY DEF Request, PCs
<1>2. Answer(r, code) = [s EXCEPT !.code = code]
  BY DEF Answer
<1> HIDE DEF s
<1> QED
  BY <1>1, <1>2 DEF Request

LEMMA SessionMayBeSet ==
    ASSUME NEW r \in Request, NEW u \in UploadIDs, NEW s \in UploadSession
    PROVE  /\ WithSession(r, u, s) \in Request
           /\ WithSession(r, u, s).uploadID = u /\ WithSession(r, u, s).session = s
           /\ WithSession(r, u, s).pc = r.pc
<1> DEFINE q == [r EXCEPT !.uploadID = u]
<1>1. q \in Request /\ q.uploadID = u /\ q.pc = r.pc
  BY DEF Request
<1>2. WithSession(r, u, s) = [q EXCEPT !.session = s]
  BY DEF WithSession
<1> HIDE DEF q
<1> QED
  BY <1>1, <1>2 DEF Request

LEMMA UpdatesAreTyped ==
    ASSUME NEW s \in UploadSession, NEW status \in UploadStatus, NEW n \in Nat
    PROVE  /\ WithStatus(s, status) \in UploadSession
           /\ WithProgress(s, status, n) \in UploadSession
<1> DEFINE q == [s EXCEPT !.status = status]
<1>1. q \in UploadSession
  BY DEF UploadSession
<1>2. WithStatus(s, status) = q /\ WithProgress(s, status, n) = [q EXCEPT !.uploadedBytes = n]
  BY DEF WithStatus, WithProgress
<1> HIDE DEF q
<1> QED
  BY <1>1, <1>2 DEF UploadSession

LEMMA CopyIsTyped ==
    ASSUME NEW r \in Request, r.session # NoDoc, NEW status \in UploadStatus, NEW n \in Nat
    PROVE  WithCopy(r, status, n) \in Request
<1>1. WithProgress(r.session, status, n) \in UploadSession
  BY UpdatesAreTyped DEF Request
<1> QED
  BY <1>1 DEF WithCopy, Request

-----------------------------------------------------------------------------
(* The invariant step by step. *)

(* The empty collection, with every slot idle, satisfies the invariant.       *)
LEMMA InitEstablishesIInv == Init => IInv
<1> SUFFICES ASSUME Init PROVE IInv
  OBVIOUS
<1>1. Idle \in Request
  BY DEF Idle, NewRequest, Request, PCs
<1>2. TypeOK
  BY <1>1 DEF Init, TypeOK, EmptyCollection, EmptyObject, GCSObject
<1>3. RequestOK(Idle, store, gcs, clock)
  BY DEF Idle, NewRequest, RequestOK
<1> QED
  BY <1>2, <1>3 DEF Init, IInv, EmptyCollection, Stored

(* A request that answers that it failed relies on nothing, nor does a free slot. *)
LEMMA Answers ==
    ASSUME NEW r \in Request, NEW code \in {400, 404, 500},
           NEW c, NEW g, NEW t
    PROVE  Answer(r, code) \in Request /\ RequestOK(Answer(r, code), c, g, t)
<1>1. Answer(r, code) \in Request
  BY AnswerIsTyped
<1>2. Answer(r, code).pc = "respond" /\ Answer(r, code).code = code
  BY DEF Answer, Request
<1> QED
  BY <1>1, <1>2 DEF RequestOK

LEMMA FreeSlots ==
    ASSUME NEW c, NEW g, NEW t
    PROVE  Idle \in Request /\ RequestOK(Idle, c, g, t)
<1>1. Idle \in Request
  BY DEF Idle, NewRequest, Request, PCs
<1>2. Idle.pc = "idle"
  BY DEF Idle, NewRequest
<1> QED
  BY <1>1, <1>2 DEF RequestOK

(* The other answers are about a stored session and have to be true.           *)
LEMMA TrueAnswers ==
    ASSUME NEW r \in Request, NEW code \in {200, 201, 410}, NEW c, NEW g, NEW t,
           r.uploadID \in UploadIDs, SameSession(r.session, c[r.uploadID]),
           SessionTrue(r.session, g[r.uploadID], t),
           code = 200 => r.session.status # "expired",
           code = 410 => TTLElapsed(t, r.session)
    PROVE  Answer(r, code) \in Request /\ RequestOK(Answer(r, code), c, g, t)
<1> DEFINE n == Answer(r, code)
<1>1. n \in Request
  BY AnswerIsTyped
<1>2. /\ n.pc = "respond" /\ n.code = code
      /\ n.uploadID = r.uploadID /\ n.session = r.session
  BY DEF Answer, Request
<1> HIDE DEF n
<1>3. RequestOK(n, c, g, t)
  BY <1>2 DEF RequestOK
<1> QED
  BY <1>1, <1>3 DEF n

LEMMA TrueCreation ==
    ASSUME NEW r \in Request, NEW c, NEW g, NEW t,
           r.uploadID \in UploadIDs, SameSession(r.session, c[r.uploadID]),
           SessionTrue(r.session, g[r.uploadID], t)
    PROVE  Answer(r, 201) \in Request /\ RequestOK(Answer(r, 201), c, g, t)
<1>1. 201 \in {200, 201, 410} /\ 201 # 200 /\ 201 # 410
  OBVIOUS
<1> QED
  BY <1>1, TrueAnswers

LEMMA RequestsAreTyped ==
    ASSUME IInv, NEW p \in Procs
    PROVE  /\ req[p] \in Request /\ RequestOK(req[p], store, gcs, clock)
           /\ \A u \in UploadIDs : store[u] # NoDoc => store[u] \in UploadSession
           /\ \A u \in UploadIDs : gcs[u] \in GCSObject
           /\ clock \in Nat
BY DEF IInv, TypeOK

LEMMA AcceptPreserves ==
    ASSUME IInv, NEW p \in Procs, Accept(p)
    PROVE  GoodStep
<1>1. ASSUME NEW op \in Operations, NEW u \in UploadIDs \cup {NoID}, NEW user \in Users,
             NEW key \in IdempotencyKeys \cup {NoKey}, NEW size \in Nat, NEW t \in Nat
      PROVE  /\ NewRequest(op, u, user, key, size, t) \in Request
             /\ NewRequest(op, u, user, key, size, t).uploadID = u
             /\ NewRequest(op, u, user, key, size, t).size = size
             /\ NewRequest(op, u, user, key, size, t).startTime = t
  BY DEF NewRequest, Request, PCs
<1>2. CASE CreateStart(p)
  <2>1. PICK user \in Users, key \in IdempotencyKeys \cup {NoKey}, size \in Sizes :
          Continue(p, Validated(NewRequest("create", NoID, user, key, size, clock)))
    BY <1>2 DEF CreateStart
  <2> DEFINE r == NewRequest("create", NoID, user, key, size, clock)
  <2>2. r \in Request /\ r.size \in Sizes /\ r.startTime = clock /\ clock \in Nat
    <3>1. size \in Nat /\ clock \in Nat /\ "create" \in Operations
      BY RequestsAreTyped, BoundsAssumption DEF Operations
    <3>2. r \in Request /\ r.startTime = clock
      BY <1>1, <3>1
    <3>3. r.size = size
      BY DEF NewRequest
    <3> QED
      BY <3>1, <3>2, <3>3
  <2> HIDE DEF r
  <2>3. Validated(r) \in Request /\ RequestOK(Validated(r), store, gcs, clock)
    <3>1. CASE r.size = 0 \/ ~BucketConfigured
      BY <2>2, <3>1, Answers DEF Validated
    <3>2. CASE r.size # 0 /\ BucketConfigured
      <4>1. PICK pc \in {"sign", "lookup"} : Validated(r) = GoTo(r, pc)
        BY <3>2 DEF Validated
      <4>2. GoTo(r, pc) \in Request
        BY <2>2, GoToIsTyped DEF PCs
      <4>3. RequestOK(GoTo(r, pc), store, gcs, clock)
        BY <2>2, <3>2 DEF GoTo, RequestOK, Request
      <4> QED
        BY <4>1, <4>2, <4>3
    <3> QED
      BY <3>1, <3>2
  <2> QED
    BY <2>1, <2>3, <1>2, LocalStep DEF CreateStart, r
<1>3. CASE SessionStart(p)
  <2>1. PICK op \in Workload \ {"create"}, user \in Users, u \in UploadIDs :
          Continue(p, GoTo(NewRequest(op, u, user, NoKey, 0, 0), "load"))
    BY <1>3 DEF SessionStart
  <2> DEFINE r == NewRequest(op, u, user, NoKey, 0, 0)
  <2>2. r \in Request /\ r.uploadID = u
    BY <1>1, BoundsAssumption
  <2> HIDE DEF r
  <2>3. GoTo(r, "load") \in Request /\ RequestOK(GoTo(r, "load"), store, gcs, clock)
    BY <2>2, GoToIsTyped DEF GoTo, RequestOK, Request, PCs
  <2> QED
    BY <2>1, <2>3, <1>3, LocalStep DEF SessionStart, r
<1>4. CASE RejectBody(p)
  <2>1. PICK op \in Workload, user \in Users :
          Continue(p, Answer(NewRequest(op, NoID, user, NoKey, 0, 0), 400))
    BY <1>4 DEF RejectBody
  <2>2. NewRequest(op, NoID, user, NoKey, 0, 0) \in Request
    BY <1>1, BoundsAssumption
  <2> QED
    BY <2>1, <2>2, <1>4, Answers, LocalStep DEF RejectBody
<1> QED
  BY <1>2, <1>3, <1>4 DEF Accept

LEMMA LookupPreserves ==
    ASSUME IInv, NEW p \in Procs, LookupIdempotencyKey(p)
    PROVE  GoodStep
<1> DEFINE hits == ByIdempotencyKey(store, ContextUser(req[p]), req[p].key)
<1>0. /\ req[p].pc = "lookup" /\ UNCHANGED <<store, gcs, clock>>
      /\ \/ Continue(p, Answer(req[p], 500))
         \/ \E u \in hits : Continue(p, Answer(WithSession(req[p], u, store[u]), 201))
         \/ Continue(p, GoTo(req[p], "sign"))
  BY DEF LookupIdempotencyKey, At
<1>1. req[p] \in Request /\ RequestOK(req[p], store, gcs, clock)
  BY RequestsAreTyped
<1>2. CASE Continue(p, Answer(req[p], 500))
  BY <1>0, <1>1, <1>2, Answers, LocalStep
<1>3. ASSUME NEW u \in hits, Continue(p, Answer(WithSession(req[p], u, store[u]), 201))
      PROVE  GoodStep
  <2> DEFINE r == WithSession(req[p], u, store[u])
  <2>1. u \in UploadIDs /\ store[u] # NoDoc /\ store[u] \in UploadSession
    BY RequestsAreTyped DEF ByIdempotencyKey, Documents
  <2>2. r \in Request /\ r.uploadID = u /\ r.session = store[u]
    BY <1>1, <2>1, SessionMayBeSet DEF Request
  <2> HIDE DEF r
  <2>3. /\ r.uploadID \in UploadIDs /\ SameSession(r.session, store[r.uploadID])
        /\ SessionTrue(r.session, gcs[r.uploadID], clock)
    BY <2>1, <2>2 DEF SameSession, IInv, Stored
  <2>4. Answer(r, 201) \in Request /\ RequestOK(Answer(r, 201), store, gcs, clock)
    BY <2>2, <2>3, TrueCreation
  <2> QED
    BY <1>0, <1>3, <2>4, LocalStep DEF r
<1>4. CASE Continue(p, GoTo(req[p], "sign"))
  <2>1. GoTo(req[p], "sign") \in Request
    BY <1>1, GoToIsTyped DEF PCs
  <2>2. RequestOK(GoTo(req[p], "sign"), store, gcs, clock)
    BY <1>0, <1>1 DEF GoTo, RequestOK, Request
  <2> QED
    BY <1>0, <1>4, <2>1, <2>2, LocalStep
<1> QED
  BY <1>0, <1>2, <1>3, <1>4

LEMMA SignPreserves ==
    ASSUME IInv, NEW p \in Procs, SignResumableUploadURL(p)
    PROVE  GoodStep
<1> DEFINE s == NewSession(ContextUser(req[p]), req[p].key, req[p].size,
                           req[p].startTime, clock)
           g == GoTo(req[p], "persist")
<1>0. /\ req[p].pc = "sign" /\ UNCHANGED <<store, gcs, clock>>
      /\ \/ Continue(p, Answer(req[p], 500))
         \/ \E u \in UploadIDs : Continue(p, WithSession(g, u, s))
  BY DEF SignResumableUploadURL, GeneratedUploadID, At
<1>1. /\ req[p] \in Request /\ req[p].size \in Sizes \ {0} /\ req[p].startTime <= clock
      /\ clock \in Nat
  BY <1>0, RequestsAreTyped DEF RequestOK
<1>2. CASE Continue(p, Answer(req[p], 500))
  BY <1>0, <1>1, <1>2, Answers, LocalStep
<1>3. ASSUME NEW u \in UploadIDs, Continue(p, WithSession(g, u, s))
      PROVE  GoodStep
  <2> DEFINE r == WithSession(g, u, s)
  <2>1. s \in UploadSession /\ FreshSession(s, clock)
    <3>1. /\ req[p].key \in IdempotencyKeys \cup {NoKey} /\ req[p].size \in Nat \ {0}
          /\ req[p].startTime \in Nat
      BY <1>1 DEF Request
    <3>2. s \in UploadSession
      BY <1>1, <3>1, TTLAssumption
         DEF NewSession, SignedURLExpiry, UploadSession, UploadStatus, ContextUser
    <3>3. s = NewSession(s.userID, s.idempotencyKey, s.sizeBytes, req[p].startTime, clock)
      BY DEF NewSession
    <3>4. s.sizeBytes = req[p].size
      BY DEF NewSession
    <3>5. req[p].startTime \in 0..clock /\ clock \in 0..clock
      BY <1>1, <3>1
    <3> HIDE DEF s
    <3> QED
      BY <1>1, <3>2, <3>3, <3>4, <3>5 DEF FreshSession
  <2>2. g \in Request /\ g.pc = "persist"
    BY <1>1, GoToIsTyped DEF PCs
  <2> HIDE DEF s, g
  <2>3. r \in Request /\ r.uploadID = u /\ r.session = s /\ r.pc = "persist"
    BY <2>1, <2>2, SessionMayBeSet DEF Request
  <2> HIDE DEF r
  <2>4. RequestOK(r, store, gcs, clock)
    BY <2>1, <2>3, NoDocAssumption DEF RequestOK
  <2> QED
    BY <1>0, <1>3, <2>3, <2>4, LocalStep DEF r
<1> QED
  BY <1>0, <1>2, <1>3

(* What is persisted is a session as CreateUploadSession builds it. *)
LEMMA FreshSessionIsNew ==
    ASSUME NEW s \in UploadSession, NEW t \in Nat, FreshSession(s, t)
    PROVE  /\ s.status = "created" /\ s.uploadedBytes = 0 /\ s.sizeBytes \in Sizes
           /\ s.expiresAt <= s.urlExpiresAt
<1>1. PICK started \in 0..t, signed \in 0..t :
        /\ started <= signed
        /\ s = NewSession(s.userID, s.idempotencyKey, s.sizeBytes, started, signed)
  BY DEF FreshSession
<1>2. /\ s.status = "created" /\ s.uploadedBytes = 0
      /\ s.expiresAt = started + SessionTTL /\ s.urlExpiresAt = signed + SignedURLTTL
  BY <1>1 DEF NewSession, SignedURLExpiry
<1> QED
  BY <1>1, <1>2, TTLAssumption DEF FreshSession

LEMMA PersistPreserves ==
    ASSUME IInv, NEW p \in Procs, Persist(p)
    PROVE  GoodStep
<1> DEFINE u == req[p].uploadID
           d == req[p].session
<1>1. /\ req[p] \in Request /\ u \in UploadIDs /\ d \in UploadSession
      /\ FreshSession(d, clock) /\ gcs[u] \in GCSObject /\ clock \in Nat
  BY RequestsAreTyped DEF Persist, At, RequestOK, Request
<1>2. SessionTrue(d, gcs[u], clock)
  BY <1>1, FreshSessionIsNew DEF SessionTrue, UploadSession, GCSObject
<1>3. Answer(req[p], 201) \in Request /\ Answer(req[p], 500) \in Request
  BY <1>1, AnswerIsTyped
<1>4. RequestOK(Answer(req[p], 500), store', gcs, clock)
  BY <1>1, Answers
<1>5. CASE store[u] = NoDoc
  <2>1. Create(store, u, d) = [store EXCEPT ![u] = d]
    BY <1>5 DEF Create
  <2>2. CASE store' = [store EXCEPT ![u] = d] /\ Continue(p, Answer(req[p], 201))
    <3>1. store'[u] = d
      BY <1>1, <2>2 DEF IInv, TypeOK
    <3>2. RequestOK(Answer(req[p], 201), store', gcs, clock)
      BY <1>1, <1>2, <3>1, NoDocAssumption, TrueAnswers DEF SameSession
    <3> QED
      BY <1>1, <1>2, <1>3, <1>5, <2>2, <3>2, WriteStep DEF Persist
  <2>3. CASE store' \in {store, [store EXCEPT ![u] = d]} /\ Continue(p, Answer(req[p], 500))
    BY <1>1, <1>2, <1>3, <1>4, <1>5, <2>3, WriteStep DEF Persist
  <2> QED
    BY <1>5, <2>1, <2>2, <2>3 DEF Persist, StoreWrite
<1>6. CASE store[u] # NoDoc
  <2>1. store' = store /\ Continue(p, Answer(req[p], 500))
    BY <1>6 DEF Persist, Create
  <2> QED
    BY <1>1, <2>1, Answers, LocalStep DEF Persist
<1> QED
  BY <1>5, <1>6

(* Request r may be answered with this code about session u. *)
TrueOf(r, u, code) ==
    /\ r.uploadID = u /\ SameSession(r.session, store[u])
    /\ SessionTrue(r.session, gcs[u], clock)
    /\ code = 200 => r.session.status # "expired"
    /\ code = 410 => TTLElapsed(clock, r.session)

(* A write to an existing session, and its answer.                            *)
LEMMA AnsweredWrite ==
    ASSUME IInv, NEW p \in Procs, UNCHANGED <<gcs, clock>>,
           NEW u \in UploadIDs, NEW d \in UploadSession,
           store[u] # NoDoc => Identity(d) = Identity(store[u]),
           SessionTrue(d, gcs[u], clock), store[u] # NoDoc,
           NEW r1 \in Request, NEW code1 \in {200, 410},
           NEW r2 \in Request, NEW code2 \in {410, 500},
           TrueOf(r1, u, code1), code2 = 410 => TrueOf(r2, u, code2),
           StoreWrite(p, [store EXCEPT ![u] = d], Answer(r1, code1), Answer(r2, code2))
    PROVE  GoodStep
<1>0. ASSUME NEW r \in Request, NEW code \in {200, 410}, TrueOf(r, u, code),
             store' \in {store, [store EXCEPT ![u] = d]}
      PROVE  Answer(r, code) \in Request /\ RequestOK(Answer(r, code), store', gcs, clock)
  <2>1. store'[u] \in {store[u], d}
    BY <1>0 DEF IInv, TypeOK
  <2>2. SameSession(r.session, store'[u])
    BY <1>0, <2>1, NoDocAssumption DEF TrueOf, SameSession
  <2> QED
    BY <1>0, <2>2, TrueAnswers DEF TrueOf
<1>1. CASE store' = [store EXCEPT ![u] = d] /\ Continue(p, Answer(r1, code1))
  <2>0. store' \in {store, [store EXCEPT ![u] = d]}
    BY <1>1
  <2>1. Answer(r1, code1) \in Request /\ RequestOK(Answer(r1, code1), store', gcs, clock)
    BY <1>0, <2>0
  <2> QED
    <3>1. store' \in {store, [store EXCEPT ![u] = d]} /\ Continue(p, Answer(r1, code1))
      BY <1>1
    <3> HIDE <1>1
    <3> QED
      BY <2>1, <3>1, WriteStep
<1>2. CASE store' \in {store, [store EXCEPT ![u] = d]} /\ Continue(p, Answer(r2, code2))
  <2>1. Answer(r2, code2) \in Request /\ RequestOK(Answer(r2, code2), store', gcs, clock)
    BY <1>0, <1>2, Answers
  <2> QED
    BY <1>2, <2>1, WriteStep
<1> QED
  BY <1>1, <1>2 DEF StoreWrite

LEMMA LoadPreserves ==
    ASSUME IInv, NEW p \in Procs, LoadSession(p)
    PROVE  GoodStep
<1> DEFINE u == req[p].uploadID
           r == [GoTo(req[p], "checkTTL") EXCEPT !.session = store[u]]
<1>1. /\ req[p].pc = "load" /\ UNCHANGED <<store, gcs, clock>>
      /\ \/ Continue(p, Answer(req[p], 500))
         \/ Continue(p, Answer(req[p], 404))
         \/ store[u] # NoDoc /\ Continue(p, r)
  BY DEF LoadSession, GetByID, At
<1>2. req[p] \in Request /\ u \in UploadIDs
  BY <1>1, RequestsAreTyped DEF RequestOK
<1>3. CASE Continue(p, Answer(req[p], 500)) \/ Continue(p, Answer(req[p], 404))
  BY <1>1, <1>2, <1>3, Answers, LocalStep
<1>4. CASE store[u] # NoDoc /\ Continue(p, r)
  <2> DEFINE q == GoTo(req[p], "checkTTL")
  <2>1. q \in Request /\ q.pc = "checkTTL"
    BY <1>2, GoToIsTyped DEF PCs
  <2>2. q.uploadID = u
    BY <1>2 DEF GoTo, Request
  <2>3. store[u] \in UploadSession /\ SessionTrue(store[u], gcs[u], clock)
    BY <1>2, <1>4, RequestsAreTyped DEF IInv, Stored
  <2> HIDE DEF q
  <2>4. r = [q EXCEPT !.session = store[u]]
    BY DEF q
  <2>5. r \in Request /\ r.uploadID = u /\ r.session = store[u] /\ r.pc = "checkTTL"
    <3> HIDE DEF r
    <3> QED
      BY <2>1, <2>2, <2>3, <2>4 DEF Request
  <2>6. RequestOK(r, store, gcs, clock)
    <3> HIDE DEF r
    <3> QED
      BY <1>2, <1>4, <2>3, <2>5 DEF RequestOK, SameSession
  <2> QED
    BY <1>1, <1>4, <2>5, <2>6, LocalStep
<1> QED
  BY <1>1, <1>3, <1>4

LEMMA CheckTTLPreserves ==
    ASSUME IInv, NEW p \in Procs, CheckTTL(p)
    PROVE  GoodStep
<1> DEFINE r == req[p]
<1>1. /\ r.pc = "checkTTL" /\ UNCHANGED <<store, gcs, clock>>
      /\ Continue(p, IF TTLElapsed(clock, r.session)
                     THEN GoTo(r, "markExpired") ELSE AfterTTLCheck(r))
  BY DEF CheckTTL, At
<1>2. r \in Request /\ RequestOK(r, store, gcs, clock)
  BY RequestsAreTyped
<1> HIDE DEF r
<1>3. ASSUME NEW pc \in {"markExpired", "queryGCS", "markCancelled"},
             pc = "markExpired" => TTLElapsed(clock, r.session),
             pc # "markExpired" => ~TTLElapsed(clock, r.session)
      PROVE  GoTo(r, pc) \in Request /\ RequestOK(GoTo(r, pc), store, gcs, clock)
  <2>1. GoTo(r, pc) \in Request /\ GoTo(r, pc).pc = pc
    BY <1>2, GoToIsTyped DEF PCs
  <2>2. GoTo(r, pc).uploadID = r.uploadID /\ GoTo(r, pc).session = r.session
    BY <1>2 DEF GoTo, Request
  <2>3. pc # "markExpired" => r.session.status # "expired"
    BY <1>1, <1>2, <1>3 DEF RequestOK, SessionTrue
  <2> QED
    BY <1>1, <1>2, <1>3, <2>1, <2>2, <2>3 DEF RequestOK
<1>4. CASE TTLElapsed(clock, r.session)
  BY <1>1, <1>3, <1>4, LocalStep
<1>5. CASE ~TTLElapsed(clock, r.session)
  <2>1. \/ AfterTTLCheck(r) = GoTo(r, "queryGCS")
        \/ AfterTTLCheck(r) = GoTo(r, "markCancelled")
        \/ AfterTTLCheck(r) = Answer(r, 200)
    BY DEF AfterTTLCheck
  <2>2. ASSUME NEW pc \in {"queryGCS", "markCancelled"}
        PROVE  GoTo(r, pc) \in Request /\ RequestOK(GoTo(r, pc), store, gcs, clock)
    BY <1>3, <1>5
  <2>3. r.session.status # "expired"
    BY <1>1, <1>2, <1>5 DEF RequestOK, SessionTrue
  <2>5. /\ r.uploadID \in UploadIDs /\ SameSession(r.session, store[r.uploadID])
        /\ SessionTrue(r.session, gcs[r.uploadID], clock)
    BY <1>1, <1>2 DEF RequestOK
  <2>4. Answer(r, 200) \in Request /\ RequestOK(Answer(r, 200), store, gcs, clock)
    BY <1>2, <2>3, <2>5, TrueAnswers
  <2> QED
    BY <1>1, <1>5, <2>1, <2>2, <2>4, LocalStep
<1> QED
  BY <1>4, <1>5

(* What a request that passed its TTL check may rely on when it writes.        *)
LEMMA WriterKnows ==
    ASSUME IInv, NEW p \in Procs,
           req[p].pc \in {"markExpired", "queryGCS", "markCompleted", "updateStatus",
                         "markCancelled"}
    PROVE  LET u == req[p].uploadID
               s == req[p].session
           IN /\ req[p] \in Request /\ u \in UploadIDs
              /\ s \in UploadSession /\ store[u] \in UploadSession /\ store[u] # NoDoc
              /\ Identity(s) = Identity(store[u])
              /\ SessionTrue(s, gcs[u], clock) /\ SessionTrue(store[u], gcs[u], clock)
              /\ gcs[u] \in GCSObject /\ clock \in Nat
              /\ RequestOK(req[p], store, gcs, clock)
<1>1. /\ req[p] \in Request /\ RequestOK(req[p], store, gcs, clock)
      /\ req[p].uploadID \in UploadIDs
      /\ SameSession(req[p].session, store[req[p].uploadID])
      /\ SessionTrue(req[p].session, gcs[req[p].uploadID], clock)
  BY RequestsAreTyped DEF RequestOK
<1>2. req[p].session \in UploadSession
  BY <1>1 DEF SameSession, Request
<1> QED
  BY <1>1, <1>2, RequestsAreTyped DEF SameSession, IInv, Stored

(* The handler's copy, patched as it patches the document.                     *)
LEMMA PatchedCopyIsTrue ==
    ASSUME IInv, NEW p \in Procs,
           req[p].pc \in {"markCompleted", "updateStatus", "markCancelled"},
           NEW status \in UploadStatus, status # "expired", NEW n \in Nat,
           LET d == WithProgress(req[p].session, status, n)
           IN  SessionTrue(d, gcs[req[p].uploadID], clock)
    PROVE  /\ WithCopy(req[p], status, n) \in Request
           /\ TrueOf(WithCopy(req[p], status, n), req[p].uploadID, 200)
<1> DEFINE r == req[p]
           s == r.session
           d == WithProgress(s, status, n)
           w == WithCopy(r, status, n)
<1>1. /\ r \in Request /\ s \in UploadSession
      /\ store[r.uploadID] # NoDoc /\ Identity(s) = Identity(store[r.uploadID])
  BY WriterKnows
<1>2. w \in Request
  BY <1>1, CopyIsTyped, NoDocAssumption
<1>3. w.session = d /\ w.uploadID = r.uploadID
  BY <1>1 DEF WithCopy, Request
<1>4. d \in UploadSession /\ d.status = status /\ Identity(d) = Identity(s)
  <2>1. d \in UploadSession
    BY <1>1, UpdatesAreTyped
  <2> QED
    BY <1>1, <2>1 DEF WithProgress, Identity, UploadSession
<1> HIDE DEF w, d
<1>5. SameSession(w.session, store[r.uploadID])
  BY <1>1, <1>3, <1>4, NoDocAssumption DEF SameSession
<1> QED
  BY <1>2, <1>3, <1>4, <1>5 DEF TrueOf, w, d

LEMMA ExpirePreserves ==
    ASSUME IInv, NEW p \in Procs, ExpireSession(p)
    PROVE  GoodStep
<1> DEFINE u == req[p].uploadID
           s == store[u]
           d == WithStatus(s, "expired")
<1>1. /\ req[p].pc = "markExpired" /\ UNCHANGED <<gcs, clock>>
      /\ StoreWrite(p, MarkExpired(store, u), Answer(req[p], 410), Answer(req[p], 410))
  BY DEF ExpireSession, At
<1>2. /\ req[p] \in Request /\ u \in UploadIDs /\ s \in UploadSession /\ s # NoDoc
      /\ SessionTrue(s, gcs[u], clock) /\ TTLElapsed(clock, req[p].session)
      /\ Identity(req[p].session) = Identity(s)
  BY <1>1, WriterKnows DEF RequestOK
<1>3. MarkExpired(store, u) = [store EXCEPT ![u] = d]
  BY <1>2 DEF MarkExpired, SetStatus
<1>4. d \in UploadSession
  BY <1>2, UpdatesAreTyped DEF UploadSession, UploadStatus
<1>5. Identity(d) = Identity(s) /\ SessionTrue(d, gcs[u], clock)
  BY <1>2 DEF WithStatus, SessionTrue, Identity, TTLElapsed, UploadSession, UploadFinished
<1>6. TrueOf(req[p], u, 410)
  BY <1>1, <1>2, WriterKnows DEF TrueOf, RequestOK
<1> QED
  BY <1>1, <1>2, <1>3, <1>4, <1>5, <1>6, AnsweredWrite

(* The refresh takes from GCS's reply what GCS holds, through the inclusive end  *)
(* of the range and its absence.                                               *)
LEMMA RepliesAreUnderstood ==
    ASSUME NEW o \in GCSObject, NEW size
    PROVE  UploadedBytes(StatusReply(o), size) = IF o.final THEN size ELSE o.held
<1>1. o.final \in BOOLEAN /\ o.held \in Nat
  BY DEF GCSObject
<1>2. CASE o.final
  <2>1. StatusReply(o).code = 200
    BY <1>2 DEF StatusReply
  <2> QED
    BY <1>2, <2>1 DEF UploadedBytes
<1>3. CASE ~o.final
  <2> DEFINE reply == StatusReply(o)
  <2>1. /\ reply.code = 308
        /\ o.held > 0 => reply.ranged /\ reply.last = o.held - 1
        /\ ~(o.held > 0) => ~reply.ranged
    BY <1>3 DEF StatusReply
  <2> HIDE DEF reply
  <2>2. ParseUploadedBytes(reply) = o.held
    <3>1. CASE o.held > 0
      <4>1. ParseUploadedBytes(reply) = (o.held - 1) + 1
        BY <2>1, <3>1 DEF ParseUploadedBytes
      <4> QED
        BY <1>1, <4>1
    <3>2. CASE ~(o.held > 0)
      <4>1. ParseUploadedBytes(reply) = 0
        BY <2>1, <3>2 DEF ParseUploadedBytes
      <4> QED
        BY <1>1, <3>2, <4>1
    <3> QED
      BY <3>1, <3>2
  <2> QED
    BY <1>3, <2>1, <2>2 DEF UploadedBytes, reply
<1> QED
  BY <1>2, <1>3

LEMMA QueryGCSPreserves ==
    ASSUME IInv, NEW p \in Procs, QueryGCS(p)
    PROVE  GoodStep
<1> DEFINE r == req[p]
           s == r.session
           o == gcs[r.uploadID]
           bytes == UploadedBytes(StatusReply(o), s.sizeBytes)
           next == IF bytes >= s.sizeBytes THEN "markCompleted" ELSE "updateStatus"
           q == GoTo(r, next)
           n == [q EXCEPT !.gcsBytes = bytes]
<1>1. /\ r.pc = "queryGCS" /\ UNCHANGED <<store, gcs, clock>>
      /\ Continue(p, Answer(r, 500)) \/ Continue(p, n)
  BY DEF QueryGCS, At
<1>2. /\ r \in Request /\ r.uploadID \in UploadIDs /\ s \in UploadSession /\ o \in GCSObject
      /\ clock \in Nat /\ SessionTrue(s, o, clock) /\ s.status # "expired"
      /\ SameSession(s, store[r.uploadID])
  BY <1>1, WriterKnows DEF RequestOK
<1>3. CASE Continue(p, Answer(r, 500))
  BY <1>1, <1>2, <1>3, Answers, LocalStep
<1>4. CASE Continue(p, n)
  <2>1. bytes = IF o.final THEN s.sizeBytes ELSE o.held
    BY <1>2, RepliesAreUnderstood
  <2>2. s.sizeBytes \in Nat /\ o.held \in Nat /\ bytes \in Nat
    BY <1>2, <2>1 DEF GCSObject, UploadSession
  <2>3. next = "markCompleted" => UploadFinished(o, s)
    BY <2>1, <2>2 DEF UploadFinished
  <2>4. next = "updateStatus" => bytes < s.sizeBytes /\ bytes <= o.held
    <3> HIDE DEF bytes
    <3> QED
      BY <2>1, <2>2
  <2>5. next = "updateStatus" => s.status # "completed"
    <3> HIDE DEF bytes
    <3> QED
      BY <1>2, <2>1, <2>2 DEF SessionTrue, UploadFinished
  <2>6. q \in Request /\ q.pc = next
    BY <1>2, GoToIsTyped DEF PCs
  <2>7. q.uploadID = r.uploadID /\ q.session = s
    BY <1>2 DEF GoTo, Request
  <2>8. next \in {"markCompleted", "updateStatus"}
    OBVIOUS
  <2> HIDE DEF q, bytes, next
  <2>9. /\ n \in Request /\ n.pc = next /\ n.uploadID = r.uploadID /\ n.session = s
        /\ n.gcsBytes = bytes
    BY <2>2, <2>6, <2>7 DEF Request
  <2> HIDE DEF n
  <2>10. RequestOK(n, store, gcs, clock)
    BY <1>2, <2>3, <2>4, <2>5, <2>8, <2>9 DEF RequestOK
  <2> QED
    BY <1>1, <1>4, <2>9, <2>10, LocalStep
<1> QED
  BY <1>1, <1>3, <1>4

LEMMA CompletePreserves ==
    ASSUME IInv, NEW p \in Procs, CompleteSession(p)
    PROVE  GoodStep
<1> DEFINE u == req[p].uploadID
           s == store[u]
           size == req[p].session.sizeBytes
           d == WithProgress(s, "completed", size)
<1>1. /\ req[p].pc = "markCompleted" /\ UNCHANGED <<gcs, clock>>
      /\ StoreWrite(p, MarkCompleted(store, u, size),
                    Answer(WithCopy(req[p], "completed", size), 200), Answer(req[p], 500))
  BY DEF CompleteSession, At
<1>2. /\ req[p] \in Request /\ u \in UploadIDs /\ s \in UploadSession /\ s # NoDoc
      /\ req[p].session \in UploadSession /\ req[p].session # NoDoc
      /\ SessionTrue(s, gcs[u], clock) /\ UploadFinished(gcs[u], req[p].session)
      /\ Identity(req[p].session) = Identity(s) /\ gcs[u] \in GCSObject
  BY <1>1, WriterKnows, NoDocAssumption DEF RequestOK
<1>3. MarkCompleted(store, u, size) = [store EXCEPT ![u] = d]
  BY <1>2 DEF MarkCompleted, Update
<1>4. size \in Nat /\ size = s.sizeBytes /\ "completed" \in UploadStatus
  BY <1>2 DEF UploadSession, UploadStatus, Identity
<1>5. d \in UploadSession /\ WithCopy(req[p], "completed", size) \in Request
  BY <1>2, <1>4, UpdatesAreTyped, CopyIsTyped
<1>6. /\ d.status = "completed" /\ d.uploadedBytes = s.sizeBytes /\ d.sizeBytes = s.sizeBytes
      /\ d.expiresAt = s.expiresAt /\ d.urlExpiresAt = s.urlExpiresAt
      /\ Identity(d) = Identity(s)
  BY <1>2, <1>4 DEF WithProgress, Identity, UploadSession
<1>7. SessionTrue(d, gcs[u], clock)
  <2> HIDE DEF d, size
  <2> QED
    BY <1>2, <1>4, <1>5, <1>6 DEF SessionTrue, UploadFinished, UploadSession, GCSObject, Identity
<1>8. TrueOf(WithCopy(req[p], "completed", size), u, 200)
  <2> DEFINE e == WithProgress(req[p].session, "completed", size)
  <2>1. SessionTrue(req[p].session, gcs[u], clock)
    BY <1>1, WriterKnows
  <2>2. /\ e.status = "completed" /\ e.uploadedBytes = size /\ e.sizeBytes = size
        /\ e.expiresAt = req[p].session.expiresAt
        /\ e.urlExpiresAt = req[p].session.urlExpiresAt
    BY <1>2 DEF WithProgress, UploadSession
  <2> HIDE DEF e
  <2>3. SessionTrue(e, gcs[u], clock)
    BY <1>2, <1>4, <2>1, <2>2 DEF SessionTrue, UploadFinished, UploadSession, GCSObject
  <2> QED
    BY <1>1, <1>4, <2>3, PatchedCopyIsTrue DEF e
<1> QED
  BY <1>1, <1>2, <1>3, <1>5, <1>6, <1>7, <1>8, AnsweredWrite

LEMMA RecordPreserves ==
    ASSUME IInv, NEW p \in Procs, RecordProgress(p)
    PROVE  GoodStep
<1> DEFINE u == req[p].uploadID
           s == store[u]
           status == req[p].session.status
           n == req[p].gcsBytes
           d == WithProgress(s, status, n)
<1>1. /\ req[p].pc = "updateStatus" /\ UNCHANGED <<gcs, clock>>
      /\ StoreWrite(p, UpdateStatus(store, u, status, n),
                    Answer(WithCopy(req[p], status, n), 200), Answer(req[p], 500))
  BY DEF RecordProgress, At
<1>2. /\ req[p] \in Request /\ u \in UploadIDs /\ s \in UploadSession /\ s # NoDoc
      /\ req[p].session \in UploadSession /\ req[p].session # NoDoc
      /\ SessionTrue(s, gcs[u], clock) /\ SessionTrue(req[p].session, gcs[u], clock)
      /\ Identity(req[p].session) = Identity(s) /\ gcs[u] \in GCSObject
      /\ n < req[p].session.sizeBytes /\ n <= gcs[u].held
      /\ status \notin {"expired", "completed"}
  BY <1>1, WriterKnows, NoDocAssumption DEF RequestOK
<1>3. UpdateStatus(store, u, status, n) = [store EXCEPT ![u] = d]
  BY <1>2 DEF UpdateStatus, Update
<1>4. n \in Nat /\ n < s.sizeBytes /\ status \in {"created", "cancelled"} /\ status \in UploadStatus
  BY <1>2 DEF UploadSession, UploadStatus, Identity, Request, SessionTrue
<1>5. d \in UploadSession /\ WithCopy(req[p], status, n) \in Request
  BY <1>2, <1>4, UpdatesAreTyped, CopyIsTyped
<1>6. /\ d.status = status /\ d.uploadedBytes = n /\ d.sizeBytes = s.sizeBytes
      /\ d.expiresAt = s.expiresAt /\ d.urlExpiresAt = s.urlExpiresAt
      /\ Identity(d) = Identity(s)
  BY <1>2, <1>4 DEF WithProgress, Identity, UploadSession
<1>7. SessionTrue(d, gcs[u], clock)
  <2> HIDE DEF d, status, n
  <2> QED
    BY <1>2, <1>4, <1>5, <1>6 DEF SessionTrue, UploadSession, GCSObject
<1>8. TrueOf(WithCopy(req[p], status, n), u, 200)
  <2> DEFINE e == WithProgress(req[p].session, status, n)
  <2>1. /\ e.status = status /\ e.uploadedBytes = n
        /\ e.sizeBytes = req[p].session.sizeBytes
        /\ e.expiresAt = req[p].session.expiresAt
        /\ e.urlExpiresAt = req[p].session.urlExpiresAt
    BY <1>2 DEF WithProgress, UploadSession
  <2> HIDE DEF e
  <2>2. SessionTrue(e, gcs[u], clock)
    <3> HIDE DEF status, n
    <3> QED
      BY <1>2, <1>4, <2>1 DEF SessionTrue, UploadSession, GCSObject
  <2> QED
    BY <1>1, <1>4, <2>2, PatchedCopyIsTrue DEF e
<1> QED
  BY <1>1, <1>2, <1>3, <1>5, <1>6, <1>7, <1>8, AnsweredWrite

LEMMA CancelPreserves ==
    ASSUME IInv, NEW p \in Procs, CancelSession(p)
    PROVE  GoodStep
<1> DEFINE u == req[p].uploadID
           s == store[u]
           d == WithStatus(s, "cancelled")
           n == req[p].session.uploadedBytes
<1>1. /\ req[p].pc = "markCancelled" /\ UNCHANGED <<gcs, clock>>
      /\ StoreWrite(p, MarkCancelled(store, u),
                    Answer(WithCopy(req[p], "cancelled", n), 200), Answer(req[p], 500))
  BY DEF CancelSession, At
<1>2. /\ req[p] \in Request /\ u \in UploadIDs /\ s \in UploadSession /\ s # NoDoc
      /\ req[p].session \in UploadSession /\ req[p].session # NoDoc
      /\ SessionTrue(s, gcs[u], clock)
  BY <1>1, WriterKnows, NoDocAssumption
<1>3. MarkCancelled(store, u) = [store EXCEPT ![u] = d]
  BY <1>2 DEF MarkCancelled, SetStatus
<1>4. n \in Nat /\ "cancelled" \in UploadStatus
  BY <1>2 DEF UploadSession, UploadStatus
<1>5. d \in UploadSession /\ WithCopy(req[p], "cancelled", n) \in Request
  BY <1>2, <1>4, UpdatesAreTyped, CopyIsTyped
<1>6. Identity(d) = Identity(s) /\ SessionTrue(d, gcs[u], clock)
  BY <1>2 DEF WithStatus, SessionTrue, Identity, TTLElapsed, UploadSession, UploadFinished
<1>7. TrueOf(WithCopy(req[p], "cancelled", n), u, 200)
  <2> DEFINE e == WithProgress(req[p].session, "cancelled", n)
  <2>1. SessionTrue(req[p].session, gcs[u], clock)
    BY <1>1, WriterKnows
  <2>2. /\ e.status = "cancelled" /\ e.uploadedBytes = n
        /\ e.sizeBytes = req[p].session.sizeBytes
        /\ e.expiresAt = req[p].session.expiresAt
        /\ e.urlExpiresAt = req[p].session.urlExpiresAt
    BY <1>2 DEF WithProgress, UploadSession
  <2> HIDE DEF e
  <2>3. SessionTrue(e, gcs[u], clock)
    BY <2>1, <2>2 DEF SessionTrue, UploadFinished
  <2> QED
    BY <1>1, <1>4, <2>3, PatchedCopyIsTrue DEF e
<1> QED
  BY <1>1, <1>2, <1>3, <1>5, <1>6, <1>7, AnsweredWrite

(* The answer is delivered, or the request is abandoned at any other point.   *)
LEMMA ReleasePreserves ==
    ASSUME IInv, NEW p \in Procs, Respond(p) \/ Crash(p)
    PROVE  GoodStep
<1>1. Continue(p, Idle) /\ UNCHANGED <<store, gcs, clock>>
  BY DEF Respond, Crash
<1>2. Idle \in Request /\ RequestOK(Idle, store, gcs, clock)
  BY FreeSlots
<1> QED
  BY <1>1, <1>2, LocalStep

(* An object that is replaced by one that goes on from it.                    *)
LEMMA ObjectGoesOn ==
    ASSUME gcs \in Objects, NEW u \in UploadIDs, NEW o \in GCSObject,
           gcs' = [gcs EXCEPT ![u] = o], gcs[u].held <= o.held, gcs[u].final => o.final
    PROVE  /\ gcs' \in Objects
           /\ \A v \in UploadIDs :
                gcs[v].held <= gcs'[v].held /\ (gcs[v].final => gcs'[v].final)
<1>1. \A v \in UploadIDs : gcs'[v] = gcs[v] \/ (v = u /\ gcs'[v] = o)
  BY DEF Objects
<1>2. gcs' \in Objects
  BY DEF Objects
<1> QED
  BY <1>1, <1>2 DEF Objects, GCSObject

(* The environment: uploads and time only go on.                              *)
LEMMA EnvironmentPreserves ==
    ASSUME IInv, (\E u \in UploadIDs : ClientUpload(u) \/ ClientFinalize(u)) \/ Tick
    PROVE  GoodStep
<1>1. /\ UNCHANGED <<store, req>> /\ gcs' \in Objects /\ clock' \in Nat /\ clock <= clock'
      /\ \A u \in UploadIDs : gcs[u].held <= gcs'[u].held /\ (gcs[u].final => gcs'[u].final)
  <2>1. gcs \in Objects /\ clock \in Nat /\ (\A u \in UploadIDs : gcs[u] \in GCSObject)
    BY DEF IInv, TypeOK, Objects
  <2>3. CASE \E u \in UploadIDs : ClientUpload(u)
    <3>1. PICK u \in UploadIDs : ClientUpload(u)
      BY <2>3
    <3>2. PICK n \in (gcs[u].held + 1)..MaxHeld : gcs' = [gcs EXCEPT ![u].held = n]
      BY <3>1 DEF ClientUpload
    <3> DEFINE o == [gcs[u] EXCEPT !.held = n]
    <3>3. gcs' = [gcs EXCEPT ![u] = o]
      BY <3>2
    <3>4. o \in GCSObject /\ gcs[u].held <= o.held
      BY <2>1, BoundsAssumption DEF GCSObject
    <3>5. gcs[u].final => o.final
      BY <2>1 DEF GCSObject
    <3>6. UNCHANGED <<store, clock, req>>
      BY <3>1 DEF ClientUpload
    <3> HIDE DEF o
    <3>7. /\ gcs' \in Objects
          /\ \A v \in UploadIDs :
               gcs[v].held <= gcs'[v].held /\ (gcs[v].final => gcs'[v].final)
      BY <2>1, <3>3, <3>4, <3>5, ObjectGoesOn
    <3> QED
      BY <2>1, <3>6, <3>7
  <2>4. CASE \E u \in UploadIDs : ClientFinalize(u)
    <3>1. PICK u \in UploadIDs : ClientFinalize(u)
      BY <2>4
    <3> DEFINE o == [gcs[u] EXCEPT !.final = TRUE]
    <3>2. gcs' = [gcs EXCEPT ![u] = o] /\ UNCHANGED <<store, clock, req>>
      BY <3>1 DEF ClientFinalize
    <3>3. o \in GCSObject /\ gcs[u].held <= o.held
      <4>1. gcs[u] \in GCSObject
        BY <2>1
      <4>2. o \in GCSObject
        BY <4>1 DEF GCSObject
      <4>3. gcs[u].held \in Nat /\ o.held = gcs[u].held
        BY <4>1 DEF GCSObject
      <4> QED
        BY <4>2, <4>3
    <3>4. gcs[u].final => o.final
      <4>1. o.final = TRUE
        BY <2>1 DEF GCSObject
      <4> QED
        BY <4>1
    <3> HIDE DEF o
    <3>5. /\ gcs' \in Objects
          /\ \A v \in UploadIDs :
               gcs[v].held <= gcs'[v].held /\ (gcs[v].final => gcs'[v].final)
      BY <2>1, <3>2, <3>3, <3>4, ObjectGoesOn
    <3> QED
      BY <2>1, <3>2, <3>5
  <2>5. CASE Tick
    <3>1. UNCHANGED <<store, gcs, req>> /\ clock' = clock + 1
      BY <2>5 DEF Tick
    <3> QED
      BY <2>1, <3>1 DEF Objects, GCSObject
  <2> QED
    BY <2>3, <2>4, <2>5
<1>2. Grows(store, gcs, clock, store', gcs', clock')
  BY <1>1 DEF Grows
<1>3. ASSUME NEW u \in UploadIDs, store'[u] # NoDoc
      PROVE  SessionTrue(store'[u], gcs'[u], clock')
  BY <1>1, <1>3, SessionStaysTrue DEF IInv, TypeOK, Objects, Stored
<1>4. ASSUME NEW p \in Procs PROVE RequestOK(req'[p], store', gcs', clock')
  BY <1>1, <1>2, RequestStaysOK DEF IInv, TypeOK, Collections, Objects
<1>5. IInv'
  BY <1>1, <1>3, <1>4 DEF IInv, TypeOK, Stored, Objects
<1> QED
  BY <1>2, <1>5 DEF GoodStep

(* The heart of the argument: from the invariant every step of the program,     *)
(* of its clients and of the clock keeps the invariant, and loses nothing.      *)
LEMMA NextIsGood == ASSUME IInv, [Next]_vars PROVE GoodStep
<1>1. ASSUME NEW p \in Procs, Accept(p) PROVE GoodStep
  BY <1>1, AcceptPreserves
<1>2. ASSUME NEW p \in Procs, Serve(p) PROVE GoodStep
  BY <1>2, LookupPreserves, SignPreserves, PersistPreserves, LoadPreserves,
     CheckTTLPreserves, ExpirePreserves, QueryGCSPreserves, CompletePreserves,
     RecordPreserves, CancelPreserves, ReleasePreserves DEF Serve
<1>3. ASSUME NEW p \in Procs, Crash(p) PROVE GoodStep
  BY <1>3, ReleasePreserves
<1>4. CASE (\E u \in UploadIDs : ClientUpload(u) \/ ClientFinalize(u)) \/ Tick
  BY <1>4, EnvironmentPreserves
<1>5. CASE UNCHANGED vars
  <2>1. IInv'
    BY <1>5 DEF vars, IInv, TypeOK, Stored
  <2>2. Grows(store, gcs, clock, store', gcs', clock')
    BY <1>5 DEF vars, Grows, IInv, TypeOK, GCSObject
  <2> QED
    BY <2>1, <2>2 DEF GoodStep
<1> QED
  BY <1>1, <1>2, <1>3, <1>4, <1>5 DEF Next

-----------------------------------------------------------------------------
(* The theorems. *)

(* Every reachable state satisfies the inductive invariant: whatever the        *)
(* number of concurrent requests, a copy of a session held by a handler and     *)
(* the stored document stay two true accounts of one upload.                    *)
THEOREM InvariantHolds == Spec => []IInv
<1>1. IInv /\ [Next]_vars => IInv'
  BY NextIsGood DEF GoodStep
<1> QED
  BY <1>1, InitEstablishesIInv, PTL DEF Spec

(* The service never stores or holds a value outside the types of the model:    *)
(* no status outside its constants, no missing size, no negative count.         *)
THEOREM TypeCorrect == Spec => []TypeOK
<1>1. IInv => TypeOK
  BY DEF IInv
<1> QED
  BY <1>1, InvariantHolds, PTL

(* A session recorded as completed is one whose upload is over, although the    *)
(* GCS answer that led to the write may be arbitrarily old (MarkCompleted).     *)
THEOREM CompletionIsTrue == Spec => []CompletedMeansUploaded
<1>1. IInv => CompletedMeansUploaded
  <2> SUFFICES ASSUME IInv, NEW u \in UploadIDs, Stored(u), store[u].status = "completed"
               PROVE  /\ UploadFinished(gcs[u], store[u])
                      /\ store[u].uploadedBytes = store[u].sizeBytes
    BY DEF CompletedMeansUploaded
  <2> QED
    BY DEF IInv, SessionTrue
<1> QED
  BY <1>1, InvariantHolds, PTL

(* The byte count on record is one GCS really reached, or the upload is over,   *)
(* however refreshes are delayed and reordered (UpdateStatus).                  *)
THEOREM ProgressIsReal == Spec => []RecordedProgressIsReal
<1>1. IInv => RecordedProgressIsReal
  <2> SUFFICES ASSUME IInv, NEW u \in UploadIDs, Stored(u)
               PROVE  gcs[u].final \/ store[u].uploadedBytes <= gcs[u].held
    BY DEF RecordedProgressIsReal
  <2> QED
    BY DEF IInv, SessionTrue
<1> QED
  BY <1>1, InvariantHolds, PTL

(* The recorded count never passes the declared size, and a session recorded    *)
(* at its full size is never "created": the >= of refreshUploadStatus.          *)
THEOREM FullSizeIsRecognised == Spec => []FullSizeIsNotCreated
<1>1. IInv => FullSizeIsNotCreated
  <2> SUFFICES ASSUME IInv, NEW u \in UploadIDs, Stored(u)
               PROVE  /\ store[u].uploadedBytes <= store[u].sizeBytes
                      /\ store[u].uploadedBytes = store[u].sizeBytes
                           => store[u].status # "created"
    BY DEF FullSizeIsNotCreated
  <2> QED
    BY DEF IInv, SessionTrue
<1> QED
  BY <1>1, InvariantHolds, PTL

(* "expired" is only ever recorded past the TTL, although the check is made on  *)
(* an earlier copy and an old status may be written back (MarkExpired).         *)
THEOREM ExpiryIsDue == Spec => []ExpiredMeansTTLElapsed
<1>1. IInv => ExpiredMeansTTLElapsed
  <2> SUFFICES ASSUME IInv, NEW u \in UploadIDs, Stored(u), store[u].status = "expired"
               PROVE  TTLElapsed(clock, store[u])
    BY DEF ExpiredMeansTTLElapsed
  <2> QED
    BY DEF IInv, SessionTrue
<1> QED
  BY <1>1, InvariantHolds, PTL

(* While a session is live its signed URL works, for any two lifetimes of which *)
(* the session's is the shorter (CreateUploadSession, SignResumableUploadURL).  *)
THEOREM LiveURLWorks == Spec => []LiveSessionHasUsableURL
<1>1. IInv => LiveSessionHasUsableURL
  <2> SUFFICES ASSUME IInv, NEW u \in UploadIDs, Stored(u), ~TTLElapsed(clock, store[u])
               PROVE  URLUsable(u)
    BY DEF LiveSessionHasUsableURL
  <2>1. /\ store[u] \in UploadSession /\ clock \in Nat
        /\ store[u].expiresAt <= store[u].urlExpiresAt
    BY DEF IInv, TypeOK, SessionTrue, Stored
  <2> QED
    BY <2>1 DEF URLUsable, Stored, TTLElapsed, UploadSession
<1> QED
  BY <1>1, InvariantHolds, PTL

(* A 201 is only answered for a stored session with the answered identity, even  *)
(* when identifiers collide or the write fails (store.Create, its error path).   *)
THEOREM CreatedIsStored == Spec => []CreatedIsDurable
<1>1. IInv => CreatedIsDurable
  <2> SUFFICES ASSUME IInv, NEW p \in Procs, At(p, "respond"), req[p].code = 201
               PROVE  /\ Stored(req[p].uploadID)
                      /\ Identity(store[req[p].uploadID]) = Identity(req[p].session)
    BY DEF CreatedIsDurable
  <2>1. SameSession(req[p].session, store[req[p].uploadID])
    BY DEF IInv, RequestOK, At
  <2> QED
    BY <2>1 DEF SameSession, Stored
<1> QED
  BY <1>1, InvariantHolds, PTL

(* What a handler tells its client about a session is never false by the time    *)
(* it is told, although it is put together from an older copy and the session is *)
(* written by others meanwhile (mapSessionToStatusResponse and its callers).     *)
THEOREM AnswersTellTheTruth == Spec => []AnswersAreTrue
<1>1. IInv => AnswersAreTrue
  <2> SUFFICES ASSUME IInv, NEW p \in Procs, At(p, "respond"), req[p].code \in {200, 201, 410}
               PROVE  LET u == req[p].uploadID
                          s == req[p].session
                      IN /\ Stored(u) /\ Identity(store[u]) = Identity(s)
                         /\ s.status = "completed" \/ s.uploadedBytes = s.sizeBytes
                              => UploadFinished(gcs[u], s)
                         /\ gcs[u].final \/ s.uploadedBytes <= gcs[u].held
                         /\ req[p].code = 200 => s.status # "expired"
                         /\ req[p].code = 410 => TTLElapsed(clock, store[u])
    BY DEF AnswersAreTrue
  <2>1. /\ SameSession(req[p].session, store[req[p].uploadID])
        /\ SessionTrue(req[p].session, gcs[req[p].uploadID], clock)
        /\ req[p].code = 200 => req[p].session.status # "expired"
        /\ req[p].code = 410 => TTLElapsed(clock, req[p].session)
    BY DEF IInv, RequestOK, At
  <2>2. req[p].session.expiresAt = store[req[p].uploadID].expiresAt
    BY <2>1 DEF SameSession, Identity
  <2> QED
    BY <2>1, <2>2 DEF SameSession, SessionTrue, Stored, TTLElapsed
<1> QED
  BY <1>1, InvariantHolds, PTL

(* No step removes a session or rewrites what identifies it: its owner, key,     *)
(* size and expiries (the four partial updates of the store, and Doc.Create).    *)
THEOREM SessionsStay == Spec => SessionsAreImmutable
<1> DEFINE Kept == \A u \in UploadIDs : Stored(u) =>
                     store[u]' # NoDoc /\ Identity(store[u]') = Identity(store[u])
<1>1. IInv /\ [Next]_vars => [Kept]_vars
  <2> SUFFICES ASSUME IInv, [Next]_vars PROVE Kept
    OBVIOUS
  <2>1. Grows(store, gcs, clock, store', gcs', clock')
    BY NextIsGood DEF GoodStep
  <2> QED
    BY <2>1 DEF Grows, Stored
<1> QED
  BY <1>1, InvariantHolds, PTL DEF Spec, SessionsAreImmutable
================================================================================
