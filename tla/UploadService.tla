------------------------------ MODULE UploadService ------------------------------
(***************************************************************************)
(* The upload API of the platform: UploadHandler on top of UploadService on *)
(* top of the Firestore session store, with the clients' direct uploads to  *)
(* GCS.  Requests run concurrently, on any number of Cloud Run instances;   *)
(* the instances share nothing but the collection, so a request is the unit *)
(* of concurrency.  A step of a request ends where it calls out of the      *)
(* process or reads the clock: between two steps, anything can happen.      *)
(***************************************************************************)
EXTENDS SessionStore

CONSTANTS
    Procs,            \* request slots: how many requests run at the same time
    NoID,             \* the upload id of a request that has none yet
    BucketConfigured, \* cfg.GCSBucket # ""
    Sizes,            \* the sizeBytes values clients send; may hold 0
    Workload,         \* bound: the operations clients invoke
    MaxHeld,          \* bound: the bytes a client uploads to one object
    MaxClock          \* bound: the last tick of the clock

(* QueryUploadStatus is "query" when req.Refresh is false, "refresh" when it *)
(* is true.                                                                 *)
Operations == {"create", "resume", "get", "query", "refresh", "cancel"}

ASSUME NoIDAssumption == NoID \notin UploadIDs
ASSUME ConfigAssumption == BucketConfigured \in BOOLEAN
ASSUME BoundsAssumption ==
    /\ Sizes \subseteq Nat /\ Workload \subseteq Operations
    /\ MaxHeld \in Nat /\ MaxClock \in Nat

VARIABLES
    store,   \* the Firestore collection
    gcs,     \* the object behind each upload id
    clock,   \* the time
    req      \* the request each slot is serving

vars == <<store, gcs, clock, req>>

(* One pc per point where a handler goroutine waits. *)
PCs == {"idle", "lookup", "sign", "persist", "load", "checkTTL", "markExpired",
        "queryGCS", "markCompleted", "updateStatus", "markCancelled", "respond"}

(* `session' is the handler's own copy of the document, as of when it was    *)
(* read, with the assignments the handler makes to it.                      *)
Request ==
    [pc        : PCs,
     op        : Operations \cup {"none"},
     uploadID  : UploadIDs \cup {NoID},
     user      : Users \cup {NoUser},
     key       : IdempotencyKeys \cup {NoKey},
     size      : Nat,
     startTime : Nat,
     session   : UploadSession \cup {NoDoc},
     gcsBytes  : Nat,
     code      : {0, 200, 201, 400, 404, 410, 500}]

NewRequest(op, uploadID, user, key, size, startTime) ==
    [pc |-> "idle", op |-> op, uploadID |-> uploadID, user |-> user, key |-> key,
     size |-> size, startTime |-> startTime, session |-> NoDoc, gcsBytes |-> 0, code |-> 0]

(* A free slot. *)
Idle == NewRequest("none", NoID, NoUser, NoKey, 0, 0)

TypeOK ==
    /\ store \in [UploadIDs -> UploadSession \cup {NoDoc}]
    /\ gcs \in [UploadIDs -> GCSObject]
    /\ clock \in Nat
    /\ req \in [Procs -> Request]

Init ==
    /\ store = EmptyCollection
    /\ gcs = [u \in UploadIDs |-> EmptyObject]
    /\ clock = 0
    /\ req = [p \in Procs |-> Idle]

-----------------------------------------------------------------------------
(* The moves of a request. *)

At(p, pc) == req[p].pc = pc
Continue(p, r) == req' = [req EXCEPT ![p] = r]
GoTo(r, pc) == [r EXCEPT !.pc = pc]
Answer(r, code) == [r EXCEPT !.pc = "respond", !.code = code]
WithSession(r, u, s) == [r EXCEPT !.uploadID = u, !.session = s]
WithCopy(r, status, bytes) == [r EXCEPT !.session = WithProgress(@, status, bytes)]

(* A write to Firestore either returns nil, and has been applied, or returns *)
(* an error: then it may have been applied all the same (the deadline        *)
(* passed, the client went away, the connection broke).  If so, it was by    *)
(* then: that a write lands later, after its request failed, is left out.    *)
StoreWrite(p, after, ok, failed) ==
    \/ store' = after /\ Continue(p, ok)
    \/ store' \in {store, after} /\ Continue(p, failed)

(* DataFromContext is called with a plain string key, but the middleware     *)
(* stores the subject under the typed key CtxUserIDKey: the lookup misses.   *)
ContextUser(r) == NoUser

-----------------------------------------------------------------------------
(* CreateUploadSession, with the handler's binding and validation before it. *)

(* The checks made before any I/O, and whether there is a key to look up. *)
Validated(r) ==
    IF r.size = 0 THEN Answer(r, 400)
    ELSE IF ~BucketConfigured THEN Answer(r, 500)
    ELSE GoTo(r, IF r.key = NoKey THEN "sign" ELSE "lookup")

(* startTime is read first. *)
CreateStart(p) ==
    /\ At(p, "idle") /\ "create" \in Workload
    /\ \E user \in Users, key \in IdempotencyKeys \cup {NoKey}, size \in Sizes :
         Continue(p, Validated(NewRequest("create", NoID, user, key, size, clock)))
    /\ UNCHANGED <<store, gcs, clock>>

(* Mutant of LookupIdempotencyKey: an existing session is not reused. *)
LookupIdempotencyKeyIgnoringHits(p) ==
    /\ At(p, "lookup")
    /\ \/ Continue(p, Answer(req[p], 500))
       \/ Continue(p, GoTo(req[p], "sign"))
    /\ UNCHANGED <<store, gcs, clock>>

(* A hit is answered with the stored session, whatever its state. *)
LookupIdempotencyKey(p) ==
    LET hits == ByIdempotencyKey(store, ContextUser(req[p]), req[p].key)
    IN /\ At(p, "lookup")
       /\ \/ Continue(p, Answer(req[p], 500))
          \/ \E u \in hits :
               Continue(p, Answer(WithSession(req[p], u, store[u]), 201))
          \/ hits = {} /\ Continue(p, GoTo(req[p], "sign"))
       /\ UNCHANGED <<store, gcs, clock>>

(* Identifiers are UUIDs, which do not repeat in practice.  Here they may, so  *)
(* nothing rests on that: store.Create is what has to tell a taken one.      *)
GeneratedUploadID == UploadIDs

(* Mutant of SignResumableUploadURL: the session's life is counted from a     *)
(* clock read after the signing call returned.                               *)
SignThenReadClock(p) ==
    /\ At(p, "sign")
    /\ \/ Continue(p, Answer(req[p], 500))
       \/ \E u \in GeneratedUploadID :
            Continue(p, WithSession(GoTo(req[p], "persist"), u,
                NewSession(ContextUser(req[p]), req[p].key, req[p].size, clock + 1, clock)))
    /\ UNCHANGED <<store, gcs, clock>>

(* generateUploadID, then the signing call, then the session built in memory. *)
SignResumableUploadURL(p) ==
    /\ At(p, "sign")
    /\ \/ Continue(p, Answer(req[p], 500))
       \/ \E u \in GeneratedUploadID :
            Continue(p, WithSession(GoTo(req[p], "persist"), u,
                NewSession(ContextUser(req[p]), req[p].key, req[p].size,
                           req[p].startTime, clock)))
    /\ UNCHANGED <<store, gcs, clock>>

(* Mutant of Persist: the error of store.Create is ignored. *)
PersistIgnoringError(p) ==
    /\ At(p, "persist")
    /\ StoreWrite(p, Create(store, req[p].uploadID, req[p].session),
                  Answer(req[p], 201), Answer(req[p], 201))
    /\ UNCHANGED <<gcs, clock>>

(* Doc.Create returns AlreadyExists when the identifier is taken. *)
Persist(p) ==
    /\ At(p, "persist")
    /\ IF store[req[p].uploadID] = NoDoc
       THEN StoreWrite(p, Create(store, req[p].uploadID, req[p].session),
                       Answer(req[p], 201), Answer(req[p], 500))
       ELSE store' = Create(store, req[p].uploadID, req[p].session)
            /\ Continue(p, Answer(req[p], 500))
    /\ UNCHANGED <<gcs, clock>>

-----------------------------------------------------------------------------
(* The operations on an existing session: load, check the TTL, act, answer.  *)

SessionStart(p) ==
    /\ At(p, "idle")
    /\ \E op \in Workload \ {"create"}, user \in Users, u \in UploadIDs :
         Continue(p, GoTo(NewRequest(op, u, user, NoKey, 0, 0), "load"))
    /\ UNCHANGED <<store, gcs, clock>>

(* Create, QueryStatus and Cancel answer 400 to a body that does not bind.   *)
RejectBody(p) ==
    /\ At(p, "idle")
    /\ \E op \in Workload \cap {"create", "query", "refresh", "cancel"}, user \in Users :
         Continue(p, Answer(NewRequest(op, NoID, user, NoKey, 0, 0), 400))
    /\ UNCHANGED <<store, gcs, clock>>

(* GetByID: an error, NotFound, or a copy of the document. *)
LoadSession(p) ==
    LET found == GetByID(store, req[p].uploadID)
    IN /\ At(p, "load")
       /\ \/ Continue(p, Answer(req[p], 500))
          \/ found = NoDoc /\ Continue(p, Answer(req[p], 404))
          \/ found # NoDoc /\ Continue(p, [GoTo(req[p], "checkTTL") EXCEPT !.session = found])
       /\ UNCHANGED <<store, gcs, clock>>

(* Where a request on a live session goes next. *)
AfterTTLCheck(r) ==
    IF r.op = "refresh" THEN GoTo(r, "queryGCS")
    ELSE IF r.op = "cancel" THEN GoTo(r, "markCancelled")
    ELSE Answer(r, 200)

(* Mutant of CheckTTL: >= in place of time.After. *)
CheckTTLInclusive(p) ==
    /\ At(p, "checkTTL")
    /\ Continue(p, IF clock >= req[p].session.expiresAt
                   THEN GoTo(req[p], "markExpired") ELSE AfterTTLCheck(req[p]))
    /\ UNCHANGED <<store, gcs, clock>>

(* Mutant of CheckTTL: QueryUploadStatus with Refresh has no TTL check. *)
CheckTTLExceptRefresh(p) ==
    /\ At(p, "checkTTL")
    /\ Continue(p, IF req[p].op # "refresh" /\ TTLElapsed(clock, req[p].session)
                   THEN GoTo(req[p], "markExpired") ELSE AfterTTLCheck(req[p]))
    /\ UNCHANGED <<store, gcs, clock>>

(* The clock is read once, after the load and before every later write. *)
CheckTTL(p) ==
    /\ At(p, "checkTTL")
    /\ Continue(p, IF TTLElapsed(clock, req[p].session)
                   THEN GoTo(req[p], "markExpired") ELSE AfterTTLCheck(req[p]))
    /\ UNCHANGED <<store, gcs, clock>>

(* The error of store.MarkExpired is discarded: 410 either way. *)
ExpireSession(p) ==
    /\ At(p, "markExpired")
    /\ StoreWrite(p, MarkExpired(store, req[p].uploadID),
                  Answer(req[p], 410), Answer(req[p], 410))
    /\ UNCHANGED <<gcs, clock>>

(* GCS's answer to a status query: 200 once the object is final; otherwise 308  *)
(* and the Range of the bytes it holds, "bytes=0-last", or none if it holds    *)
(* none.                                                                      *)
StatusReply(o) ==
    IF o.final THEN [code |-> 200, ranged |-> FALSE, last |-> 0]
    ELSE [code |-> 308, ranged |-> o.held > 0, last |-> IF o.held > 0 THEN o.held - 1 ELSE 0]

(* Mutant of ParseUploadedBytes: a missing header counts as the last index 0.  *)
ParseUploadedBytesUnranged(reply) == reply.last + 1

(* The last index of the range is inclusive; no header is no byte. *)
ParseUploadedBytes(reply) == IF reply.ranged THEN reply.last + 1 ELSE 0

(* The declared size is taken for the size of a final object.  Another code,   *)
(* a header that does not parse and a failed call are the error of QueryGCS.   *)
UploadedBytes(reply, size) ==
    IF reply.code = 308 THEN ParseUploadedBytes(reply) ELSE size

(* Mutant of QueryGCS: > in place of >=. *)
QueryGCSStrict(p) ==
    LET bytes == UploadedBytes(StatusReply(gcs[req[p].uploadID]), req[p].session.sizeBytes)
        next  == IF bytes > req[p].session.sizeBytes THEN "markCompleted" ELSE "updateStatus"
    IN /\ At(p, "queryGCS")
       /\ \/ Continue(p, Answer(req[p], 500))
          \/ Continue(p, [GoTo(req[p], next) EXCEPT !.gcsBytes = bytes])
       /\ UNCHANGED <<store, gcs, clock>>

(* The refresh: ask GCS, then branch on the size in the handler's copy. *)
QueryGCS(p) ==
    LET bytes == UploadedBytes(StatusReply(gcs[req[p].uploadID]), req[p].session.sizeBytes)
        next  == IF bytes >= req[p].session.sizeBytes THEN "markCompleted" ELSE "updateStatus"
    IN /\ At(p, "queryGCS")
       /\ \/ Continue(p, Answer(req[p], 500))
          \/ Continue(p, [GoTo(req[p], next) EXCEPT !.gcsBytes = bytes])
       /\ UNCHANGED <<store, gcs, clock>>

(* Mutant of CompleteSession: the handler's copy is not updated. *)
CompleteSessionStaleCopy(p) ==
    /\ At(p, "markCompleted")
    /\ StoreWrite(p, MarkCompleted(store, req[p].uploadID, req[p].session.sizeBytes),
                  Answer(req[p], 200), Answer(req[p], 500))
    /\ UNCHANGED <<gcs, clock>>

(* The full size is written and answered, whatever made the refresh come here. *)
CompleteSession(p) ==
    LET size == req[p].session.sizeBytes
    IN /\ At(p, "markCompleted")
       /\ StoreWrite(p, MarkCompleted(store, req[p].uploadID, size),
                     Answer(WithCopy(req[p], "completed", size), 200),
                     Answer(req[p], 500))
       /\ UNCHANGED <<gcs, clock>>

(* Mutant of RecordProgress: the count of the answer is the declared size. *)
RecordProgressAnsweringSize(p) ==
    /\ At(p, "updateStatus")
    /\ StoreWrite(p, UpdateStatus(store, req[p].uploadID, req[p].session.status, req[p].gcsBytes),
                  Answer(WithCopy(req[p], req[p].session.status, req[p].session.sizeBytes), 200),
                  Answer(req[p], 500))
    /\ UNCHANGED <<gcs, clock>>

(* Mutant of RecordProgress: the write is tried again when it fails. *)
RecordProgressRetrying(p) ==
    /\ At(p, "updateStatus")
    /\ StoreWrite(p, UpdateStatus(store, req[p].uploadID, req[p].session.status, req[p].gcsBytes),
                  Answer(WithCopy(req[p], req[p].session.status, req[p].gcsBytes), 200),
                  req[p])
    /\ UNCHANGED <<gcs, clock>>

(* Mutant of RecordProgress: an unfinished session is written back as created. *)
RecordProgressAsCreated(p) ==
    /\ At(p, "updateStatus")
    /\ StoreWrite(p, UpdateStatus(store, req[p].uploadID, "created", req[p].gcsBytes),
                  Answer(WithCopy(req[p], "created", req[p].gcsBytes), 200),
                  Answer(req[p], 500))
    /\ UNCHANGED <<gcs, clock>>

(* The status written back is the one of the handler's copy. *)
RecordProgress(p) ==
    /\ At(p, "updateStatus")
    /\ StoreWrite(p, UpdateStatus(store, req[p].uploadID, req[p].session.status, req[p].gcsBytes),
                  Answer(WithCopy(req[p], req[p].session.status, req[p].gcsBytes), 200),
                  Answer(req[p], 500))
    /\ UNCHANGED <<gcs, clock>>

(* No look at the current status: a session in any state is cancelled.       *)
CancelSession(p) ==
    /\ At(p, "markCancelled")
    /\ StoreWrite(p, MarkCancelled(store, req[p].uploadID),
                  Answer(WithCopy(req[p], "cancelled", req[p].session.uploadedBytes), 200),
                  Answer(req[p], 500))
    /\ UNCHANGED <<gcs, clock>>

(* The response is written, or is lost with its client: the slot is free. *)
Respond(p) ==
    /\ At(p, "respond") /\ Continue(p, Idle)
    /\ UNCHANGED <<store, gcs, clock>>

(* The instance dies, or Cloud Run gives up on the request. *)
Crash(p) ==
    /\ ~At(p, "idle") /\ ~At(p, "respond") /\ Continue(p, Idle)
    /\ UNCHANGED <<store, gcs, clock>>

-----------------------------------------------------------------------------
(* The environment: the client's uploads to GCS and the passing of time. *)

(* A URL reaches a client only after its session is stored, and works until  *)
(* it expires.                                                              *)
URLUsable(u) == store[u] # NoDoc /\ clock <= store[u].urlExpiresAt

ClientUpload(u) ==
    /\ URLUsable(u) /\ ~gcs[u].final
    /\ \E n \in (gcs[u].held + 1)..MaxHeld : gcs' = [gcs EXCEPT ![u].held = n]
    /\ UNCHANGED <<store, clock, req>>

(* The client declares the end of its upload, at whatever size it reached:   *)
(* nothing ties it to the sizeBytes of the session.                          *)
ClientFinalize(u) ==
    /\ URLUsable(u) /\ ~gcs[u].final
    /\ gcs' = [gcs EXCEPT ![u].final = TRUE]
    /\ UNCHANGED <<store, clock, req>>

Tick ==
    /\ clock < MaxClock /\ clock' = clock + 1
    /\ UNCHANGED <<store, gcs, req>>

Serve(p) ==
    \/ LookupIdempotencyKey(p) \/ SignResumableUploadURL(p) \/ Persist(p)
    \/ LoadSession(p) \/ CheckTTL(p) \/ ExpireSession(p)
    \/ QueryGCS(p) \/ CompleteSession(p) \/ RecordProgress(p)
    \/ CancelSession(p) \/ Respond(p)

Accept(p) == CreateStart(p) \/ SessionStart(p) \/ RejectBody(p)

Next ==
    \/ \E p \in Procs : Accept(p) \/ Serve(p) \/ Crash(p)
    \/ \E u \in UploadIDs : ClientUpload(u) \/ ClientFinalize(u)
    \/ Tick

Spec == Init /\ [][Next]_vars

(* What the code and its deployment guarantee: a request that was accepted    *)
(* goes on to its end, every call having a deadline (5 s for the lookup, 10 s  *)
(* for GCS, 300 s for the request), and time passes.                          *)
Fairness == WF_vars(Tick) /\ \A p \in Procs : WF_vars(Serve(p))

(* What clients that keep polling a session with refreshes add: one of them    *)
(* asks again, and sooner or later one of the calls made for them does not     *)
(* fail.                                                                      *)
Polls(p, u) == req[p].uploadID = u /\ req[p].op = "refresh"
PollStarts(p, u) == SessionStart(p) /\ req'[p].uploadID = u /\ req'[p].op = "refresh"
PollLoads(p, u) == LoadSession(p) /\ Polls(p, u) /\ req'[p].pc = "checkTTL"
PollChecks(p, u) == CheckTTL(p) /\ Polls(p, u)
PollQueries(p, u) == QueryGCS(p) /\ Polls(p, u) /\ req'[p].pc # "respond"
PollIsWritten(p, u) ==
    \/ ExpireSession(p) /\ Polls(p, u) /\ store' = MarkExpired(store, u)
    \/ CompleteSession(p) /\ Polls(p, u) /\ req'[p].code = 200

Polling ==
    \A u \in UploadIDs :
        /\ SF_vars(\E p \in Procs : PollStarts(p, u))
        /\ SF_vars(\E p \in Procs : PollLoads(p, u))
        /\ SF_vars(\E p \in Procs : PollChecks(p, u))
        /\ SF_vars(\E p \in Procs : PollQueries(p, u))
        /\ SF_vars(\E p \in Procs : PollIsWritten(p, u))

FairSpec == Spec /\ Fairness
PollingSpec == FairSpec /\ Polling

-----------------------------------------------------------------------------
(* Safety. *)

Stored(u) == store[u] # NoDoc

(* MarkCompleted is reached on a GCS answer that may be old by the time it   *)
(* lands, and other requests write the same document in between.  A session  *)
(* is recorded as completed only if its upload really is finished, and then  *)
(* with the full byte count.                                                *)
CompletedMeansUploaded ==
    \A u \in UploadIDs : Stored(u) /\ store[u].status = "completed" =>
        /\ UploadFinished(gcs[u], store[u])
        /\ store[u].uploadedBytes = store[u].sizeBytes

(* However refreshes are delayed and reordered, the recorded byte count is   *)
(* one GCS has really reached (or the upload is over).                       *)
RecordedProgressIsReal ==
    \A u \in UploadIDs : Stored(u) =>
        gcs[u].final \/ store[u].uploadedBytes <= gcs[u].held

(* The >= of the refresh: the count never passes the declared size, and a    *)
(* session recorded at its full size is never left waiting as "created".     *)
FullSizeIsNotCreated ==
    \A u \in UploadIDs : Stored(u) =>
        /\ store[u].uploadedBytes <= store[u].sizeBytes
        /\ store[u].uploadedBytes = store[u].sizeBytes => store[u].status # "created"

(* MarkExpired follows a check made on a copy, and UpdateStatus may write an *)
(* old status back: still, "expired" is recorded only past the TTL.          *)
ExpiredMeansTTLElapsed ==
    \A u \in UploadIDs : Stored(u) /\ store[u].status = "expired" => TTLElapsed(clock, store[u])

(* The start of the request, the signing and the write are at three          *)
(* different times: as long as a session is live, its URL works.             *)
LiveSessionHasUsableURL ==
    \A u \in UploadIDs : Stored(u) /\ ~TTLElapsed(clock, store[u]) => URLUsable(u)

(* A 201 is only ever answered for a session that is durably stored, with    *)
(* the URL, the size and the expiry that were answered, even when upload ids *)
(* collide or the write fails.                                              *)
CreatedIsDurable ==
    \A p \in Procs : At(p, "respond") /\ req[p].code = 201 =>
        /\ Stored(req[p].uploadID)
        /\ Identity(store[req[p].uploadID]) = Identity(req[p].session)

(* An answer is put together from a copy that was read before the calls, and   *)
(* other requests write meanwhile.  Still it is never false by the time it is  *)
(* given: it is about a stored session, "completed" means that the upload is   *)
(* over, the count is one GCS has reached and full only if the upload is       *)
(* over, a 200 never shows an expired session and a 410 only speaks of one     *)
(* past its TTL.                                                              *)
AnswersAreTrue ==
    \A p \in Procs : At(p, "respond") /\ req[p].code \in {200, 201, 410} =>
        LET u == req[p].uploadID
            s == req[p].session
        IN /\ Stored(u) /\ Identity(store[u]) = Identity(s)
           /\ s.status = "completed" \/ s.uploadedBytes = s.sizeBytes
                => UploadFinished(gcs[u], s)
           /\ gcs[u].final \/ s.uploadedBytes <= gcs[u].held
           /\ req[p].code = 200 => s.status # "expired"
           /\ req[p].code = 410 => TTLElapsed(clock, store[u])

(* Documents are never removed and what identifies them never changes, even  *)
(* when two creations draw the same upload id.                               *)
SessionsAreImmutable ==
    [][\A u \in UploadIDs : Stored(u) =>
         store[u]' # NoDoc /\ Identity(store[u]') = Identity(store[u])]_vars

-----------------------------------------------------------------------------
(* Properties of requests that do not overlap: of a client that waits for each  *)
(* answer before it retries.  A single slot has no others.                     *)

(* What a successful answer says of the session is what the store holds.     *)
AnswerAgreesWithStore ==
    \A p \in Procs : At(p, "respond") /\ req[p].code \in {200, 201} =>
        store[req[p].uploadID] = req[p].session

(* Retrying a creation with its key, after a failure, a lost answer or a     *)
(* crash of the instance, never makes a second session.                      *)
OneSessionPerKey ==
    \A u, v \in UploadIDs :
        Stored(u) /\ Stored(v) /\ store[u].idempotencyKey # NoKey
          /\ store[u].idempotencyKey = store[v].idempotencyKey
          /\ store[u].userID = store[v].userID => u = v

-----------------------------------------------------------------------------
(* The inductive invariant. *)

(* What holds, when GCS holds o and the time is t, of any version of the       *)
(* session's document, stored now or copied by a handler earlier: it stays     *)
(* true while the upload and the clock go on.                                  *)
SessionTrue(s, o, t) ==
    /\ s.status \in {"created", "completed", "cancelled", "expired"}
    /\ s.status = "completed" => s.uploadedBytes = s.sizeBytes
    /\ s.status = "expired" => TTLElapsed(t, s)
    /\ s.uploadedBytes <= s.sizeBytes
    /\ s.uploadedBytes = s.sizeBytes => s.status # "created" /\ UploadFinished(o, s)
    /\ o.final \/ s.uploadedBytes <= o.held
    /\ s.expiresAt <= s.urlExpiresAt

SameSession(s, d) == s # NoDoc /\ d # NoDoc /\ Identity(s) = Identity(d)

(* A session no write has touched, built at most at time t. *)
FreshSession(s, t) ==
    /\ s.sizeBytes \in Sizes
    /\ \E started, signed \in 0..t :
         /\ started <= signed
         /\ s = NewSession(s.userID, s.idempotencyKey, s.sizeBytes, started, signed)

(* What a request r may rely on at each point where it waits, when the         *)
(* collection is c, the objects are g and the time is t.                       *)
RequestOK(r, c, g, t) ==
    /\ r.pc \in {"lookup", "sign"} => r.size \in Sizes \ {0} /\ r.startTime <= t
    /\ r.pc \notin {"idle", "lookup", "sign", "respond"} => r.uploadID \in UploadIDs
    /\ r.pc = "persist" => r.session # NoDoc /\ FreshSession(r.session, t)
    /\ r.pc \in {"checkTTL", "markExpired", "queryGCS", "markCompleted", "updateStatus",
                 "markCancelled"} =>
         /\ SameSession(r.session, c[r.uploadID])
         /\ SessionTrue(r.session, g[r.uploadID], t)
    /\ r.pc = "markExpired" => TTLElapsed(t, r.session)
    /\ r.pc \in {"queryGCS", "updateStatus"} => r.session.status # "expired"
    /\ r.pc = "markCompleted" => UploadFinished(g[r.uploadID], r.session)
    /\ r.pc = "updateStatus" =>
         /\ r.gcsBytes < r.session.sizeBytes /\ r.gcsBytes <= g[r.uploadID].held
         /\ r.session.status # "completed"
    /\ r.pc = "respond" /\ r.code \in {200, 201, 410} =>
         /\ r.uploadID \in UploadIDs /\ SameSession(r.session, c[r.uploadID])
         /\ SessionTrue(r.session, g[r.uploadID], t)
    /\ r.pc = "respond" /\ r.code = 200 => r.session.status # "expired"
    /\ r.pc = "respond" /\ r.code = 410 => TTLElapsed(t, r.session)

(* The answers are true of the collection because the copies are, and the      *)
(* collection is because every write is made from a copy that is.              *)
IInv ==
    /\ TypeOK
    /\ \A u \in UploadIDs : Stored(u) => SessionTrue(store[u], gcs[u], clock)
    /\ \A p \in Procs : RequestOK(req[p], store, gcs, clock)

(* The two overlaps that matter: two requests about the same session, and two  *)
(* creations with the same key between the lookup that missed and the write.    *)
NoSharing ==
    \A p, q \in Procs :
        p # q /\ ~At(p, "idle") /\ ~At(q, "idle") /\ req[p].uploadID \in UploadIDs
          => req[q].uploadID # req[p].uploadID

Creating(p) == req[p].pc \in {"sign", "persist"}

OneCreationPerKey ==
    \A p, q \in Procs :
        p # q /\ Creating(p) /\ Creating(q) /\ req[p].key # NoKey => req[q].key # req[p].key

(* Without the first, the copy a request r holds is the document in the         *)
(* collection c.                                                              *)
CopyIsCurrent(r, c) ==
    /\ r.pc \in {"checkTTL", "markExpired", "queryGCS", "markCompleted", "updateStatus",
                 "markCancelled"} => r.session = c[r.uploadID]
    /\ r.pc = "respond" /\ r.code \in {200, 201} => r.session = c[r.uploadID]

(* Without the second, the key r looked up in vain still names no session.      *)
KeyIsFree(r, c) ==
    /\ r.pc \in {"sign", "persist"} => ByIdempotencyKey(c, ContextUser(r), r.key) = {}
    /\ r.pc = "persist" => r.session.userID = ContextUser(r) /\ r.session.idempotencyKey = r.key

(* What the inductive invariant of requests that do not overlap adds to IInv.    *)
CopiesAreCurrent == \A p \in Procs : CopyIsCurrent(req[p], store)
KeysAreFree == OneSessionPerKey /\ \A p \in Procs : KeyIsFree(req[p], store)

-----------------------------------------------------------------------------
(* Liveness and refinement. *)

(* Refreshes, cancellations and completions that passed their TTL check in    *)
(* time may still overwrite "expired" after it was recorded.  They run out:   *)
(* a session that is polled ends as "expired" for good (unless its TTL lies    *)
(* beyond the bound of the clock).                                            *)
SessionsEndExpired ==
    \A u \in UploadIDs :
        Stored(u) /\ store[u].expiresAt < MaxClock
            ~> [](Stored(u) /\ store[u].status = "expired")

(* Progress, cancellations and completions made from older copies may hide a  *)
(* finished upload, time and again.  They run out too: a session that is       *)
(* refreshed while it lives is in the end not "created" any more, and never      *)
(* again: it is completed, or cancelled by its client.                         *)
FinishedUploadsAreRecognised ==
    \A u \in UploadIDs :
        Stored(u) /\ store[u].expiresAt >= MaxClock /\ UploadFinished(gcs[u], store[u])
            ~> [](Stored(u) /\ store[u].status # "created")

(* The safety half of the first, with no fairness and from any state: past the *)
(* TTL no request joins those that passed their check in time, and each time    *)
(* "expired" is overwritten one of them is used up.  So it is overwritten at    *)
(* most as often as there are requests in flight at that moment.               *)
PastTheCheck(u) ==
    {p \in Procs : req[p].uploadID = u
                     /\ req[p].pc \in {"queryGCS", "markCompleted", "updateStatus",
                                       "markCancelled"}}

LateWritersRunOut ==
    [][\A u \in UploadIDs : Stored(u) /\ TTLElapsed(clock, store[u]) =>
         /\ PastTheCheck(u)' \subseteq PastTheCheck(u)
         /\ store[u].status = "expired" /\ store'[u].status # "expired"
              => PastTheCheck(u)' # PastTheCheck(u)]_vars

(* The safety half of the second: once the upload is finished no refresh joins   *)
(* those that hold a short count, and each time the record falls back, to        *)
(* "created" or to a lower count, one of them is used up.                       *)
HoldingShortCount(u) ==
    {p \in Procs : req[p].uploadID = u /\ req[p].pc = "updateStatus"}

FallsBack(s, s2) ==
    \/ s.status # "created" /\ s2.status = "created"
    \/ s2.uploadedBytes < s.uploadedBytes

ShortCountsRunOut ==
    [][\A u \in UploadIDs : Stored(u) /\ UploadFinished(gcs[u], store[u]) =>
         /\ HoldingShortCount(u)' \subseteq HoldingShortCount(u)
         /\ FallsBack(store[u], store'[u])
              => HoldingShortCount(u)' # HoldingShortCount(u)]_vars

(* Every change the concurrent requests make to a document, on whatever old   *)
(* copies they act, is one the record's specification allows at that moment.  *)
Lifecycle == INSTANCE SessionLifecycle
ImplementsLifecycle == Lifecycle!Spec
================================================================================
