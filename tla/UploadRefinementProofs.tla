------------------------- MODULE UploadRefinementProofs -------------------------
(***************************************************************************)
(* UploadService implements SessionLifecycle: every step of a request either *)
(* leaves the durable record alone or changes it as one of the atomic        *)
(* actions of the record allows at that moment.                             *)
(***************************************************************************)
EXTENDS UploadServiceProofs

LifecycleStep == Lifecycle!Next \/ UNCHANGED Lifecycle!lvars

(* The helpers of the two specifications are the same operators.              *)
LEMMA SameHelpers ==
    ASSUME NEW s, NEW o, NEW t, NEW status, NEW n
    PROVE  /\ Lifecycle!WithStatus(s, status) = WithStatus(s, status)
           /\ Lifecycle!WithProgress(s, status, n) = WithProgress(s, status, n)
           /\ Lifecycle!TTLElapsed(t, s) <=> TTLElapsed(t, s)
           /\ Lifecycle!UploadFinished(o, s) <=> UploadFinished(o, s)
BY DEF Lifecycle!WithStatus, WithStatus, Lifecycle!WithProgress, WithProgress,
       Lifecycle!TTLElapsed, TTLElapsed, Lifecycle!UploadFinished, UploadFinished

(* Both start with no session, no upload and the clock at 0.                   *)
LEMMA InitRefines == Init => Lifecycle!Init
BY DEF Init, Lifecycle!Init, EmptyCollection, EmptyObject, Lifecycle!EmptyObject

(* A step that leaves the record alone. *)
LEMMA StutterRefines == UNCHANGED <<store, gcs, clock>> => LifecycleStep
BY DEF LifecycleStep, Lifecycle!lvars

LEMMA PersistRefines ==
    ASSUME IInv, NEW p \in Procs, Persist(p)
    PROVE  LifecycleStep
<1> DEFINE u == req[p].uploadID
           d == req[p].session
<1>1. /\ u \in UploadIDs /\ d \in UploadSession /\ FreshSession(d, clock)
      /\ UNCHANGED <<gcs, clock>>
  BY RequestsAreTyped DEF Persist, At, RequestOK, Request
<1>2. \/ store' = store
      \/ store[u] = NoDoc /\ store' = [store EXCEPT ![u] = d]
  BY DEF Persist, StoreWrite, Create
<1>3. CASE store' = store
  BY <1>1, <1>3, StutterRefines
<1>4. CASE store[u] = NoDoc /\ store' = [store EXCEPT ![u] = d]
  <2>1. PICK started \in 0..clock, signed \in 0..clock :
          /\ started <= signed
          /\ d = NewSession(d.userID, d.idempotencyKey, d.sizeBytes, started, signed)
    BY <1>1 DEF FreshSession
  <2>2. d = Lifecycle!NewSession(d.userID, d.idempotencyKey, d.sizeBytes, started, signed)
    BY <2>1 DEF NewSession, SignedURLExpiry, Lifecycle!NewSession, Lifecycle!SignedURLExpiry
  <2>3. /\ d.userID \in Users \cup {NoUser} /\ d.idempotencyKey \in IdempotencyKeys \cup {NoKey}
        /\ d.sizeBytes \in Sizes \ {0}
    BY <1>1 DEF FreshSession, UploadSession
  <2> HIDE DEF d, u
  <2>4. Lifecycle!Open(u)
    BY <1>1, <1>4, <2>1, <2>2, <2>3 DEF Lifecycle!Open, Lifecycle!Stored
  <2> QED
    BY <1>1, <2>4 DEF LifecycleStep, Lifecycle!Next
<1> QED
  BY <1>2, <1>3, <1>4

(* A write of a request that passed its TTL check, or its failure.             *)
LEMMA WriteRefines ==
    ASSUME IInv, UNCHANGED <<gcs, clock>>, NEW u \in UploadIDs, NEW after,
           NEW p, NEW ok, NEW failed, StoreWrite(p, after, ok, failed),
           store' = after => \/ Lifecycle!Complete(u) \/ Lifecycle!Progress(u)
                             \/ Lifecycle!Cancel(u) \/ Lifecycle!Expire(u)
    PROVE  LifecycleStep
<1>1. store' = after \/ store' = store
  BY DEF StoreWrite
<1> QED
  BY <1>1, StutterRefines DEF LifecycleStep, Lifecycle!Next

LEMMA ExpireRefines ==
    ASSUME IInv, NEW p \in Procs, ExpireSession(p)
    PROVE  LifecycleStep
<1> DEFINE u == req[p].uploadID
<1>1. /\ req[p].pc = "markExpired" /\ UNCHANGED <<gcs, clock>>
      /\ StoreWrite(p, MarkExpired(store, u), Answer(req[p], 410), Answer(req[p], 410))
  BY DEF ExpireSession, At
<1>2. /\ u \in UploadIDs /\ store[u] # NoDoc /\ Identity(req[p].session) = Identity(store[u])
      /\ TTLElapsed(clock, req[p].session)
  BY <1>1, WriterKnows DEF RequestOK
<1>3. TTLElapsed(clock, store[u])
  BY <1>2 DEF TTLElapsed, Identity
<1>4. store' = MarkExpired(store, u) => Lifecycle!Expire(u)
  BY <1>1, <1>2, <1>3, SameHelpers
     DEF MarkExpired, SetStatus, Lifecycle!Expire, Lifecycle!Stored
<1> QED
  BY <1>1, <1>2, <1>4, WriteRefines

LEMMA CompleteRefines ==
    ASSUME IInv, NEW p \in Procs, CompleteSession(p)
    PROVE  LifecycleStep
<1> DEFINE u == req[p].uploadID
           size == req[p].session.sizeBytes
           ok == Answer(WithCopy(req[p], "completed", size), 200)
<1>1. /\ req[p].pc = "markCompleted" /\ UNCHANGED <<gcs, clock>>
      /\ StoreWrite(p, MarkCompleted(store, u, size), ok, Answer(req[p], 500))
  BY DEF CompleteSession, At
<1>2. /\ u \in UploadIDs /\ store[u] # NoDoc /\ Identity(req[p].session) = Identity(store[u])
      /\ UploadFinished(gcs[u], req[p].session)
  BY <1>1, WriterKnows DEF RequestOK
<1>3. size = store[u].sizeBytes /\ UploadFinished(gcs[u], store[u])
  BY <1>2 DEF UploadFinished, Identity
<1>4. store' = MarkCompleted(store, u, size) => Lifecycle!Complete(u)
  <2>1. MarkCompleted(store, u, size)
          = [store EXCEPT ![u] = WithProgress(store[u], "completed", store[u].sizeBytes)]
    BY <1>2, <1>3 DEF MarkCompleted, Update
  <2>2. /\ Lifecycle!UploadFinished(gcs[u], store[u])
        /\ Lifecycle!WithProgress(store[u], "completed", store[u].sizeBytes)
             = WithProgress(store[u], "completed", store[u].sizeBytes)
    BY <1>3, SameHelpers
  <2> QED
    BY <1>1, <1>2, <2>1, <2>2 DEF Lifecycle!Complete, Lifecycle!Stored
<1> QED
  BY <1>1, <1>2, <1>4, WriteRefines

LEMMA RecordRefines ==
    ASSUME IInv, NEW p \in Procs, RecordProgress(p)
    PROVE  LifecycleStep
<1> DEFINE u == req[p].uploadID
           status == req[p].session.status
           n == req[p].gcsBytes
           ok == Answer(WithCopy(req[p], status, n), 200)
<1>1. /\ req[p].pc = "updateStatus" /\ UNCHANGED <<gcs, clock>>
      /\ StoreWrite(p, UpdateStatus(store, u, status, n), ok, Answer(req[p], 500))
  BY DEF RecordProgress, At
<1>2. /\ req[p] \in Request /\ u \in UploadIDs /\ store[u] # NoDoc
      /\ Identity(req[p].session) = Identity(store[u]) /\ store[u] \in UploadSession
      /\ SessionTrue(req[p].session, gcs[u], clock)
      /\ n < req[p].session.sizeBytes /\ n <= gcs[u].held
      /\ status \notin {"expired", "completed"}
  BY <1>1, WriterKnows DEF RequestOK
<1>3. n \in 0..(store[u].sizeBytes - 1)
  BY <1>2 DEF Identity, Request, UploadSession
<1>4. status \in {"created", "cancelled"}
  BY <1>2 DEF SessionTrue
<1> HIDE DEF n, status
<1>5. store' = UpdateStatus(store, u, status, n) => Lifecycle!Progress(u)
  <2>1. UpdateStatus(store, u, status, n)
          = [store EXCEPT ![u] = WithProgress(store[u], status, n)]
    BY <1>2 DEF UpdateStatus, Update
  <2>2. Lifecycle!WithProgress(store[u], status, n) = WithProgress(store[u], status, n)
    BY SameHelpers
  <2>3. n <= gcs[u].held
    BY <1>2 DEF n
  <2> QED
    BY <1>1, <1>2, <1>3, <1>4, <2>1, <2>2, <2>3 DEF Lifecycle!Progress, Lifecycle!Stored
<1> QED
  BY <1>1, <1>2, <1>5, WriteRefines

LEMMA CancelRefines ==
    ASSUME IInv, NEW p \in Procs, CancelSession(p)
    PROVE  LifecycleStep
<1> DEFINE u == req[p].uploadID
           ok == Answer(WithCopy(req[p], "cancelled", req[p].session.uploadedBytes), 200)
<1>1. /\ req[p].pc = "markCancelled" /\ UNCHANGED <<gcs, clock>>
      /\ StoreWrite(p, MarkCancelled(store, u), ok, Answer(req[p], 500))
  BY DEF CancelSession, At
<1>2. u \in UploadIDs /\ store[u] # NoDoc
  BY <1>1, WriterKnows
<1>3. store' = MarkCancelled(store, u) => Lifecycle!Cancel(u)
  BY <1>1, <1>2, SameHelpers
     DEF MarkCancelled, SetStatus, Lifecycle!Cancel, Lifecycle!Stored
<1> QED
  BY <1>1, <1>2, <1>3, WriteRefines

(* The uploads and the clock are the same in both specifications.              *)
LEMMA EnvironmentRefines ==
    ASSUME (\E u \in UploadIDs : ClientUpload(u) \/ ClientFinalize(u)) \/ Tick
    PROVE  LifecycleStep
<1>1. ASSUME NEW u \in UploadIDs, ClientUpload(u) \/ ClientFinalize(u)
      PROVE  Lifecycle!Upload(u)
  BY <1>1 DEF ClientUpload, ClientFinalize, Lifecycle!Upload, URLUsable,
              Lifecycle!URLUsable, Lifecycle!Stored
<1>2. Tick => Lifecycle!Tick
  BY DEF Tick, Lifecycle!Tick
<1> QED
  BY <1>1, <1>2 DEF LifecycleStep, Lifecycle!Next

LEMMA NextRefines == ASSUME IInv, [Next]_vars PROVE LifecycleStep
<1>1. ASSUME NEW p \in Procs, Accept(p) \/ Crash(p) PROVE LifecycleStep
  BY <1>1, StutterRefines DEF Accept, CreateStart, SessionStart, RejectBody, Crash
<1>2. ASSUME NEW p \in Procs, Serve(p) PROVE LifecycleStep
  <2>1. CASE LookupIdempotencyKey(p) \/ SignResumableUploadURL(p) \/ LoadSession(p)
    BY <2>1, StutterRefines DEF LookupIdempotencyKey, SignResumableUploadURL, LoadSession
  <2>2. CASE CheckTTL(p) \/ QueryGCS(p) \/ Respond(p)
    BY <2>2, StutterRefines DEF CheckTTL, QueryGCS, Respond
  <2> QED
    BY <1>2, <2>1, <2>2, PersistRefines, ExpireRefines, CompleteRefines, RecordRefines,
       CancelRefines DEF Serve
<1>3. CASE (\E u \in UploadIDs : ClientUpload(u) \/ ClientFinalize(u)) \/ Tick
  BY <1>3, EnvironmentRefines
<1>4. CASE UNCHANGED vars
  BY <1>4, StutterRefines DEF vars
<1> QED
  BY <1>1, <1>2, <1>3, <1>4 DEF Next

(* The program implements the record's specification, for any number of         *)
(* concurrent requests and sessions: stale copies, failed writes and crashes    *)
(* of the handlers never make a change the record does not allow.               *)
THEOREM ServiceImplementsLifecycle == Spec => ImplementsLifecycle
<1>1. IInv /\ [Next]_vars => [Lifecycle!Next]_(Lifecycle!lvars)
  BY NextRefines DEF LifecycleStep
<1> QED
  BY <1>1, InvariantHolds, InitRefines, PTL DEF Spec, ImplementsLifecycle, Lifecycle!Spec

-----------------------------------------------------------------------------
(* SessionLifecycle is strong enough: what the service promises about the        *)
(* record follows from the record's specification alone, whoever implements it.  *)

RecordInv ==
    /\ store \in Collections /\ gcs \in Objects /\ clock \in Nat
    /\ \A u \in UploadIDs : Stored(u) => SessionTrue(store[u], gcs[u], clock)

(* A step of the record that keeps its invariant and loses nothing.            *)
GoodRecordStep == RecordInv' /\ Grows(store, gcs, clock, store', gcs', clock')

LEMMA InitEstablishesRecordInv == Lifecycle!Init => RecordInv
<1> SUFFICES ASSUME Lifecycle!Init PROVE RecordInv
  OBVIOUS
<1>1. /\ store = [u \in UploadIDs |-> NoDoc] /\ clock = 0
      /\ gcs = [u \in UploadIDs |-> Lifecycle!EmptyObject]
  BY DEF Lifecycle!Init
<1>2. Lifecycle!EmptyObject \in GCSObject
  BY DEF Lifecycle!EmptyObject, GCSObject
<1> QED
  BY <1>1, <1>2 DEF RecordInv, Collections, Objects, Stored

(* What is known of a session that is there. *)
LEMMA RecordKnows ==
    ASSUME RecordInv, NEW u \in UploadIDs
    PROVE  /\ gcs[u] \in GCSObject /\ clock \in Nat
           /\ Lifecycle!Stored(u) =>
                /\ store[u] # NoDoc /\ store[u] \in UploadSession
                /\ SessionTrue(store[u], gcs[u], clock)
BY DEF RecordInv, Collections, Objects, Lifecycle!Stored, Stored

(* One document is added or patched by one that is true. *)
LEMMA RecordWrite ==
    ASSUME RecordInv, UNCHANGED <<gcs, clock>>, NEW u \in UploadIDs, NEW d \in UploadSession,
           store' = [store EXCEPT ![u] = d], SessionTrue(d, gcs[u], clock),
           store[u] # NoDoc => Identity(d) = Identity(store[u])
    PROVE  GoodRecordStep
<1>1. store' \in Collections /\ (\A v \in UploadIDs : store'[v] = IF v = u THEN d ELSE store[v])
  BY DEF RecordInv, Collections
<1>2. RecordInv'
  BY <1>1 DEF RecordInv, Stored
<1>3. Grows(store, gcs, clock, store', gcs', clock')
  <2>1. clock <= clock' /\ \A v \in UploadIDs : gcs[v].held <= gcs'[v].held
    BY DEF RecordInv, Objects, GCSObject
  <2> QED
    BY <1>1, <2>1, NoDocAssumption DEF Grows
<1> QED
  BY <1>2, <1>3 DEF GoodRecordStep

LEMMA OpenIsGood ==
    ASSUME RecordInv, NEW u \in UploadIDs, Lifecycle!Open(u)
    PROVE  GoodRecordStep
<1>1. PICK user \in Users \cup {NoUser}, key \in IdempotencyKeys \cup {NoKey},
           size \in Sizes \ {0}, started \in 0..clock, signed \in 0..clock :
        /\ started <= signed
        /\ store' = [store EXCEPT
             ![u] = Lifecycle!NewSession(user, key, size, started, signed)]
  BY DEF Lifecycle!Open
<1> DEFINE d == Lifecycle!NewSession(user, key, size, started, signed)
<1>2. /\ store[u] = NoDoc /\ UNCHANGED <<gcs, clock>> /\ clock \in Nat
      /\ gcs[u] \in GCSObject
  BY RecordKnows DEF Lifecycle!Open, Lifecycle!Stored
<1>3. /\ d.status = "created" /\ d.uploadedBytes = 0 /\ d.sizeBytes = size
      /\ d.expiresAt = started + SessionTTL /\ d.urlExpiresAt = signed + SignedURLTTL
  BY DEF Lifecycle!NewSession, Lifecycle!SignedURLExpiry
<1>4. /\ size \in Nat \ {0} /\ started \in Nat /\ signed \in Nat
      /\ SessionTTL \in Nat /\ SignedURLTTL \in Nat /\ SessionTTL <= SignedURLTTL
  BY <1>2, BoundsAssumption, TTLAssumption
<1>5. d \in UploadSession
  BY <1>4 DEF Lifecycle!NewSession, Lifecycle!SignedURLExpiry, UploadSession, UploadStatus
<1> HIDE DEF d
<1>6. SessionTrue(d, gcs[u], clock)
  BY <1>1, <1>2, <1>3, <1>4 DEF SessionTrue, GCSObject
<1> QED
  BY <1>1, <1>2, <1>5, <1>6, RecordWrite DEF d

(* The patches of a session: its status, or its status and its count.          *)
LEMMA PatchIsGood ==
    ASSUME RecordInv, UNCHANGED <<gcs, clock>>, NEW u \in UploadIDs, Lifecycle!Stored(u),
           NEW status \in UploadStatus, NEW n \in Nat,
           store' = [store EXCEPT ![u] = WithProgress(store[u], status, n)],
           LET d == WithProgress(store[u], status, n) IN SessionTrue(d, gcs[u], clock)
    PROVE  GoodRecordStep
<1> DEFINE d == WithProgress(store[u], status, n)
<1>1. store[u] \in UploadSession
  BY RecordKnows
<1>2. d \in UploadSession
  BY <1>1, UpdatesAreTyped
<1>3. Identity(d) = Identity(store[u])
  BY <1>1 DEF WithProgress, Identity, UploadSession
<1> HIDE DEF d
<1> QED
  BY <1>2, <1>3, RecordWrite DEF d

(* Each patch the record allows is true of the upload at that moment.           *)
LEMMA PatchesAreGood ==
    ASSUME RecordInv, NEW u \in UploadIDs,
           Lifecycle!Progress(u) \/ Lifecycle!Complete(u) \/ Lifecycle!Cancel(u)
             \/ Lifecycle!Expire(u)
    PROVE  GoodRecordStep
<1> DEFINE s == store[u]
           o == gcs[u]
<1>1. /\ Lifecycle!Stored(u) /\ UNCHANGED <<gcs, clock>>
      /\ s \in UploadSession /\ SessionTrue(s, o, clock) /\ o \in GCSObject
      /\ clock \in Nat
  BY RecordKnows DEF Lifecycle!Progress, Lifecycle!Complete, Lifecycle!Cancel, Lifecycle!Expire
<1>2. /\ s.sizeBytes \in Nat \ {0} /\ s.uploadedBytes \in Nat /\ s.expiresAt \in Nat
      /\ o.held \in Nat
  BY <1>1 DEF UploadSession, GCSObject
<1>3. ASSUME NEW status \in UploadStatus, NEW n \in Nat
      PROVE  LET d == WithProgress(s, status, n)
             IN  /\ d.status = status /\ d.uploadedBytes = n /\ d.sizeBytes = s.sizeBytes
                 /\ d.expiresAt = s.expiresAt /\ d.urlExpiresAt = s.urlExpiresAt
  BY <1>1 DEF WithProgress, UploadSession
<1>4. CASE Lifecycle!Progress(u)
  <2>1. PICK status \in {"created", "cancelled"}, n \in 0..(s.sizeBytes - 1) :
          /\ n <= o.held /\ store' = [store EXCEPT ![u] = WithProgress(s, status, n)]
    BY <1>4, SameHelpers DEF Lifecycle!Progress
  <2>2. status \in UploadStatus /\ n \in Nat /\ n < s.sizeBytes
    BY <1>2, <2>1 DEF UploadStatus
  <2> DEFINE d == WithProgress(s, status, n)
  <2>3. /\ d.status = status /\ d.uploadedBytes = n /\ d.sizeBytes = s.sizeBytes
        /\ d.expiresAt = s.expiresAt /\ d.urlExpiresAt = s.urlExpiresAt
    BY <1>3, <2>2
  <2> HIDE DEF d
  <2>4. SessionTrue(d, o, clock)
    BY <1>1, <1>2, <2>1, <2>2, <2>3 DEF SessionTrue
  <2>5. store' = [store EXCEPT ![u] = WithProgress(s, status, n)]
    BY <2>1
  <2>6. SessionTrue(WithProgress(s, status, n), o, clock)
    BY <2>4 DEF d
  <2> HIDE DEF s, o
  <2> QED
    BY <1>1, <2>2, <2>5, <2>6, PatchIsGood DEF s, o
<1>5. CASE Lifecycle!Complete(u)
  <2> DEFINE d == WithProgress(s, "completed", s.sizeBytes)
  <2>1. UploadFinished(o, s) /\ store' = [store EXCEPT ![u] = d]
    BY <1>5, SameHelpers DEF Lifecycle!Complete
  <2>2. "completed" \in UploadStatus
    BY DEF UploadStatus
  <2>3. /\ d.status = "completed" /\ d.uploadedBytes = s.sizeBytes /\ d.sizeBytes = s.sizeBytes
        /\ d.expiresAt = s.expiresAt /\ d.urlExpiresAt = s.urlExpiresAt
    BY <1>2, <1>3, <2>2
  <2> HIDE DEF d
  <2>4. SessionTrue(d, o, clock)
    BY <1>1, <1>2, <2>1, <2>3 DEF SessionTrue, UploadFinished
  <2> QED
    BY <1>1, <1>2, <2>1, <2>2, <2>4, PatchIsGood DEF d
<1>6. ASSUME NEW status \in {"cancelled", "expired"},
             status = "expired" => TTLElapsed(clock, s),
             store' = [store EXCEPT ![u] = WithStatus(s, status)]
      PROVE  GoodRecordStep
  <2> DEFINE d == WithProgress(s, status, s.uploadedBytes)
  <2>1. WithStatus(s, status) = d
    BY <1>1 DEF WithStatus, WithProgress, UploadSession
  <2>2. status \in UploadStatus
    BY <1>6 DEF UploadStatus
  <2>3. /\ d.status = status /\ d.uploadedBytes = s.uploadedBytes /\ d.sizeBytes = s.sizeBytes
        /\ d.expiresAt = s.expiresAt /\ d.urlExpiresAt = s.urlExpiresAt
    BY <1>2, <1>3, <2>2
  <2> HIDE DEF d
  <2>4. SessionTrue(d, o, clock)
    BY <1>1, <1>6, <2>3 DEF SessionTrue, UploadFinished, TTLElapsed
  <2> QED
    BY <1>1, <1>2, <1>6, <2>1, <2>2, <2>4, PatchIsGood DEF d
<1>7. CASE Lifecycle!Cancel(u)
  BY <1>6, <1>7, SameHelpers DEF Lifecycle!Cancel
<1>8. CASE Lifecycle!Expire(u)
  BY <1>6, <1>8, SameHelpers DEF Lifecycle!Expire
<1> QED
  BY <1>4, <1>5, <1>7, <1>8

(* An object goes on from itself, and from itself once it is final. *)
LEMMA ObjectsGoOn ==
    ASSUME NEW o \in GCSObject
    PROVE  LET f == [o EXCEPT !.final = TRUE]
           IN  /\ o.held <= o.held
               /\ f \in GCSObject /\ o.held <= f.held /\ f.final
<1> DEFINE f == [o EXCEPT !.final = TRUE]
<1>1. o.held \in Nat /\ f.held = o.held /\ f.final = TRUE /\ f \in GCSObject
  BY DEF GCSObject
<1> HIDE DEF f
<1> QED
  BY <1>1 DEF f

(* The uploads and the clock only go on. *)
LEMMA GoingOnIsGood ==
    ASSUME RecordInv, (\E u \in UploadIDs : Lifecycle!Upload(u)) \/ Lifecycle!Tick
    PROVE  GoodRecordStep
<1>1. /\ UNCHANGED store /\ gcs' \in Objects /\ clock' \in Nat /\ clock <= clock'
      /\ \A u \in UploadIDs : gcs[u].held <= gcs'[u].held /\ (gcs[u].final => gcs'[u].final)
  <2>1. gcs \in Objects /\ clock \in Nat /\ (\A u \in UploadIDs : gcs[u] \in GCSObject)
    BY DEF RecordInv, Objects
  <2>2. CASE Lifecycle!Tick
    <3>1. \A u \in UploadIDs : gcs[u].held <= gcs[u].held
      BY <2>1, ObjectsGoOn
    <3> QED
      BY <2>1, <2>2, <3>1 DEF Lifecycle!Tick
  <2>3. ASSUME NEW u \in UploadIDs, Lifecycle!Upload(u)
        PROVE  /\ UNCHANGED <<store, clock>> /\ gcs' \in Objects
               /\ \A v \in UploadIDs :
                    gcs[v].held <= gcs'[v].held /\ (gcs[v].final => gcs'[v].final)
    <3>1. PICK o \in GCSObject : /\ gcs' = [gcs EXCEPT ![u] = o]
                                 /\ gcs[u].held <= o.held /\ (gcs[u].final => o.final)
      <4>1. CASE gcs' = [gcs EXCEPT ![u].final = TRUE]
        <5> DEFINE o == [gcs[u] EXCEPT !.final = TRUE]
        <5>1. o \in GCSObject /\ gcs[u].held <= o.held /\ (gcs[u].final => o.final)
          BY <2>1, ObjectsGoOn
        <5>2. gcs' = [gcs EXCEPT ![u] = o]
          BY <4>1
        <5> QED
          BY <5>1, <5>2
      <4>2. CASE \E n \in (gcs[u].held + 1)..MaxHeld : gcs' = [gcs EXCEPT ![u].held = n]
        <5>1. PICK n \in (gcs[u].held + 1)..MaxHeld : gcs' = [gcs EXCEPT ![u].held = n]
          BY <4>2
        <5> DEFINE o == [gcs[u] EXCEPT !.held = n]
        <5>2. o \in GCSObject /\ gcs[u].held <= o.held /\ (gcs[u].final => o.final)
          BY <2>1, BoundsAssumption DEF GCSObject
        <5>3. gcs' = [gcs EXCEPT ![u] = o]
          BY <5>1
        <5> QED
          BY <5>2, <5>3
      <4> QED
        BY <2>3, <4>1, <4>2 DEF Lifecycle!Upload
    <3>2. UNCHANGED <<store, clock>>
      BY <2>3 DEF Lifecycle!Upload
    <3> QED
      BY <2>1, <3>1, <3>2, ObjectGoesOn
  <2> QED
    BY <2>1, <2>2, <2>3
<1>2. Grows(store, gcs, clock, store', gcs', clock')
  BY <1>1 DEF Grows
<1>3. ASSUME NEW u \in UploadIDs, store'[u] # NoDoc
      PROVE  SessionTrue(store'[u], gcs'[u], clock')
  BY <1>1, <1>3, SessionStaysTrue DEF RecordInv, Collections, Objects, Stored
<1>4. RecordInv'
  BY <1>1, <1>3 DEF RecordInv, Stored
<1> QED
  BY <1>2, <1>4 DEF GoodRecordStep

LEMMA RecordStepIsGood ==
    ASSUME RecordInv, [Lifecycle!Next]_(Lifecycle!lvars)
    PROVE  GoodRecordStep
<1>1. CASE UNCHANGED <<store, gcs, clock>>
  <2>1. RecordInv'
    BY <1>1 DEF RecordInv, Stored
  <2>2. \A u \in UploadIDs : gcs[u].held <= gcs[u].held
    BY ObjectsGoOn, RecordKnows
  <2>3. Grows(store, gcs, clock, store', gcs', clock')
    BY <1>1, <2>2 DEF RecordInv, Grows
  <2> QED
    BY <2>1, <2>3 DEF GoodRecordStep
<1> QED
  BY <1>1, OpenIsGood, PatchesAreGood, GoingOnIsGood DEF Lifecycle!Next, Lifecycle!lvars

(* Every behaviour the record's specification allows keeps the five invariants   *)
(* of the record and never drops or renames a session: the abstract actions,     *)
(* each of which looks at the upload as it is, are all those promises need.      *)
THEOREM LifecycleKeepsItsPromises ==
    ImplementsLifecycle =>
        /\ []CompletedMeansUploaded /\ []RecordedProgressIsReal /\ []FullSizeIsNotCreated
        /\ []ExpiredMeansTTLElapsed /\ []LiveSessionHasUsableURL
        /\ SessionsAreImmutable
<1> DEFINE Kept == \A u \in UploadIDs : Stored(u) =>
                     store[u]' # NoDoc /\ Identity(store[u]') = Identity(store[u])
<1>1. RecordInv /\ [Lifecycle!Next]_(Lifecycle!lvars) => RecordInv' /\ [Kept]_vars
  BY RecordStepIsGood DEF GoodRecordStep, Grows, Stored
<1>2. RecordInv => /\ CompletedMeansUploaded /\ RecordedProgressIsReal
                   /\ FullSizeIsNotCreated /\ ExpiredMeansTTLElapsed
  BY DEF RecordInv, SessionTrue, CompletedMeansUploaded, RecordedProgressIsReal,
         FullSizeIsNotCreated, ExpiredMeansTTLElapsed
<1>3. RecordInv => LiveSessionHasUsableURL
  <2> SUFFICES ASSUME RecordInv, NEW u \in UploadIDs, Stored(u), ~TTLElapsed(clock, store[u])
               PROVE  URLUsable(u)
    BY DEF LiveSessionHasUsableURL
  <2>1. /\ store[u] \in UploadSession /\ clock \in Nat
        /\ store[u].expiresAt <= store[u].urlExpiresAt
    BY DEF RecordInv, Collections, SessionTrue, Stored
  <2> QED
    BY <2>1 DEF URLUsable, Stored, TTLElapsed, UploadSession
<1> QED
  BY <1>1, <1>2, <1>3, InitEstablishesRecordInv, PTL
     DEF ImplementsLifecycle, Lifecycle!Spec, SessionsAreImmutable
================================================================================
