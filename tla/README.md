# A verification project for prj-apex-upload-platform

The repository is a Go service that hands out signed Google Cloud Storage (GCS)
URLs so that clients upload files directly to a bucket, and keeps one Firestore
document per upload session. These are TLA+ modules that model it, TLC
configurations that check them, and TLAPS proofs for any number of requests,
sessions, users, keys and sizes.

There are two machines. `UploadService` is what concurrent requests do to the
durable sessions, from the handlers' binding down to Firestore and GCS. `Server` is
the process around it: the life `main` gives it, and the middleware chain each of
its requests passes. They meet at one point: where `Server` waits in stage
`service`, a request of `UploadService` is being served.

## 1. The system

| Part | Code | State it keeps | Operations |
|---|---|---|---|
| Upload handlers | `api/handler/upload_handler.go` | none | bind and validate a request, call the service, map its error to 201/200/400/404/410/500 |
| Upload service | `internal/service/upload_service.go` | none between requests; a copy of the session within one | create, resume, get, query (with or without refresh), cancel |
| Firestore session store | `internal/service/firestore_upload_session_store.go` | the collection `upload_sessions` | Create, GetByID, GetByIdempotencyKey, UpdateStatus, MarkCompleted, MarkCancelled, MarkExpired, UpdateGCSUploadURL (no caller) |
| Session model | `internal/model/upload_session.go` | the document's fields and six statuses | - |
| GCS signing client | `internal/storage/client.go` | none | sign a URL that expires 15 minutes later |
| GCS objects | external | bytes held, finalized or not | clients upload and finalize; the service asks for the range held |
| Auth middleware, tokens, key | `api/middleware/auth.go`, `internal/service/token_service.go`, `key_service.go`, `internal/secrets` | the public key, read once | answer 401, or put the user id in the request context |
| Other middleware and routes | `api/middleware`, `api/routes.go`, `pkg/trace` | metrics | request id, panic recovery, error formatting, metrics |
| Startup and shutdown | `cmd/api/main.go`, `internal/config` | the clients, the key, the root context, the tracer and its queue of spans | acquire in order, serve, release by `defer` |
| API documentation | `docs/docs.go` | none (generated text) | - |

**How they interact.** A request passes the middleware and reaches a handler,
which calls the service. The service makes one to four calls out of the process
(Firestore, the signer, GCS), each with the request's context. Instances run on
Cloud Run and share nothing but Firestore and GCS. There is no lock, no
transaction and no precondition on an update: all coordination is what single
document operations give.

**What is hard.**

- Two requests interleave on one document. A handler acts on a copy of the
  session that was read before a call to GCS of up to ten seconds, and writes
  part of that copy back.
- A call fails after it took effect; an instance dies between two calls; the
  client retries.
- Three readings of the clock decide the life of a session: the start of the creation,
  the signing of the URL, and each later TTL check.
- The client uploads to GCS on its own, before, between and after all this.
- What keeps a rejected or panicking request from the handlers behind is a single
  index that gin's loops share: a middleware that answers and forgets to move it
  lets the chain go on.
- Every write of a response may fail, and `ErrorHandler` then answers again, after
  the metrics were counted.
- Startup can stop at any of ten points, with other things open each time; `main`
  ends by a fatal log entry, a signal, a panic or a return, and only the last two
  run its deferred calls, in reverse order, beside the requests still in flight.

`PROJECT.json` lists each of these as a hazard at the line where it bites, with
the properties that would catch it going wrong, or why none does: what a request
finds of its clients once `router.Run` has returned is the one without.

**What makes each part correct.** The store: what identifies a session never
changes, and no update is lost in part. The service: the record is a true account
of the upload whatever old copies the handlers act on; answers agree with the
record; a 201 stands for a durable session with a URL that works; a key names one
session; sessions end as expired, and finished uploads end as recognised. The
middleware: the service acts only for a user whose token proves it, and every
request is answered once, also when something panics or a write fails, and counted
as it was answered (not at all if it panicked).
The process: it serves only when everything a request needs is there, and what was
acquired is released, in an order in which the spans can still be flushed.

## 2. The modules

| Module | What it is |
|---|---|
| `UploadModel` | session documents, GCS objects, time; the constants and their assumptions |
| `SessionStore` | one operator per Firestore method, from the collection to the collection |
| `UploadService` | the state machine of concurrent requests, clients and clock; properties; the inductive invariant |
| `SessionLifecycle` | the abstract specification: the durable record of uploads with one atomic action per promise |
| `UploadServiceClaims` | what comments of the code say, taken at their word, and the code does not keep |
| `MCUploadService` | shared values for the TLC configurations |
| `UploadServiceProofs` | the invariant and the safety theorems, proved |
| `UploadConvergenceProofs` | the safety half of convergence, proved: what may still overwrite an expiry or a completion runs out, and what convergence ends in stays |
| `UploadRefinementProofs` | `UploadService` implements `SessionLifecycle`, and that suffices for the record's invariants, proved |
| `UploadSequentialProofs` | what requests that do not overlap may rely on, proved |
| `RequestPipeline` | a request in gin's chain: authentication, the handlers, panics, writing the response, the way out; its invariant |
| `Lifespan` | the life of the process: startup, deferred calls, the tracer, the four ends; its invariant |
| `Server` | the composition: connections are accepted while `main` serves, and die with the process |
| `ServerContract` | the abstract specification: an exchange is taken, acts at most once for a proven user, is answered at most once |
| `ServerClaims` | what comments say of the process and its answers, and the code does not keep |
| `MCServer` | the requests clients send in the TLC configurations |
| `LifespanProofs`, `PipelineProofs` | the lemmas about each part |
| `ServerProofs` | the invariant of the server, its safety theorems and the bound on a request's steps, proved |
| `ServerRefinementProofs` | `Server` implements `ServerContract`, and that suffices for what a status tells its client, proved |

### How `UploadService` follows the code

`store` is the collection, `gcs` the objects, `clock` the time and `req` the
request each slot of `Procs` is serving. `req[p].pc` names the call the handler's
goroutine is waiting in (`idle` is a free slot), `req[p].session` is the local
variable `session`. One action runs from one call to the next:

| Action | Code |
|---|---|
| `CreateStart`, `RejectBody` | the handler's binding and validation, `startTime := time.Now()`, the checks before any I/O |
| `LookupIdempotencyKey` | `GetByIdempotencyKey`: error, a hit (answered 201 at once), or no hit |
| `SignResumableUploadURL` | `generateUploadID`, the signing call, the session built in memory |
| `Persist` | `store.Create` and the answer |
| `SessionStart`, `LoadSession` | the four operations on an existing session up to `GetByID` |
| `CheckTTL` | `time.Now().UTC().After(session.ExpiresAt)` and the choice of what comes next |
| `ExpireSession` | `_ = s.store.MarkExpired(...)`, then 410 |
| `QueryGCS` | `queryUploadedBytes` and the completion test; `StatusReply` is GCS's answer (external), `ParseUploadedBytes` takes its range apart, `UploadedBytes` the whole of it |
| `CompleteSession`, `RecordProgress`, `CancelSession` | the write, the assignment to the copy, the answer |
| `Respond`, `Crash` | the response is sent (or lost); the request dies with its instance |
| `ClientUpload`, `ClientFinalize`, `Tick` | the environment |

Abstractions and assumptions:

- **Firestore.** An operation on one document is atomic and reads see earlier
  writes. A write that returns an error may have been applied or not
  (`StoreWrite`); a failed `Doc.Create` on an existing document changes nothing.
  A write in flight when an instance dies is the case "error, but applied"
  followed by a crash. This assumes that a write whose call failed or whose instance
  died has landed by then, or never will: Firestore does not promise that a cancelled
  call cannot be applied after the client's next read. What the properties say of
  failed writes and crashes is said under this assumption, in particular where the
  end of a request ends its effects (`LateWritersRunOut`, `ShortCountsRunOut`, the
  three properties of `sequential` and the theorems about them). Decoding errors
  are load errors.
- **Time.** One clock for all instances, moved by `Tick` between any two steps.
  Skew between instances is not modelled, nor that the V4 signer rounds a URL's life
  to whole seconds: a URL may die within a second of its session.
- **GCS.** As `queryUploadedBytes` and its comments take it: 308 with the index of
  the last byte held while an upload is open, and no range when there is none; 200
  once it is final; anything else an error. An error is always possible, and stands
  for a range that does not parse too. Ranges GCS has no reason to send (reversed,
  negative, or ending at the largest 64-bit integer, where `end + 1` wraps) are not
  sent by the model either. Whether a URL signed for a plain `PUT` really answers
  status queries this way is not something the repository shows. Held bytes never
  shrink and a final object stays final.
- **Data.** File names, checksums, metadata, labels, the bucket, `createdAt` and
  `updatedAt` are carried unread and left out. The tenant id is never set by any
  middleware, so it is "" throughout and left out. `gcsUploadUrl` is abstracted to
  the moment it expires, and is never empty after a successful signing.
- **The user.** `ContextUser` is `NoUser`: the service looks the subject up under
  a plain string, the middleware stores it under the typed key.
- **`store == nil`** cannot happen in `main`; the check is left out.

### How `Server` follows the code

`Server` EXTENDS `RequestPipeline` (variable `req`) and `Lifespan` (`phase`,
`deferred`, `open`, `key`, `ctx`, `tracing`, `spans`).

**A request** has the index gin keeps for it, the `frames` of the middlewares whose
call of `c.Next()` has not returned, and a `stage`: `enter` (the handler at the
index is about to run), `service`, `after` (the innermost `Next()` has returned),
`unwind` (a panic is going up), `done`. `CallNext`, `Return`, `Leave` and `Abort` are
gin's: a handler that returns lets the innermost loop go on at the next index, and
aborting sets the index past every chain.

| Action | Code |
|---|---|
| `Receive` | gin's engine takes a request; `GlobalChain` and `Chain` are the `Use` calls of `main` and the groups of `SetupRoutes` |
| `EnterMiddleware`, `RequestContext` | the way in; the id is taken over or generated |
| `Authenticate` | `abortUnauthorized` on each path, `ValidateToken`'s classification, the user into the context |
| `UploadHandler`, `ServiceReturns` | binding and validation; the service's result or error as a code |
| `PublicHandler` | Swagger, the OpenAPI document, `/metrics` |
| `AfterNext` | the code behind `c.Next()`: the counter of `PrometheusMetrics`, the errors `ErrorHandler` reports |
| `Unwind` | the deferred functions a panic meets: `ErrorHandler` and `gin.Recovery` recover |
| `Finish`, `Release` | the engine's 404 for an unmatched route; the connection is free |

**The process** goes through `phase`, one value per step of `main` and `InitTracer`
that may fail.

| Action | Code |
|---|---|
| `LoadConfig`, `NewLogger`, `InitTracerStep`, `NewTracerProvider`, `CheckProject` | the start of `main` and `InitTracer`, with what each defers |
| `NewGCSClient`, `NewFirestoreClient`, `NewSecretsClient` | a client is opened and its `Close` deferred |
| `LoadKey`, `GetSecretPanics` | the public key from Secret Manager; the checksum read through a nil pointer |
| `Fatal`, `Signal`, `RunFails`, `Exit` | the ends: `os.Exit`, no signal handler, `router.Run` returns, `main` is over |
| `RunDeferred` | the deferred calls, the last first; `ShutdownTracer` for the tracer's |
| `SpanEnds`, `ExportBatch` | a request's span enters the batcher's queue or is dropped; a batch leaves it |
| `Restart` | the platform starts the process again |

Abstractions and assumptions:

- gin, net/http and otelgin are external: what is modelled of them is what the
  repository's use relies on (the index and frames, `c.JSON` adding a failed render
  to `c.Errors` and aborting, the first status standing, a span ending on return
  and panic alike).
- Any write through `c.JSON` may fail; once one failed, later ones do. `c.Errors` is
  filled by nothing else: no handler of the repository calls `c.Error`.
- A panic may come from `Authenticate`, from the service and from the public
  handlers, from the last only before they have written: one of the library's
  handlers that panicked behind its own output would be answered a second time. The
  public handlers answer one of `PublicCodes`. `ServiceReturns` answers any of the
  handlers' codes; which one, and what
  the service did, is the subject of `UploadService`.
- A token is what the parser and `ValidateToken` tell apart, and its subject. A body is one that binds and passes validation, or one that does not.
- The tracer has one queue of spans, and a full queue drops. Requests still in
  flight when `main` returns go on until the process is gone: nothing waits for
  them.

## 3. The runs

Bounds of `UploadService`: one or two slots, one or two upload ids, sizes of at most two bytes, one
user, one key, a clock of at most two ticks, a TTL of one tick. Two slots are what
it takes for a copy to be stale; one id suffices where sessions do not touch each
other (no operation on an existing session reads another document), and two are
used where they do, on creation. Size 2 separates nothing, part and all. With a
TTL of 1 and a clock of 2 a session is live, at its boundary and past it.

Bounds of `Server`: two connections, since requests share nothing but the process
and the queue of spans; one user; a queue of one span, which two requests can fill;
ten requests (`MixedArrivals`), one for each way through the chains and each defect
of a token. Restarts are not bounded, the state space is finite without.

The theorems below need none of these bounds.

| Run | Shows | Distinct states |
|---|---|---|
| `concurrent` | type correctness, `CompletedMeansUploaded`, `RecordedProgressIsReal`, `FullSizeIsNotCreated`, `ExpiredMeansTTLElapsed`, `AnswersAreTrue`, the inductive invariant `IInv`, the action properties `LateWritersRunOut` and `ShortCountsRunOut`, and the refinement `ImplementsLifecycle`, for two requests on one session | 2.5 million |
| `creations` | `LiveSessionHasUsableURL`, `CreatedIsDurable`, `SessionsAreImmutable`, for two creations at a time; ids may collide, which UUIDs do not: an over-approximation under which `SessionsAreImmutable` rests on `Doc.Create` alone | 1.3 million |
| `sequential` | `AnswerAgreesWithStore`, `OneSessionPerKey`, `TerminalIsNeverReopened`: one request at a time, all six operations, with failures and crashes | 4.1 million |
| `convergence` | `SessionsEndExpired` and `FinishedUploadsAreRecognised`, under fairness, with stale copies of refreshes and cancellations in flight | 143 thousand |
| `server` | type correctness, `ServiceActsForProvenUser`, `AnsweredOnce`, `CountedAsSent`, `PanicsAreRecovered`, `StatusTellsWhatWasDone`, `ServingIsReady`, `OpenIsDeferred`, `OrderlyEnd`, `FlushIsInTime`, `RequestsRunOut`, the inductive invariant `ServerInv` and the refinement `KeepsContract`, for two requests in a process that starts, serves, fails and restarts | 1.3 million |

The three properties of `sequential` do not hold of overlapping
requests, and the first two are not meant to; they are properties of a client that waits for an
answer (or a failure) before it sends the next request. Section 4 says, and proves,
which overlaps they fail on. What an answer to overlapping requests is still worth
is `AnswersAreTrue`, in the run `concurrent`: it may be old, but nothing it says of
the upload is false.

`convergence` uses a TTL of 0 and a clock that ends at 1, sessions of one byte, no
keys. A session created at 0 expires within the clock and is the subject of
`SessionsEndExpired`; one created at 1 stays live and is the subject of
`FinishedUploadsAreRecognised`, which says that its status is not left at `created`:
a client that cancels a finished upload has it recorded as cancelled. Each property's
premise says which. No symmetry is
used in that run.

Deadlock is checked in every run: a free slot can always accept a request, and a
process that has ended is started again.

### Fairness

`Fairness` is weak fairness of `Tick` and of each slot's `Serve`: an accepted
request goes on to its end. The code justifies it by deadlines: 5 s on the lookup,
10 s on the HTTP client for GCS, the SDK's and Cloud Run's limits on the rest. A
call that times out is one of the error outcomes. Nothing makes a client call
again, and nothing in the service expires a session on its own, so
both properties are stated under `PollingSpec`, which adds what clients bring that
keep asking for the status with a refresh: for each session, strong fairness of
such a request being accepted, of a load that succeeds, of its TTL check, of an
answer from GCS, and of the write it ends in (the expiry or the completion). It is
strong because a slot is freed and taken again infinitely often, and because a call
that is tried for ever does not fail for ever.

What the properties then say is about the code. The writes of requests that passed
their check in time may overwrite `expired`, but they run out, because no request
can pass the check any more. A refresh that asked GCS before the upload was finished
may write `created` over `completed`; those run out as well, because no later answer
of GCS is short, and so do the cancellations' copies.

That they run out is a safety property, and is stated as one, without fairness and
for every session: `LateWritersRunOut` and `ShortCountsRunOut` say that the set of
those requests only shrinks, and that each step that overwrites takes one away.
They are checked in the run `concurrent` and proved. So is that the states the two
liveness properties end in are never left (`ExpiredStaysExpired`,
`RecognisedStaysRecognised`). What fairness is needed for, and what TLC alone
shows, is that they are reached.

No fairness is assumed of `Server`: its properties are safety. That a request ends
is `RequestsRunOut`: each of its steps leaves it fewer than before, so a goroutine
that is scheduled, and whose calls return, comes to the end of its chain.

### The claims that do not hold

| Run | The code says | What happens |
|---|---|---|
| `claim_reopened` | "Transitions follow: created -> in_progress -> completed/cancelled/failed/expired" (`upload_session.go:8`) | A refresh loads a created session; a cancellation is recorded; the refresh writes the status `created` of its copy back. It takes the overlap: `sequential` checks, and `OnlyOverlapsReopen` proves, that requests which do not overlap never reopen a session. |
| `claim_expired` | "StatusExpired means the session TTL elapsed before the upload completed" (`:22`) | The first read of a completed session after its TTL marks it expired and answers 410. |
| `claim_owner` | "UserID identifies the authenticated user who initiated the upload" (`:34`) | The context keys differ in type; the user id is stored empty. |
| `claim_idempotency` | "IdempotencyKey is a client-supplied key used to deduplicate session creation" (`:58`) | Two overlapping creations both miss the lookup. |
| `claim_usable_url` | "Returns the signed URL ... so the client can begin uploading" (`upload_service.go:59-60`) | A retry with the key after the TTL gets 201 and a dead URL. |
| `claim_request_id` | "RequestID is the correlation ID for tracing this request in logs and observability tools" (`dto/errors.go`) | `Authenticate` looks the id up in the gin context, where it is under another key: every 401 carries none. |
| `claim_flush` | the shutdown function "must be called during application teardown to flush buffered spans" (`config/tracer.go:26-27`) | `Run` does not return on a signal: a stopped instance leaves its last spans behind. |

Smaller disagreements that were met and need no run: `StatusCreated` "means ... no
bytes have been uploaded yet" (`upload_session.go:12`), while nothing ever writes
`in_progress` and a refresh records bytes under `created`; `StatusCompleted` "means
all bytes have been uploaded" (`:16`), while GCS's 200 is taken for the declared size;
"Cancel the upload session and delete any partial object" (`upload_handler.go:342`),
while only the status is written; the bodies of the query and the cancellation are
"optional" (`upload_handler.go:303`, `:377`), while a request without one does not
bind and is answered 400; `HTTP_PORT` is read into the configuration
(`config.go:19`), while the listener's port is fixed.

## 4. The proofs

Assumptions: the sentinels are not users, keys or documents
(`SentinelsAssumption`, `NoDocAssumption`, `NoIDAssumption`), both lifetimes are
naturals and the session's is not the longer (`TTLAssumption`; both are 15 minutes
in the code), and the bounds are of the right type.

The safety properties are not inductive: whether a write keeps the record true
depends on the copy it is made from. `IInv` therefore says, next to the type
invariant,

- `SessionTrue(store[u], gcs[u], clock)` of every stored document: its status,
  count and expiries fit the upload and the time;
- `RequestOK(req[p], ...)` of every request: what it may rely on where it waits.
  Its copy is true too, and of the same session as the document; a request about
  to mark a session expired has a copy past its TTL; one about to complete it knows
  that the upload is finished; one about to record progress holds a count below the
  size and an unexpired, uncompleted status; one about to persist holds a fresh
  session; one that was answered shows a copy of a stored session that is true, is
  not expired under a 200, and is past its TTL under a 410.

The argument has one idea, `Grows`: documents stay and keep their identity,
objects and the clock only go on. `SessionStaysTrue` and `RequestStaysOK` show that
under `Grows` what others know stays true however old it is. So a step needs only
three things: that it loses nothing, that the document it writes is true now
(because the copy was), and that its own request goes on to a state that is OK.
`LocalStep` and `WriteStep` package this for steps that write nothing and that
write one document; there is one lemma per action, and `NextIsGood` puts them
together.

| Theorem | States |
|---|---|
| `InvariantHolds` | `Spec => []IInv` |
| `TypeCorrect` | `Spec => []TypeOK` |
| `CompletionIsTrue`, `ProgressIsReal`, `FullSizeIsRecognised`, `ExpiryIsDue` | the four invariants of the run `concurrent` |
| `LiveURLWorks`, `CreatedIsStored` | the two invariants of the run `creations` |
| `SessionsStay` | the action property of the run `creations`, from `Grows` |
| `AnswersTellTheTruth` | `Spec => []AnswersAreTrue`, from what `RequestOK` says of an answered request |
| `ServiceImplementsLifecycle` | `Spec => ImplementsLifecycle`: each write is the abstract action of its name (`MarkCompleted` is `Complete`, `UpdateStatus` is `Progress`, ...), everything else leaves the record alone |
| `LifecycleKeepsItsPromises` | `ImplementsLifecycle` alone implies the four invariants, `LiveSessionHasUsableURL` and `SessionsAreImmutable`: the abstract specification is strong enough, and whatever implements it keeps them |

**Convergence without fairness.** `UploadConvergenceProofs` follows one session
through a step. Past its TTL, `CheckTTL` sends every request to `ExpireSession` or
to its answer, so the set `PastTheCheck(u)` cannot grow; the three writes that can
replace `expired` are its members', and each ends in an answer, so it shrinks
(`LateWritersStep`). Once the upload is finished, GCS answers with the full count or
not at all, so `HoldingShortCount(u)` cannot grow; the writes of the expiry, of a
completion and of a cancellation leave the status not `created` and the count no
lower, so only `RecordProgress` of a member can (`ShortCountsStep`). With the set empty nothing
is left to overwrite.

| Theorem | States |
|---|---|
| `LateWritersAreUsedUp`, `ShortCountsAreUsedUp` | the two action properties of the run `concurrent` |
| `ExpiredStaysExpired` | `Spec => [](ExpiredForGood(u) => []ExpiredForGood(u))`: a session recorded as expired, with no late writer left, stays so |
| `RecognisedStaysRecognised` | the same for a finished upload that is recorded, with no short count in flight; its count never drops again |

**Requests that do not overlap.** `UploadSequentialProofs` has the three properties of
the run `sequential`, each from the one kind of overlap it cannot stand, and for any
number of requests: `NoSharing` (no two requests in flight are about the same
session) and `OneCreationPerKey` (no two creations with one key are between the
lookup that missed and the write). Under the first, `CopiesAreCurrent` is
inductive with `IInv`: the copy a handler holds *is* the stored document from the load
to the write, an answer of 200 or 201 carries the stored document, and the status a
refresh writes back is the one it replaces, so nothing is reopened. Under the
second, `KeysAreFree` is: a creation past its lookup has a key no session holds. A
crash or a failed write leaves nobody who could hold an older copy; this is what makes
the next request start from the truth. The hypotheses are about behaviours, not
about the constants, and two slots have many that meet them: before they were
proved, the two invariants were checked with two requests in flight, states that break
the hypothesis being cut off.

| Theorem | States |
|---|---|
| `AnswersAgree` | `Spec /\ []NoSharing => []AnswerAgreesWithStore` |
| `KeysNameOneSession` | `Spec /\ []OneCreationPerKey => []OneSessionPerKey`: other requests, also about the same sessions, do not matter |
| `OnlyOverlapsReopen` | `Spec /\ []NoSharing => TerminalIsNeverReopened`: a session that has ended stays ended |
| `OneRequestAtATime` | all three, from the assumption that `Procs` has at most one member: the setting of the run |

**The server.** None of its properties is inductive: what `AnsweredOnce` says of a
finished request depends on what every frame does on the way out. `ServerInv` is

- `RequestInv(req[c])` of every connection: `FramesOK` (the frames are the first
  handlers of the chain, the index is the next one on the way in and past the end
  on the way out, and a panic starts inside `ErrorHandler`'s frame), `UserOK` (who is
  called, or stands before the upload handler, has a token that proves the user in
  its context) and `AnswerOK` (nothing is answered on the way in; on the way out the
  first answer is the status, and it is counted from the moment three frames are
  left);
- `LifespanInv`: the pending calls are the first of `AllDeferred`, as many as `main`
  has come to, and the number of them says which clients are open, whether the
  context lives and how far the tracer is;
- no request is in flight outside of serving.

The pipeline's lemmas follow gin: `FurtherIn` for a middleware that calls `Next()`,
`FurtherOut` for one that returns, `AnswersOnTheWayIn`, `PanicsOnTheWayIn` and
`PanicIsAnswered` for the rest; each action is one of these. `ServerProofs` only puts
the two parts together.

That requests run out rests on the invariant twice: `StepsLeft` counts from the
index and the frames, which `FramesOK` ties together, and a loop that goes on after
a middleware has left its frame starts nothing only because `FramesOK` puts the
index past the chain, or the abort after a recovered panic does. `GoesNearer` lists
the five ways a step changes stage and frames, each action is shown to be one of
them, and `NearerHasLessLeft` does the arithmetic once.

| Theorem | States |
|---|---|
| `ServerIsInvariant` | `Spec => []ServerInv` |
| `ServerTypes` | `Spec => []TypeOK` |
| `ActsForProvenUser`, `AnswersOnce`, `CountsWhatIsSent`, `PanicsRecovered` | the invariants of the run `server` about requests |
| `RequestsEnd` | its action property about requests, `RequestsRunOut` |
| `AtMostTwentyTwoSteps` | `StepsLeft` is between 0 and 22 in every state: with `RequestsEnd`, the most steps the goroutine of a request takes |
| `ServesWhenReady`, `OpenAreDeferred`, `EndsInOrder`, `FlushesInTime` | its properties about the process; the last is an action property |
| `ServerKeepsContract` | `Spec => KeepsContract`: a goroutine's step shows nothing (`Quiet`) or is `Act`, `Answer` or `Close` of the contract; a step of `main` is `Serve`, `Drain`, `End`, `Restart` or nothing |
| `ContractTellsTheTruth` | `KeepsContract` alone implies `[]StatusTellsWhatWasDone`: the guards of the contract's actions are enough for what a client concludes from a status |
| `ServerTellsTheTruth` | `Spec => []StatusTellsWhatWasDone`, from the two |

Assumptions: arrivals are of the right type and there is at least one
(`ArrivalsAssumption`), `NoUser` is not a user (`NoUserAssumption`), the queue holds
at least one span (`SpanQueueAssumption`).

Only model-checked: `SessionsEndExpired` and `FinishedUploadsAreRecognised`
(liveness under fairness is out of the prover's reach); their safety halves are the
theorems of `UploadConvergenceProofs`. The runs of the claims show counterexamples
and have nothing to prove.

## 5. Not modelled

- **Library calls**: the verification of a signature, the PEM parser, the CRC of
  the secret, viper, zap, the JSON binding and its validator, the signing of URLs.
  Each is an outcome (it works, or the error the code tells apart). The object data,
  chunk retries and signed headers of the clients' uploads have no code here.
- **Text**: object names, wording of errors, logs, span attributes, the OpenAPI
  document. No decision of the program reads them back.
- **`UpdateGCSUploadURL`** and `HTTP_PORT` have no user.
- **The latency histogram** is observed in the step that counts the request; the
  tracer's list of shutdown functions never holds more than one, and calling it is
  `ShutdownTracer`.
- **A request that outlives its clients**: when `router.Run` returns, the deferred
  closes run beside the requests in flight. The model lets every call of such a
  request fail or succeed (`ServiceReturns`), and does not say which client it still
  needed.
- **The joint state of the two machines**: `Server` gives `UploadService` nothing but
  the user, and takes nothing but a code, so they are checked apart. The user the
  service reads is not the one `Authenticate` sets, which `claim_owner` shows; were
  it repaired, `ContextUser` of `UploadService` would be the `user` that
  `ServiceActsForProvenUser` is about.

What is left would need a change of the code first: a precondition on the updates
of a session (then `TerminalIsNeverReopened` and `KeyDeduplicatesCreation` become
properties of overlapping requests too), and a signal handler (then liveness of the shutdown, and
draining, are worth stating).
