------------------------------- MODULE ServerProofs -------------------------------
(***************************************************************************)
(* The invariant of Server is inductive, and the properties of requests and   *)
(* of the process follow from it, for any requests, any number of them in     *)
(* flight and a span queue of any size.                                      *)
(***************************************************************************)
EXTENDS Server, LifespanProofs, PipelineProofs

(* What is deferred are the first calls of main's list. *)
LEMMA FirstCalls ==
    ASSUME LifespanInv, NEW n \in Nat, n = Len(deferred)
    PROVE  n \in 0..6 /\ \A i \in 1..n : deferred[i] = AllDeferred[i]
<1>1. Len(deferred) <= 6 /\ \A i \in 1..Len(deferred) : deferred[i] = AllDeferred[i]
  BY DEF LifespanInv, PendingInv
<1> QED
  BY <1>1

LEMMA ServerStarts == Init => ServerInv
<1> SUFFICES ASSUME Init PROVE ServerInv
  OBVIOUS
<1>1. LifespanInv
  BY LifespanStarts DEF Init
<1>2. req = [c \in Conns |-> Free]
  BY DEF Init
<1>3. PipelineTypeOK
  BY <1>2, FreeIsSound DEF PipelineTypeOK
<1>4. \A c \in Conns : RequestInv(req[c]) /\ req[c].stage = "idle"
  BY <1>2, FreeIsSound
<1> QED
  BY <1>1, <1>3, <1>4 DEF ServerInv

(* One request moved, the others did not. *)
LEMMA OneMoved ==
    ASSUME ServerInv, NEW c \in Conns, Moves(c)
    PROVE  PipelineTypeOK' /\ \A d \in Conns : RequestInv(req'[d])
<1>1. PICK w \in Request : RequestInv(w) /\ req' = [req EXCEPT ![c] = w]
  BY DEF Moves, Set
<1>2. req \in [Conns -> Request] /\ \A d \in Conns : RequestInv(req[d])
  BY DEF ServerInv, PipelineTypeOK
<1>3. req' \in [Conns -> Request]
  BY <1>1, <1>2
<1>4. ASSUME NEW d \in Conns PROVE RequestInv(req'[d])
  <2>1. CASE d = c
    <3>1. req'[d] = w
      BY <1>1, <1>2, <2>1
    <3> QED
      BY <1>1, <3>1
  <2>2. CASE d # c
    <3>1. req'[d] = req[d]
      BY <1>1, <1>2, <2>2
    <3> QED
      BY <1>2, <3>1
  <2> QED
    BY <2>1, <2>2
<1> QED
  BY <1>3, <1>4 DEF PipelineTypeOK

LEMMA EveryoneIsSound == ASSUME ServerInv, NEW c \in Conns PROVE Sound(c)
BY DEF ServerInv, PipelineTypeOK, Sound

LEMMA AcceptKeeps == ASSUME ServerInv, NEW c \in Conns, Accept(c) PROVE ServerInv'
<1>1. phase = "serving" /\ Receive(c)
      /\ UNCHANGED <<phase, deferred, open, key, ctx, tracing, spans>>
  BY DEF Accept, lifeVars
<1>2. PipelineTypeOK' /\ \A d \in Conns : RequestInv(req'[d])
  BY <1>1, ReceiveMoves, OneMoved
<1>3. LifespanInv'
  <2>1. LifespanInv
    BY DEF ServerInv
  <2> QED
    BY <1>1, <2>1, SpansComeAndGo
<1> QED
  BY <1>1, <1>2, <1>3 DEF ServerInv

LEMMA StepKeeps == ASSUME ServerInv, NEW c \in Conns, Step(c) PROVE ServerInv'
<1>1. /\ phase \in {"serving", "returning"} /\ Handle(c) /\ (SpanEnds \/ UNCHANGED spans)
      /\ UNCHANGED <<phase, deferred, open, key, ctx, tracing>>
  BY DEF Step
<1>2. PipelineTypeOK' /\ \A d \in Conns : RequestInv(req'[d])
  BY <1>1, EveryoneIsSound, HandlingIsSound, OneMoved
<1>3. LifespanInv'
  <2>1. LifespanInv
    BY DEF ServerInv
  <2> QED
    BY <1>1, <2>1, SpansComeAndGo
<1> QED
  BY <1>1, <1>2, <1>3 DEF ServerInv

LEMMA LiveKeeps == ASSUME ServerInv, Live PROVE ServerInv'
<1>1. LifeGoesOn /\ req' = req
  BY DEF Live
<1>2. LifespanInv'
  BY <1>1, LifeIsSafe DEF ServerInv
<1>3. phase \in {"serving", "returning"} => phase' \in {"serving", "returning"}
  BY <1>1 DEF LifeGoesOn, LoadConfig, NewLogger, InitTracerStep, NewTracerProvider,
     CheckProject, NewGCSClient, NewFirestoreClient, NewSecretsClient, Acquire, LoadKey,
     GetSecretPanics, RunFails, ExportBatch, RunDeferred, Restart, Ended
<1>4. PipelineTypeOK'
  BY <1>1 DEF ServerInv, PipelineTypeOK
<1>5. ASSUME NEW c \in Conns
      PROVE  /\ RequestInv(req'[c])
             /\ phase' \notin {"serving", "returning"} => req'[c].stage = "idle"
  BY <1>1, <1>3 DEF ServerInv
<1> QED
  BY <1>2, <1>4, <1>5 DEF ServerInv

LEMMA EndKeeps == ASSUME ServerInv, End PROVE ServerInv'
<1>1. LifeEnds /\ req' = [c \in Conns |-> Free]
  BY DEF End
<1>2. LifespanInv'
  BY <1>1, LifeIsSafe DEF ServerInv
<1>3. PipelineTypeOK'
  BY <1>1, FreeIsSound DEF PipelineTypeOK
<1>4. \A c \in Conns : RequestInv(req'[c]) /\ req'[c].stage = "idle"
  BY <1>1, FreeIsSound
<1> QED
  BY <1>2, <1>3, <1>4 DEF ServerInv

LEMMA StutteringKeeps == ASSUME ServerInv, UNCHANGED vars PROVE ServerInv'
<1>1. /\ req' = req /\ UNCHANGED <<phase, deferred, open, key, ctx, tracing, spans>>
  BY DEF vars, lifeVars
<1>2. LifespanInv'
  <2>1. LifespanInv
    BY DEF ServerInv
  <2> QED
    BY <1>1, <2>1, SpansComeAndGo
<1>3. PipelineTypeOK'
  BY <1>1 DEF ServerInv, PipelineTypeOK
<1> QED
  BY <1>1, <1>2, <1>3 DEF ServerInv

(* The invariant of the server holds in every state of every behaviour.         *)
THEOREM ServerIsInvariant == Spec => []ServerInv
<1>1. Init => ServerInv
  BY ServerStarts
<1>2. ServerInv /\ [Next]_vars => ServerInv'
  <2> SUFFICES ASSUME ServerInv, [Next]_vars PROVE ServerInv'
    OBVIOUS
  <2>1. CASE \E c \in Conns : Accept(c) \/ Step(c)
    BY <2>1, AcceptKeeps, StepKeeps
  <2>2. CASE Live
    BY <2>2, LiveKeeps
  <2>3. CASE End
    BY <2>3, EndKeeps
  <2>4. CASE UNCHANGED vars
    BY <2>4, StutteringKeeps
  <2> QED
    BY <2>1, <2>2, <2>3, <2>4 DEF Next
<1> QED
  BY <1>1, <1>2, PTL DEF Spec

(* Whatever requests come in and however main fares, every variable of the       *)
(* server keeps its type: no index, frame, status or span count leaves its range. *)
THEOREM ServerTypes == Spec => []TypeOK
<1>1. ServerInv => TypeOK
  BY DEF ServerInv, LifespanInv, TypeOK
<1> QED
  BY <1>1, ServerIsInvariant, PTL

(* The upload service is called only for the user a valid access token proves,    *)
(* on the upload routes (Authenticate and the order of SetupRoutes).             *)
THEOREM ActsForProvenUser == Spec => []ServiceActsForProvenUser
<1>1. ServerInv => ServiceActsForProvenUser
  BY DEF ServerInv, RequestInv, UserOK, ServiceActsForProvenUser
<1> QED
  BY <1>1, ServerIsInvariant, PTL

(* A panic never reaches gin.Recovery: ErrorHandler's frame is below it.          *)
THEOREM PanicsRecovered == Spec => []PanicsAreRecovered
<1>1. ServerInv => PanicsAreRecovered
  <2> SUFFICES ASSUME ServerInv, NEW c \in Conns, req[c].stage = "unwind"
               PROVE  \E i \in 1..Len(req[c].frames) : req[c].frames[i] = "ErrorHandler"
    BY DEF PanicsAreRecovered
  <2>1. req[c] \in Request /\ FramesOK(req[c])
    BY DEF ServerInv, PipelineTypeOK, RequestInv
  <2>2. Len(req[c].frames) \in Nat /\ req[c].arrival.route \in Routes
    BY <2>1, LenProperties DEF Request, Arrival
  <2>3. Len(req[c].frames) >= 3 /\ \A i \in 1..Len(req[c].frames) :
          req[c].frames[i] = Chain[req[c].arrival.route][i]
    BY <2>1 DEF FramesOK
  <2>4. Chain[req[c].arrival.route][3] = "ErrorHandler"
    BY <2>2, ChainsAreLaidOut
  <2>5. 3 \in 1..Len(req[c].frames) /\ req[c].frames[3] = "ErrorHandler"
    BY <2>2, <2>3, <2>4
  <2> QED
    BY <2>5
<1> QED
  BY <1>1, ServerIsInvariant, PTL

(* A finished request was answered, with the status of its first answer; one that *)
(* panicked was answered 500 under its own request id (ErrorHandler).             *)
THEOREM AnswersOnce == Spec => []AnsweredOnce
<1>1. ServerInv => AnsweredOnce
  <2> SUFFICES ASSUME ServerInv, NEW c \in Conns, req[c].stage = "done"
               PROVE  /\ req[c].bodies # <<>>
                      /\ req[c].status = req[c].bodies[1].code
                      /\ Len(req[c].bodies) = 1 \/ req[c].errors > 0
                      /\ req[c].panicked =>
                           req[c].bodies[1] = [code |-> 500, requestID |-> req[c].traceID]
    BY DEF AnsweredOnce
  <2> DEFINE r == req[c]
  <2>1. r \in Request /\ AnswerOK(r) /\ r.stage = "done"
    BY DEF ServerInv, PipelineTypeOK, RequestInv
  <2> HIDE DEF r
  <2>2. /\ r.bodies # <<>>
        /\ r.status = r.bodies[1].code
        /\ Len(r.bodies) <= 1 \/ r.errors > 0
        /\ r.panicked => r.bodies[1] = [code |-> 500, requestID |-> r.traceID]
    <3>1. r.stage \in {"after", "done"}
      BY <2>1
    <3> QED
      BY <2>1, <3>1, Zenon DEF AnswerOK
  <2>3. Len(r.bodies) \in Nat \ {0}
    <3>1. r.bodies \in Seq([code : Codes, requestID : RequestIDs])
      BY <2>1 DEF Request
    <3> QED
      BY <2>2, <3>1, EmptySeq, Zenon
  <2>4. Len(r.bodies) = 1 \/ r.errors > 0
    <3>1. \A k \in Nat \ {0} : k <= 1 => k = 1
      OBVIOUS
    <3> QED
      BY <2>2, <2>3, <3>1, Zenon
  <2> QED
    BY <2>2, <2>4 DEF r
<1> QED
  BY <1>1, ServerIsInvariant, PTL

(* A finished request was counted once, under the status it was sent, unless it    *)
(* panicked (PrometheusMetrics).                                                 *)
THEOREM CountsWhatIsSent == Spec => []CountedAsSent
<1>1. ServerInv => CountedAsSent
  <2> SUFFICES ASSUME ServerInv, NEW c \in Conns, req[c].stage = "done"
               PROVE  req[c].counted = IF req[c].panicked THEN <<>> ELSE <<req[c].status>>
    BY DEF CountedAsSent
  <2> DEFINE r == req[c]
  <2>1. r \in Request /\ AnswerOK(r) /\ r.stage = "done"
    BY DEF ServerInv, PipelineTypeOK, RequestInv
  <2> HIDE DEF r
  <2>2. r.frames = <<>> /\ r.stage \in {"after", "done"}
    BY <2>1 DEF AnswerOK
  <2>3. ~(Len(r.frames) >= 4)
    BY <2>2, EmptySeq
  <2>4. r.counted = IF r.panicked THEN <<>> ELSE <<r.status>>
    BY <2>1, <2>2, <2>3, Zenon DEF AnswerOK
  <2> QED
    BY <2>4 DEF r
<1> QED
  BY <1>1, ServerIsInvariant, PTL

(* What a step of the server does to one request. *)
LEMMA OthersStay ==
    ASSUME ServerInv, NEW c \in Conns, NEW d \in Conns, d # c, Moves(d)
    PROVE  req'[c] = req[c]
BY DEF Moves, Set, ServerInv, PipelineTypeOK

LEMMA RequestsGoNearer ==
    ASSUME ServerInv, ServerInv', [Next]_vars, NEW c \in Conns,
           req[c].stage \notin {"idle", "done"}, req'[c] # req[c]
    PROVE  StepsLeft(req'[c]) < StepsLeft(req[c])
<1>1. SoundStep(c)
  BY EveryoneIsSound DEF ServerInv, PipelineTypeOK, RequestInv, SoundStep
<1>2. CASE \E d \in Conns : Accept(d) \/ Step(d)
  <2>1. PICK d \in Conns : Accept(d) \/ Step(d)
    BY <1>2
  <2>2. Moves(d)
    BY <2>1, ReceiveMoves, EveryoneIsSound, HandlingIsSound DEF Accept, Step
  <2>3. d = c
    BY <2>2, OthersStay
  <2>4. Handle(c)
    BY <2>1, <2>3 DEF Accept, Receive, Step
  <2> QED
    BY <1>1, <2>4, HandlingGoesNearer
<1>3. CASE Live \/ UNCHANGED vars
  BY <1>3 DEF Live, vars
<1>4. CASE End
  <2>1. req'[c] = Free
    BY <1>4 DEF End
  <2>2. Free \in Request /\ FramesOK(Free) /\ Free.stage = "idle"
    BY FreeIsSound DEF RequestInv
  <2>3. StepsLeft(Free) = 0
    BY <2>2, StepsLeftAre
  <2> DEFINE n == Len(req[c].frames)
             L == Len(Chain[req[c].arrival.route])
  <2>4. req[c] \in Request /\ FramesOK(req[c])
    BY <1>1 DEF SoundStep, Sound, RequestInv
  <2>5. req[c].stage \in {"enter", "service", "after", "unwind"}
    BY <2>4 DEF Request
  <2>6. /\ n \in Nat /\ L \in 5..7
        /\ req[c].stage \in {"enter", "service"} => n < L
        /\ req[c].stage = "enter" => StepsLeft(req[c]) = 3 * (L - n) + n + 1
        /\ req[c].stage = "service" => StepsLeft(req[c]) = 3 * (L - n) + n
        /\ req[c].stage \in {"after", "unwind"} => StepsLeft(req[c]) = n + 1
    BY <2>4, StepsLeftAre
  <2> HIDE DEF n, L
  <2>7. StepsLeft(req[c]) > 0
    BY <2>5, <2>6
  <2> QED
    BY <2>1, <2>3, <2>7
<1> QED
  BY <1>2, <1>3, <1>4 DEF Next

(* Each step of a request, whatever it answers, aborts, fails to write or panics,  *)
(* brings it nearer to its end (gin's Next() and Abort(), ErrorHandler, Recovery). *)
THEOREM RequestsEnd == Spec => RequestsRunOut
<1>1. ServerInv /\ ServerInv' /\ [Next]_vars
        => [\A c \in Conns : req[c].stage \notin {"idle", "done"} /\ req'[c] # req[c]
              => StepsLeft(req'[c]) < StepsLeft(req[c])]_req
  BY RequestsGoNearer
<1>2. (Spec => []ServerInv) => (Spec => RequestsRunOut)
  BY <1>1, PTL DEF Spec, RequestsRunOut
<1> QED
  BY <1>2, ServerIsInvariant

(* A request takes at most 22 steps of its own: three for each of the seven         *)
(* handlers of the longest chain, and the engine's last (SetupRoutes).             *)
THEOREM AtMostTwentyTwoSteps == Spec => [](\A c \in Conns : StepsLeft(req[c]) \in 0..22)
<1>1. ServerInv => \A c \in Conns : StepsLeft(req[c]) \in 0..22
  <2> SUFFICES ASSUME ServerInv, NEW c \in Conns PROVE StepsLeft(req[c]) \in 0..22
    OBVIOUS
  <2> DEFINE r == req[c]
             n == Len(r.frames)
             L == Len(Chain[r.arrival.route])
  <2>1. r \in Request /\ FramesOK(r)
    BY DEF ServerInv, PipelineTypeOK, RequestInv
  <2>2. r.stage \in {"idle", "enter", "service", "after", "unwind", "done"}
    BY <2>1 DEF Request
  <2> HIDE DEF r
  <2>3. /\ n \in Nat /\ L \in 5..7 /\ n <= L
        /\ r.stage = "enter" => StepsLeft(r) = 3 * (L - n) + n + 1
        /\ r.stage = "service" => StepsLeft(r) = 3 * (L - n) + n
        /\ r.stage \in {"after", "unwind"} => StepsLeft(r) = n + 1
        /\ r.stage \in {"idle", "done"} => StepsLeft(r) = 0
    BY <2>1, StepsLeftAre
  <2> HIDE DEF n, L
  <2>4. StepsLeft(r) \in 0..22
    BY <2>2, <2>3
  <2> QED
    BY <2>4 DEF r
<1> QED
  BY <1>1, ServerIsInvariant, PTL

-----------------------------------------------------------------------------
(* The life of the process. *)

(* While the server accepts requests, every client is open, the key is loaded, the *)
(* root context lives and spans are traced (main()).                             *)
THEOREM ServesWhenReady == Spec => []ServingIsReady
<1>1. ServerInv => ServingIsReady
  <2> SUFFICES ASSUME ServerInv, phase = "serving"
               PROVE  open = Clients /\ key /\ ctx = "live" /\ tracing = "on"
    BY Zenon DEF ServingIsReady
  <2>1. key
    BY Zenon DEF ServerInv, LifespanInv, HoldingInv
  <2>2. Len(deferred) = 6 /\ phase \in Running
    BY WhereMainIs DEF ServerInv, LifespanInv, PendingInv
  <2>3. /\ "gcs" \in open /\ "firestore" \in open /\ "secrets" \in open
        /\ ctx = "live" /\ tracing = "on"
    BY <2>2 DEF ServerInv, LifespanInv, HoldingInv
  <2>4. open = Clients
    BY <2>3 DEF ServerInv, LifespanInv, LifespanTypeOK, Clients
  <2> QED
    BY <2>1, <2>3, <2>4, Zenon
<1> QED
  BY <1>1, ServerIsInvariant, PTL

(* While main runs, the open clients are those with a deferred Close: nothing is   *)
(* leaked on a path that returns or panics, and nothing is closed early.           *)
THEOREM OpenAreDeferred == Spec => []OpenIsDeferred
<1>1. ServerInv => OpenIsDeferred
  <2> SUFFICES ASSUME ServerInv, phase \in Running
               PROVE  open = {c \in Clients : Pending(c)}
    BY DEF OpenIsDeferred
  <2> DEFINE n == Len(deferred)
  <2>1. deferred \in Seq(Deferrable) /\ open \subseteq Clients
    BY DEF ServerInv, LifespanInv, LifespanTypeOK
  <2>2. n \in Nat
    BY <2>1, LenProperties
  <2>3. n \in 0..6 /\ \A i \in 1..n : deferred[i] = AllDeferred[i]
    BY <2>2, FirstCalls DEF ServerInv
  <2>4. /\ "gcs" \in open <=> n >= 4
        /\ "firestore" \in open <=> n >= 5
        /\ "secrets" \in open <=> n >= 6
    BY DEF ServerInv, LifespanInv, HoldingInv
  <2>5. \A call : Pending(call) <=> \E i \in 1..n : deferred[i] = call
    BY DEF Pending
  <2> HIDE DEF n
  <2>6. Pending("gcs") <=> n >= 4
    BY <2>3, <2>5, ListOfCalls
  <2>7. Pending("firestore") <=> n >= 5
    BY <2>3, <2>5, ListOfCalls
  <2>8. Pending("secrets") <=> n >= 6
    BY <2>3, <2>5, ListOfCalls
  <2>9. \A c \in Clients : c \in open <=> Pending(c)
    BY <2>4, <2>6, <2>7, <2>8 DEF Clients
  <2> QED
    BY <2>1, <2>9, Zenon
<1> QED
  BY <1>1, ServerIsInvariant, PTL

(* A main that has returned or panicked left nothing open, its context cancelled    *)
(* and the tracer shut down (the defers of main()).                              *)
THEOREM EndsInOrder == Spec => []OrderlyEnd
<1>1. ServerInv => OrderlyEnd
  BY DEF ServerInv, LifespanInv, HoldingInv, OrderlyEnd
<1> QED
  BY <1>1, ServerIsInvariant, PTL

(* The tracer is shut down while its context lives and after every client is       *)
(* closed: the spans those closes end can still be flushed.                       *)
THEOREM FlushesInTime == Spec => FlushIsInTime
<1>1. ServerInv /\ [Next]_vars
        => [(tracing = "on" /\ tracing' = "shut") => (ctx = "live" /\ open = {})]_lifeVars
  <2> SUFFICES ASSUME ServerInv, [Next]_vars, tracing = "on", tracing' = "shut"
               PROVE  ctx = "live" /\ open = {}
    OBVIOUS
  <2>1. RunDeferred
    BY DEF Next, Accept, Step, Live, End, vars, lifeVars, LifeGoesOn, LifeEnds, LoadConfig,
       NewLogger, InitTracerStep, NewTracerProvider, CheckProject, NewGCSClient,
       NewFirestoreClient, NewSecretsClient, Acquire, LoadKey, GetSecretPanics, RunFails,
       ExportBatch, Restart, Fatal, Exit, Signal
  <2> DEFINE n == Len(deferred)
             call == deferred[n]
  <2>2. phase \in Running /\ call = "otelShutdown" /\ deferred # <<>>
    BY <2>1, WhereMainIs DEF RunDeferred
  <2>3. deferred \in Seq(Deferrable) /\ open \subseteq Clients
    BY DEF ServerInv, LifespanInv, LifespanTypeOK
  <2>4. n \in Nat \ {0}
    BY <2>2, <2>3, NotEmpty, Zenon
  <2>5. n \in 1..6 /\ call = AllDeferred[n]
    <3>1. n \in Nat /\ n # 0 /\ n = Len(deferred)
      BY <2>4
    <3>2. n \in 0..6 /\ \A i \in 1..n : deferred[i] = AllDeferred[i]
      BY <3>1, FirstCalls DEF ServerInv
    <3> HIDE DEF n
    <3>3. n \in 1..n /\ n \in 1..6
      BY <3>1, <3>2
    <3> QED
      BY <3>2, <3>3
  <2>6. /\ "gcs" \in open <=> n >= 4
        /\ "firestore" \in open <=> n >= 5
        /\ "secrets" \in open <=> n >= 6
        /\ n >= 2 => ctx = "live"
    BY <2>2 DEF ServerInv, LifespanInv, HoldingInv
  <2> HIDE DEF n, call
  <2>7. n = 3
    BY <2>2, <2>5, ListOfCalls
  <2> QED
    BY <2>3, <2>6, <2>7 DEF Clients
<1>2. (Spec => []ServerInv) => (Spec => FlushIsInTime)
  BY <1>1, PTL DEF Spec, FlushIsInTime
<1> QED
  BY <1>2, ServerIsInvariant
================================================================================
