-------------------------- MODULE ServerRefinementProofs --------------------------
(***************************************************************************)
(* Server implements ServerContract: a step of a goroutine shows a client      *)
(* nothing, or is one of the contract's actions on that client's exchange; a   *)
(* step of main is a change of the process or nothing.  What the contract      *)
(* allows is then enough for what a client concludes from a status.           *)
(***************************************************************************)
EXTENDS ServerProofs

ContractStep == Contract!Next \/ UNCHANGED Contract!contractVars

(* What the contract sees of a request, and of main.                           *)
PhaseOf(r) == IF r.stage = "idle" THEN "none" ELSE IF r.called THEN "acted" ELSE "open"
ProverOf(r) == IF r.stage = "idle" THEN NoUser ELSE Proven(r)
AnswerOf(r) == IF r.bodies = <<>> THEN 0 ELSE r.status

Exchanges == [c \in Conns |-> PhaseOf(req[c])]
Provers == [c \in Conns |-> ProverOf(req[c])]
Told == [c \in Conns |-> AnswerOf(req[c])]

Process ==
    IF phase \in Startup THEN "starting"
    ELSE IF phase = "serving" THEN "serving"
    ELSE IF phase = "returning" THEN "draining" ELSE "ended"

-----------------------------------------------------------------------------
(* The four ways an exchange changes, and the one in which it does not.         *)

Quiet(r, w) == PhaseOf(w) = PhaseOf(r) /\ ProverOf(w) = ProverOf(r) /\ AnswerOf(w) = AnswerOf(r)

Takes(r, w) ==
    /\ PhaseOf(r) = "none" /\ PhaseOf(w) = "open"
    /\ ProverOf(w) \in Users \cup {NoUser} /\ AnswerOf(w) = AnswerOf(r)

Acts(r, w) ==
    /\ PhaseOf(r) = "open" /\ PhaseOf(w) = "acted"
    /\ ProverOf(r) # NoUser /\ ProverOf(w) = ProverOf(r)
    /\ AnswerOf(r) = 0 /\ AnswerOf(w) = AnswerOf(r)

Answers(r, w) ==
    /\ PhaseOf(r) # "none" /\ PhaseOf(w) = PhaseOf(r) /\ ProverOf(w) = ProverOf(r)
    /\ AnswerOf(r) = 0 /\ AnswerOf(w) \in Codes
    /\ AnswerOf(w) = 401 => ProverOf(r) = NoUser /\ PhaseOf(r) = "open"
    /\ AnswerOf(w) \in {201, 410} => PhaseOf(r) = "acted"

Closes(r, w) ==
    AnswerOf(r) # 0 /\ PhaseOf(w) = "none" /\ ProverOf(w) = NoUser /\ AnswerOf(w) = 0

(* Replacing one request replaces one value of each function. *)
LEMMA OneExchange ==
    ASSUME PipelineTypeOK, NEW c \in Conns, NEW w, Set(c, w)
    PROVE  /\ Exchanges' = [Exchanges EXCEPT ![c] = PhaseOf(w)]
           /\ Provers' = [Provers EXCEPT ![c] = ProverOf(w)]
           /\ Told' = [Told EXCEPT ![c] = AnswerOf(w)]
<1>1. /\ req'[c] = w
      /\ \A d \in Conns : d # c => req'[d] = req[d]
  BY DEF Set, PipelineTypeOK
<1>2. /\ Exchanges' = [d \in Conns |-> PhaseOf(req'[d])]
      /\ Provers' = [d \in Conns |-> ProverOf(req'[d])]
      /\ Told' = [d \in Conns |-> AnswerOf(req'[d])]
  BY DEF Exchanges, Provers, Told, PhaseOf, ProverOf, AnswerOf, Proven
<1>3. Exchanges' = [Exchanges EXCEPT ![c] = PhaseOf(w)]
  BY <1>1, <1>2 DEF Exchanges
<1>4. Provers' = [Provers EXCEPT ![c] = ProverOf(w)]
  BY <1>1, <1>2 DEF Provers
<1>5. Told' = [Told EXCEPT ![c] = AnswerOf(w)]
  BY <1>1, <1>2 DEF Told
<1> QED
  BY <1>3, <1>4, <1>5

LEMMA MappedValues ==
    ASSUME NEW c \in Conns
    PROVE  /\ Exchanges[c] = PhaseOf(req[c]) /\ Provers[c] = ProverOf(req[c])
           /\ Told[c] = AnswerOf(req[c])
BY DEF Exchanges, Provers, Told

(* A function updated with the value it has is the same function. *)
LEMMA SameValue ==
    ASSUME NEW c \in Conns
    PROVE  /\ [Exchanges EXCEPT ![c] = Exchanges[c]] = Exchanges
           /\ [Provers EXCEPT ![c] = Provers[c]] = Provers
           /\ [Told EXCEPT ![c] = Told[c]] = Told
BY DEF Exchanges, Provers, Told

LEMMA NothingIsSeen ==
    ASSUME Process' = Process, Exchanges' = Exchanges, Provers' = Provers, Told' = Told
    PROVE  ContractStep
<1>1. UNCHANGED <<Process, Exchanges, Provers, Told>>
  OBVIOUS
<1>2. UNCHANGED Contract!contractVars
  BY <1>1, Zenon DEF Contract!contractVars, Exchanges, Provers, Told, Process, PhaseOf,
     ProverOf, AnswerOf
<1> QED
  BY <1>2 DEF ContractStep

LEMMA QuietIsNothing ==
    ASSUME PipelineTypeOK, NEW c \in Conns, NEW w, Set(c, w), Process' = Process,
           Quiet(req[c], w)
    PROVE  ContractStep
<1>1. /\ Exchanges' = [Exchanges EXCEPT ![c] = Exchanges[c]]
      /\ Provers' = [Provers EXCEPT ![c] = Provers[c]]
      /\ Told' = [Told EXCEPT ![c] = Told[c]]
  BY OneExchange, MappedValues DEF Quiet
<1> QED
  BY <1>1, SameValue, NothingIsSeen

LEMMA TakeIsTaken ==
    ASSUME PipelineTypeOK, NEW c \in Conns, NEW w, Set(c, w), Process' = Process,
           Process = "serving", Takes(req[c], w)
    PROVE  ContractStep
<1>1. /\ Exchanges[c] = "none" /\ Exchanges' = [Exchanges EXCEPT ![c] = "open"]
      /\ \E u \in Users \cup {NoUser} : Provers' = [Provers EXCEPT ![c] = u]
      /\ Told' = Told
  <2>1. /\ Exchanges' = [Exchanges EXCEPT ![c] = PhaseOf(w)]
        /\ Provers' = [Provers EXCEPT ![c] = ProverOf(w)]
        /\ Told' = [Told EXCEPT ![c] = AnswerOf(w)]
    BY OneExchange
  <2>2. AnswerOf(w) = Told[c] /\ Exchanges[c] = PhaseOf(req[c])
    BY MappedValues DEF Takes
  <2> QED
    BY <2>1, <2>2, SameValue DEF Takes
<1>2. UNCHANGED <<Process, Told>>
  BY <1>1
<1>3. Contract!Take(c)
  BY <1>1, <1>2, Zenon DEF Contract!Take, Exchanges, Provers, Told, Process, PhaseOf,
     ProverOf, AnswerOf
<1> QED
  BY <1>3 DEF ContractStep, Contract!Next

LEMMA ActIsActed ==
    ASSUME PipelineTypeOK, NEW c \in Conns, NEW w, Set(c, w), Process' = Process,
           Acts(req[c], w)
    PROVE  ContractStep
<1>1. /\ Exchanges[c] = "open" /\ Provers[c] # NoUser /\ Told[c] = 0
      /\ Exchanges' = [Exchanges EXCEPT ![c] = "acted"]
      /\ UNCHANGED <<Process, Provers, Told>>
  <2>1. /\ Exchanges' = [Exchanges EXCEPT ![c] = PhaseOf(w)]
        /\ Provers' = [Provers EXCEPT ![c] = ProverOf(w)]
        /\ Told' = [Told EXCEPT ![c] = AnswerOf(w)]
    BY OneExchange
  <2>2. /\ ProverOf(w) = Provers[c] /\ AnswerOf(w) = Told[c] /\ PhaseOf(w) = "acted"
        /\ Exchanges[c] = "open" /\ Provers[c] # NoUser /\ Told[c] = 0
    BY MappedValues DEF Acts
  <2> QED
    BY <2>1, <2>2, SameValue
<1>2. Contract!Act(c)
  BY <1>1, Zenon DEF Contract!Act, Exchanges, Provers, Told, Process, PhaseOf, ProverOf,
     AnswerOf
<1> QED
  BY <1>2 DEF ContractStep, Contract!Next

LEMMA AnswerIsAnswered ==
    ASSUME PipelineTypeOK, NEW c \in Conns, NEW w, Set(c, w), Process' = Process,
           Answers(req[c], w)
    PROVE  ContractStep
<1>1. /\ Exchanges[c] # "none" /\ Told[c] = 0
      /\ \E code \in Codes :
           /\ Told' = [Told EXCEPT ![c] = code]
           /\ code = 401 => Provers[c] = NoUser /\ Exchanges[c] = "open"
           /\ code \in {201, 410} => Exchanges[c] = "acted"
      /\ UNCHANGED <<Process, Exchanges, Provers>>
  <2>1. /\ Exchanges' = [Exchanges EXCEPT ![c] = PhaseOf(w)]
        /\ Provers' = [Provers EXCEPT ![c] = ProverOf(w)]
        /\ Told' = [Told EXCEPT ![c] = AnswerOf(w)]
    BY OneExchange
  <2>2. /\ ProverOf(w) = Provers[c] /\ PhaseOf(w) = Exchanges[c]
        /\ Exchanges[c] # "none" /\ Told[c] = 0 /\ AnswerOf(w) \in Codes
        /\ AnswerOf(w) = 401 => Provers[c] = NoUser /\ Exchanges[c] = "open"
        /\ AnswerOf(w) \in {201, 410} => Exchanges[c] = "acted"
    BY MappedValues DEF Answers
  <2>3. Exchanges' = Exchanges /\ Provers' = Provers
    BY <2>1, <2>2, SameValue
  <2> QED
    BY <2>1, <2>2, <2>3, Zenon
<1>2. Contract!Answer(c)
  BY <1>1, Zenon DEF Contract!Answer, Exchanges, Provers, Told, Process, PhaseOf, ProverOf,
     AnswerOf
<1> QED
  BY <1>2 DEF ContractStep, Contract!Next

LEMMA CloseIsClosed ==
    ASSUME PipelineTypeOK, NEW c \in Conns, NEW w, Set(c, w), Process' = Process,
           Closes(req[c], w)
    PROVE  ContractStep
<1>1. /\ Told[c] # 0 /\ Exchanges' = [Exchanges EXCEPT ![c] = "none"]
      /\ Provers' = [Provers EXCEPT ![c] = NoUser] /\ Told' = [Told EXCEPT ![c] = 0]
      /\ UNCHANGED Process
  BY OneExchange, MappedValues DEF Closes
<1>2. Contract!Close(c)
  BY <1>1, Zenon DEF Contract!Close, Exchanges, Provers, Told, Process, PhaseOf, ProverOf,
     AnswerOf
<1> QED
  BY <1>2 DEF ContractStep, Contract!Next

-----------------------------------------------------------------------------
(* The steps of a goroutine. *)

(* What a step of a request shows. *)
Shows(c) ==
    \E w : /\ Set(c, w)
           /\ Quiet(req[c], w) \/ Acts(req[c], w) \/ Answers(req[c], w) \/ Closes(req[c], w)

LEMMA ShownIsAllowed ==
    ASSUME PipelineTypeOK, NEW c \in Conns, Process' = Process, Shows(c) PROVE ContractStep
BY QuietIsNothing, ActIsActed, AnswerIsAnswered, CloseIsClosed DEF Shows

LEMMA StillUnseen ==
    ASSUME NEW r, NEW w, r.stage # "idle", w.stage # "idle", w.arrival = r.arrival,
           w.called = r.called, Answered(w) <=> Answered(r), Answered(r) => w.status = r.status
    PROVE  Quiet(r, w)
<1>1. PhaseOf(w) = PhaseOf(r) /\ ProverOf(w) = ProverOf(r)
  BY Zenon DEF PhaseOf, ProverOf, Proven
<1>2. AnswerOf(w) = AnswerOf(r)
  <2>1. CASE Answered(r)
    BY <2>1, Zenon DEF Answered, AnswerOf
  <2>2. CASE ~Answered(r)
    BY <2>2, Zenon DEF Answered, AnswerOf
  <2> QED
    BY <2>1, <2>2
<1> QED
  BY <1>1, <1>2 DEF Quiet

LEMMA FirstAnswer ==
    ASSUME NEW r, NEW w, r.stage # "idle", w.stage # "idle", w.arrival = r.arrival,
           w.called = r.called, ~Answered(r), Answered(w), w.status \in Codes,
           w.status = 401 => Proven(r) = NoUser /\ ~r.called,
           w.status \in {201, 410} => r.called
    PROVE  Answers(r, w)
<1>1. /\ PhaseOf(w) = PhaseOf(r) /\ ProverOf(w) = ProverOf(r) /\ PhaseOf(r) # "none"
      /\ r.called => PhaseOf(r) = "acted"
      /\ ~r.called => PhaseOf(r) = "open"
      /\ ProverOf(r) = Proven(r)
  BY DEF PhaseOf, ProverOf, Proven
<1>2. AnswerOf(r) = 0 /\ AnswerOf(w) = w.status
  BY Zenon DEF AnswerOf, Answered
<1> QED
  BY <1>1, <1>2 DEF Answers

(* c.JSON on a request that has no answer yet. *)
LEMMA JSONIsTheAnswer ==
    ASSUME NEW r \in Request, FirstAnswerStands(r), ~Answered(r), NEW code \in Codes,
           NEW id \in RequestIDs, NEW q \in JSON(r, code, id)
    PROVE  /\ q \in Request /\ q.frames = r.frames /\ q.arrival = r.arrival
           /\ q.called = r.called /\ Answered(q) /\ q.status = code
<1>1. /\ q \in Request /\ Beside(r, q) /\ FirstAnswerStands(q) /\ Answered(q)
      /\ AnsweredFirst(q, code, id)
  BY JSONAnswers
<1>2. q.status = q.bodies[1].code /\ q.bodies[1] = [code |-> code, requestID |-> id]
  BY <1>1, Zenon DEF FirstAnswerStands, Answered, AnsweredFirst
<1>3. q.status = code
  BY <1>2
<1> QED
  BY <1>1, <1>3 DEF Beside

(* A handler that has answered returns; so does a middleware. *)
SameToAll(q, w) ==
    /\ w.stage # "idle" /\ w.arrival = q.arrival /\ w.called = q.called
    /\ w.status = q.status /\ (Answered(w) <=> Answered(q))

LEMMA ReturningShowsNothing ==
    ASSUME NEW q \in Request, NEW w, w = Return(q) PROVE SameToAll(q, w)
<1>1. Inner(q, w) /\ Looped(w)
  BY HandlerReturns
<1>2. w.stage # "idle"
  BY <1>1 DEF Looped
<1> QED
  BY <1>1, <1>2 DEF Inner, SameToAll, Answered

LEMMA LeavingShowsNothing ==
    ASSUME NEW q \in Request, q.frames # <<>>, NEW w, w = Leave(q) PROVE SameToAll(q, w)
<1> DEFINE n == Len(q.frames)
<1>1. n \in Nat /\ n # 0
  BY FramesAreThere
<1>2. Inner(q, w) /\ Looped(w)
  BY <1>1, FrameIsLeft
<1>3. w.stage # "idle"
  BY <1>2 DEF Looped
<1> QED
  BY <1>2, <1>3 DEF Inner, SameToAll, Answered

LEMMA CallingNextShowsNothing ==
    ASSUME NEW q \in Request, NEW h \in Handler, NEW w, w = CallNext(q, h)
    PROVE  SameToAll(q, w)
<1>1. Inner(q, w) /\ Looped(w)
  BY NextIsCalled
<1>2. w.stage # "idle"
  BY <1>1 DEF Looped
<1> QED
  BY <1>1, <1>2 DEF Inner, SameToAll, Answered

LEMMA SameIsQuiet ==
    ASSUME NEW r, NEW w, r.stage # "idle", SameToAll(r, w) PROVE Quiet(r, w)
BY StillUnseen DEF SameToAll

LEMMA PanicIsQuiet ==
    ASSUME NEW r \in Request, r.stage # "idle" PROVE Quiet(r, Panic(r))
<1> DEFINE w == Panic(r)
<1>1. /\ w.stage = "unwind" /\ w.arrival = r.arrival /\ w.called = r.called
      /\ w.status = r.status /\ w.bodies = r.bodies
  BY DEF Panic, Request
<1> HIDE DEF w
<1>2. SameToAll(r, w)
  BY <1>1 DEF SameToAll, Answered
<1> QED
  BY <1>2, SameIsQuiet DEF w

(* An answer through c.JSON by a handler that then returns. *)
LEMMA ReplyIsAnAnswer ==
    ASSUME NEW r \in Request, FirstAnswerStands(r), ~Answered(r), r.stage # "idle",
           NEW code \in Codes, NEW id \in RequestIDs, NEW q \in JSON(r, code, id),
           code = 401 => Proven(r) = NoUser /\ ~r.called,
           code \in {201, 410} => r.called,
           NEW w, w = Return(q) \/ w = Return(Abort(q))
    PROVE  Answers(r, w)
<1>1. /\ q \in Request /\ q.arrival = r.arrival /\ q.called = r.called
      /\ Answered(q) /\ q.status = code
  BY JSONIsTheAnswer
<1>2. /\ Abort(q) \in Request /\ Abort(q).arrival = q.arrival /\ Abort(q).called = q.called
      /\ Abort(q).bodies = q.bodies /\ Abort(q).status = q.status
  BY <1>1, AbortedSaysSo DEF Beside
<1>3. SameToAll(q, w)
  <2>1. CASE w = Return(q)
    BY <1>1, <2>1, ReturningShowsNothing
  <2>2. CASE w = Return(Abort(q))
    <3>1. SameToAll(Abort(q), w)
      BY <1>2, <2>2, ReturningShowsNothing
    <3> QED
      BY <1>2, <3>1 DEF SameToAll, Answered
  <2> QED
    BY <2>1, <2>2
<1>4. /\ w.stage # "idle" /\ w.arrival = r.arrival /\ w.called = r.called
      /\ Answered(w) /\ w.status = code
  BY <1>1, <1>3 DEF SameToAll
<1> QED
  BY <1>4, FirstAnswer

(* The handlers. *)

LEMMA EnteringShows ==
    ASSUME NEW c \in Conns, Sound(c), EnterMiddleware(c) \/ RequestContext(c) PROVE Shows(c)
<1> DEFINE r == req[c]
<1>1. r \in Request
  BY DEF Sound
<1>2. CASE EnterMiddleware(c)
  <2>1. PICK h \in {"Recovery", "ErrorHandler", "PrometheusMetrics", "OTel"} :
          At(c, h) /\ Set(c, CallNext(r, h))
    BY <1>2 DEF EnterMiddleware
  <2>2. SameToAll(r, CallNext(r, h)) /\ r.stage # "idle"
    BY <1>1, <2>1, CallingNextShowsNothing DEF Handler, At
  <2> QED
    BY <2>1, <2>2, SameIsQuiet DEF Shows
<1>3. CASE RequestContext(c)
  <2> DEFINE id == IF r.arrival.named THEN "sent" ELSE "generated"
             q == [r EXCEPT !.traceID = id]
  <2>1. At(c, "RequestContext") /\ Set(c, CallNext(q, "RequestContext"))
    BY <1>3 DEF RequestContext
  <2>2. id \in RequestIDs /\ "RequestContext" \in Handler /\ r.stage = "enter"
    BY <2>1 DEF RequestIDs, Handler, At
  <2> HIDE DEF r, id
  <2>3. /\ q \in Request /\ q.arrival = r.arrival /\ q.called = r.called
        /\ q.status = r.status /\ q.bodies = r.bodies
    BY <1>1, <2>2 DEF Request
  <2> HIDE DEF q
  <2>4. SameToAll(q, CallNext(q, "RequestContext"))
    BY <2>2, <2>3, CallingNextShowsNothing
  <2>5. SameToAll(r, CallNext(q, "RequestContext"))
    BY <2>3, <2>4 DEF SameToAll, Answered
  <2>6. Quiet(r, CallNext(q, "RequestContext"))
    BY <2>2, <2>5, SameIsQuiet
  <2> QED
    BY <2>1, <2>6 DEF Shows, r
<1> QED
  BY <1>2, <1>3

(* A rejected request proves nobody's identity. *)
LEMMA RejectedProvesNobody ==
    ASSUME NEW r \in Request, r.arrival.authorization # "bearer" \/ ValidateToken(r.arrival.token) # "nil"
    PROVE  Proven(r) = NoUser
<1>1. ~Proves(r.arrival, r.arrival.token.user)
  BY DEF Proves, ValidateToken, ParseError, Request, Arrival, Token
<1> QED
  BY <1>1 DEF Proven

LEMMA AuthenticatingShows ==
    ASSUME NEW c \in Conns, Sound(c), Authenticate(c) PROVE Shows(c)
<1> DEFINE r == req[c]
           a == r.arrival
           q == [r EXCEPT !.user = a.token.user]
<1>1. /\ r.stage = "enter"
      /\ \/ /\ a.authorization # "bearer" \/ ValidateToken(a.token) # "nil"
            /\ \E w \in AbortJSON(r, 401, TraceIDOfGinContext(r)) : Set(c, Return(w))
         \/ Set(c, CallNext(q, "Authenticate"))
         \/ Set(c, Panic(r))
  BY DEF Authenticate, At
<1>2. r \in Request /\ ~r.called /\ FirstAnswerStands(r) /\ ~Answered(r)
  <2>1. r.stage \in {"enter", "service"}
    BY <1>1
  <2> QED
    BY <1>1, <2>1, Upright DEF Sound, RequestInv, UserOK
<1>3. CASE /\ a.authorization # "bearer" \/ ValidateToken(a.token) # "nil"
           /\ \E w \in AbortJSON(r, 401, TraceIDOfGinContext(r)) : Set(c, Return(w))
  <2>1. PICK j \in JSON(r, 401, TraceIDOfGinContext(r)) : Set(c, Return(Abort(j)))
    BY <1>3 DEF AbortJSON
  <2>2. /\ 401 \in Codes /\ TraceIDOfGinContext(r) \in RequestIDs /\ 401 \notin {201, 410}
        /\ r.stage # "idle"
    BY <1>1 DEF Codes, RequestIDs, TraceIDOfGinContext
  <2>3. Proven(r) = NoUser
    BY <1>2, <1>3, RejectedProvesNobody
  <2> HIDE DEF r
  <2>4. Answers(r, Return(Abort(j)))
    BY <1>2, <2>1, <2>2, <2>3, ReplyIsAnAnswer
  <2> QED
    BY <2>1, <2>4 DEF Shows, r
<1>4. CASE Set(c, CallNext(q, "Authenticate"))
  <2>1. a.token.user \in Users \cup {NoUser} /\ "Authenticate" \in Handler
    BY <1>2 DEF Request, Arrival, Token, Handler
  <2> HIDE DEF r
  <2>2. /\ q \in Request /\ q.arrival = r.arrival /\ q.called = r.called
        /\ q.status = r.status /\ q.bodies = r.bodies
    BY <1>2, <2>1 DEF Request
  <2> HIDE DEF q
  <2>3. SameToAll(q, CallNext(q, "Authenticate"))
    BY <2>1, <2>2, CallingNextShowsNothing
  <2>4. SameToAll(r, CallNext(q, "Authenticate"))
    BY <2>2, <2>3 DEF SameToAll, Answered
  <2>5. Quiet(r, CallNext(q, "Authenticate"))
    BY <1>1, <2>4, SameIsQuiet
  <2> QED
    BY <1>4, <2>5 DEF Shows, r
<1>5. CASE Set(c, Panic(r))
  BY <1>1, <1>2, <1>5, PanicIsQuiet DEF Shows
<1> QED
  BY <1>1, <1>3, <1>4, <1>5

LEMMA UploadHandlerShows ==
    ASSUME NEW c \in Conns, Sound(c), UploadHandler(c) PROVE Shows(c)
<1> DEFINE r == req[c]
           s == [r EXCEPT !.stage = "service", !.called = TRUE]
<1>1. /\ r.stage = "enter" /\ Chain[r.arrival.route][r.index] = "UploadHandler"
      /\ \/ \E q \in JSON(r, 400, r.traceID) : Set(c, Return(q))
         \/ Set(c, s)
  BY DEF UploadHandler, At
<1>2. /\ r \in Request /\ ~r.called /\ FirstAnswerStands(r) /\ ~Answered(r)
      /\ r.arrival.route = "upload" /\ Proves(r.arrival, r.user)
  <2>1. r.stage \in {"enter", "service"}
    BY <1>1
  <2>2. UserOK(r)
    BY DEF Sound, RequestInv
  <2> QED
    BY <1>1, <2>1, <2>2, Upright DEF Sound, UserOK
<1>3. CASE \E q \in JSON(r, 400, r.traceID) : Set(c, Return(q))
  <2>1. PICK q \in JSON(r, 400, r.traceID) : Set(c, Return(q))
    BY <1>3
  <2>2. /\ 400 \in Codes /\ r.traceID \in RequestIDs /\ 400 \notin {201, 401, 410}
        /\ r.stage # "idle"
    BY <1>1, <1>2 DEF Codes, ServiceCodes, Request
  <2> HIDE DEF r
  <2>3. Answers(r, Return(q))
    BY <1>2, <2>1, <2>2, ReplyIsAnAnswer
  <2> QED
    BY <2>1, <2>3 DEF Shows, r
<1>4. CASE Set(c, s)
  <2>1. Proven(r) = r.arrival.token.user /\ r.arrival.token.user \in Users
    BY <1>2 DEF Proven, Proves, Request, Arrival, Token
  <2> HIDE DEF r
  <2>2. /\ s.stage = "service" /\ s.called = TRUE /\ s.arrival = r.arrival
        /\ s.status = r.status /\ s.bodies = r.bodies
    BY <1>2 DEF Request
  <2> HIDE DEF s
  <2>3. /\ PhaseOf(r) = "open" /\ PhaseOf(s) = "acted" /\ ProverOf(s) = ProverOf(r)
        /\ ProverOf(r) # NoUser
    BY <1>1, <1>2, <2>1, <2>2, NoUserAssumption DEF PhaseOf, ProverOf, Proven
  <2>4. AnswerOf(r) = 0 /\ AnswerOf(s) = AnswerOf(r)
    BY <1>2, <2>2, Zenon DEF AnswerOf, Answered
  <2>5. Acts(r, s)
    BY <2>3, <2>4 DEF Acts
  <2> QED
    BY <1>4, <2>5 DEF Shows, r
<1> QED
  BY <1>1, <1>3, <1>4

LEMMA ServiceReturnsShows ==
    ASSUME NEW c \in Conns, Sound(c), ServiceReturns(c) PROVE Shows(c)
<1> DEFINE r == req[c]
<1>1. /\ r.stage = "service"
      /\ \/ \E code \in ServiceCodes :
              \E w \in JSON(r, code, IF code < 400 THEN "none" ELSE r.traceID) :
                  Set(c, Return(w))
         \/ Set(c, Panic(r))
  BY DEF ServiceReturns
<1>2. r \in Request /\ r.called /\ FirstAnswerStands(r) /\ ~Answered(r)
  <2>1. r.stage \in {"enter", "service"}
    BY <1>1
  <2>2. UserOK(r)
    BY DEF Sound, RequestInv
  <2> QED
    BY <1>1, <2>1, <2>2, Upright DEF Sound, UserOK
<1>3. ASSUME NEW code \in ServiceCodes,
             NEW q \in JSON(r, code, IF code < 400 THEN "none" ELSE r.traceID),
             Set(c, Return(q))
      PROVE  Shows(c)
  <2>1. code \in Codes /\ code # 401 /\ r.stage # "idle"
    BY <1>1 DEF Codes, ServiceCodes
  <2>2. (IF code < 400 THEN "none" ELSE r.traceID) \in RequestIDs
    <3>1. "none" \in RequestIDs /\ r.traceID \in RequestIDs
      BY <1>2 DEF RequestIDs, Request
    <3> QED
      BY <3>1, Zenon
  <2> HIDE DEF r
  <2>3. Answers(r, Return(q))
    BY <1>2, <1>3, <2>1, <2>2, ReplyIsAnAnswer
  <2> QED
    BY <1>3, <2>3 DEF Shows, r
<1>4. CASE Set(c, Panic(r))
  BY <1>1, <1>2, <1>4, PanicIsQuiet DEF Shows
<1> QED
  BY <1>1, <1>3, <1>4

LEMMA PublicHandlerShows ==
    ASSUME NEW c \in Conns, Sound(c), PublicHandler(c) PROVE Shows(c)
<1> DEFINE r == req[c]
<1>1. r.stage = "enter" /\ (\/ \E code \in PublicCodes : Set(c, Return(Written(r, code, "none")))
                         \/ Set(c, Panic(r)))
  BY DEF PublicHandler, At
<1>2. r \in Request /\ ~Answered(r) /\ r.errors = 0
  <2>1. r.stage \in {"enter", "service"}
    BY <1>1
  <2> QED
    BY <2>1, Upright DEF Sound
<1>3. ASSUME NEW code \in PublicCodes, Set(c, Return(Written(r, code, "none")))
      PROVE  Shows(c)
  <2> DEFINE p == Written(r, code, "none")
  <2>1. code \in Codes /\ "none" \in RequestIDs /\ code \notin {201, 401, 410}
    BY DEF PublicCodes, Codes, ServiceCodes, RequestIDs
  <2> HIDE DEF r
  <2>2. /\ p \in Request /\ Beside(r, p) /\ Answered(p) /\ p.status = code
    BY <1>2, <2>1, WritingFirst
  <2>5. Set(c, Return(p))
    BY <1>3
  <2> HIDE DEF p
  <2>3. SameToAll(p, Return(p))
    BY <2>2, ReturningShowsNothing
  <2>4. Answers(r, Return(p))
    BY <1>1, <1>2, <2>1, <2>2, <2>3, FirstAnswer DEF Beside, SameToAll
  <2> QED
    BY <2>5, <2>4 DEF Shows, r
<1>4. CASE Set(c, Panic(r))
  BY <1>1, <1>2, <1>4, PanicIsQuiet DEF Shows
<1> QED
  BY <1>1, <1>3, <1>4

(* On the way out. *)

LEMMA WritingAgainShows ==
    ASSUME NEW r \in Request, RequestInv(r), r.stage = "after", r.frames # <<>>,
           NEW q \in ReportErrors(r)
    PROVE  Quiet(r, Leave(q))
<1>1. FirstAnswerStands(r)
  BY FirstAnswerStandsAnyway DEF RequestInv
<1>2. CASE r.errors > 0
  <2>1. Answered(r) /\ q \in JSON(r, 400, r.traceID)
    <3>1. r.errors # 0
      BY <1>2
    <3>2. Answered(r)
      BY <1>1, <3>1, Zenon DEF Answered, FirstAnswerStands
    <3> QED
      BY <1>2, <3>2 DEF ReportErrors
  <2>2. 400 \in Codes /\ r.traceID \in RequestIDs
    BY DEF Codes, ServiceCodes, Request
  <2>3. /\ q \in Request /\ Outside(r, q) /\ Answered(q) /\ q.status = r.status
    <3>1. /\ q \in Request /\ Beside(r, q) /\ Answered(q) /\ SameAnswer(r, q)
      BY <1>1, <1>2, <2>1, <2>2, JSONAnswers
    <3> QED
      BY <1>1, <1>2, <2>1, <2>2, <3>1, AnsweringAgain DEF SameAnswer
  <2>4. q.frames # <<>> /\ q.arrival = r.arrival /\ q.called = r.called
    BY <2>3 DEF Outside
  <2>5. SameToAll(q, Leave(q))
    BY <2>3, <2>4, LeavingShowsNothing
  <2>6. SameToAll(r, Leave(q))
    BY <2>1, <2>3, <2>4, <2>5 DEF SameToAll
  <2> QED
    BY <2>6, SameIsQuiet
<1>3. CASE ~(r.errors > 0)
  <2>1. q = r
    BY <1>3 DEF ReportErrors
  <2> QED
    BY <2>1, LeavingShowsNothing, SameIsQuiet
<1> QED
  BY <1>2, <1>3

LEMMA AfterNextShows ==
    ASSUME NEW c \in Conns, Sound(c), AfterNext(c) PROVE Shows(c)
<1> DEFINE r == req[c]
           m == RecordMetrics(r)
<1>1. /\ r.stage = "after" /\ r.frames # <<>>
      /\ \/ Set(c, Leave(m))
         \/ \E w \in ReportErrors(r) : Set(c, Leave(w))
         \/ Set(c, Leave(r))
  BY DEF AfterNext
<1>2. r \in Request /\ RequestInv(r)
  BY DEF Sound
<1>3. CASE Set(c, Leave(m))
  <2> HIDE DEF r
  <2>1. Append(r.counted, r.status) \in Seq(Codes)
    BY <1>2, AppendProperties DEF Request
  <2>2. /\ m \in Request /\ m.frames = r.frames /\ m.arrival = r.arrival
        /\ m.called = r.called /\ m.bodies = r.bodies /\ m.status = r.status
    BY <1>2, <2>1 DEF RecordMetrics, Request
  <2> HIDE DEF m
  <2>3. SameToAll(m, Leave(m))
    BY <1>1, <2>2, LeavingShowsNothing
  <2>4. SameToAll(r, Leave(m))
    BY <2>2, <2>3 DEF SameToAll, Answered
  <2>5. Quiet(r, Leave(m))
    BY <1>1, <2>4, SameIsQuiet
  <2> QED
    BY <1>3, <2>5 DEF Shows, r
<1>4. ASSUME NEW w \in ReportErrors(r), Set(c, Leave(w)) PROVE Shows(c)
  BY <1>1, <1>2, <1>4, WritingAgainShows DEF Shows
<1>5. CASE Set(c, Leave(r))
  BY <1>1, <1>2, <1>5, LeavingShowsNothing, SameIsQuiet DEF Shows
<1> QED
  BY <1>1, <1>3, <1>4, <1>5

LEMMA UnwindShows ==
    ASSUME NEW c \in Conns, Sound(c), Unwind(c) PROVE Shows(c)
<1> DEFINE r == req[c]
           h == Top(r)
           n == Len(r.frames)
           w == [r EXCEPT !.frames = SubSeq(@, 1, Len(@) - 1)]
<1>1. /\ r.stage = "unwind" /\ r.frames # <<>>
      /\ \/ h = "ErrorHandler" /\ \E q \in Recovered(r) : Set(c, Leave(q))
         \/ h = "Recovery"
         \/ h # "ErrorHandler" /\ h # "Recovery" /\ Set(c, w)
  BY DEF Unwind
<1>2. r \in Request /\ RequestInv(r)
  BY DEF Sound
<1>3. n \in Nat /\ n # 0 /\ n = Len(r.frames) /\ n >= 3
  <2>1. n >= 3
    BY <1>1, <1>2 DEF RequestInv, FramesOK
  <2> QED
    BY <1>1, <1>2, <2>1, FramesAreThere
<1> HIDE DEF r
<1>4. h # "Recovery"
  <2>1. FramesOK(r)
    BY <1>2 DEF RequestInv
  <2>2. h = "Recovery" <=> n = 1
    BY <1>2, <1>3, <2>1, TopOfFrames
  <2>3. n # 1
    <3>1. n >= 3 /\ n \in Nat
      BY <1>3
    <3> HIDE DEF n, w, h
    <3> QED
      BY <3>1
  <2> QED
    BY <2>2, <2>3, Zenon
<1>5. FirstAnswerStands(r) /\ ~Answered(r)
  BY <1>1, <1>2, FirstAnswerStandsAnyway, NothingIsAnsweredInAPanic DEF RequestInv, Answered
<1>6. ASSUME NEW q \in Recovered(r), Set(c, Leave(q)) PROVE Shows(c)
  <2>1. PICK j \in JSON(r, 500, r.traceID) : q = Abort(j)
    BY DEF Recovered, AbortJSON
  <2>2. 500 \in Codes /\ r.traceID \in RequestIDs /\ 500 \notin {201, 401, 410}
    BY <1>2 DEF Codes, ServiceCodes, Request
  <2>3. /\ j \in Request /\ j.frames = r.frames /\ j.arrival = r.arrival
        /\ j.called = r.called /\ Answered(j) /\ j.status = 500
    BY <1>2, <1>5, <2>2, JSONIsTheAnswer
  <2>4. /\ q \in Request /\ q.frames = j.frames /\ q.arrival = j.arrival
        /\ q.called = j.called /\ q.bodies = j.bodies /\ q.status = j.status
    BY <2>1, <2>3, AbortedSaysSo DEF Beside
  <2>5. SameToAll(q, Leave(q)) /\ Answered(q)
    BY <1>1, <2>3, <2>4, LeavingShowsNothing DEF Answered
  <2>6. Answers(r, Leave(q))
    BY <1>1, <1>5, <2>2, <2>3, <2>4, <2>5, FirstAnswer DEF SameToAll
  <2> QED
    BY <1>6, <2>6 DEF Shows, r
<1>7. CASE Set(c, w)
  <2> DEFINE s == SubSeq(r.frames, 1, Len(r.frames) - 1)
  <2> HIDE DEF s
  <2>1. w = [r EXCEPT !.frames = s]
    BY DEF s
  <2> HIDE DEF w
  <2>2. /\ w.stage = r.stage /\ w.arrival = r.arrival /\ w.called = r.called
        /\ w.status = r.status /\ w.bodies = r.bodies
    BY <1>2, <2>1 DEF Request
  <2>3. SameToAll(r, w)
    BY <1>1, <2>2 DEF SameToAll, Answered
  <2>4. Quiet(r, w)
    BY <1>1, <2>3, SameIsQuiet
  <2> QED
    BY <1>7, <2>4 DEF Shows, r
<1> QED
  BY <1>1, <1>4, <1>6, <1>7

LEMMA FinishShows ==
    ASSUME NEW c \in Conns, Sound(c), Finish(c) PROVE Shows(c)
<1> DEFINE r == req[c]
           q == IF r.arrival.route = "unmatched" /\ r.bodies = <<>>
                THEN Written(r, 404, "none") ELSE r
           w == [q EXCEPT !.stage = "done"]
<1>1. r.stage = "after" /\ r.frames = <<>> /\ Set(c, w)
  BY DEF Finish
<1>2. r \in Request /\ RequestInv(r)
  BY DEF Sound
<1> HIDE DEF r
<1>3. /\ q \in Request /\ Beside(r, q) /\ Answered(q) /\ q.status = r.status
      /\ ~Answered(r) => r.status = 404
  <2>1. q \in Request /\ Beside(r, q) /\ Answered(q) /\ q.status = r.status
    BY <1>1, <1>2, EngineAnswers
  <2>2. r.bodies = <<>> => r.status = 404
    BY <1>1, <1>2, AnswerOnTheWayOutIs DEF RequestInv
  <2> QED
    BY <2>1, <2>2, Zenon DEF Answered
<1> HIDE DEF q
<1>4. /\ w.stage = "done" /\ w.arrival = q.arrival /\ w.called = q.called
      /\ w.status = q.status /\ w.bodies = q.bodies
  BY <1>3 DEF Request
<1> HIDE DEF w
<1>5. /\ w.stage # "idle" /\ r.stage # "idle" /\ w.arrival = r.arrival
      /\ w.called = r.called /\ w.status = r.status /\ Answered(w)
  BY <1>1, <1>3, <1>4 DEF Beside, Answered
<1>6. CASE Answered(r)
  BY <1>1, <1>5, <1>6, StillUnseen DEF Shows, r
<1>7. CASE ~Answered(r)
  <2>1. w.status = 404 /\ 404 \in Codes /\ 404 \notin {201, 401, 410}
    BY <1>3, <1>5, <1>7 DEF Codes, ServiceCodes
  <2>2. Answers(r, w)
    BY <1>5, <1>7, <2>1, FirstAnswer
  <2> QED
    BY <1>1, <2>2 DEF Shows, r
<1> QED
  BY <1>6, <1>7

(* A free connection shows nothing. *)
Blank(r) == PhaseOf(r) = "none" /\ ProverOf(r) = NoUser /\ AnswerOf(r) = 0

LEMMA IdleIsBlank == ASSUME NEW r, AnswerOK(r), r.stage = "idle" PROVE Blank(r)
<1>1. r.bodies = <<>>
  BY Zenon DEF AnswerOK
<1> QED
  BY <1>1 DEF Blank, PhaseOf, ProverOf, AnswerOf

LEMMA FreeIsBlank == Blank(Free)
BY FreeIsSound, IdleIsBlank DEF RequestInv

LEMMA ReleaseShows ==
    ASSUME NEW c \in Conns, Sound(c), Release(c) PROVE Shows(c)
<1> DEFINE r == req[c]
<1>1. r.stage = "done" /\ Set(c, Free)
  BY DEF Release
<1>2. AnswerOK(r) /\ r.status \in Codes
  BY DEF Sound, RequestInv, Request
<1> HIDE DEF r
<1>3. Answered(r)
  BY <1>1, <1>2, Zenon DEF AnswerOK, Answered
<1>4. AnswerOf(r) = r.status
  BY <1>3, Zenon DEF Answered, AnswerOf
<1>5. AnswerOf(r) # 0
  BY <1>2, <1>4 DEF Codes, ServiceCodes
<1>6. Closes(r, Free)
  BY <1>5, FreeIsBlank DEF Closes, Blank
<1> QED
  BY <1>1, <1>6 DEF Shows, r

LEMMA HandlingShows == ASSUME NEW c \in Conns, Sound(c), Handle(c) PROVE Shows(c)
BY EnteringShows, AuthenticatingShows, UploadHandlerShows, ServiceReturnsShows,
   PublicHandlerShows, AfterNextShows, UnwindShows, FinishShows, ReleaseShows DEF Handle

-----------------------------------------------------------------------------
(* The process. *)

LEMMA AcceptIsTaken == ASSUME ServerInv, NEW c \in Conns, Accept(c) PROVE ContractStep
<1> DEFINE r == req[c]
<1>1. PICK a \in Arrivals : Set(c, Loop(Idle(a)))
  BY DEF Accept, Receive
<1>2. /\ phase = "serving" /\ phase' = phase /\ r.stage = "idle" /\ AnswerOK(r)
      /\ PipelineTypeOK /\ a \in Arrival
  BY ArrivalsAssumption DEF Accept, Receive, lifeVars, ServerInv, RequestInv
<1> DEFINE i == Idle(a)
           w == Loop(i)
<1>3. /\ i \in Request /\ i.arrival = a /\ i.called = FALSE /\ i.bodies = <<>>
  BY <1>2, FreeConnection DEF Idle
<1> HIDE DEF r, i
<1>4. Inner(i, w) /\ Looped(w)
  BY <1>3, LoopGoesOn
<1> HIDE DEF w
<1>5. w.stage # "idle" /\ w.called = FALSE /\ w.bodies = <<>> /\ w.arrival = a
  BY <1>3, <1>4 DEF Inner, Looped
<1>6. PhaseOf(w) = "open" /\ AnswerOf(w) = 0 /\ ProverOf(w) \in Users \cup {NoUser}
  BY <1>2, <1>5 DEF PhaseOf, AnswerOf, ProverOf, Proven, Arrival, Token
<1>7. Takes(r, w)
  BY <1>2, <1>6, IdleIsBlank DEF Takes, Blank
<1>8. Process = "serving" /\ Process' = Process
  BY <1>2 DEF Process, Startup
<1> QED
  BY <1>1, <1>2, <1>7, <1>8, TakeIsTaken DEF r, w, i

LEMMA StepIsAllowed == ASSUME ServerInv, NEW c \in Conns, Step(c) PROVE ContractStep
<1>1. Process' = Process /\ PipelineTypeOK
  BY DEF Step, Process, ServerInv
<1>2. Shows(c)
  BY EveryoneIsSound, HandlingShows DEF Step
<1> QED
  BY <1>1, <1>2, ShownIsAllowed

(* Outside of serving there are no exchanges. *)
NoExchanges ==
    /\ Exchanges = [c \in Conns |-> "none"] /\ Provers = [c \in Conns |-> NoUser]
    /\ Told = [c \in Conns |-> 0]

LEMMA BlankAreNone == ASSUME \A c \in Conns : Blank(req[c]) PROVE NoExchanges
BY DEF Blank, NoExchanges, Exchanges, Provers, Told

LEMMA NoneOutsideOfServing ==
    ASSUME ServerInv, phase \notin {"serving", "returning"} PROVE NoExchanges
BY BlankAreNone, IdleIsBlank DEF ServerInv, RequestInv

LEMMA NoneAfterTheEnd == ASSUME req' = [c \in Conns |-> Free] PROVE NoExchanges'
<1>1. \A c \in Conns : Blank(req'[c])
  BY FreeIsBlank
<1>2. (\A c \in Conns : Blank(req[c]))' => NoExchanges'
  BY BlankAreNone, PTL
<1> QED
  BY <1>1, <1>2 DEF Blank, PhaseOf, ProverOf, AnswerOf, Proven

LEMMA SameRequests ==
    ASSUME req' = req PROVE Exchanges' = Exchanges /\ Provers' = Provers /\ Told' = Told
BY DEF Exchanges, Provers, Told, PhaseOf, ProverOf, AnswerOf, Proven

LEMMA ProcessEnds ==
    ASSUME Process # "ended", Process' = "ended", NoExchanges' PROVE ContractStep
<1>1. Contract!End
  BY Zenon DEF Contract!End, NoExchanges, Exchanges, Provers, Told, Process, PhaseOf,
     ProverOf, AnswerOf
<1> QED
  BY <1>1 DEF ContractStep, Contract!Next

LEMMA ProcessMoves ==
    ASSUME UNCHANGED <<Exchanges, Provers, Told>>,
           \/ Process = "starting" /\ Process' = "serving"
           \/ Process = "serving" /\ Process' = "draining"
           \/ Process = "ended" /\ Process' = "starting"
    PROVE  ContractStep
<1>1. Contract!Serve \/ Contract!Drain \/ Contract!Restart
  BY Zenon DEF Contract!Serve, Contract!Drain, Contract!Restart, Exchanges, Provers, Told,
     Process, PhaseOf, ProverOf, AnswerOf
<1> QED
  BY <1>1 DEF ContractStep, Contract!Next

LEMMA LiveIsAllowed == ASSUME ServerInv, Live PROVE ContractStep
<1>1. LifeGoesOn /\ req' = req
  BY DEF Live
<1>2. Exchanges' = Exchanges /\ Provers' = Provers /\ Told' = Told
  BY <1>1, SameRequests
<1>3. CASE Process' = Process
  BY <1>2, <1>3, NothingIsSeen
<1>4. CASE LoadKey
  <2>1. Process = "starting" /\ Process' = "serving"
    BY <1>4 DEF LoadKey, Process, Startup
  <2> QED
    BY <1>2, <2>1, ProcessMoves
<1>5. CASE RunFails
  <2>1. Process = "serving" /\ Process' = "draining"
    BY <1>5 DEF RunFails, Process, Startup
  <2> QED
    BY <1>2, <2>1, ProcessMoves
<1>6. CASE Restart
  <2>1. Process = "ended" /\ Process' = "starting"
    BY <1>6 DEF Restart, Process, Startup, Ended
  <2> QED
    BY <1>2, <2>1, ProcessMoves
<1>7. CASE GetSecretPanics
  <2>1. Process = "starting" /\ Process' = "ended" /\ phase \notin {"serving", "returning"}
    BY <1>7 DEF GetSecretPanics, Process, Startup
  <2>2. NoExchanges
    BY <2>1, NoneOutsideOfServing
  <2>3. NoExchanges'
    BY <1>2, <2>2 DEF NoExchanges
  <2> QED
    BY <2>1, <2>3, ProcessEnds
<1>8. Process' = Process \/ LoadKey \/ RunFails \/ Restart \/ GetSecretPanics
  <2>1. ASSUME phase \in Startup, phase' \in Startup PROVE Process' = Process
    BY <2>1 DEF Process
  <2>2. ASSUME phase' = phase PROVE Process' = Process
    BY <2>2 DEF Process
  <2> QED
    BY <1>1, <2>1, <2>2 DEF LifeGoesOn, LoadConfig, NewLogger, InitTracerStep,
       NewTracerProvider, CheckProject, NewGCSClient, NewFirestoreClient, NewSecretsClient,
       Acquire, ExportBatch, RunDeferred, Startup
<1> QED
  BY <1>3, <1>4, <1>5, <1>6, <1>7, <1>8

LEMMA EndIsAllowed == ASSUME ServerInv, End PROVE ContractStep
<1>1. LifeEnds /\ req' = [c \in Conns |-> Free]
  BY DEF End
<1>2. NoExchanges'
  BY <1>1, NoneAfterTheEnd
<1>3. Process' = "ended"
  BY <1>1 DEF LifeEnds, Fatal, Exit, Signal, Process, Startup
<1>4. CASE Process # "ended"
  BY <1>2, <1>3, <1>4, ProcessEnds
<1>5. CASE Process = "ended"
  <2>1. phase \notin {"serving", "returning"}
    BY <1>5 DEF Process, Startup
  <2>2. NoExchanges
    BY <2>1, NoneOutsideOfServing
  <2>3. Exchanges' = Exchanges /\ Provers' = Provers /\ Told' = Told
    BY <1>2, <2>2 DEF NoExchanges
  <2> QED
    BY <1>3, <1>5, <2>3, NothingIsSeen
<1> QED
  BY <1>4, <1>5

LEMMA StutteringIsNothing == ASSUME UNCHANGED vars PROVE ContractStep
<1>1. req' = req /\ phase' = phase
  BY DEF vars, lifeVars
<1>2. Process' = Process
  BY <1>1 DEF Process
<1> QED
  BY <1>1, <1>2, SameRequests, NothingIsSeen

LEMMA ContractStarts == Init => Contract!Init
<1> SUFFICES ASSUME Init PROVE Contract!Init
  OBVIOUS
<1>1. NoExchanges
  BY FreeIsBlank, BlankAreNone DEF Init
<1>2. Process = "starting"
  BY DEF Init, LifespanInit, Process, Startup
<1> QED
  BY <1>1, <1>2, Zenon DEF Contract!Init, NoExchanges, Exchanges, Provers, Told, Process,
     PhaseOf, ProverOf, AnswerOf

(* The server keeps the contract, for any requests, any number of them in flight   *)
(* and wherever main is when they come, fail or panic (main(), SetupRoutes, the   *)
(* middlewares and the handlers).                                                *)
THEOREM ServerKeepsContract == Spec => KeepsContract
<1>1. ServerInv /\ [Next]_vars => [Contract!Next]_(Contract!contractVars)
  <2> SUFFICES ASSUME ServerInv, [Next]_vars PROVE ContractStep
    BY DEF ContractStep
  <2>1. CASE \E c \in Conns : Accept(c) \/ Step(c)
    BY <2>1, AcceptIsTaken, StepIsAllowed
  <2>2. CASE Live
    BY <2>2, LiveIsAllowed
  <2>3. CASE End
    BY <2>3, EndIsAllowed
  <2>4. CASE UNCHANGED vars
    BY <2>4, StutteringIsNothing
  <2> QED
    BY <2>1, <2>2, <2>3, <2>4 DEF Next
<1> QED
  BY <1>1, ServerIsInvariant, ContractStarts, PTL DEF Spec, KeepsContract, Contract!Spec

-----------------------------------------------------------------------------
(* What a client may conclude from the contract alone.                          *)

(* What the contract keeps true of an exchange in each phase.                   *)
ExchangesOK ==
    \A c \in Conns :
        /\ Exchanges[c] = "none" => Told[c] = 0
        /\ Told[c] = 401 => Provers[c] = NoUser /\ Exchanges[c] # "acted"
        /\ Told[c] \in {201, 410} => Exchanges[c] = "acted"

(* A change of one exchange, said of the three functions. *)
Replaced(c, exchange, prover, told) ==
    /\ Exchanges' = [Exchanges EXCEPT ![c] = exchange]
    /\ Provers' = [Provers EXCEPT ![c] = prover]
    /\ Told' = [Told EXCEPT ![c] = told]

LEMMA ReplacedKeeps ==
    ASSUME ExchangesOK, NEW c \in Conns, NEW exchange, NEW prover, NEW told,
           Replaced(c, exchange, prover, told),
           exchange = "none" => told = 0,
           told = 401 => prover = NoUser /\ exchange # "acted",
           told \in {201, 410} => exchange = "acted"
    PROVE  ExchangesOK'
<1>1. /\ Exchanges = [d \in Conns |-> Exchanges[d]]
      /\ Provers = [d \in Conns |-> Provers[d]]
      /\ Told = [d \in Conns |-> Told[d]]
  BY DEF Exchanges, Provers, Told
<1>2. /\ Exchanges'[c] = exchange /\ Provers'[c] = prover /\ Told'[c] = told
      /\ \A d \in Conns : d # c => /\ Exchanges'[d] = Exchanges[d]
                                   /\ Provers'[d] = Provers[d] /\ Told'[d] = Told[d]
  BY <1>1 DEF Replaced
<1>3. ASSUME NEW d \in Conns
      PROVE  /\ Exchanges'[d] = "none" => Told'[d] = 0
             /\ Told'[d] = 401 => Provers'[d] = NoUser /\ Exchanges'[d] # "acted"
             /\ Told'[d] \in {201, 410} => Exchanges'[d] = "acted"
  BY <1>2 DEF ExchangesOK
<1> QED
  BY <1>3 DEF ExchangesOK

LEMMA TakingKeeps == ASSUME ExchangesOK, NEW c \in Conns, Contract!Take(c) PROVE ExchangesOK'
<1>1. /\ Exchanges[c] = "none" /\ Exchanges' = [Exchanges EXCEPT ![c] = "open"]
      /\ \E u \in Users \cup {NoUser} : Provers' = [Provers EXCEPT ![c] = u]
      /\ Told' = Told
  BY Zenon DEF Contract!Take, Exchanges, Provers, Told, PhaseOf, ProverOf, AnswerOf
<1>2. PICK u : Provers' = [Provers EXCEPT ![c] = u]
  BY <1>1
<1>3. Told' = [Told EXCEPT ![c] = Told[c]] /\ Told[c] = 0
  BY <1>1, SameValue DEF ExchangesOK
<1>4. Replaced(c, "open", u, 0)
  BY <1>1, <1>2, <1>3 DEF Replaced
<1> QED
  BY <1>4, ReplacedKeeps

LEMMA ActingKeeps == ASSUME ExchangesOK, NEW c \in Conns, Contract!Act(c) PROVE ExchangesOK'
<1>1. /\ Told[c] = 0 /\ Exchanges' = [Exchanges EXCEPT ![c] = "acted"]
      /\ UNCHANGED <<Provers, Told>>
  BY Zenon DEF Contract!Act, Exchanges, Provers, Told, PhaseOf, ProverOf, AnswerOf
<1>2. /\ Provers' = [Provers EXCEPT ![c] = Provers[c]]
      /\ Told' = [Told EXCEPT ![c] = Told[c]]
  BY <1>1, SameValue
<1>3. Replaced(c, "acted", Provers[c], 0)
  BY <1>1, <1>2 DEF Replaced
<1> QED
  BY <1>3, ReplacedKeeps

LEMMA AnsweringKeeps == ASSUME ExchangesOK, NEW c \in Conns, Contract!Answer(c) PROVE ExchangesOK'
<1>1. /\ Exchanges[c] # "none"
      /\ \E code \in Codes :
           /\ Told' = [Told EXCEPT ![c] = code]
           /\ code = 401 => Provers[c] = NoUser /\ Exchanges[c] = "open"
           /\ code \in {201, 410} => Exchanges[c] = "acted"
      /\ UNCHANGED <<Exchanges, Provers>>
  BY Zenon DEF Contract!Answer, Exchanges, Provers, Told, PhaseOf, ProverOf, AnswerOf
<1>2. PICK code : /\ Told' = [Told EXCEPT ![c] = code]
                  /\ code = 401 => Provers[c] = NoUser /\ Exchanges[c] = "open"
                  /\ code \in {201, 410} => Exchanges[c] = "acted"
  BY <1>1
<1>3. /\ Exchanges' = [Exchanges EXCEPT ![c] = Exchanges[c]]
      /\ Provers' = [Provers EXCEPT ![c] = Provers[c]]
  BY <1>1, SameValue
<1>4. Replaced(c, Exchanges[c], Provers[c], code)
  BY <1>2, <1>3 DEF Replaced
<1> QED
  BY <1>1, <1>2, <1>4, ReplacedKeeps

LEMMA ClosingKeeps == ASSUME ExchangesOK, NEW c \in Conns, Contract!Close(c) PROVE ExchangesOK'
<1>1. Replaced(c, "none", NoUser, 0)
  BY Zenon DEF Replaced, Contract!Close, Exchanges, Provers, Told, PhaseOf, ProverOf, AnswerOf
<1> QED
  BY <1>1, ReplacedKeeps

LEMMA NoExchangesAreOK == ASSUME NoExchanges PROVE ExchangesOK
<1>1. ASSUME NEW c \in Conns PROVE Exchanges[c] = "none" /\ Told[c] = 0
  BY Zenon DEF NoExchanges
<1>2. ASSUME NEW c \in Conns
      PROVE  /\ Exchanges[c] = "none" => Told[c] = 0
             /\ Told[c] = 401 => Provers[c] = NoUser /\ Exchanges[c] # "acted"
             /\ Told[c] \in {201, 410} => Exchanges[c] = "acted"
  BY <1>1
<1> QED
  BY <1>2 DEF ExchangesOK

LEMMA EndingKeeps == ASSUME Contract!End PROVE ExchangesOK'
<1>1. NoExchanges'
  BY Zenon DEF Contract!End, NoExchanges, Exchanges, Provers, Told, PhaseOf, ProverOf, AnswerOf
<1>2. NoExchanges' => ExchangesOK'
  BY NoExchangesAreOK, PTL
<1> QED
  BY <1>1, <1>2

LEMMA SameExchangesKeep ==
    ASSUME ExchangesOK, UNCHANGED <<Exchanges, Provers, Told>> PROVE ExchangesOK'
BY DEF ExchangesOK

LEMMA ContractStepKeeps == ASSUME ExchangesOK, ContractStep PROVE ExchangesOK'
<1>1. CASE \E c \in Conns : Contract!Take(c) \/ Contract!Act(c) \/ Contract!Answer(c)
                              \/ Contract!Close(c)
  BY <1>1, TakingKeeps, ActingKeeps, AnsweringKeeps, ClosingKeeps
<1>2. CASE Contract!Serve \/ Contract!Drain \/ Contract!Restart
  <2>1. UNCHANGED <<Exchanges, Provers, Told>>
    BY <1>2, Zenon DEF Contract!Serve, Contract!Drain, Contract!Restart, Exchanges, Provers,
       Told, PhaseOf, ProverOf, AnswerOf
  <2> QED
    BY <2>1, SameExchangesKeep
<1>3. CASE UNCHANGED Contract!contractVars
  <2>1. UNCHANGED <<Exchanges, Provers, Told>>
    BY <1>3, Zenon DEF Contract!contractVars, Exchanges, Provers, Told, PhaseOf, ProverOf,
       AnswerOf
  <2> QED
    BY <2>1, SameExchangesKeep
<1> QED
  BY <1>1, <1>2, <1>3, EndingKeeps DEF ContractStep, Contract!Next

(* Every behaviour the contract allows tells its clients the truth: the guards of  *)
(* its four actions are all that takes.  A 401 means that nothing was done, and    *)
(* 201 and 410 that the service was asked (Authenticate, the upload handlers).     *)
THEOREM ContractTellsTheTruth == KeepsContract => []StatusTellsWhatWasDone
<1>1. Contract!Init => ExchangesOK
  <2>1. Contract!Init => NoExchanges
    BY Zenon DEF Contract!Init, NoExchanges, Exchanges, Provers, Told, PhaseOf, ProverOf,
       AnswerOf
  <2> QED
    BY <2>1, NoExchangesAreOK
<1>2. ExchangesOK /\ [Contract!Next]_(Contract!contractVars) => ExchangesOK'
  BY ContractStepKeeps DEF ContractStep
<1>3. ExchangesOK => StatusTellsWhatWasDone
  <2> SUFFICES ASSUME ExchangesOK, NEW c \in Conns, req[c].bodies # <<>>
               PROVE  /\ req[c].status = 401 => Proven(req[c]) = NoUser /\ ~req[c].called
                      /\ req[c].status \in {201, 410} => req[c].called
    BY DEF StatusTellsWhatWasDone
  <2>1. /\ Exchanges[c] = PhaseOf(req[c]) /\ Provers[c] = ProverOf(req[c])
        /\ Told[c] = req[c].status
    BY MappedValues DEF AnswerOf
  <2>2. /\ PhaseOf(req[c]) = "none" => req[c].status = 0
        /\ req[c].status = 401 => ProverOf(req[c]) = NoUser /\ PhaseOf(req[c]) # "acted"
        /\ req[c].status \in {201, 410} => PhaseOf(req[c]) = "acted"
    BY <2>1 DEF ExchangesOK
  <2>3. ASSUME req[c].status = 401 PROVE Proven(req[c]) = NoUser /\ ~req[c].called
    BY <2>2, <2>3 DEF PhaseOf, ProverOf
  <2>4. ASSUME req[c].status \in {201, 410} PROVE req[c].called
    BY <2>2, <2>4 DEF PhaseOf
  <2> QED
    BY <2>3, <2>4
<1> QED
  BY <1>1, <1>2, <1>3, PTL DEF KeepsContract, Contract!Spec

(* The server therefore tells its clients the truth, whatever panics, fails to     *)
(* write or is aborted on the way (Authenticate, the upload handlers, ErrorHandler). *)
THEOREM ServerTellsTheTruth == Spec => []StatusTellsWhatWasDone
BY ServerKeepsContract, ContractTellsTheTruth, PTL
================================================================================
