------------------------------ MODULE PipelineProofs ------------------------------
(***************************************************************************)
(* The steps of a request keep the invariant of RequestPipeline, whatever     *)
(* requests clients send and however many are in flight.                     *)
(***************************************************************************)
EXTENDS RequestPipeline, SequenceTheorems, TLAPS

-----------------------------------------------------------------------------
(* The chains. *)

LEMMA ChainsAreLaidOut ==
    /\ Len(Chain["upload"]) = 7 /\ Len(Chain["public"]) = 6 /\ Len(Chain["unmatched"]) = 5
    /\ \A route \in Routes :
         /\ Chain[route][1] = "Recovery" /\ Chain[route][2] = "RequestContext"
         /\ Chain[route][3] = "ErrorHandler" /\ Chain[route][4] = "PrometheusMetrics"
         /\ Chain[route][5] = "OTel"
    /\ Chain["upload"][6] = "Authenticate" /\ Chain["upload"][7] = "UploadHandler"
    /\ Chain["public"][6] = "PublicHandler"
BY DEF Chain, GlobalChain, Routes

(* Each handler has its place. *)
LEMMA HandlersHaveTheirPlace ==
    ASSUME NEW route \in Routes, NEW i \in 1..Len(Chain[route])
    PROVE  /\ i \in 1..7
           /\ Chain[route][i] = "Recovery" <=> i = 1
           /\ Chain[route][i] = "RequestContext" <=> i = 2
           /\ Chain[route][i] = "ErrorHandler" <=> i = 3
           /\ Chain[route][i] = "PrometheusMetrics" <=> i = 4
           /\ Chain[route][i] = "OTel" <=> i = 5
           /\ Chain[route][i] = "Authenticate" <=> i = 6 /\ route = "upload"
           /\ Chain[route][i] = "UploadHandler" <=> i = 7
           /\ Chain[route][i] = "PublicHandler" <=> i = 6 /\ route = "public"
           /\ Chain[route][i] \in Handler
<1>1. CASE route = "upload"
  BY <1>1, ChainsAreLaidOut DEF Handler
<1>2. CASE route = "public"
  BY <1>2, ChainsAreLaidOut DEF Handler
<1>3. CASE route = "unmatched"
  BY <1>3, ChainsAreLaidOut DEF Handler
<1> QED
  BY <1>1, <1>2, <1>3 DEF Routes

LEMMA ChainLengths ==
    ASSUME NEW route \in Routes
    PROVE  /\ Len(Chain[route]) \in 5..7
           /\ route = "upload" <=> Len(Chain[route]) = 7
           /\ route = "public" <=> Len(Chain[route]) = 6
           /\ route = "unmatched" <=> Len(Chain[route]) = 5
BY ChainsAreLaidOut DEF Routes

(* A token that passes the checks proves its user. *)
LEMMA ValidatedTokenProves ==
    ASSUME NEW a \in Arrival, a.authorization = "bearer", ValidateToken(a.token) = "nil"
    PROVE  Proves(a, a.token.user)
BY DEF Proves, ValidateToken, ParseError, Arrival, Token

-----------------------------------------------------------------------------
(* The writing of a response. *)

LEMMA WrittenSaysSo ==
    ASSUME NEW r \in Request, NEW code \in Codes, NEW id \in RequestIDs,
           NEW w, w = Written(r, code, id)
    PROVE  /\ w \in Request
           /\ w.stage = r.stage /\ w.arrival = r.arrival /\ w.index = r.index
           /\ w.frames = r.frames /\ w.traceID = r.traceID /\ w.user = r.user
           /\ w.errors = r.errors /\ w.counted = r.counted
           /\ w.called = r.called /\ w.panicked = r.panicked
           /\ w.bodies = Append(r.bodies, [code |-> code, requestID |-> id])
           /\ w.status = IF r.bodies = <<>> THEN code ELSE r.status
<1>1. [code |-> code, requestID |-> id] \in [code : Codes, requestID : RequestIDs]
  OBVIOUS
<1>2. r.bodies \in Seq([code : Codes, requestID : RequestIDs])
  BY DEF Request
<1>3. Append(r.bodies, [code |-> code, requestID |-> id])
        \in Seq([code : Codes, requestID : RequestIDs])
  BY <1>1, <1>2, AppendProperties
<1> QED
  BY <1>3 DEF Written, Request

(* What writing a response leaves alone. *)
Beside(r, w) ==
    /\ w.stage = r.stage /\ w.arrival = r.arrival /\ w.frames = r.frames
    /\ w.traceID = r.traceID /\ w.user = r.user /\ w.counted = r.counted
    /\ w.called = r.called /\ w.panicked = r.panicked

(* The status is the one of the first answer, and later ones come only after a   *)
(* failed write.                                                                 *)
FirstAnswerStands(r) ==
    /\ r.bodies = <<>> => r.errors = 0
    /\ r.bodies # <<>> => r.status = r.bodies[1].code
    /\ Len(r.bodies) <= 1 \/ r.errors > 0

LEMMA AppendedBody ==
    ASSUME NEW S, NEW s \in Seq(S), NEW e \in S
    PROVE  /\ Append(s, e) # <<>> /\ Append(s, e) \in Seq(S)
           /\ s = <<>> => Append(s, e)[1] = e /\ Len(Append(s, e)) = 1
           /\ s # <<>> => Append(s, e)[1] = s[1]
<1>1. /\ Append(s, e) \in Seq(S) /\ Len(Append(s, e)) = Len(s) + 1 /\ Len(s) \in Nat
      /\ \A i \in 1..Len(s) : Append(s, e)[i] = s[i]
      /\ Append(s, e)[Len(s) + 1] = e
  BY AppendProperties, LenProperties
<1>2. s # <<>> => Len(s) \in Nat \ {0}
  BY EmptySeq, Zenon
<1>3. Append(s, e) # <<>>
  BY <1>1, EmptySeq
<1>4. ASSUME s = <<>> PROVE Append(s, e)[1] = e /\ Len(Append(s, e)) = 1
  BY <1>1, <1>4, EmptySeq
<1>5. ASSUME s # <<>> PROVE Append(s, e)[1] = s[1]
  <2>1. Len(s) \in Nat \ {0}
    BY <1>2, <1>5
  <2> QED
    BY <1>1, <2>1
<1> QED
  BY <1>1, <1>3, <1>4, <1>5

LEMMA OneErrorMore ==
    ASSUME NEW r \in Request, NEW q, q = [r EXCEPT !.errors = @ + 1]
    PROVE  /\ q \in Request /\ Beside(r, q) /\ q.index = r.index /\ q.errors = r.errors + 1
           /\ q.bodies = r.bodies /\ q.status = r.status
<1>1. r.errors + 1 \in Nat
  BY DEF Request
<1>2. q \in Request
  BY <1>1 DEF Request
<1> QED
  BY <1>2 DEF Beside, Request

LEMMA AbortedSaysSo ==
    ASSUME NEW r \in Request, NEW f, f = Abort(r)
    PROVE  /\ f \in Request /\ Beside(r, f) /\ f.index = AbortIndex /\ f.errors = r.errors
           /\ f.bodies = r.bodies /\ f.status = r.status
<1>1. AbortIndex \in Nat
  BY DEF AbortIndex
<1>2. f \in Request
  BY <1>1 DEF Request, Abort
<1> QED
  BY <1>2 DEF Beside, Request, Abort

Answered(r) == r.bodies # <<>>
AnsweredFirst(r, code, id) == r.bodies[1] = [code |-> code, requestID |-> id]
SameAnswer(r, w) == w.bodies[1] = r.bodies[1] /\ w.status = r.status

LEMMA JSONAnswers ==
    ASSUME NEW r \in Request, FirstAnswerStands(r), Answered(r) => r.errors > 0,
           NEW code \in Codes, NEW id \in RequestIDs, NEW w \in JSON(r, code, id)
    PROVE  /\ w \in Request /\ Beside(r, w) /\ FirstAnswerStands(w)
           /\ w.index \in {r.index, AbortIndex}
           /\ Answered(w)
           /\ ~Answered(r) => AnsweredFirst(w, code, id)
           /\ Answered(r) => SameAnswer(r, w)
<1> DEFINE b == [code |-> code, requestID |-> id]
           p == Written(r, code, id)
           f == Abort([p EXCEPT !.errors = @ + 1])
           B == [code : Codes, requestID : RequestIDs]
<1>1. /\ p \in Request /\ Beside(r, p) /\ p.index = r.index /\ p.errors = r.errors
      /\ p.bodies = Append(r.bodies, b)
      /\ p.status = IF r.bodies = <<>> THEN code ELSE r.status
  BY WrittenSaysSo DEF Beside
<1>2. r.bodies \in Seq(B) /\ b \in B
  BY DEF Request
<1> HIDE DEF b, p, B
<1>3. /\ f \in Request /\ Beside(r, f) /\ f.index = AbortIndex /\ f.errors = r.errors + 1
      /\ f.bodies = p.bodies /\ f.status = p.status
  <2> DEFINE q == [p EXCEPT !.errors = @ + 1]
  <2>1. /\ q \in Request /\ Beside(p, q) /\ q.errors = p.errors + 1
        /\ q.bodies = p.bodies /\ q.status = p.status
    BY <1>1, OneErrorMore
  <2> HIDE DEF q
  <2>2. /\ f \in Request /\ Beside(q, f) /\ f.index = AbortIndex /\ f.errors = q.errors
        /\ f.bodies = q.bodies /\ f.status = q.status
    BY <2>1, AbortedSaysSo DEF f, q
  <2> QED
    BY <1>1, <2>1, <2>2 DEF Beside
<1>4. (w = p /\ r.errors = 0) \/ w = f
  BY DEF JSON, p, Request
<1> HIDE DEF f
<1>5. /\ p.bodies # <<>>
      /\ r.bodies = <<>> => p.bodies[1] = b /\ Len(p.bodies) = 1
      /\ r.bodies # <<>> => p.bodies[1] = r.bodies[1]
  BY <1>1, <1>2, AppendedBody
<1>6. b.code = code
  BY DEF b
<1>7. /\ w \in Request /\ Beside(r, w) /\ w.index \in {r.index, AbortIndex}
      /\ w.bodies = p.bodies /\ w.status = p.status
      /\ w.errors > 0 \/ (w.errors = 0 /\ r.errors = 0)
  <2>1. r.errors \in Nat
    BY DEF Request
  <2> QED
    BY <1>1, <1>3, <1>4, <2>1
<1>8. p.status = p.bodies[1].code
  <2>1. r.bodies # <<>> => r.status = r.bodies[1].code
    BY DEF FirstAnswerStands
  <2> QED
    BY <1>1, <1>5, <1>6, <2>1, Zenon
<1>9. w.errors > 0 \/ Len(w.bodies) <= 1
  <2>1. ASSUME r.bodies = <<>> PROVE Len(w.bodies) = 1
    BY <1>5, <1>7, <2>1, Zenon
  <2>2. CASE r.bodies = <<>>
    <3> HIDE <2>2
    <3>1. Len(w.bodies) = 1
      BY <2>1, <2>2, Zenon
    <3> QED
      BY <3>1
  <2>3. CASE r.errors > 0
    <3>1. r.errors \in Nat
      BY DEF Request
    <3> QED
      BY <1>7, <2>3, <3>1
  <2>4. r.bodies = <<>> \/ r.errors > 0
    BY Zenon DEF Answered
  <2> QED
    BY <2>2, <2>3, <2>4, Zenon
<1>10. FirstAnswerStands(w)
  BY <1>5, <1>7, <1>8, <1>9, Zenon DEF FirstAnswerStands
<1> QED
  BY <1>1, <1>5, <1>7, <1>10, Zenon DEF b, Answered, AnsweredFirst, SameAnswer

-----------------------------------------------------------------------------
(* gin. *)

(* What moving along the chain leaves alone. *)
Inner(r, w) ==
    /\ w.arrival = r.arrival /\ w.traceID = r.traceID /\ w.user = r.user
    /\ w.status = r.status /\ w.bodies = r.bodies /\ w.errors = r.errors
    /\ w.counted = r.counted /\ w.called = r.called /\ w.panicked = r.panicked

(* Where the loop of Next() takes a request. *)
Looped(w) ==
    w.stage = IF w.index <= Len(Chain[w.arrival.route]) THEN "enter" ELSE "after"

LEMMA LoopGoesOn ==
    ASSUME NEW r \in Request, NEW w, w = Loop(r)
    PROVE  w \in Request /\ Inner(r, w) /\ w.frames = r.frames /\ w.index = r.index /\ Looped(w)
BY DEF Loop, Request, Inner, Looped

LEMMA NextIsCalled ==
    ASSUME NEW r \in Request, NEW h \in Handler, NEW w, w = CallNext(r, h)
    PROVE  /\ w \in Request /\ Inner(r, w) /\ w.frames = Append(r.frames, h)
           /\ w.index = r.index + 1 /\ Looped(w)
<1> DEFINE q == [r EXCEPT !.frames = Append(@, h), !.index = @ + 1]
<1>1. r.frames \in Seq(Handler) /\ r.index + 1 \in Nat
  BY DEF Request
<1>2. Append(r.frames, h) \in Seq(Handler)
  BY <1>1, AppendProperties
<1>3. q \in Request /\ Inner(r, q) /\ q.frames = Append(r.frames, h) /\ q.index = r.index + 1
  BY <1>1, <1>2 DEF Request, Inner
<1>4. w = Loop(q)
  BY DEF CallNext
<1> HIDE DEF q
<1> QED
  BY <1>3, <1>4, LoopGoesOn DEF Inner

LEMMA HandlerReturns ==
    ASSUME NEW r \in Request, NEW w, w = Return(r)
    PROVE  /\ w \in Request /\ Inner(r, w) /\ w.frames = r.frames
           /\ w.index = r.index + 1 /\ Looped(w)
<1> DEFINE q == [r EXCEPT !.index = @ + 1]
<1>1. r.index + 1 \in Nat
  BY DEF Request
<1>2. q \in Request /\ Inner(r, q) /\ q.frames = r.frames /\ q.index = r.index + 1
  BY <1>1 DEF Request, Inner
<1>3. w = Loop(q)
  BY DEF Return
<1> HIDE DEF q
<1> QED
  BY <1>2, <1>3, LoopGoesOn DEF Inner

LEMMA FramesPop ==
    ASSUME NEW r \in Request, NEW n \in Nat, n # 0, n = Len(r.frames)
    PROVE  /\ SubSeq(r.frames, 1, n - 1) \in Seq(Handler)
           /\ Len(SubSeq(r.frames, 1, n - 1)) = n - 1
           /\ \A i \in 1..(n - 1) : SubSeq(r.frames, 1, n - 1)[i] = r.frames[i]
<1> DEFINE s == r.frames
           m == n - 1
<1>1. s \in Seq(Handler) /\ m \in Int /\ m >= 0 /\ n = Len(s) /\ m <= Len(s)
  BY DEF Request
<1> HIDE DEF s, m
<1>2. \A i \in 1..m : s[i] \in Handler
  BY <1>1, ElementOfSeq, LenProperties
<1>3. SubSeq(s, 1, m) \in Seq(Handler)
  BY <1>1, <1>2, SubSeqProperties
<1>4. Len(SubSeq(s, 1, m)) = m
  BY <1>1, <1>2, SubSeqProperties
<1>5. \A i \in 1..m : SubSeq(s, 1, m)[i] = s[i]
  BY <1>1, <1>2, SubSeqProperties
<1> QED
  BY <1>3, <1>4, <1>5 DEF s, m

LEMMA FrameIsLeft ==
    ASSUME NEW r \in Request, NEW n \in Nat, n # 0, n = Len(r.frames), NEW w, w = Leave(r)
    PROVE  /\ w \in Request /\ Inner(r, w) /\ w.frames = SubSeq(r.frames, 1, n - 1)
           /\ w.index = r.index + 1 /\ Looped(w)
<1> DEFINE s == SubSeq(r.frames, 1, n - 1)
           q == [r EXCEPT !.frames = s]
<1>1. s \in Seq(Handler)
  BY FramesPop
<1>2. w = Return(q)
  BY DEF Leave
<1> HIDE DEF s
<1>3. q \in Request /\ Inner(r, q) /\ q.frames = s /\ q.index = r.index
  BY <1>1 DEF Request, Inner
<1> HIDE DEF q
<1>4. /\ w \in Request /\ Inner(q, w) /\ w.frames = q.frames
      /\ w.index = q.index + 1 /\ Looped(w)
  BY <1>2, <1>3, HandlerReturns
<1> QED
  BY <1>3, <1>4 DEF Inner, s

-----------------------------------------------------------------------------
(* The frames. *)

LEMMA FramesGrow ==
    ASSUME NEW r \in Request, FramesOK(r), r.stage = "enter",
           NEW w \in Request, w.arrival = r.arrival,
           w.frames = Append(r.frames, Chain[r.arrival.route][r.index]),
           w.index = r.index + 1, Looped(w)
    PROVE  FramesOK(w) /\ Len(w.frames) = Len(r.frames) + 1 /\ Len(r.frames) \in Nat
<1> DEFINE chain == Chain[r.arrival.route]
           L == Len(chain)
           n == Len(r.frames)
<1>1. /\ r.arrival.route \in Routes /\ r.frames \in Seq(Handler) /\ r.index \in Nat
  BY DEF Request, Arrival
<1>2. L \in 5..7
  BY <1>1, ChainLengths
<1>3. /\ r.index = n + 1 /\ r.index <= L /\ \A i \in 1..n : r.frames[i] = chain[i]
  BY DEF FramesOK
<1>4. n \in Nat
  BY <1>1, LenProperties
<1>5. chain[r.index] \in Handler
  BY <1>1, <1>2, <1>3, <1>4, HandlersHaveTheirPlace
<1> HIDE DEF chain, L, n
<1>6. /\ Len(w.frames) = n + 1 /\ \A i \in 1..n : w.frames[i] = r.frames[i]
      /\ w.frames[n + 1] = chain[r.index]
  BY <1>1, <1>5, AppendProperties DEF n, chain
<1>7. \A i \in 1..Len(w.frames) : w.frames[i] = chain[i]
  BY <1>3, <1>4, <1>6
<1>8. w.stage = IF w.index <= L THEN "enter" ELSE "after"
  BY DEF Looped, L, chain
<1>9. /\ Len(w.frames) <= L
      /\ w.stage \in {"enter", "service"} => w.index = Len(w.frames) + 1 /\ w.index <= L
      /\ w.stage # "service"
      /\ w.stage = "after" => w.index > L
      /\ w.stage # "unwind"
  BY <1>2, <1>3, <1>4, <1>6, <1>8
<1> QED
  BY <1>4, <1>6, <1>7, <1>9 DEF FramesOK, L, n, chain

LEMMA FramesShrink ==
    ASSUME NEW r \in Request, FramesOK(r), NEW n \in Nat, n # 0, n = Len(r.frames),
           NEW w \in Request, w.arrival = r.arrival,
           w.frames = SubSeq(r.frames, 1, n - 1),
           \/ w.stage \in {"after", "done"} /\ w.index > Len(Chain[r.arrival.route])
           \/ w.stage = "unwind" /\ n > 3
    PROVE  FramesOK(w) /\ Len(w.frames) = n - 1
<1>1. Len(w.frames) = n - 1 /\ \A i \in 1..(n - 1) : w.frames[i] = r.frames[i]
  BY FramesPop
<1>2. \A i \in 1..n : r.frames[i] = Chain[r.arrival.route][i]
  BY DEF FramesOK
<1>3. n <= Len(Chain[r.arrival.route])
  BY DEF FramesOK
<1>4. Len(Chain[r.arrival.route]) \in 5..7
  BY ChainLengths DEF Request, Arrival
<1>5. Len(w.frames) <= Len(Chain[r.arrival.route])
  BY <1>1, <1>3, <1>4
<1> QED
  BY <1>1, <1>2, <1>5 DEF FramesOK

(* The handler in the innermost frame. *)
LEMMA TopOfFrames ==
    ASSUME NEW r \in Request, FramesOK(r), NEW n \in Nat, n # 0, n = Len(r.frames)
    PROVE  /\ Top(r) = Chain[r.arrival.route][n] /\ n \in 1..Len(Chain[r.arrival.route])
           /\ Top(r) = "ErrorHandler" <=> n = 3
           /\ Top(r) = "PrometheusMetrics" <=> n = 4
           /\ Top(r) = "Recovery" <=> n = 1
<1>1. r.arrival.route \in Routes
  BY DEF Request, Arrival
<1>2. Len(Chain[r.arrival.route]) \in 5..7
  BY <1>1, ChainLengths
<1>3. n \in 1..Len(Chain[r.arrival.route]) /\ Top(r) = Chain[r.arrival.route][n]
  BY <1>2 DEF FramesOK, Top
<1> DEFINE route == r.arrival.route
<1>4. route \in Routes /\ n \in 1..Len(Chain[route]) /\ Top(r) = Chain[route][n]
  BY <1>1, <1>3
<1> HIDE DEF route
<1>5. /\ Chain[route][n] = "ErrorHandler" <=> n = 3
      /\ Chain[route][n] = "PrometheusMetrics" <=> n = 4
      /\ Chain[route][n] = "Recovery" <=> n = 1
  BY <1>4, HandlersHaveTheirPlace, Zenon
<1> QED
  BY <1>3, <1>4, <1>5, Zenon

-----------------------------------------------------------------------------
(* What the invariant says of the answer, stage by stage. *)

LEMMA AnswerOfAnUnansweredRequest ==
    ASSUME NEW r, r.stage \in {"enter", "service"},
           r.bodies = <<>>, r.counted = <<>>, r.errors = 0, ~r.panicked,
           r.arrival.route = "unmatched" => r.status = 404
    PROVE  AnswerOK(r)
<1>1. Len(r.bodies) <= 1
  BY EmptySeq
<1> QED
  BY <1>1, Zenon DEF AnswerOK

LEMMA NothingIsAnsweredOnTheWayIn ==
    ASSUME NEW r \in Request, AnswerOK(r), r.stage \in {"enter", "service"}
    PROVE  /\ r.bodies = <<>> /\ r.counted = <<>> /\ r.errors = 0 /\ ~r.panicked
           /\ r.arrival.route = "unmatched" => r.status = 404
BY Zenon DEF AnswerOK

LEMMA AnswerOfAPanic ==
    ASSUME NEW r, r.stage = "unwind", r.panicked, r.bodies = <<>>, r.counted = <<>>,
           r.errors = 0, r.arrival.route = "unmatched" => r.status = 404
    PROVE  AnswerOK(r)
<1>1. Len(r.bodies) <= 1
  BY EmptySeq
<1> QED
  BY <1>1, Zenon DEF AnswerOK

LEMMA NothingIsAnsweredInAPanic ==
    ASSUME NEW r \in Request, AnswerOK(r), r.stage = "unwind"
    PROVE  /\ r.bodies = <<>> /\ r.counted = <<>> /\ r.errors = 0 /\ r.panicked
           /\ r.arrival.route = "unmatched" => r.status = 404
BY Zenon DEF AnswerOK

LEMMA FirstAnswerStandsAnyway ==
    ASSUME NEW r \in Request, AnswerOK(r)
    PROVE  FirstAnswerStands(r)
BY Zenon DEF AnswerOK, FirstAnswerStands

(* On the way out, without a panic. *)
LEMMA AnswerOnTheWayOut ==
    ASSUME NEW r, r.stage \in {"after", "done"}, r.bodies # <<>>, FirstAnswerStands(r),
           ~r.panicked, r.stage = "done" => r.frames = <<>>,
           r.counted = IF Len(r.frames) >= 4 THEN <<>> ELSE <<r.status>>
    PROVE  AnswerOK(r)
BY Zenon DEF AnswerOK, FirstAnswerStands

LEMMA AnswerAfterAPanic ==
    ASSUME NEW r, r.stage \in {"after", "done"}, r.bodies # <<>>, FirstAnswerStands(r),
           r.panicked, r.stage = "done" => r.frames = <<>>,
           r.counted = <<>>, Len(r.frames) < 3,
           r.bodies[1] = [code |-> 500, requestID |-> r.traceID]
    PROVE  AnswerOK(r)
BY Zenon DEF AnswerOK, FirstAnswerStands

(* Only an unmatched request comes to the end of its chain unanswered. *)
LEMMA AnswerOfAnUnmatchedRequest ==
    ASSUME NEW r, r.stage = "after", r.bodies = <<>>, r.errors = 0, ~r.panicked,
           r.arrival.route = "unmatched", r.status = 404,
           r.counted = IF Len(r.frames) >= 4 THEN <<>> ELSE <<r.status>>
    PROVE  AnswerOK(r)
<1>1. Len(r.bodies) <= 1
  BY EmptySeq
<1> QED
  BY <1>1, Zenon DEF AnswerOK

-----------------------------------------------------------------------------
(* The way in. *)

(* What a middleware may set before it calls Next(): the request id and the user. *)
Labelled(r, q) ==
    /\ q.stage = r.stage /\ q.arrival = r.arrival /\ q.index = r.index
    /\ q.frames = r.frames /\ q.status = r.status /\ q.bodies = r.bodies
    /\ q.errors = r.errors /\ q.counted = r.counted /\ q.called = r.called
    /\ q.panicked = r.panicked

LEMMA FurtherIn ==
    ASSUME NEW r \in Request, RequestInv(r), r.stage = "enter",
           NEW h, h = Chain[r.arrival.route][r.index],
           h \notin {"UploadHandler", "PublicHandler"},
           NEW q \in Request, Labelled(r, q),
           q.called \/ h = "Authenticate" =>
               r.arrival.route = "upload" /\ Proves(r.arrival, q.user),
           NEW w, w = CallNext(q, h)
    PROVE  w \in Request /\ RequestInv(w)
<1> DEFINE route == r.arrival.route
           L == Len(Chain[route])
           n == Len(r.frames)
<1>1. route \in Routes /\ L \in 5..7 /\ r.index \in Nat
  BY ChainLengths DEF Request, Arrival
<1>2. r.index = n + 1 /\ r.index <= L /\ FramesOK(r) /\ n \in Nat
  BY LenProperties DEF RequestInv, FramesOK, Request
<1>3. r.index \in 1..L
  BY <1>1, <1>2
<1>4. h \in Handler
  BY <1>1, <1>3, HandlersHaveTheirPlace
<1>5. q.stage = "enter" /\ q.arrival = r.arrival /\ q.index = r.index /\ q.frames = r.frames
  BY DEF Labelled
<1>6. /\ w \in Request /\ Inner(q, w) /\ w.frames = Append(r.frames, h)
      /\ w.index = r.index + 1 /\ Looped(w)
  BY <1>4, <1>5, NextIsCalled
<1>7. w.arrival = r.arrival /\ w.index = r.index + 1
  BY <1>5, <1>6 DEF Inner
<1>8. FramesOK(w) /\ Len(w.frames) = n + 1
  BY <1>2, <1>6, <1>7, FramesGrow
<1>9. w.stage = IF w.index <= L THEN "enter" ELSE "after"
  BY <1>6, <1>7 DEF Looped
<1>10. UserOK(w)
  <2>1. w.called = q.called /\ w.user = q.user
    BY <1>6 DEF Inner
  <2>3. ~w.called
    <3>1. ~r.called
      BY Zenon DEF RequestInv, UserOK
    <3> QED
      BY <2>1, <3>1 DEF Labelled
  <2>2. ASSUME w.stage = "enter", Chain[route][w.index] = "UploadHandler"
        PROVE  h = "Authenticate"
    <3>1. w.index \in 1..L
      BY <1>1, <1>3, <1>7, <1>9, <2>2
    <3>2. w.index = 7
      BY <1>1, <2>2, <3>1, HandlersHaveTheirPlace
    <3>3. r.index = 6
      BY <1>1, <1>7, <3>2
    <3>4. L = 7
      <4> HIDE DEF L
      <4>1. L >= 7
        BY <1>1, <3>1, <3>2
      <4> QED
        BY <1>1, <4>1
    <3> QED
      BY <1>1, <3>3, <3>4, ChainLengths, ChainsAreLaidOut
  <2>4. w.stage # "service"
    BY <1>9
  <2> QED
    BY <1>7, <2>1, <2>2, <2>3, <2>4, Zenon DEF UserOK
<1>11. /\ r.bodies = <<>> /\ r.counted = <<>> /\ r.errors = 0 /\ ~r.panicked
       /\ route = "unmatched" => r.status = 404
  BY NothingIsAnsweredOnTheWayIn DEF RequestInv
<1>12. /\ w.bodies = <<>> /\ w.counted = <<>> /\ w.errors = 0 /\ ~w.panicked
       /\ w.status = r.status
  BY <1>6, <1>11, Zenon DEF Inner, Labelled
<1>13. CASE w.stage = "enter"
  <2>1. AnswerOK(w)
    <3>1. w.arrival.route = "unmatched" => w.status = 404
      BY <1>7, <1>11, <1>12, Zenon
    <3>2. w.stage \in {"enter", "service"}
      BY <1>13
    <3> QED
      BY <1>12, <3>1, <3>2, AnswerOfAnUnansweredRequest
  <2> QED
    BY <1>6, <1>8, <1>10, <2>1 DEF RequestInv
<1>14. CASE w.stage = "after"
  <2>1. r.index = L
    BY <1>1, <1>2, <1>7, <1>9, <1>14
  <2>2. L = 5
    BY <1>1, <2>1, ChainLengths, ChainsAreLaidOut
  <2>3. route = "unmatched" /\ Len(w.frames) >= 4
    BY <1>1, <1>2, <1>8, <2>1, <2>2, ChainLengths
  <2>4. w.counted = IF Len(w.frames) >= 4 THEN <<>> ELSE <<w.status>>
    BY <1>12, <2>3, Zenon
  <2>5. AnswerOK(w)
    <3>1. w.arrival.route = "unmatched" /\ w.status = 404
      BY <1>7, <1>11, <1>12, <2>3, Zenon
    <3> QED
      BY <1>12, <1>14, <2>4, <3>1, AnswerOfAnUnmatchedRequest, Zenon
  <2> QED
    BY <1>6, <1>8, <1>10, <2>5 DEF RequestInv
<1> QED
  BY <1>9, <1>13, <1>14

(* A handler answers and returns. *)
LEMMA AnswersOnTheWayIn ==
    ASSUME NEW r \in Request, RequestInv(r), r.stage \in {"enter", "service"},
           r.index \in {6, 7}, NEW q \in Request, Beside(r, q), FirstAnswerStands(q),
           q.bodies # <<>>, q.index + 1 > Len(Chain[r.arrival.route]),
           NEW w, w = Return(q)
    PROVE  w \in Request /\ RequestInv(w)
<1> DEFINE L == Len(Chain[r.arrival.route])
           n == Len(r.frames)
<1>1. L \in 5..7 /\ r.index = n + 1
  BY ChainLengths DEF RequestInv, FramesOK, Request, Arrival
<1>2. n \in Nat /\ n >= 4
  BY <1>1, LenProperties DEF Request
<1>3. q.arrival = r.arrival /\ q.frames = r.frames /\ q.index \in Nat
  BY DEF Beside, Request
<1>4. /\ w \in Request /\ Inner(q, w) /\ w.frames = r.frames
      /\ w.index = q.index + 1 /\ Looped(w)
  BY <1>3, HandlerReturns
<1>5. w.arrival = r.arrival
  BY <1>3, <1>4 DEF Inner
<1>6. w.stage = "after" /\ w.index > L
  BY <1>1, <1>3, <1>4, <1>5 DEF Looped
<1>7. FramesOK(w)
  BY <1>4, <1>5, <1>6 DEF RequestInv, FramesOK
<1>8. UserOK(w)
  <2>1. w.called = r.called /\ w.user = r.user /\ w.stage # "enter" /\ w.stage # "service"
    BY <1>4, <1>6 DEF Inner, Beside
  <2> QED
    BY <1>5, <2>1, Zenon DEF RequestInv, UserOK
<1>9. AnswerOK(w)
  <2>1. r.counted = <<>> /\ ~r.panicked
    BY NothingIsAnsweredOnTheWayIn DEF RequestInv
  <2>2. w.counted = <<>> /\ ~w.panicked /\ w.bodies # <<>> /\ FirstAnswerStands(w)
    BY <1>4, <2>1, Zenon DEF Inner, Beside, FirstAnswerStands
  <2>3. w.counted = IF Len(w.frames) >= 4 THEN <<>> ELSE <<w.status>>
    BY <1>2, <1>4, <2>2, Zenon
  <2>4. w.stage \in {"after", "done"} /\ w.stage # "done"
    BY <1>6
  <2> QED
    BY <2>2, <2>3, <2>4, AnswerOnTheWayOut
<1> QED
  BY <1>4, <1>7, <1>8, <1>9 DEF RequestInv

(* A handler panics. *)
LEMMA PanicsOnTheWayIn ==
    ASSUME NEW r \in Request, RequestInv(r), r.stage \in {"enter", "service"},
           r.index \in {6, 7}, NEW w, w = Panic(r)
    PROVE  w \in Request /\ RequestInv(w)
<1>1. /\ w \in Request /\ w.stage = "unwind" /\ w.panicked /\ w.arrival = r.arrival
      /\ w.frames = r.frames /\ w.bodies = r.bodies /\ w.counted = r.counted
      /\ w.errors = r.errors /\ w.status = r.status /\ w.called = r.called /\ w.user = r.user
  BY DEF Panic, Request
<1>2. FramesOK(w)
  <2>1. Len(r.frames) \in Nat /\ r.index = Len(r.frames) + 1
    BY LenProperties DEF Request, RequestInv, FramesOK
  <2>2. Len(r.frames) >= 3
    BY <2>1
  <2> QED
    BY <1>1, <2>2 DEF RequestInv, FramesOK
<1>3. UserOK(w)
  BY <1>1, Zenon DEF RequestInv, UserOK
<1>4. AnswerOK(w)
  <2>1. /\ r.bodies = <<>> /\ r.counted = <<>> /\ r.errors = 0
        /\ r.arrival.route = "unmatched" => r.status = 404
    BY NothingIsAnsweredOnTheWayIn DEF RequestInv
  <2>2. w.bodies = <<>> /\ w.counted = <<>> /\ w.errors = 0
    BY <1>1, <2>1
  <2>3. w.arrival.route = "unmatched" => w.status = 404
    BY <1>1, <2>1
  <2> QED
    BY <1>1, <2>2, <2>3, AnswerOfAPanic, Zenon
<1> QED
  BY <1>1, <1>2, <1>3, <1>4 DEF RequestInv

(* The upload handler calls the service. *)
LEMMA ServiceIsCalled ==
    ASSUME NEW r \in Request, RequestInv(r), r.stage = "enter",
           Chain[r.arrival.route][r.index] = "UploadHandler",
           NEW w \in Request, w.stage = "service", w.arrival = r.arrival, w.index = r.index,
           w.frames = r.frames, w.bodies = r.bodies, w.counted = r.counted,
           w.errors = r.errors, w.status = r.status, w.user = r.user, w.called,
           w.panicked = r.panicked
    PROVE  RequestInv(w)
<1>1. FramesOK(w)
  BY DEF RequestInv, FramesOK
<1>2. UserOK(w)
  BY Zenon DEF RequestInv, UserOK
<1>3. AnswerOK(w)
  <2>1. /\ r.bodies = <<>> /\ r.counted = <<>> /\ r.errors = 0 /\ ~r.panicked
        /\ r.arrival.route = "unmatched" => r.status = 404
    BY NothingIsAnsweredOnTheWayIn DEF RequestInv
  <2>2. w.bodies = <<>> /\ w.counted = <<>> /\ w.errors = 0 /\ ~w.panicked
    BY <2>1
  <2>3. w.arrival.route = "unmatched" => w.status = 404
    BY <2>1
  <2>4. w.stage \in {"enter", "service"}
    OBVIOUS
  <2> QED
    BY <2>2, <2>3, <2>4, AnswerOfAnUnansweredRequest
<1> QED
  BY <1>1, <1>2, <1>3 DEF RequestInv

-----------------------------------------------------------------------------
(* The way out. *)

LEMMA AnswerOnTheWayOutIs ==
    ASSUME NEW r \in Request, AnswerOK(r), r.stage = "after", NEW n, n = Len(r.frames)
    PROVE  /\ r.panicked => /\ r.counted = <<>> /\ n < 3
                            /\ r.bodies[1] = [code |-> 500, requestID |-> r.traceID]
           /\ ~r.panicked => r.counted = IF n >= 4 THEN <<>> ELSE <<r.status>>
           /\ r.bodies = <<>> => /\ r.errors = 0 /\ ~r.panicked
                                 /\ r.arrival.route = "unmatched" /\ r.status = 404
BY Zenon DEF AnswerOK

(* What a middleware does after Next(), before it returns. *)
Outside(r, q) ==
    /\ q.stage = r.stage /\ q.arrival = r.arrival /\ q.frames = r.frames
    /\ q.traceID = r.traceID /\ q.user = r.user /\ q.called = r.called
    /\ q.panicked = r.panicked /\ q.status = r.status
    /\ q.bodies = <<>> <=> r.bodies = <<>>
    /\ r.bodies # <<>> => q.bodies[1] = r.bodies[1]

LEMMA FurtherOut ==
    ASSUME NEW r \in Request, RequestInv(r), r.stage = "after",
           NEW n \in Nat, n # 0, n = Len(r.frames),
           NEW q \in Request, Outside(r, q), FirstAnswerStands(q),
           q.index > Len(Chain[r.arrival.route]),
           r.panicked => q.counted = <<>>,
           ~r.panicked => q.counted = IF n - 1 >= 4 THEN <<>> ELSE <<r.status>>,
           NEW w, w = Leave(q)
    PROVE  w \in Request /\ RequestInv(w)
<1> DEFINE L == Len(Chain[r.arrival.route])
<1>1. q.frames = r.frames /\ q.arrival = r.arrival /\ q.index \in Nat
  BY DEF Outside, Request
<1>2. /\ w \in Request /\ Inner(q, w) /\ w.frames = SubSeq(r.frames, 1, n - 1)
      /\ w.index = q.index + 1 /\ Looped(w)
  BY <1>1, FrameIsLeft
<1>3. w.arrival = r.arrival /\ w.index = q.index + 1
  BY <1>1, <1>2 DEF Inner
<1>4. w.index > L
  <2>1. L \in 5..7
    BY ChainLengths DEF Request, Arrival
  <2> QED
    BY <1>1, <1>3, <2>1
<1>5. w.stage = "after"
  <2>1. L \in 5..7 /\ w.index \in Nat
    BY <1>1, <1>3, ChainLengths DEF Request, Arrival
  <2>2. ~(w.index <= L)
    BY <1>4, <2>1
  <2> QED
    BY <1>2, <1>3, <2>2, Zenon DEF Looped
<1>6. FramesOK(w) /\ Len(w.frames) = n - 1
  <2>1. FramesOK(r)
    BY DEF RequestInv
  <2> QED
    BY <1>2, <1>3, <1>4, <1>5, <2>1, FramesShrink
<1>7. UserOK(w)
  <2>1. w.called = r.called /\ w.user = r.user /\ w.stage # "enter" /\ w.stage # "service"
    BY <1>2, <1>5 DEF Inner, Outside
  <2> QED
    BY <1>3, <2>1, Zenon DEF RequestInv, UserOK
<1>8. /\ w.status = q.status /\ w.bodies = q.bodies /\ w.errors = q.errors
      /\ w.counted = q.counted /\ w.panicked = r.panicked /\ w.traceID = r.traceID
      /\ w.status = r.status
  BY <1>2 DEF Inner, Outside
<1>9. FirstAnswerStands(w)
  BY <1>8, Zenon DEF FirstAnswerStands
<1>10. /\ r.panicked => /\ n < 3
                        /\ r.bodies[1] = [code |-> 500, requestID |-> r.traceID]
       /\ r.bodies = <<>> => /\ ~r.panicked
                             /\ r.arrival.route = "unmatched" /\ r.status = 404
  BY AnswerOnTheWayOutIs DEF RequestInv
<1>11. CASE w.bodies = <<>>
  <2>1. r.bodies = <<>>
    BY <1>8, <1>11, Zenon DEF Outside
  <2>2. /\ ~w.panicked /\ w.arrival.route = "unmatched" /\ w.status = 404
    BY <1>3, <1>8, <1>10, <2>1, Zenon
  <2>3. w.counted = IF Len(w.frames) >= 4 THEN <<>> ELSE <<w.status>>
    BY <1>6, <1>8, <2>2, Zenon
  <2>4. w.errors = 0
    BY <1>9, <1>11, Zenon DEF FirstAnswerStands
  <2>5. AnswerOK(w)
    BY <1>5, <1>11, <2>2, <2>3, <2>4, AnswerOfAnUnmatchedRequest
  <2> QED
    BY <1>2, <1>6, <1>7, <2>5 DEF RequestInv
<1>12. CASE w.bodies # <<>> /\ ~w.panicked
  <2>1. w.counted = IF Len(w.frames) >= 4 THEN <<>> ELSE <<w.status>>
    BY <1>6, <1>8, <1>12, Zenon
  <2>2. w.stage \in {"after", "done"} /\ w.stage # "done"
    BY <1>5
  <2>3. AnswerOK(w)
    BY <1>9, <1>12, <2>1, <2>2, AnswerOnTheWayOut
  <2> QED
    BY <1>2, <1>6, <1>7, <2>3 DEF RequestInv
<1>13. CASE w.bodies # <<>> /\ w.panicked
  <2>1. r.panicked /\ w.counted = <<>>
    BY <1>8, <1>13, Zenon
  <2>2. n < 3 /\ r.bodies[1] = [code |-> 500, requestID |-> r.traceID]
    BY <1>10, <2>1, Zenon
  <2>3. Len(w.frames) < 3
    BY <1>6, <2>2
  <2>4. w.bodies[1] = [code |-> 500, requestID |-> w.traceID]
    <3>1. w.bodies[1] = r.bodies[1]
      BY <1>8, <1>13, Zenon DEF Outside
    <3> QED
      BY <1>8, <2>2, <3>1, Zenon
  <2>5. w.stage \in {"after", "done"} /\ w.stage # "done"
    BY <1>5
  <2>6. AnswerOK(w)
    BY <1>9, <1>13, <2>1, <2>3, <2>4, <2>5, AnswerAfterAPanic
  <2> QED
    BY <1>2, <1>6, <1>7, <2>6 DEF RequestInv
<1> QED
  BY <1>11, <1>12, <1>13, Zenon

LEMMA MetricsAreRecorded ==
    ASSUME NEW r \in Request, RequestInv(r), r.stage = "after",
           NEW n \in Nat, n = 4, n = Len(r.frames), NEW w, w = Leave(RecordMetrics(r))
    PROVE  w \in Request /\ RequestInv(w)
<1> DEFINE q == RecordMetrics(r)
<1>1. /\ ~r.panicked /\ r.counted = <<>>
  <2>1. r.panicked => n < 3
    BY AnswerOnTheWayOutIs DEF RequestInv
  <2>2. ~r.panicked
    BY <2>1
  <2>3. r.counted = IF n >= 4 THEN <<>> ELSE <<r.status>>
    BY <2>2, AnswerOnTheWayOutIs DEF RequestInv
  <2>4. n >= 4
    OBVIOUS
  <2> QED
    BY <2>2, <2>3, <2>4, Zenon
<1>2. Append(r.counted, r.status) = <<r.status>> /\ Append(r.counted, r.status) \in Seq(Codes)
  <2>1. r.counted \in Seq(Codes) /\ r.status \in Codes
    BY DEF Request
  <2>2. Append(r.counted, r.status) \in Seq(Codes)
    BY <2>1, AppendProperties
  <2>3. Append(<<>>, r.status) = <<r.status>>
    OBVIOUS
  <2> QED
    BY <1>1, <2>2, <2>3, Zenon
<1>3. /\ q \in Request /\ Outside(r, q) /\ q.index = r.index /\ q.errors = r.errors
      /\ q.bodies = r.bodies /\ q.counted = Append(r.counted, r.status)
  BY <1>2 DEF RecordMetrics, Request, Outside
<1>4. q.counted = <<r.status>>
  BY <1>2, <1>3, Zenon
<1>5. FirstAnswerStands(q)
  <2>1. FirstAnswerStands(r)
    BY FirstAnswerStandsAnyway DEF RequestInv
  <2> QED
    BY <1>3, <2>1, Zenon DEF FirstAnswerStands, Outside
<1>6. q.index > Len(Chain[r.arrival.route])
  BY <1>3 DEF RequestInv, FramesOK
<1>7. w = Leave(q)
  OBVIOUS
<1> HIDE DEF q
<1>8. ~(n - 1 >= 4) /\ n # 0
  OBVIOUS
<1>9. q.counted = IF n - 1 >= 4 THEN <<>> ELSE <<r.status>>
  BY <1>4, <1>8, Zenon
<1> QED
  BY <1>1, <1>3, <1>5, <1>6, <1>7, <1>8, <1>9, FurtherOut

LEMMA MiddlewareReturns ==
    ASSUME NEW r \in Request, RequestInv(r), r.stage = "after",
           NEW n \in Nat, n # 0, n # 3, n # 4,
           n = Len(r.frames), NEW w, w = Leave(r)
    PROVE  w \in Request /\ RequestInv(w)
<1>1. r.panicked => r.counted = <<>>
  BY AnswerOnTheWayOutIs DEF RequestInv
<1>2. ~r.panicked => r.counted = IF n >= 4 THEN <<>> ELSE <<r.status>>
  BY AnswerOnTheWayOutIs DEF RequestInv
<1>3. n >= 4 <=> n - 1 >= 4
  <2>1. \A k \in Nat : k # 4 => (k >= 4 <=> k - 1 >= 4)
    OBVIOUS
  <2> QED
    BY <2>1, Zenon
<1>4. ~r.panicked => r.counted = IF n - 1 >= 4 THEN <<>> ELSE <<r.status>>
  BY <1>2, <1>3, Zenon
<1>5. FirstAnswerStands(r)
  BY FirstAnswerStandsAnyway DEF RequestInv
<1>6. r.index > Len(Chain[r.arrival.route])
  BY DEF RequestInv, FramesOK
<1>7. Outside(r, r) /\ n # 0
  BY DEF Outside
<1> QED
  BY <1>1, <1>4, <1>5, <1>6, <1>7, FurtherOut

(* ErrorHandler writes what could not be written before. *)
LEMMA AnsweringAgain ==
    ASSUME NEW r \in Request, FirstAnswerStands(r), Answered(r), Answered(r) => r.errors > 0,
           NEW code \in Codes, NEW id \in RequestIDs, NEW q \in JSON(r, code, id)
    PROVE  /\ q \in Request /\ Outside(r, q) /\ FirstAnswerStands(q)
           /\ q.index \in {r.index, AbortIndex} /\ q.counted = r.counted
<1>1. /\ q \in Request /\ Beside(r, q) /\ FirstAnswerStands(q)
      /\ q.index \in {r.index, AbortIndex} /\ Answered(q) /\ SameAnswer(r, q)
  BY JSONAnswers
<1> QED
  BY <1>1, Zenon DEF Beside, Outside, Answered, SameAnswer

LEMMA ErrorsAreReported ==
    ASSUME NEW r \in Request, RequestInv(r), r.stage = "after",
           NEW n \in Nat, n = 3, n = Len(r.frames),
           NEW q \in ReportErrors(r), NEW w, w = Leave(q)
    PROVE  w \in Request /\ RequestInv(w)
<1>1. ~r.panicked /\ r.counted = <<r.status>>
  <2>1. r.panicked => n < 3
    BY AnswerOnTheWayOutIs DEF RequestInv
  <2>2. ~r.panicked
    BY <2>1
  <2>3. r.counted = IF n >= 4 THEN <<>> ELSE <<r.status>>
    BY <2>2, AnswerOnTheWayOutIs DEF RequestInv
  <2>4. ~(n >= 4)
    OBVIOUS
  <2> QED
    BY <2>2, <2>3, <2>4, Zenon
<1>2. FirstAnswerStands(r) /\ r.index > Len(Chain[r.arrival.route])
  BY FirstAnswerStandsAnyway DEF RequestInv, FramesOK
<1>3. /\ q \in Request /\ Outside(r, q) /\ FirstAnswerStands(q)
      /\ q.index \in {r.index, AbortIndex} /\ q.counted = r.counted
  <2>1. CASE r.errors > 0
    <3>1. r.bodies # <<>>
      <4>1. r.errors # 0
        BY <2>1
      <4> QED
        BY <1>2, <4>1, Zenon DEF FirstAnswerStands
    <3>2. q \in JSON(r, 400, r.traceID)
      BY <2>1 DEF ReportErrors
    <3>3. 400 \in Codes /\ r.traceID \in RequestIDs
      BY DEF Codes, ServiceCodes, Request
    <3>4. Answered(r) /\ (Answered(r) => r.errors > 0)
      BY <2>1, <3>1 DEF Answered
    <3> QED
      BY <1>2, <3>2, <3>3, <3>4, AnsweringAgain
  <2>2. CASE ~(r.errors > 0)
    <3>1. q = r
      BY <2>2 DEF ReportErrors
    <3> QED
      BY <1>2, <3>1 DEF Outside
  <2> QED
    BY <2>1, <2>2
<1>4. q.index > Len(Chain[r.arrival.route])
  <2> DEFINE L == Len(Chain[r.arrival.route])
  <2>1. L \in 5..7 /\ r.index > L
    BY <1>2, ChainLengths DEF Request, Arrival
  <2> HIDE DEF L
  <2>2. q.index > L
    BY <1>3, <2>1 DEF AbortIndex
  <2> QED
    BY <2>2 DEF L
<1>5. ~(n - 1 >= 4) /\ n # 0
  OBVIOUS
<1>6. q.counted = IF n - 1 >= 4 THEN <<>> ELSE <<r.status>>
  BY <1>1, <1>3, <1>5, Zenon
<1> QED
  BY <1>1, <1>3, <1>4, <1>5, <1>6, FurtherOut

-----------------------------------------------------------------------------
(* A panic. *)

LEMMA PanicGoesUp ==
    ASSUME NEW r \in Request, RequestInv(r), r.stage = "unwind",
           NEW n \in Nat, n > 3, n = Len(r.frames),
           NEW w \in Request, w.frames = SubSeq(r.frames, 1, n - 1),
           w.stage = r.stage, w.arrival = r.arrival, w.user = r.user, w.status = r.status,
           w.bodies = r.bodies, w.errors = r.errors, w.counted = r.counted,
           w.called = r.called, w.panicked = r.panicked
    PROVE  RequestInv(w)
<1>1. FramesOK(w)
  BY FramesShrink DEF RequestInv
<1>2. UserOK(w)
  BY Zenon DEF RequestInv, UserOK
<1>3. AnswerOK(w)
  <2>1. /\ r.bodies = <<>> /\ r.counted = <<>> /\ r.errors = 0 /\ r.panicked
        /\ r.arrival.route = "unmatched" => r.status = 404
    BY NothingIsAnsweredInAPanic DEF RequestInv
  <2>2. w.bodies = <<>> /\ w.counted = <<>> /\ w.errors = 0 /\ w.panicked
    BY <2>1
  <2>3. w.arrival.route = "unmatched" => w.status = 404
    BY <2>1
  <2>4. w.stage = "unwind"
    OBVIOUS
  <2> QED
    BY <2>2, <2>3, <2>4, AnswerOfAPanic, Zenon
<1> QED
  BY <1>1, <1>2, <1>3 DEF RequestInv

LEMMA PanicIsAnswered ==
    ASSUME NEW r \in Request, RequestInv(r), r.stage = "unwind",
           NEW n \in Nat, n = 3, n = Len(r.frames),
           NEW q \in Recovered(r), NEW w, w = Leave(q)
    PROVE  w \in Request /\ RequestInv(w)
<1> DEFINE L == Len(Chain[r.arrival.route])
<1>1. /\ r.bodies = <<>> /\ r.counted = <<>> /\ r.errors = 0 /\ r.panicked
  BY NothingIsAnsweredInAPanic DEF RequestInv
<1>2. FirstAnswerStands(r)
  BY FirstAnswerStandsAnyway DEF RequestInv
<1>3. PICK j \in JSON(r, 500, r.traceID) : q = Abort(j)
  BY DEF Recovered, AbortJSON
<1>4. /\ j \in Request /\ Beside(r, j) /\ FirstAnswerStands(j) /\ j.bodies # <<>>
      /\ j.bodies[1] = [code |-> 500, requestID |-> r.traceID]
  <2>1. 500 \in Codes /\ r.traceID \in RequestIDs
    BY DEF Codes, ServiceCodes, Request
  <2>2. ~Answered(r)
    BY <1>1 DEF Answered
  <2>3. /\ j \in Request /\ Beside(r, j) /\ FirstAnswerStands(j) /\ Answered(j)
        /\ AnsweredFirst(j, 500, r.traceID)
    BY <1>2, <2>1, <2>2, JSONAnswers
  <2> QED
    BY <2>3, Zenon DEF Answered, AnsweredFirst
<1>5. /\ q \in Request /\ Beside(j, q) /\ q.index = AbortIndex /\ q.errors = j.errors
      /\ q.bodies = j.bodies /\ q.status = j.status
  BY <1>3, <1>4, AbortedSaysSo
<1>6. Beside(r, q)
  BY <1>4, <1>5 DEF Beside
<1>7. FirstAnswerStands(q)
  BY <1>4, <1>5, Zenon DEF FirstAnswerStands
<1>8. /\ w \in Request /\ Inner(q, w) /\ w.frames = SubSeq(r.frames, 1, n - 1)
      /\ w.index = q.index + 1 /\ Looped(w)
  <2>1. n = Len(q.frames) /\ q.frames = r.frames /\ n # 0
    BY <1>6 DEF Beside
  <2> QED
    BY <1>5, <2>1, FrameIsLeft
<1>9. w.arrival = r.arrival /\ w.index = 64
  BY <1>5, <1>6, <1>8 DEF Inner, Beside, AbortIndex
<1>10. w.index > L /\ w.stage = "after"
  <2>1. L \in 5..7
    BY ChainLengths DEF Request, Arrival
  <2>2. w.index > L /\ ~(w.index <= L)
    <3>1. w.index = 64
      BY <1>9
    <3> HIDE DEF L
    <3> QED
      BY <2>1, <3>1
  <2> QED
    BY <1>8, <1>9, <2>2, Zenon DEF Looped
<1>11. FramesOK(w) /\ Len(w.frames) = n - 1
  <2>1. FramesOK(r) /\ n # 0
    BY DEF RequestInv
  <2> QED
    BY <1>8, <1>9, <1>10, <2>1, FramesShrink
<1>12. UserOK(w)
  <2>1. w.called = r.called /\ w.user = r.user /\ w.stage # "enter" /\ w.stage # "service"
    BY <1>6, <1>8, <1>10 DEF Inner, Beside
  <2> QED
    BY <1>9, <2>1, Zenon DEF RequestInv, UserOK
<1>13. AnswerOK(w)
  <2>1. /\ w.status = q.status /\ w.bodies = q.bodies /\ w.errors = q.errors
        /\ w.counted = r.counted /\ w.panicked = r.panicked /\ w.traceID = r.traceID
    BY <1>6, <1>8 DEF Inner, Beside
  <2>2. FirstAnswerStands(w)
    BY <1>7, <2>1, Zenon DEF FirstAnswerStands
  <2>3. w.bodies # <<>> /\ w.counted = <<>> /\ w.panicked
    BY <1>1, <1>4, <1>5, <2>1, Zenon
  <2>4. w.bodies[1] = [code |-> 500, requestID |-> w.traceID]
    BY <1>4, <1>5, <2>1
  <2>5. w.stage \in {"after", "done"} /\ w.stage # "done"
    BY <1>10
  <2>6. Len(w.frames) < 3
    <3>1. n - 1 = 2
      OBVIOUS
    <3>2. Len(w.frames) = 2
      BY <1>11, <3>1, Zenon
    <3> QED
      BY <3>2
  <2> QED
    BY <2>2, <2>3, <2>4, <2>5, <2>6, AnswerAfterAPanic
<1> QED
  BY <1>8, <1>11, <1>12, <1>13 DEF RequestInv

-----------------------------------------------------------------------------
(* The ends of a request. *)

(* A first answer written past c.JSON. *)
LEMMA WritingFirst ==
    ASSUME NEW r \in Request, ~Answered(r), r.errors = 0, NEW code \in Codes,
           NEW id \in RequestIDs, NEW w, w = Written(r, code, id)
    PROVE  /\ w \in Request /\ Beside(r, w) /\ w.index = r.index /\ Answered(w)
           /\ FirstAnswerStands(w) /\ w.status = code
<1> DEFINE b == [code |-> code, requestID |-> id]
           B == [code : Codes, requestID : RequestIDs]
<1>1. /\ w \in Request /\ Beside(r, w) /\ w.index = r.index
      /\ w.bodies = Append(r.bodies, b)
      /\ w.status = IF r.bodies = <<>> THEN code ELSE r.status
  BY WrittenSaysSo DEF Beside
<1>2. r.bodies \in Seq(B) /\ b \in B /\ b.code = code
  BY DEF Request
<1> HIDE DEF b, B
<1>3. r.bodies = <<>>
  BY Zenon DEF Answered
<1>4. /\ Append(r.bodies, b) # <<>> /\ Append(r.bodies, b)[1] = b
      /\ Len(Append(r.bodies, b)) = 1
  BY <1>2, <1>3, AppendedBody
<1>5. w.status = code /\ w.bodies # <<>> /\ w.bodies[1] = b /\ Len(w.bodies) = 1
  BY <1>1, <1>3, <1>4, Zenon
<1>6. FirstAnswerStands(w)
  <2>1. Len(w.bodies) <= 1
    BY <1>5
  <2>2. w.status = w.bodies[1].code
    BY <1>2, <1>5, Zenon
  <2> QED
    BY <1>5, <2>1, <2>2, Zenon DEF FirstAnswerStands
<1> QED
  BY <1>1, <1>5, <1>6, Zenon DEF Answered

(* The engine's own answer, if there is none yet. *)
LEMMA EngineAnswers ==
    ASSUME NEW r \in Request, RequestInv(r), r.stage = "after", r.frames = <<>>,
           NEW q, q = IF r.arrival.route = "unmatched" /\ r.bodies = <<>>
                      THEN Written(r, 404, "none") ELSE r
    PROVE  /\ q \in Request /\ Beside(r, q) /\ Answered(q) /\ FirstAnswerStands(q)
           /\ q.status = r.status /\ q.index = r.index
           /\ q.panicked => q.counted = <<>> /\ AnsweredFirst(q, 500, q.traceID)
           /\ ~q.panicked => q.counted = <<q.status>>
<1> DEFINE n == Len(r.frames)
<1>1. n = 0
  BY EmptySeq
<1>2. ~(n >= 4)
  BY <1>1
<1> HIDE DEF n
<1>3. /\ r.panicked => r.counted = <<>> /\ AnsweredFirst(r, 500, r.traceID)
      /\ ~r.panicked => r.counted = <<r.status>>
      /\ r.bodies = <<>> => /\ r.errors = 0 /\ ~r.panicked
                            /\ r.arrival.route = "unmatched" /\ r.status = 404
  <2>1. n = Len(r.frames)
    BY DEF n
  <2>2. AnswerOK(r)
    BY DEF RequestInv
  <2> QED
    BY <1>2, <2>1, <2>2, AnswerOnTheWayOutIs, Zenon DEF AnsweredFirst
<1>4. FirstAnswerStands(r)
  BY FirstAnswerStandsAnyway DEF RequestInv
<1>5. CASE r.bodies = <<>>
  <2>1. q = Written(r, 404, "none") /\ ~Answered(r) /\ r.errors = 0 /\ ~r.panicked
        /\ r.status = 404
    BY <1>3, <1>5, Zenon DEF Answered
  <2>2. 404 \in Codes /\ "none" \in RequestIDs
    BY DEF Codes, ServiceCodes, RequestIDs
  <2>3. /\ q \in Request /\ Beside(r, q) /\ q.index = r.index /\ Answered(q)
        /\ FirstAnswerStands(q) /\ q.status = 404
    BY <2>1, <2>2, WritingFirst
  <2>4. q.counted = r.counted /\ q.panicked = r.panicked
    BY <2>3 DEF Beside
  <2>5. q.status = r.status /\ ~q.panicked
    BY <2>1, <2>3, <2>4
  <2>6. q.counted = <<q.status>>
    BY <1>3, <2>1, <2>4, <2>5, Zenon
  <2> QED
    BY <2>3, <2>5, <2>6, Zenon
<1>6. CASE r.bodies # <<>>
  <2>1. q = r
    BY <1>6, Zenon
  <2>2. Beside(r, r)
    BY DEF Beside
  <2> QED
    BY <1>3, <1>4, <1>6, <2>1, <2>2, Zenon DEF Answered
<1> QED
  BY <1>5, <1>6, Zenon

LEMMA RequestEnds ==
    ASSUME NEW r \in Request, RequestInv(r), r.stage = "after", r.frames = <<>>,
           NEW q \in Request, Beside(r, q), Answered(q), FirstAnswerStands(q),
           q.index = r.index,
           q.panicked => q.counted = <<>> /\ AnsweredFirst(q, 500, q.traceID),
           ~q.panicked => q.counted = <<q.status>>,
           NEW w \in Request, w.stage = "done", w.arrival = q.arrival, w.index = q.index,
           w.frames = q.frames, w.traceID = q.traceID, w.user = q.user,
           w.status = q.status, w.bodies = q.bodies, w.errors = q.errors,
           w.counted = q.counted, w.called = q.called, w.panicked = q.panicked
    PROVE  RequestInv(w)
<1>1. /\ w.arrival = r.arrival /\ w.frames = r.frames /\ w.called = r.called
      /\ w.user = r.user /\ w.index = r.index
  BY DEF Beside
<1>2. Len(w.frames) = 0
  BY <1>1, EmptySeq
<1>3. w.frames = <<>> /\ w.stage \in {"after", "done"}
  BY <1>1
<1>4. FramesOK(w)
  BY <1>1 DEF RequestInv, FramesOK
<1>5. UserOK(w)
  BY <1>1, Zenon DEF RequestInv, UserOK
<1>6. FirstAnswerStands(w) /\ w.bodies # <<>>
  BY Zenon DEF FirstAnswerStands, Answered
<1>7. CASE w.panicked
  <2>1. w.counted = <<>> /\ w.bodies[1] = [code |-> 500, requestID |-> w.traceID]
    BY <1>7 DEF AnsweredFirst
  <2>2. Len(w.frames) < 3
    BY <1>2
  <2>3. AnswerOK(w)
    BY <1>3, <1>6, <1>7, <2>1, <2>2, AnswerAfterAPanic
  <2> QED
    BY <1>4, <1>5, <2>3 DEF RequestInv
<1>8. CASE ~w.panicked
  <2>1. ~(Len(w.frames) >= 4)
    BY <1>2
  <2>2. w.counted = IF Len(w.frames) >= 4 THEN <<>> ELSE <<w.status>>
    BY <1>8, <2>1, Zenon
  <2>3. AnswerOK(w)
    BY <1>3, <1>6, <1>8, <2>2, AnswerOnTheWayOut
  <2> QED
    BY <1>4, <1>5, <2>3 DEF RequestInv
<1> QED
  BY <1>7, <1>8

LEMMA NoFramesYet ==
    ASSUME NEW w, w.arrival.route \in Routes, Len(w.frames) = 0, w.index = 1,
           w.stage \in {"idle", "enter"}
    PROVE  FramesOK(w)
<1> DEFINE n == Len(w.frames)
           L == Len(Chain[w.arrival.route])
<1>1. n = 0 /\ L \in 5..7
  BY ChainLengths
<1> HIDE DEF n, L
<1>2. n <= L /\ w.index = n + 1 /\ w.index <= L /\ \A i \in 1..n : w.frames[i] = Chain[w.arrival.route][i]
  BY <1>1
<1>3. w.stage \notin {"service", "after", "unwind"}
  OBVIOUS
<1> QED
  BY <1>2, <1>3, Zenon DEF FramesOK, n, L

LEMMA FreeConnection ==
    ASSUME NEW a \in Arrival
    PROVE  Idle(a) \in Request /\ RequestInv(Idle(a))
<1> DEFINE r == Idle(a)
<1>1. /\ r.stage = "idle" /\ r.arrival = a /\ r.index = 1 /\ r.frames = <<>>
      /\ r.traceID = "none" /\ r.user = NoUser
      /\ r.status = IF a.route = "unmatched" THEN 404 ELSE 200
      /\ r.bodies = <<>> /\ r.errors = 0 /\ r.counted = <<>>
      /\ r.called = FALSE /\ r.panicked = FALSE
  BY DEF Idle
<1>2. r \in Request
  <2>1. /\ <<>> \in Seq(Handler) /\ <<>> \in Seq(Codes)
        /\ <<>> \in Seq([code : Codes, requestID : RequestIDs])
    BY EmptySeq
  <2>2. (IF a.route = "unmatched" THEN 404 ELSE 200) \in Codes /\ "none" \in RequestIDs
    BY DEF Codes, ServiceCodes, RequestIDs
  <2> QED
    BY <2>1, <2>2 DEF Idle, Request
<1> HIDE DEF r
<1>3. FramesOK(r)
  <2>1. Len(r.frames) = 0
    BY <1>1, EmptySeq
  <2>2. Len(Chain[r.arrival.route]) \in 5..7
    BY <1>1, ChainLengths DEF Arrival
  <2>3. r.stage = "idle"
    BY <1>1
  <2> QED
    BY <2>1, <2>2, <2>3 DEF FramesOK
<1>4. UserOK(r)
  <2>1. r.stage # "enter" /\ r.stage # "service" /\ ~r.called
    BY <1>1
  <2> QED
    BY <2>1, Zenon DEF UserOK
<1>5. AnswerOK(r)
  <2>1. Len(r.bodies) <= 1
    BY <1>1, EmptySeq
  <2>2. r.stage \notin {"enter", "service", "unwind"} /\ r.stage \notin {"after", "done"}
        /\ r.stage # "done" /\ r.stage # "after"
    BY <1>1
  <2>3. r.bodies = <<>> /\ r.errors = 0 /\ (r.arrival.route = "unmatched" => r.status = 404)
    BY <1>1, Zenon
  <2> QED
    BY <2>1, <2>2, <2>3, Zenon DEF AnswerOK
<1> QED
  BY <1>2, <1>3, <1>4, <1>5 DEF r, RequestInv

LEMMA RequestComesIn ==
    ASSUME NEW a \in Arrival, NEW w, w = Loop(Idle(a))
    PROVE  w \in Request /\ RequestInv(w)
<1> DEFINE r == Idle(a)
<1>1. r \in Request
  BY FreeConnection
<1>2. /\ r.arrival = a /\ r.index = 1 /\ r.frames = <<>>
      /\ r.status = IF a.route = "unmatched" THEN 404 ELSE 200
      /\ r.bodies = <<>> /\ r.errors = 0 /\ r.counted = <<>>
      /\ r.called = FALSE /\ r.panicked = FALSE
  BY DEF Idle
<1> HIDE DEF r
<1>3. w \in Request /\ Inner(r, w) /\ w.frames = r.frames /\ w.index = r.index /\ Looped(w)
  BY <1>1, LoopGoesOn DEF r
<1>4. /\ w.arrival = a /\ w.index = 1 /\ w.frames = <<>> /\ w.bodies = <<>> /\ w.errors = 0
      /\ w.counted = <<>> /\ ~w.called /\ ~w.panicked
      /\ w.arrival.route = "unmatched" => w.status = 404
  BY <1>2, <1>3 DEF Inner
<1>5. a.route \in Routes /\ Len(Chain[a.route]) \in 5..7
  BY ChainLengths DEF Arrival
<1>6. w.stage = "enter"
  <2>1. 1 <= Len(Chain[a.route])
    BY <1>5
  <2> QED
    BY <1>3, <1>4, <2>1, Zenon DEF Looped
<1>7. FramesOK(w)
  <2>1. Len(w.frames) = 0
    BY <1>4, EmptySeq
  <2>2. w.index = 1 /\ w.arrival = a
    BY <1>4
  <2>3. w.stage \in {"idle", "enter"} /\ w.arrival.route \in Routes
    BY <1>5, <1>6, <2>2
  <2> QED
    BY <2>1, <2>2, <2>3, NoFramesYet
<1>8. UserOK(w)
  <2>1. Chain[w.arrival.route][w.index] # "UploadHandler"
    <3>1. Chain[a.route][1] # "UploadHandler"
      BY <1>5, ChainsAreLaidOut
    <3> QED
      BY <1>4, <3>1, Zenon
  <2>2. w.stage # "service"
    BY <1>6
  <2> QED
    BY <1>4, <2>1, <2>2, Zenon DEF UserOK
<1>9. AnswerOK(w)
  <2>1. w.stage \in {"enter", "service"}
    BY <1>6
  <2> QED
    BY <1>4, <2>1, AnswerOfAnUnansweredRequest
<1> QED
  BY <1>3, <1>7, <1>8, <1>9 DEF RequestInv

-----------------------------------------------------------------------------
(* The steps. *)

(* A step takes a connection to a request for which the invariant holds. *)
Moves(c) == \E w \in Request : RequestInv(w) /\ Set(c, w)

Sound(c) == req[c] \in Request /\ RequestInv(req[c])

LEMMA AtAHandler ==
    ASSUME NEW c \in Conns, Sound(c), NEW h, At(c, h)
    PROVE  /\ req[c].stage = "enter" /\ h = Chain[req[c].arrival.route][req[c].index]
           /\ req[c].arrival.route \in Routes
           /\ req[c].index \in 1..Len(Chain[req[c].arrival.route])
<1>1. req[c] \in Request /\ FramesOK(req[c]) /\ req[c].stage = "enter"
  BY DEF Sound, RequestInv, At
<1>2. Len(req[c].frames) \in Nat /\ req[c].arrival.route \in Routes
  BY <1>1, LenProperties DEF Request, Arrival
<1>3. Len(Chain[req[c].arrival.route]) \in 5..7
  BY <1>2, ChainLengths
<1> QED
  BY <1>1, <1>2, <1>3 DEF FramesOK, At

LEMMA EnterMiddlewareMoves ==
    ASSUME NEW c \in Conns, Sound(c), EnterMiddleware(c) PROVE Moves(c)
<1>1. PICK h \in {"Recovery", "ErrorHandler", "PrometheusMetrics", "OTel"} :
        At(c, h) /\ Set(c, CallNext(req[c], h))
  BY DEF EnterMiddleware
<1> DEFINE r == req[c]
<1>2. r \in Request /\ RequestInv(r)
  BY DEF Sound
<1>3. r.stage = "enter" /\ h = Chain[r.arrival.route][r.index]
  BY <1>1, AtAHandler
<1>4. h \notin {"UploadHandler", "PublicHandler"} /\ h # "Authenticate"
  BY <1>1
<1> HIDE DEF r
<1>5. Labelled(r, r)
  BY DEF Labelled
<1>6. r.called \/ h = "Authenticate" => r.arrival.route = "upload" /\ Proves(r.arrival, r.user)
  BY <1>2, <1>4, Zenon DEF RequestInv, UserOK
<1>7. CallNext(r, h) \in Request /\ RequestInv(CallNext(r, h))
  BY <1>2, <1>3, <1>4, <1>5, <1>6, FurtherIn
<1> QED
  BY <1>1, <1>7 DEF Moves, r

LEMMA RequestContextMoves ==
    ASSUME NEW c \in Conns, Sound(c), RequestContext(c) PROVE Moves(c)
<1> DEFINE r == req[c]
           id == IF r.arrival.named THEN "sent" ELSE "generated"
           q == [r EXCEPT !.traceID = id]
<1>1. At(c, "RequestContext") /\ Set(c, CallNext(q, "RequestContext"))
  BY DEF RequestContext
<1>2. r \in Request /\ RequestInv(r)
  BY DEF Sound
<1>3. r.stage = "enter" /\ "RequestContext" = Chain[r.arrival.route][r.index]
  BY <1>1, AtAHandler
<1>4. id \in RequestIDs
  BY DEF RequestIDs
<1> HIDE DEF r, id
<1>5. q \in Request /\ Labelled(r, q) /\ q.user = r.user
  BY <1>2, <1>4 DEF Request, Labelled
<1>6. q.called \/ "RequestContext" = "Authenticate" =>
        r.arrival.route = "upload" /\ Proves(r.arrival, q.user)
  <2>1. q.called = r.called /\ "RequestContext" # "Authenticate"
    BY <1>5 DEF Labelled
  <2> QED
    BY <1>2, <1>5, <2>1, Zenon DEF RequestInv, UserOK
<1> HIDE DEF q
<1>7. CallNext(q, "RequestContext") \in Request /\ RequestInv(CallNext(q, "RequestContext"))
  BY <1>2, <1>3, <1>5, <1>6, FurtherIn
<1> QED
  BY <1>1, <1>7 DEF Moves

LEMMA Upright ==
    ASSUME NEW c \in Conns, Sound(c), req[c].stage \in {"enter", "service"}
    PROVE  FirstAnswerStands(req[c]) /\ ~Answered(req[c]) /\ req[c].errors = 0
BY FirstAnswerStandsAnyway, NothingIsAnsweredOnTheWayIn DEF Sound, RequestInv, Answered

LEMMA AuthenticateMoves ==
    ASSUME NEW c \in Conns, Sound(c), Authenticate(c) PROVE Moves(c)
<1> DEFINE r == req[c]
           a == r.arrival
           q == [r EXCEPT !.user = a.token.user]
<1>1. /\ At(c, "Authenticate")
      /\ \/ \E w \in AbortJSON(r, 401, TraceIDOfGinContext(r)) : Set(c, Return(w))
         \/ /\ a.authorization = "bearer" /\ ValidateToken(a.token) = "nil"
            /\ Set(c, CallNext(q, "Authenticate"))
         \/ Set(c, Panic(r))
  BY DEF Authenticate
<1>2. r \in Request /\ RequestInv(r)
  BY DEF Sound
<1>3. /\ r.stage = "enter" /\ "Authenticate" = Chain[a.route][r.index]
      /\ a.route \in Routes /\ r.index \in 1..Len(Chain[a.route])
  BY <1>1, AtAHandler
<1>4. r.index = 6 /\ a.route = "upload" /\ Len(Chain[a.route]) = 7
  BY <1>3, HandlersHaveTheirPlace, ChainsAreLaidOut
<1>5. FirstAnswerStands(r) /\ ~Answered(r)
  BY <1>3, Upright
<1>6. r.stage \in {"enter", "service"} /\ r.index \in {6, 7}
  BY <1>3, <1>4
<1> HIDE DEF r
<1>7. CASE \E w \in AbortJSON(r, 401, TraceIDOfGinContext(r)) : Set(c, Return(w))
  <2>1. PICK j \in JSON(r, 401, TraceIDOfGinContext(r)) : Set(c, Return(Abort(j)))
    BY <1>7 DEF AbortJSON
  <2>2. 401 \in Codes /\ TraceIDOfGinContext(r) \in RequestIDs
    BY DEF Codes, RequestIDs, TraceIDOfGinContext
  <2>3. j \in Request /\ Beside(r, j) /\ FirstAnswerStands(j) /\ Answered(j)
    BY <1>2, <1>5, <2>2, JSONAnswers
  <2> DEFINE f == Abort(j)
  <2>4. /\ f \in Request /\ Beside(j, f) /\ f.index = AbortIndex /\ f.errors = j.errors
        /\ f.bodies = j.bodies /\ f.status = j.status
    BY <2>3, AbortedSaysSo
  <2> HIDE DEF f
  <2>5. Beside(r, f)
    BY <2>3, <2>4 DEF Beside
  <2>6. FirstAnswerStands(f) /\ f.bodies # <<>>
    BY <2>3, <2>4, Zenon DEF FirstAnswerStands, Answered
  <2>7. f.index + 1 > Len(Chain[r.arrival.route])
    BY <1>4, <2>4 DEF AbortIndex
  <2>8. Return(f) \in Request /\ RequestInv(Return(f))
    BY <1>2, <1>6, <2>4, <2>5, <2>6, <2>7, AnswersOnTheWayIn
  <2> QED
    BY <2>1, <2>8 DEF Moves, f
<1>8. CASE /\ a.authorization = "bearer" /\ ValidateToken(a.token) = "nil"
           /\ Set(c, CallNext(q, "Authenticate"))
  <2>1. a \in Arrival /\ a.token.user \in Users
    BY <1>2 DEF Request, Arrival, Token
  <2>2. Proves(a, a.token.user)
    BY <1>8, <2>1, ValidatedTokenProves
  <2>3. q \in Request /\ Labelled(r, q) /\ q.user = a.token.user
    BY <1>2, <2>1 DEF Request, Labelled
  <2> HIDE DEF q
  <2>4. a.route = "upload" /\ Proves(a, q.user)
    BY <1>4, <2>2, <2>3
  <2>5. CallNext(q, "Authenticate") \in Request /\ RequestInv(CallNext(q, "Authenticate"))
    BY <1>2, <1>3, <2>3, <2>4, FurtherIn
  <2> QED
    BY <1>8, <2>5 DEF Moves
<1>9. CASE Set(c, Panic(r))
  <2>1. Panic(r) \in Request /\ RequestInv(Panic(r))
    BY <1>2, <1>6, PanicsOnTheWayIn
  <2> QED
    BY <1>9, <2>1 DEF Moves
<1> QED
  BY <1>1, <1>7, <1>8, <1>9

(* A handler at the end of the upload chain answers through c.JSON. *)
LEMMA RepliesMove ==
    ASSUME NEW c \in Conns, Sound(c), req[c].stage \in {"enter", "service"},
           req[c].index = 7, NEW code \in Codes, NEW id \in RequestIDs,
           NEW w \in JSON(req[c], code, id), Set(c, Return(w))
    PROVE  Moves(c)
<1> DEFINE r == req[c]
<1>1. r \in Request /\ RequestInv(r) /\ FirstAnswerStands(r) /\ ~Answered(r)
  BY Upright DEF Sound
<1>2. r.stage \in {"enter", "service"} /\ r.index = 7 /\ w \in JSON(r, code, id)
  OBVIOUS
<1> HIDE DEF r
<1>3. /\ w \in Request /\ Beside(r, w) /\ FirstAnswerStands(w) /\ Answered(w)
      /\ w.index \in {r.index, AbortIndex}
  BY <1>1, <1>2, JSONAnswers
<1>4. w.index + 1 > Len(Chain[r.arrival.route])
  <2> DEFINE L == Len(Chain[r.arrival.route])
  <2>1. L \in 5..7
    BY <1>1, ChainLengths DEF Request, Arrival
  <2>2. w.index \in {7, 63}
    BY <1>2, <1>3 DEF AbortIndex
  <2> HIDE DEF L
  <2>3. w.index + 1 > L
    BY <2>1, <2>2
  <2> QED
    BY <2>3 DEF L
<1>5. w.bodies # <<>> /\ r.index \in {6, 7}
  BY <1>2, <1>3, Zenon DEF Answered
<1>6. Return(w) \in Request /\ RequestInv(Return(w))
  BY <1>1, <1>2, <1>3, <1>4, <1>5, AnswersOnTheWayIn
<1> QED
  BY <1>6 DEF Moves

LEMMA UploadHandlerMoves ==
    ASSUME NEW c \in Conns, Sound(c), UploadHandler(c) PROVE Moves(c)
<1> DEFINE r == req[c]
           s == [r EXCEPT !.stage = "service", !.called = TRUE]
<1>1. /\ At(c, "UploadHandler")
      /\ \/ \E w \in JSON(r, 400, r.traceID) : Set(c, Return(w))
         \/ Set(c, s)
  BY DEF UploadHandler
<1>2. r \in Request /\ RequestInv(r)
  BY DEF Sound
<1>3. /\ r.stage = "enter" /\ "UploadHandler" = Chain[r.arrival.route][r.index]
      /\ r.arrival.route \in Routes /\ r.index \in 1..Len(Chain[r.arrival.route])
  BY <1>1, AtAHandler
<1>4. r.index = 7
  BY <1>3, HandlersHaveTheirPlace
<1>5. CASE \E w \in JSON(r, 400, r.traceID) : Set(c, Return(w))
  <2>1. 400 \in Codes /\ r.traceID \in RequestIDs
    BY <1>2 DEF Codes, ServiceCodes, Request
  <2>2. r.stage \in {"enter", "service"}
    BY <1>3
  <2> QED
    BY <1>4, <1>5, <2>1, <2>2, RepliesMove
<1>6. CASE Set(c, s)
  <2> HIDE DEF r
  <2>1. /\ s \in Request /\ s.stage = "service" /\ s.arrival = r.arrival /\ s.index = r.index
        /\ s.frames = r.frames /\ s.bodies = r.bodies /\ s.counted = r.counted
        /\ s.errors = r.errors /\ s.status = r.status /\ s.user = r.user /\ s.called
        /\ s.panicked = r.panicked
    BY <1>2 DEF Request
  <2> HIDE DEF s
  <2>2. RequestInv(s)
    BY <1>2, <1>3, <2>1, ServiceIsCalled
  <2> QED
    BY <1>6, <2>1, <2>2 DEF Moves
<1> QED
  BY <1>1, <1>5, <1>6

LEMMA ServiceReturnsMoves ==
    ASSUME NEW c \in Conns, Sound(c), ServiceReturns(c) PROVE Moves(c)
<1> DEFINE r == req[c]
<1>1. /\ r.stage = "service"
      /\ \/ \E code \in ServiceCodes :
              \E w \in JSON(r, code, IF code < 400 THEN "none" ELSE r.traceID) :
                  Set(c, Return(w))
         \/ Set(c, Panic(r))
  BY DEF ServiceReturns
<1>2. r \in Request /\ RequestInv(r)
  BY DEF Sound
<1>3. r.index = 7 /\ r.stage \in {"enter", "service"} /\ r.index \in {6, 7}
  <2>1. /\ Chain[r.arrival.route][r.index] = "UploadHandler" /\ r.arrival.route \in Routes
        /\ r.index \in 1..Len(Chain[r.arrival.route])
    <3>1. Len(r.frames) \in Nat /\ r.arrival.route \in Routes
      BY <1>2, LenProperties DEF Request, Arrival
    <3>2. Len(Chain[r.arrival.route]) \in 5..7
      BY <3>1, ChainLengths
    <3> QED
      BY <1>1, <1>2, <3>1, <3>2 DEF RequestInv, FramesOK
  <2>2. r.index = 7
    BY <2>1, HandlersHaveTheirPlace
  <2> QED
    BY <1>1, <2>2
<1>4. ASSUME NEW code \in ServiceCodes,
             NEW w \in JSON(r, code, IF code < 400 THEN "none" ELSE r.traceID),
             Set(c, Return(w))
      PROVE  Moves(c)
  <2>1. code \in Codes
    BY <1>4 DEF Codes
  <2>2. (IF code < 400 THEN "none" ELSE r.traceID) \in RequestIDs
    <3>1. "none" \in RequestIDs /\ r.traceID \in RequestIDs
      BY <1>2 DEF RequestIDs, Request
    <3> QED
      BY <3>1, Zenon
  <2> QED
    BY <1>3, <1>4, <2>1, <2>2, RepliesMove
<1>5. CASE Set(c, Panic(r))
  <2> HIDE DEF r
  <2>1. Panic(r) \in Request /\ RequestInv(Panic(r))
    BY <1>2, <1>3, PanicsOnTheWayIn
  <2> QED
    BY <1>5, <2>1 DEF Moves
<1> QED
  BY <1>1, <1>4, <1>5

LEMMA PublicHandlerMoves ==
    ASSUME NEW c \in Conns, Sound(c), PublicHandler(c) PROVE Moves(c)
<1> DEFINE r == req[c]
<1>1. At(c, "PublicHandler") /\ (\/ \E code \in PublicCodes : Set(c, Return(Written(r, code, "none")))
                               \/ Set(c, Panic(r)))
  BY DEF PublicHandler
<1>2. r \in Request /\ RequestInv(r)
  BY DEF Sound
<1>3. /\ r.stage = "enter" /\ "PublicHandler" = Chain[r.arrival.route][r.index]
      /\ r.arrival.route \in Routes /\ r.index \in 1..Len(Chain[r.arrival.route])
  BY <1>1, AtAHandler
<1>4. r.index = 6 /\ Len(Chain[r.arrival.route]) = 6
  BY <1>3, HandlersHaveTheirPlace, ChainsAreLaidOut
<1>5. r.stage \in {"enter", "service"} /\ r.index \in {6, 7}
  BY <1>3, <1>4
<1>6. ~Answered(r) /\ r.errors = 0
  BY <1>5, Upright
<1> HIDE DEF r
<1>7. ASSUME NEW code \in PublicCodes, Set(c, Return(Written(r, code, "none")))
      PROVE  Moves(c)
  <2> DEFINE p == Written(r, code, "none")
  <2>1. code \in Codes /\ "none" \in RequestIDs
    BY DEF PublicCodes, Codes, ServiceCodes, RequestIDs
  <2>2. /\ p \in Request /\ Beside(r, p) /\ p.index = r.index /\ Answered(p)
        /\ FirstAnswerStands(p)
    BY <1>2, <1>6, <2>1, WritingFirst
  <2>5. Set(c, Return(p))
    BY <1>7
  <2> HIDE DEF p
  <2>3. p.index + 1 > Len(Chain[r.arrival.route]) /\ p.bodies # <<>>
    BY <1>4, <2>2 DEF Answered
  <2>4. Return(p) \in Request /\ RequestInv(Return(p))
    BY <1>2, <1>5, <2>2, <2>3, AnswersOnTheWayIn
  <2> QED
    BY <2>4, <2>5 DEF Moves
<1>8. CASE Set(c, Panic(r))
  <2>1. Panic(r) \in Request /\ RequestInv(Panic(r))
    BY <1>2, <1>5, PanicsOnTheWayIn
  <2> QED
    BY <1>8, <2>1 DEF Moves
<1> QED
  BY <1>1, <1>7, <1>8

LEMMA FramesAreThere ==
    ASSUME NEW r \in Request, r.frames # <<>>
    PROVE  Len(r.frames) \in Nat /\ Len(r.frames) # 0
<1>1. r.frames \in Seq(Handler)
  BY DEF Request
<1>2. Len(r.frames) \in Nat \ {0}
  BY <1>1, EmptySeq, Zenon
<1> QED
  BY <1>2

LEMMA AfterNextMoves ==
    ASSUME NEW c \in Conns, Sound(c), AfterNext(c) PROVE Moves(c)
<1> DEFINE r == req[c]
           h == Top(r)
           n == Len(r.frames)
<1>1. /\ r.stage = "after"
      /\ \/ h = "PrometheusMetrics" /\ Set(c, Leave(RecordMetrics(r)))
         \/ h = "ErrorHandler" /\ \E w \in ReportErrors(r) : Set(c, Leave(w))
         \/ h \notin {"PrometheusMetrics", "ErrorHandler"} /\ Set(c, Leave(r))
  BY DEF AfterNext
<1>2. r \in Request /\ RequestInv(r)
  BY DEF Sound
<1>3. n \in Nat /\ n # 0 /\ n = Len(r.frames)
  <2>1. r.frames # <<>>
    BY DEF AfterNext
  <2> QED
    BY <1>2, <2>1, FramesAreThere
<1> HIDE DEF r, n
<1>4. (h = "ErrorHandler" <=> n = 3) /\ (h = "PrometheusMetrics" <=> n = 4)
  <2>1. FramesOK(r)
    BY <1>2 DEF RequestInv
  <2> QED
    BY <1>2, <1>3, <2>1, TopOfFrames
<1>5. CASE h = "PrometheusMetrics" /\ Set(c, Leave(RecordMetrics(r)))
  <2>1. Leave(RecordMetrics(r)) \in Request /\ RequestInv(Leave(RecordMetrics(r)))
    BY <1>1, <1>2, <1>3, <1>4, <1>5, MetricsAreRecorded
  <2> QED
    BY <1>5, <2>1 DEF Moves
<1>6. CASE h = "ErrorHandler" /\ \E w \in ReportErrors(r) : Set(c, Leave(w))
  <2>1. PICK w \in ReportErrors(r) : Set(c, Leave(w))
    BY <1>6
  <2>2. Leave(w) \in Request /\ RequestInv(Leave(w))
    BY <1>1, <1>2, <1>3, <1>4, <1>6, ErrorsAreReported
  <2> QED
    BY <2>1, <2>2 DEF Moves
<1>7. CASE h \notin {"PrometheusMetrics", "ErrorHandler"} /\ Set(c, Leave(r))
  <2>1. n # 3 /\ n # 4
    BY <1>4, <1>7
  <2>2. Leave(r) \in Request /\ RequestInv(Leave(r))
    BY <1>1, <1>2, <1>3, <2>1, MiddlewareReturns
  <2> QED
    BY <1>7, <2>2 DEF Moves
<1> QED
  BY <1>1, <1>5, <1>6, <1>7

LEMMA UnwindMoves ==
    ASSUME NEW c \in Conns, Sound(c), Unwind(c) PROVE Moves(c)
<1> DEFINE r == req[c]
           h == Top(r)
           n == Len(r.frames)
           w == [r EXCEPT !.frames = SubSeq(@, 1, Len(@) - 1)]
<1>1. /\ r.stage = "unwind"
      /\ \/ h = "ErrorHandler" /\ \E q \in Recovered(r) : Set(c, Leave(q))
         \/ h = "Recovery"
         \/ h # "ErrorHandler" /\ h # "Recovery" /\ Set(c, w)
  BY DEF Unwind
<1>2. r \in Request /\ RequestInv(r)
  BY DEF Sound
<1>3. n \in Nat /\ n # 0 /\ n = Len(r.frames) /\ n >= 3
  <2>1. r.frames # <<>>
    BY DEF Unwind
  <2>2. n >= 3
    BY <1>1, <1>2 DEF RequestInv, FramesOK
  <2> QED
    BY <1>2, <2>1, <2>2, FramesAreThere
<1> HIDE DEF r
<1>4. (h = "ErrorHandler" <=> n = 3) /\ (h = "Recovery" <=> n = 1)
  <2>1. FramesOK(r)
    BY <1>2 DEF RequestInv
  <2> QED
    BY <1>2, <1>3, <2>1, TopOfFrames
<1>5. CASE h = "ErrorHandler" /\ \E q \in Recovered(r) : Set(c, Leave(q))
  <2>1. PICK q \in Recovered(r) : Set(c, Leave(q))
    BY <1>5
  <2> HIDE DEF n, w
  <2>2. n = 3
    BY <1>4, <1>5
  <2>3. Leave(q) \in Request /\ RequestInv(Leave(q))
    BY <1>1, <1>2, <1>3, <2>2, PanicIsAnswered
  <2> QED
    BY <2>1, <2>3 DEF Moves
<1>6. CASE h = "Recovery"
  <2> HIDE DEF n
  <2> QED
    BY <1>3, <1>4, <1>6
<1>7. CASE h # "ErrorHandler" /\ h # "Recovery" /\ Set(c, w)
  <2> DEFINE s == SubSeq(r.frames, 1, n - 1)
  <2>1. s \in Seq(Handler)
    BY <1>2, <1>3, FramesPop
  <2>2. w = [r EXCEPT !.frames = s]
    OBVIOUS
  <2> HIDE DEF s, w
  <2>3. /\ w \in Request /\ w.stage = r.stage /\ w.arrival = r.arrival
        /\ w.frames = s /\ w.user = r.user /\ w.status = r.status /\ w.bodies = r.bodies
        /\ w.errors = r.errors /\ w.counted = r.counted /\ w.called = r.called
        /\ w.panicked = r.panicked
    BY <1>2, <2>1, <2>2 DEF Request
  <2>4. w.frames = SubSeq(r.frames, 1, n - 1)
    BY <2>3 DEF s
  <2> HIDE DEF n
  <2>5. n > 3
    <3>1. n # 3
      BY <1>4, <1>7, Zenon
    <3>2. \A k \in Nat : k >= 3 /\ k # 3 => k > 3
      OBVIOUS
    <3> QED
      BY <1>3, <3>1, <3>2, Zenon
  <2>6. RequestInv(w)
    BY <1>1, <1>2, <1>3, <2>3, <2>4, <2>5, PanicGoesUp
  <2> QED
    BY <1>7, <2>3, <2>6 DEF Moves
<1> QED
  BY <1>1, <1>5, <1>6, <1>7

LEMMA FinishMoves ==
    ASSUME NEW c \in Conns, Sound(c), Finish(c) PROVE Moves(c)
<1> DEFINE r == req[c]
           q == IF r.arrival.route = "unmatched" /\ r.bodies = <<>>
                THEN Written(r, 404, "none") ELSE r
           w == [q EXCEPT !.stage = "done"]
<1>1. r.stage = "after" /\ r.frames = <<>> /\ Set(c, w)
  BY DEF Finish
<1>2. r \in Request /\ RequestInv(r)
  BY DEF Sound
<1> HIDE DEF r
<1>3. /\ q \in Request /\ Beside(r, q) /\ Answered(q) /\ FirstAnswerStands(q)
      /\ q.status = r.status /\ q.index = r.index
      /\ q.panicked => q.counted = <<>> /\ AnsweredFirst(q, 500, q.traceID)
      /\ ~q.panicked => q.counted = <<q.status>>
  BY <1>1, <1>2, EngineAnswers
<1> HIDE DEF q
<1>4. /\ w \in Request /\ w.stage = "done" /\ w.arrival = q.arrival /\ w.index = q.index
      /\ w.frames = q.frames /\ w.traceID = q.traceID /\ w.user = q.user
      /\ w.status = q.status /\ w.bodies = q.bodies /\ w.errors = q.errors
      /\ w.counted = q.counted /\ w.called = q.called /\ w.panicked = q.panicked
  BY <1>3 DEF Request
<1> HIDE DEF w
<1>5. RequestInv(w)
  BY <1>1, <1>2, <1>3, <1>4, RequestEnds
<1> QED
  BY <1>1, <1>4, <1>5 DEF Moves

LEMMA FreeIsSound == Free \in Request /\ RequestInv(Free) /\ Free.stage = "idle"
<1>1. (CHOOSE a \in Arrivals : TRUE) \in Arrival
  BY ArrivalsAssumption
<1>2. Free.stage = "idle"
  BY DEF Free, Idle
<1> QED
  BY <1>1, <1>2, FreeConnection DEF Free

LEMMA ReleaseMoves == ASSUME NEW c \in Conns, Release(c) PROVE Moves(c)
BY FreeIsSound DEF Release, Moves

LEMMA ReceiveMoves == ASSUME NEW c \in Conns, Receive(c) PROVE Moves(c)
<1>1. PICK a \in Arrivals : Set(c, Loop(Idle(a)))
  BY DEF Receive
<1>2. a \in Arrival
  BY ArrivalsAssumption
<1>3. Loop(Idle(a)) \in Request /\ RequestInv(Loop(Idle(a)))
  BY <1>2, RequestComesIn
<1> QED
  BY <1>1, <1>3 DEF Moves

(* Whatever a goroutine does next, the invariant stays. *)
LEMMA HandlingIsSound == ASSUME NEW c \in Conns, Sound(c), Handle(c) PROVE Moves(c)
BY EnterMiddlewareMoves, RequestContextMoves, AuthenticateMoves, UploadHandlerMoves,
   ServiceReturnsMoves, PublicHandlerMoves, AfterNextMoves, UnwindMoves, FinishMoves,
   ReleaseMoves DEF Handle

-----------------------------------------------------------------------------
(* Each step brings a request nearer to its end. *)

(* How a step changes the stage and the frames: further in by one frame, to the  *)
(* service, back from a handler, out by one frame, or to the end.                *)
GoesNearer(r, w) ==
    /\ w.arrival = r.arrival
    /\ \/ /\ r.stage = "enter"
          /\ Len(w.frames) = Len(r.frames) + 1 /\ w.stage \in {"enter", "after"}
       \/ /\ r.stage = "enter"
          /\ Len(w.frames) = Len(r.frames) /\ w.stage \in {"service", "after", "unwind"}
       \/ /\ r.stage = "service"
          /\ Len(w.frames) = Len(r.frames) /\ w.stage \in {"after", "unwind"}
       \/ /\ r.stage \in {"after", "unwind"}
          /\ Len(w.frames) = Len(r.frames) - 1 /\ w.stage \in {"after", "unwind"}
       \/ /\ r.stage = "after" /\ w.stage = "done"

LEMMA StepsLeftAre ==
    ASSUME NEW r \in Request, FramesOK(r), NEW n, n = Len(r.frames),
           NEW L, L = Len(Chain[r.arrival.route])
    PROVE  /\ n \in Nat /\ L \in 5..7 /\ n <= L
           /\ r.stage \in {"enter", "service"} => n < L
           /\ r.stage = "enter" => StepsLeft(r) = 3 * (L - n) + n + 1
           /\ r.stage = "service" => StepsLeft(r) = 3 * (L - n) + n
           /\ r.stage \in {"after", "unwind"} => StepsLeft(r) = n + 1
           /\ r.stage \in {"idle", "done"} => StepsLeft(r) = 0
<1>1. n \in Nat /\ L \in 5..7 /\ r.index \in Nat
  BY LenProperties, ChainLengths DEF Request, Arrival
<1>2. n <= L /\ (r.stage \in {"enter", "service"} => r.index = n + 1 /\ r.index <= L)
  BY DEF FramesOK
<1>3. StepsLeft(r) = IF r.stage \in {"idle", "done"} THEN 0
                     ELSE IF r.stage = "enter" THEN 3 * (L + 1 - r.index) + n + 1
                     ELSE IF r.stage = "service" THEN 3 * (L + 1 - r.index) + n
                     ELSE n + 1
  BY DEF StepsLeft
<1>4. ASSUME r.stage \in {"enter", "service"}
      PROVE  n < L /\ L + 1 - r.index = L - n
  <2>1. r.index = n + 1 /\ r.index <= L
    BY <1>2, <1>4
  <2>2. \A i, k, l \in Int : i = k + 1 /\ i <= l => k < l /\ l + 1 - i = l - k
    OBVIOUS
  <2>3. r.index \in Int /\ n \in Int /\ L \in Int
    BY <1>1
  <2> QED
    BY <2>1, <2>2, <2>3, Zenon
<1>5. ASSUME r.stage = "enter" PROVE StepsLeft(r) = 3 * (L - n) + n + 1
  BY <1>3, <1>4, <1>5
<1>6. ASSUME r.stage = "service" PROVE StepsLeft(r) = 3 * (L - n) + n
  BY <1>3, <1>4, <1>6
<1>7. /\ r.stage \in {"after", "unwind"} => StepsLeft(r) = n + 1
      /\ r.stage \in {"idle", "done"} => StepsLeft(r) = 0
  BY <1>3, Zenon
<1> QED
  BY <1>1, <1>2, <1>4, <1>5, <1>6, <1>7

LEMMA NearerHasLessLeft ==
    ASSUME NEW r \in Request, FramesOK(r), NEW w \in Request, FramesOK(w), GoesNearer(r, w)
    PROVE  StepsLeft(w) < StepsLeft(r)
<1> DEFINE n == Len(r.frames)
           m == Len(w.frames)
           L == Len(Chain[r.arrival.route])
<1>1. /\ n \in Nat /\ L \in 5..7 /\ n <= L
      /\ r.stage \in {"enter", "service"} => n < L
      /\ r.stage = "enter" => StepsLeft(r) = 3 * (L - n) + n + 1
      /\ r.stage = "service" => StepsLeft(r) = 3 * (L - n) + n
      /\ r.stage \in {"after", "unwind"} => StepsLeft(r) = n + 1
  BY StepsLeftAre
<1>2. L = Len(Chain[w.arrival.route])
  BY DEF GoesNearer
<1>3. /\ m \in Nat
      /\ w.stage = "enter" => StepsLeft(w) = 3 * (L - m) + m + 1
      /\ w.stage = "service" => StepsLeft(w) = 3 * (L - m) + m
      /\ w.stage \in {"after", "unwind"} => StepsLeft(w) = m + 1
      /\ w.stage = "done" => StepsLeft(w) = 0
  BY <1>2, StepsLeftAre
<1>4. \/ r.stage = "enter" /\ m = n + 1 /\ w.stage \in {"enter", "after"}
      \/ r.stage = "enter" /\ m = n /\ w.stage \in {"service", "after", "unwind"}
      \/ r.stage = "service" /\ m = n /\ w.stage \in {"after", "unwind"}
      \/ r.stage \in {"after", "unwind"} /\ m = n - 1 /\ w.stage \in {"after", "unwind"}
      \/ r.stage = "after" /\ w.stage = "done"
  BY DEF GoesNearer
<1> HIDE DEF n, m, L
<1>5. CASE r.stage = "enter" /\ m = n + 1 /\ w.stage \in {"enter", "after"}
  BY <1>1, <1>3, <1>5
<1>6. CASE r.stage = "enter" /\ m = n /\ w.stage \in {"service", "after", "unwind"}
  BY <1>1, <1>3, <1>6
<1>7. CASE r.stage = "service" /\ m = n /\ w.stage \in {"after", "unwind"}
  BY <1>1, <1>3, <1>7
<1>8. CASE r.stage \in {"after", "unwind"} /\ m = n - 1 /\ w.stage \in {"after", "unwind"}
  BY <1>1, <1>3, <1>8
<1>9. CASE r.stage = "after" /\ w.stage = "done"
  BY <1>1, <1>3, <1>9
<1> QED
  BY <1>4, <1>5, <1>6, <1>7, <1>8, <1>9

(* A middleware goes further in. *)
LEMMA NextGoesNearer ==
    ASSUME NEW r \in Request, r.stage = "enter", NEW h \in Handler,
           NEW q \in Request, Labelled(r, q), NEW w, w = CallNext(q, h)
    PROVE  GoesNearer(r, w)
<1>1. /\ w.arrival = r.arrival /\ w.frames = Append(r.frames, h)
      /\ w.stage \in {"enter", "after"}
  BY NextIsCalled DEF Labelled, Inner, Looped
<1>2. Len(w.frames) = Len(r.frames) + 1
  BY <1>1, AppendProperties DEF Request
<1> QED
  BY <1>1, <1>2 DEF GoesNearer

(* A handler that returns goes to the way out: the rest of its chain is empty, or *)
(* was aborted.                                                                  *)
LEMMA ReturnGoesNearer ==
    ASSUME NEW r \in Request, FramesOK(r), r.stage \in {"enter", "service"},
           NEW q \in Request, q.arrival = r.arrival, q.frames = r.frames,
           q.index \in {r.index, AbortIndex}, NEW w, w = Return(q), FramesOK(w)
    PROVE  GoesNearer(r, w)
<1> DEFINE n == Len(r.frames)
           L == Len(Chain[r.arrival.route])
<1>1. /\ w \in Request /\ w.arrival = r.arrival /\ w.frames = r.frames
      /\ w.index = q.index + 1 /\ w.stage \in {"enter", "after"}
  BY HandlerReturns DEF Inner, Looped
<1>2. n \in Nat /\ L \in 5..7 /\ r.index = n + 1 /\ n < L
  <2>1. n \in Nat /\ L \in 5..7 /\ n < L
    BY StepsLeftAre
  <2> QED
    BY <2>1 DEF FramesOK
<1>3. w.stage = "enter" => w.index = n + 1
  BY <1>1 DEF FramesOK
<1> HIDE DEF n, L
<1>4. w.stage = "after"
  BY <1>1, <1>2, <1>3 DEF AbortIndex
<1> QED
  BY <1>1, <1>4 DEF GoesNearer

LEMMA PanicGoesNearer ==
    ASSUME NEW r \in Request, r.stage \in {"enter", "service"}, NEW w, w = Panic(r)
    PROVE  GoesNearer(r, w)
<1>1. w.arrival = r.arrival /\ w.frames = r.frames /\ w.stage = "unwind"
  BY DEF Panic, Request
<1> QED
  BY <1>1 DEF GoesNearer

(* A frame that is left starts no handler again. *)
LEMMA LeavingGoesNearer ==
    ASSUME NEW r \in Request, FramesOK(r), r.stage \in {"after", "unwind"}, r.frames # <<>>,
           NEW q \in Request, q.arrival = r.arrival, q.frames = r.frames,
           q.index = AbortIndex \/ (r.stage = "after" /\ q.index = r.index),
           NEW w, w = Leave(q), FramesOK(w)
    PROVE  GoesNearer(r, w)
<1> DEFINE n == Len(r.frames)
           L == Len(Chain[r.arrival.route])
<1>1. n \in Nat /\ n # 0 /\ L \in 5..7 /\ n <= L
  BY FramesAreThere, StepsLeftAre
<1>2. r.stage = "after" => r.index > L
  BY DEF FramesOK
<1> HIDE DEF n
<1>3. /\ w.arrival = r.arrival /\ w.frames = SubSeq(r.frames, 1, n - 1)
      /\ w.index = q.index + 1 /\ w.stage \in {"enter", "after"}
  BY <1>1, FrameIsLeft DEF Inner, Looped, n
<1>4. Len(w.frames) = n - 1
  BY <1>1, <1>3, FramesPop DEF n
<1>5. w.stage = "enter" => w.index = n
  BY <1>1, <1>4 DEF FramesOK
<1>6. r.index \in Nat
  BY DEF Request
<1> HIDE DEF L
<1>7. w.stage = "after"
  BY <1>1, <1>2, <1>3, <1>5, <1>6 DEF AbortIndex
<1> QED
  BY <1>3, <1>4, <1>7 DEF GoesNearer, n

(* A step from one sound request to another. *)
SoundStep(c) ==
    /\ PipelineTypeOK /\ Sound(c)
    /\ req'[c] \in Request /\ FramesOK(req'[c])

LEMMA SetIs ==
    ASSUME NEW c \in Conns, PipelineTypeOK, NEW w, Set(c, w)
    PROVE  req'[c] = w
BY DEF PipelineTypeOK, Set

LEMMA EnteringGoesNearer ==
    ASSUME NEW c \in Conns, SoundStep(c),
           EnterMiddleware(c) \/ RequestContext(c)
    PROVE  GoesNearer(req[c], req'[c])
<1> DEFINE r == req[c]
           id == IF r.arrival.named THEN "sent" ELSE "generated"
           q == [r EXCEPT !.traceID = id]
<1>1. r \in Request
  BY DEF SoundStep, Sound
<1>2. CASE EnterMiddleware(c)
  <2>1. PICK h \in {"Recovery", "ErrorHandler", "PrometheusMetrics", "OTel"} :
          At(c, h) /\ Set(c, CallNext(r, h))
    BY <1>2 DEF EnterMiddleware
  <2>2. r.stage = "enter" /\ h \in Handler /\ Labelled(r, r)
    BY <2>1 DEF At, Handler, Labelled
  <2>3. req'[c] = CallNext(r, h)
    BY <2>1, SetIs DEF SoundStep
  <2> QED
    BY <1>1, <2>2, <2>3, NextGoesNearer
<1>3. CASE RequestContext(c)
  <2>1. r.stage = "enter" /\ Set(c, CallNext(q, "RequestContext"))
    BY <1>3 DEF RequestContext, At
  <2>2. id \in RequestIDs /\ "RequestContext" \in Handler
    BY DEF RequestIDs, Handler
  <2>3. req'[c] = CallNext(q, "RequestContext")
    BY <2>1, SetIs DEF SoundStep
  <2> HIDE DEF id
  <2>4. q \in Request /\ Labelled(r, q)
    BY <1>1, <2>2 DEF Request, Labelled
  <2> QED
    BY <1>1, <2>1, <2>2, <2>3, <2>4, NextGoesNearer
<1> QED
  BY <1>2, <1>3

LEMMA ReplyingGoesNearer ==
    ASSUME NEW c \in Conns, SoundStep(c), req[c].stage \in {"enter", "service"},
           NEW code \in Codes, NEW id \in RequestIDs, NEW j \in JSON(req[c], code, id),
           Set(c, Return(j)) \/ Set(c, Return(Abort(j)))
    PROVE  GoesNearer(req[c], req'[c])
<1> DEFINE r == req[c]
<1>1. r \in Request /\ FramesOK(r) /\ FramesOK(req'[c])
  BY DEF SoundStep, Sound, RequestInv
<1>2. FirstAnswerStands(r) /\ ~Answered(r)
  BY Upright DEF SoundStep
<1>3. j \in Request /\ Beside(r, j) /\ j.index \in {r.index, AbortIndex}
  BY <1>1, <1>2, JSONAnswers
<1>4. /\ Abort(j) \in Request /\ Beside(j, Abort(j)) /\ Abort(j).index = AbortIndex
  BY <1>3, AbortedSaysSo
<1>5. CASE Set(c, Return(j))
  <2>1. req'[c] = Return(j)
    BY <1>5, SetIs DEF SoundStep
  <2> QED
    BY <1>1, <1>3, <2>1, ReturnGoesNearer DEF Beside
<1>6. CASE Set(c, Return(Abort(j)))
  <2>1. req'[c] = Return(Abort(j))
    BY <1>6, SetIs DEF SoundStep
  <2>2. /\ Abort(j).arrival = r.arrival /\ Abort(j).frames = r.frames
        /\ Abort(j).index \in {r.index, AbortIndex}
    BY <1>3, <1>4 DEF Beside
  <2> QED
    BY <1>1, <1>4, <2>1, <2>2, ReturnGoesNearer
<1> QED
  BY <1>5, <1>6

LEMMA PanickingGoesNearer ==
    ASSUME NEW c \in Conns, SoundStep(c), req[c].stage \in {"enter", "service"},
           Set(c, Panic(req[c]))
    PROVE  GoesNearer(req[c], req'[c])
<1>1. req'[c] = Panic(req[c]) /\ req[c] \in Request
  BY SetIs DEF SoundStep, Sound
<1> QED
  BY <1>1, PanicGoesNearer

LEMMA AuthenticateGoesNearer ==
    ASSUME NEW c \in Conns, SoundStep(c), Authenticate(c)
    PROVE  GoesNearer(req[c], req'[c])
<1> DEFINE r == req[c]
           a == r.arrival
           q == [r EXCEPT !.user = a.token.user]
<1>1. /\ r.stage = "enter"
      /\ \/ \E j \in JSON(r, 401, TraceIDOfGinContext(r)) : Set(c, Return(Abort(j)))
         \/ Set(c, CallNext(q, "Authenticate"))
         \/ Set(c, Panic(r))
  BY DEF Authenticate, At, AbortJSON
<1>2. r \in Request
  BY DEF SoundStep, Sound
<1>3. CASE \E j \in JSON(r, 401, TraceIDOfGinContext(r)) : Set(c, Return(Abort(j)))
  <2>1. 401 \in Codes /\ TraceIDOfGinContext(r) \in RequestIDs
    BY DEF Codes, RequestIDs, TraceIDOfGinContext
  <2> QED
    BY <1>1, <1>3, <2>1, ReplyingGoesNearer
<1>4. CASE Set(c, CallNext(q, "Authenticate"))
  <2>1. a.token.user \in Users /\ "Authenticate" \in Handler
    BY <1>2 DEF Request, Arrival, Token, Handler
  <2>2. q \in Request /\ Labelled(r, q)
    BY <1>2, <2>1 DEF Request, Labelled
  <2>3. req'[c] = CallNext(q, "Authenticate")
    BY <1>4, SetIs DEF SoundStep
  <2> QED
    BY <1>1, <1>2, <2>1, <2>2, <2>3, NextGoesNearer
<1>5. CASE Set(c, Panic(r))
  BY <1>1, <1>5, PanickingGoesNearer
<1> QED
  BY <1>1, <1>3, <1>4, <1>5

LEMMA UploadHandlerGoesNearer ==
    ASSUME NEW c \in Conns, SoundStep(c), UploadHandler(c)
    PROVE  GoesNearer(req[c], req'[c])
<1> DEFINE r == req[c]
           s == [r EXCEPT !.stage = "service", !.called = TRUE]
<1>1. /\ r.stage = "enter"
      /\ (\E w \in JSON(r, 400, r.traceID) : Set(c, Return(w))) \/ Set(c, s)
  BY DEF UploadHandler, At
<1>2. r \in Request
  BY DEF SoundStep, Sound
<1>3. CASE \E w \in JSON(r, 400, r.traceID) : Set(c, Return(w))
  <2>1. 400 \in Codes /\ r.traceID \in RequestIDs
    BY <1>2 DEF Codes, ServiceCodes, Request
  <2> QED
    BY <1>1, <1>3, <2>1, ReplyingGoesNearer
<1>4. CASE Set(c, s)
  <2>1. req'[c] = s
    BY <1>4, SetIs DEF SoundStep
  <2>2. s.stage = "service" /\ s.arrival = r.arrival /\ s.frames = r.frames
    BY <1>2 DEF Request
  <2> QED
    BY <1>1, <2>1, <2>2 DEF GoesNearer
<1> QED
  BY <1>1, <1>3, <1>4

LEMMA ServiceGoesNearer ==
    ASSUME NEW c \in Conns, SoundStep(c), ServiceReturns(c)
    PROVE  GoesNearer(req[c], req'[c])
<1> DEFINE r == req[c]
<1>1. /\ r.stage = "service"
      /\ \/ \E code \in ServiceCodes :
              \E w \in JSON(r, code, IF code < 400 THEN "none" ELSE r.traceID) :
                  Set(c, Return(w))
         \/ Set(c, Panic(r))
  BY DEF ServiceReturns
<1>2. ASSUME NEW code \in ServiceCodes,
             NEW w \in JSON(r, code, IF code < 400 THEN "none" ELSE r.traceID),
             Set(c, Return(w))
      PROVE  GoesNearer(r, req'[c])
  <2>1. code \in Codes /\ "none" \in RequestIDs /\ r.traceID \in RequestIDs
    BY <1>2 DEF Codes, RequestIDs, SoundStep, Sound, Request
  <2>2. (IF code < 400 THEN "none" ELSE r.traceID) \in RequestIDs
    BY <2>1, Zenon
  <2> QED
    BY <1>1, <1>2, <2>1, <2>2, ReplyingGoesNearer
<1>3. CASE Set(c, Panic(r))
  BY <1>1, <1>3, PanickingGoesNearer
<1> QED
  BY <1>1, <1>2, <1>3

LEMMA PublicHandlerGoesNearer ==
    ASSUME NEW c \in Conns, SoundStep(c), PublicHandler(c)
    PROVE  GoesNearer(req[c], req'[c])
<1> DEFINE r == req[c]
<1>1. r.stage = "enter" /\ (\/ \E code \in PublicCodes : Set(c, Return(Written(r, code, "none")))
                         \/ Set(c, Panic(r)))
  BY DEF PublicHandler, At
<1>2. r \in Request /\ FramesOK(r) /\ FramesOK(req'[c])
  BY DEF SoundStep, Sound, RequestInv
<1>3. ASSUME NEW code \in PublicCodes, Set(c, Return(Written(r, code, "none")))
      PROVE  GoesNearer(r, req'[c])
  <2> DEFINE p == Written(r, code, "none")
  <2>1. code \in Codes /\ "none" \in RequestIDs
    BY DEF PublicCodes, Codes, ServiceCodes, RequestIDs
  <2>2. ~Answered(r) /\ r.errors = 0
    BY <1>1, Upright DEF SoundStep
  <2>3. req'[c] = Return(p)
    BY <1>3, SetIs DEF SoundStep
  <2>4. GoesNearer(r, req'[c])
    <3> HIDE DEF r
    <3>1. p \in Request /\ Beside(r, p) /\ p.index = r.index
      BY <1>2, <2>1, <2>2, WritingFirst
    <3> HIDE DEF p
    <3>2. p.arrival = r.arrival /\ p.frames = r.frames
      BY <3>1 DEF Beside
    <3> QED
      BY <1>1, <1>2, <2>3, <3>1, <3>2, ReturnGoesNearer
  <2> QED
    BY <2>4
<1>4. CASE Set(c, Panic(r))
  BY <1>1, <1>4, PanickingGoesNearer
<1> QED
  BY <1>1, <1>3, <1>4

LEMMA AfterNextGoesNearer ==
    ASSUME NEW c \in Conns, SoundStep(c), AfterNext(c)
    PROVE  GoesNearer(req[c], req'[c])
<1> DEFINE r == req[c]
<1>1. /\ r.stage = "after" /\ r.frames # <<>>
      /\ \/ Set(c, Leave(RecordMetrics(r)))
         \/ \E w \in ReportErrors(r) : Set(c, Leave(w))
         \/ Set(c, Leave(r))
  BY DEF AfterNext
<1>2. r \in Request /\ FramesOK(r) /\ AnswerOK(r) /\ FramesOK(req'[c])
  BY DEF SoundStep, Sound, RequestInv
<1>3. ASSUME NEW q \in Request, q.arrival = r.arrival, q.frames = r.frames,
             q.index \in {r.index, AbortIndex}, Set(c, Leave(q))
      PROVE  GoesNearer(r, req'[c])
  <2>1. req'[c] = Leave(q)
    BY <1>3, SetIs DEF SoundStep
  <2>2. q.index = AbortIndex \/ (r.stage = "after" /\ q.index = r.index)
    BY <1>1, <1>3
  <2> QED
    BY <1>1, <1>2, <1>3, <2>1, <2>2, LeavingGoesNearer
<1>4. CASE Set(c, Leave(RecordMetrics(r)))
  <2> DEFINE q == RecordMetrics(r)
  <2>1. r.counted \in Seq(Codes) /\ r.status \in Codes
    BY <1>2 DEF Request
  <2>2. Append(r.counted, r.status) \in Seq(Codes)
    BY <2>1, AppendProperties
  <2>3. q \in Request /\ q.arrival = r.arrival /\ q.frames = r.frames /\ q.index = r.index
    BY <1>2, <2>2 DEF RecordMetrics, Request
  <2> HIDE DEF q
  <2> QED
    BY <1>3, <1>4, <2>3 DEF q
<1>5. CASE \E w \in ReportErrors(r) : Set(c, Leave(w))
  <2>1. PICK w \in ReportErrors(r) : Set(c, Leave(w))
    BY <1>5
  <2>2. CASE r.errors > 0
    <3>1. w \in JSON(r, 400, r.traceID)
      BY <2>1, <2>2 DEF ReportErrors
    <3>2. 400 \in Codes /\ r.traceID \in RequestIDs
      BY <1>2 DEF Codes, ServiceCodes, Request
    <3>3. FirstAnswerStands(r)
      BY <1>2, FirstAnswerStandsAnyway
    <3>4. w \in Request /\ Beside(r, w) /\ w.index \in {r.index, AbortIndex}
      BY <1>2, <2>2, <3>1, <3>2, <3>3, JSONAnswers
    <3> QED
      BY <1>3, <2>1, <3>4 DEF Beside
  <2>3. CASE ~(r.errors > 0)
    <3>1. w = r
      BY <2>1, <2>3 DEF ReportErrors
    <3> QED
      BY <1>2, <1>3, <2>1, <3>1
  <2> QED
    BY <2>2, <2>3
<1>6. CASE Set(c, Leave(r))
  BY <1>2, <1>3, <1>6
<1> QED
  BY <1>1, <1>4, <1>5, <1>6

LEMMA UnwindGoesNearer ==
    ASSUME NEW c \in Conns, SoundStep(c), Unwind(c)
    PROVE  GoesNearer(req[c], req'[c])
<1> DEFINE r == req[c]
           n == Len(r.frames)
           v == [r EXCEPT !.status = 500]
           w == [r EXCEPT !.frames = SubSeq(@, 1, Len(@) - 1)]
<1>1. /\ r.stage = "unwind" /\ r.frames # <<>>
      /\ \/ \E q \in Recovered(r) : Set(c, Leave(q))
         \/ Set(c, Leave(Abort(v)))
         \/ Set(c, w)
  BY DEF Unwind
<1>2. r \in Request /\ FramesOK(r) /\ AnswerOK(r) /\ FramesOK(req'[c])
  BY DEF SoundStep, Sound, RequestInv
<1>3. ASSUME NEW j \in Request, j.arrival = r.arrival, j.frames = r.frames,
             Set(c, Leave(Abort(j)))
      PROVE  GoesNearer(r, req'[c])
  <2> DEFINE q == Abort(j)
  <2>1. q \in Request /\ Beside(j, q) /\ q.index = AbortIndex
    BY AbortedSaysSo
  <2>2. req'[c] = Leave(q)
    BY <1>3, SetIs DEF SoundStep
  <2> HIDE DEF q
  <2>3. q.arrival = r.arrival /\ q.frames = r.frames
    BY <1>3, <2>1 DEF Beside
  <2> QED
    BY <1>1, <1>2, <2>1, <2>2, <2>3, LeavingGoesNearer
<1>4. CASE \E q \in Recovered(r) : Set(c, Leave(q))
  <2>1. PICK j \in JSON(r, 500, r.traceID) : Set(c, Leave(Abort(j)))
    BY <1>4 DEF Recovered, AbortJSON
  <2>2. 500 \in Codes /\ r.traceID \in RequestIDs
    BY <1>2 DEF Codes, ServiceCodes, Request
  <2>3. FirstAnswerStands(r) /\ ~Answered(r)
    BY <1>1, <1>2, FirstAnswerStandsAnyway, NothingIsAnsweredInAPanic DEF Answered
  <2>4. j \in Request /\ Beside(r, j)
    BY <1>2, <2>2, <2>3, JSONAnswers
  <2> QED
    BY <1>3, <2>1, <2>4 DEF Beside
<1>5. CASE Set(c, Leave(Abort(v)))
  <2> HIDE DEF r
  <2>1. 500 \in Codes
    BY DEF Codes, ServiceCodes
  <2>2. v \in Request /\ v.arrival = r.arrival /\ v.frames = r.frames
    BY <1>2, <2>1 DEF Request
  <2> HIDE DEF v
  <2>3. GoesNearer(r, req'[c])
    BY <1>3, <1>5, <2>2
  <2> QED
    BY <2>3 DEF r
<1>6. CASE Set(c, w)
  <2>1. req'[c] = w
    BY <1>6, SetIs DEF SoundStep
  <2>2. n \in Nat /\ n # 0 /\ n = Len(r.frames)
    BY <1>1, <1>2, FramesAreThere
  <2>3. w.stage = "unwind" /\ w.arrival = r.arrival /\ w.frames = SubSeq(r.frames, 1, n - 1)
    BY <1>1, <1>2 DEF Request
  <2> HIDE DEF n, w
  <2>4. Len(w.frames) = n - 1
    BY <1>2, <2>2, <2>3, FramesPop
  <2> QED
    BY <1>1, <2>1, <2>2, <2>3, <2>4 DEF GoesNearer
<1> QED
  BY <1>1, <1>4, <1>5, <1>6

LEMMA FinishGoesNearer ==
    ASSUME NEW c \in Conns, SoundStep(c), Finish(c)
    PROVE  GoesNearer(req[c], req'[c])
<1> DEFINE r == req[c]
           q == IF r.arrival.route = "unmatched" /\ r.bodies = <<>>
                THEN Written(r, 404, "none") ELSE r
           w == [q EXCEPT !.stage = "done"]
<1>1. r.stage = "after" /\ r.frames = <<>> /\ Set(c, w)
  BY DEF Finish
<1>2. r \in Request /\ RequestInv(r)
  BY DEF SoundStep, Sound
<1>3. q \in Request /\ Beside(r, q)
  BY <1>1, <1>2, EngineAnswers
<1> HIDE DEF q
<1>4. w.stage = "done" /\ w.arrival = q.arrival
  BY <1>3 DEF Request
<1>5. req'[c] = w
  BY <1>1, SetIs DEF SoundStep
<1> QED
  BY <1>1, <1>3, <1>4, <1>5 DEF Beside, GoesNearer

(* Whatever a goroutine does for a request that is under way, it is nearer to its  *)
(* end than before.                                                              *)
LEMMA HandlingGoesNearer ==
    ASSUME NEW c \in Conns, SoundStep(c), Handle(c), req[c].stage # "done"
    PROVE  StepsLeft(req'[c]) < StepsLeft(req[c])
<1>1. GoesNearer(req[c], req'[c])
  BY EnteringGoesNearer, AuthenticateGoesNearer, UploadHandlerGoesNearer, ServiceGoesNearer,
     PublicHandlerGoesNearer, AfterNextGoesNearer, UnwindGoesNearer, FinishGoesNearer
     DEF Handle, Release
<1> QED
  BY <1>1, NearerHasLessLeft DEF SoundStep, Sound, RequestInv

================================================================================
