---------------------------------- MODULE Server ----------------------------------
(***************************************************************************)
(* A process of the platform: the life main() gives it (Lifespan) and the    *)
(* requests its goroutines serve meanwhile (RequestPipeline).  Requests come  *)
(* in only while Run has not returned; those in flight then go on until main  *)
(* is over, beside the deferred calls that close what they use.              *)
(***************************************************************************)
EXTENDS RequestPipeline, Lifespan

vars == <<req, lifeVars>>

TypeOK == PipelineTypeOK /\ LifespanTypeOK

Init == LifespanInit /\ req = [c \in Conns |-> Free]

(* The listener hands a connection's request to a goroutine. *)
Accept(c) == phase = "serving" /\ Receive(c) /\ UNCHANGED lifeVars

(* otelgin ends the request's span when its frame is left, by return or panic.   *)
LeavesOTel(c) ==
    /\ req[c].stage \in {"after", "unwind"} /\ req[c].frames # <<>>
    /\ Top(req[c]) = "OTel"

Step(c) ==
    /\ phase \in {"serving", "returning"} /\ Handle(c)
    /\ IF LeavesOTel(c) THEN SpanEnds ELSE UNCHANGED spans
    /\ UNCHANGED <<phase, deferred, open, key, ctx, tracing>>

Live == LifeGoesOn /\ UNCHANGED req

(* The goroutines die with the process. *)
End == LifeEnds /\ req' = [c \in Conns |-> Free]

Next == (\E c \in Conns : Accept(c) \/ Step(c)) \/ Live \/ End

Spec == Init /\ [][Next]_vars

-----------------------------------------------------------------------------
(* The exchanges as a client sees them. *)
Proven(r) ==
    IF r.arrival.route = "upload" /\ Proves(r.arrival, r.arrival.token.user)
    THEN r.arrival.token.user ELSE NoUser

Contract == INSTANCE ServerContract WITH
    process <- IF phase \in Startup THEN "starting"
               ELSE IF phase = "serving" THEN "serving"
               ELSE IF phase = "returning" THEN "draining" ELSE "ended",
    phase   <- [c \in Conns |-> IF req[c].stage = "idle" THEN "none"
                                ELSE IF req[c].called THEN "acted" ELSE "open"],
    prover  <- [c \in Conns |-> IF req[c].stage = "idle" THEN NoUser ELSE Proven(req[c])],
    answer  <- [c \in Conns |-> IF req[c].bodies = <<>> THEN 0 ELSE req[c].status]

(* Panics, failed writes, aborts and the order of the middlewares show the client *)
(* nothing but one answer per request, given by a process that serves.            *)
KeepsContract == Contract!Spec

(* The status is true of what was done: whoever is told 401 has proved nothing and  *)
(* may repeat the request with another token, since the service did not act on it;  *)
(* and 201 and 410 are never said unless the service was asked.                    *)
StatusTellsWhatWasDone ==
    \A c \in Conns : req[c].bodies # <<>> =>
        /\ req[c].status = 401 => Proven(req[c]) = NoUser /\ ~req[c].called
        /\ req[c].status \in {201, 410} => req[c].called

-----------------------------------------------------------------------------
(* The inductive invariant: requests live only in a process that serves.         *)
ServerInv ==
    /\ PipelineTypeOK /\ LifespanInv
    /\ \A c \in Conns :
         /\ RequestInv(req[c])
         /\ phase \notin {"serving", "returning"} => req[c].stage = "idle"
================================================================================
