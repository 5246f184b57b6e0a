------------------------------ MODULE ServerClaims ------------------------------
(***************************************************************************)
(* What comments of the code say of the process and its answers, taken at    *)
(* their word, and the code does not keep.                                  *)
(***************************************************************************)
EXTENDS Server

(* dto/errors.go: "RequestID is the correlation ID for tracing this request in  *)
(* logs and observability tools": the error body names the request.            *)
ErrorsNameTheirRequest ==
    \A c \in Conns : \A i \in 1..Len(req[c].bodies) :
        req[c].arrival.route = "upload" /\ req[c].bodies[i].code >= 400
            => req[c].bodies[i].requestID = req[c].traceID

(* config/tracer.go: the shutdown function "must be called during application   *)
(* teardown to flush buffered spans": spans are left behind only if it was.     *)
TeardownFlushes == phase \in Ended /\ spans > 0 => tracing = "shut"
================================================================================
