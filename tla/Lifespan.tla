-------------------------------- MODULE Lifespan --------------------------------
(***************************************************************************)
(* The life of the process: what main() acquires, in which order, what it   *)
(* defers, and the ways it ends.  A fatal log entry and a signal end the     *)
(* process on the spot; a return of main and a panic run the deferred calls  *)
(* first, the last one deferred first.  log.Fatalf and logger.Fatal differ   *)
(* in nothing but the log and are one action.                               *)
(***************************************************************************)
EXTENDS Integers, Sequences

CONSTANT SpanQueue  \* the size of the tracer's queue of finished spans

ASSUME SpanQueueAssumption == SpanQueue \in Nat \ {0}

VARIABLES
    phase,     \* where main is
    deferred,  \* the calls main has deferred, the last one last
    open,      \* the connections to Google Cloud that are open
    key,       \* the public key tokens are verified with has been loaded
    ctx,       \* the root context
    tracing,   \* the tracing pipeline
    spans      \* finished spans not exported yet

lifeVars == <<phase, deferred, open, key, ctx, tracing, spans>>

Startup == {"config", "logger", "credentials", "exporter", "resource", "project", "gcs",
            "firestore", "secrets", "key"}
Ended == {"exited", "killed", "returned", "crashed"}
Phases == Startup \cup {"serving", "returning", "panicking"} \cup Ended
Running == Phases \ Ended

Clients == {"gcs", "firestore", "secrets"}
Deferrable == {"logger.Sync", "cancel", "otelShutdown"} \cup Clients

LifespanTypeOK ==
    /\ phase \in Phases
    /\ deferred \in Seq(Deferrable)
    /\ open \in SUBSET Clients
    /\ key \in BOOLEAN
    /\ ctx \in {"none", "live", "cancelled"}
    /\ tracing \in {"off", "on", "shut"}
    /\ spans \in 0..SpanQueue

LifespanInit ==
    /\ phase = "config" /\ deferred = <<>> /\ open = {} /\ key = FALSE
    /\ ctx = "none" /\ tracing = "off" /\ spans = 0

-----------------------------------------------------------------------------
(* Startup. *)

Defer(call) == deferred' = Append(deferred, call)

(* Any step of the startup may fail: os.Exit(1), and no deferred call runs.     *)
Fatal ==
    /\ phase \in Startup /\ phase' = "exited"
    /\ UNCHANGED <<deferred, open, key, ctx, tracing, spans>>

LoadConfig ==
    /\ phase = "config" /\ phase' = "logger"
    /\ UNCHANGED <<deferred, open, key, ctx, tracing, spans>>

(* The logger, and the root context after it. *)
NewLogger ==
    /\ phase = "logger" /\ phase' = "credentials"
    /\ deferred' = deferred \o <<"logger.Sync", "cancel">>
    /\ ctx' = "live"
    /\ UNCHANGED <<open, key, tracing, spans>>

(* InitTracer: credentials, exporter and resource may each fail, and then no    *)
(* shutdown function has been registered yet.                                  *)
InitTracerStep ==
    /\ \/ phase = "credentials" /\ phase' = "exporter"
       \/ phase = "exporter" /\ phase' = "resource"
    /\ UNCHANGED <<deferred, open, key, ctx, tracing, spans>>

(* Mutant of NewTracerProvider: main drops the shutdown function. *)
NewTracerProviderUndeferred ==
    /\ phase = "resource" /\ phase' = "project"
    /\ tracing' = "on"
    /\ UNCHANGED <<deferred, open, key, ctx, spans>>

(* Mutant of NewTracerProvider: the shutdown is deferred before cancel. *)
NewTracerProviderDeferredFirst ==
    /\ phase = "resource" /\ phase' = "project"
    /\ tracing' = "on" /\ deferred' = <<"otelShutdown">> \o deferred
    /\ UNCHANGED <<open, key, ctx, spans>>

(* The provider is registered for shutdown and made global, and main defers    *)
(* the shutdown.                                                               *)
NewTracerProvider ==
    /\ phase = "resource" /\ phase' = "project"
    /\ tracing' = "on" /\ Defer("otelShutdown")
    /\ UNCHANGED <<open, key, ctx, spans>>

(* An empty GCP_PROJECT_ID is fatal. *)
CheckProject ==
    /\ phase = "project" /\ phase' = "gcs"
    /\ UNCHANGED <<deferred, open, key, ctx, tracing, spans>>

(* A client is opened and its Close deferred. *)
Acquire(client, next) ==
    /\ phase = client /\ phase' = next
    /\ open' = open \cup {client} /\ Defer(client)
    /\ UNCHANGED <<key, ctx, tracing, spans>>

NewGCSClient == Acquire("gcs", "firestore")

(* Mutant of NewFirestoreClient: its Close is not deferred. *)
NewFirestoreClientUndeferred ==
    /\ phase = "firestore" /\ phase' = "secrets"
    /\ open' = open \cup {"firestore"}
    /\ UNCHANGED <<deferred, key, ctx, tracing, spans>>

(* Mutant of NewFirestoreClient: an error is logged and startup goes on. *)
NewFirestoreClientIgnoringError ==
    /\ phase = "firestore" /\ phase' = "secrets"
    /\ \/ open' = open \cup {"firestore"} /\ Defer("firestore")
       \/ UNCHANGED <<open, deferred>>
    /\ UNCHANGED <<key, ctx, tracing, spans>>

NewFirestoreClient == Acquire("firestore", "secrets")

NewSecretsClient == Acquire("secrets", "key")

(* The secret is fetched, its checksum compared and its PEM parsed. *)
LoadKey ==
    /\ phase = "key" /\ phase' = "serving" /\ key' = TRUE
    /\ UNCHANGED <<deferred, open, ctx, tracing, spans>>

(* The checksum is compared through a pointer: a response without one is a      *)
(* panic, not an error.                                                        *)
GetSecretPanics ==
    /\ phase = "key" /\ phase' = "panicking"
    /\ UNCHANGED <<deferred, open, key, ctx, tracing, spans>>

-----------------------------------------------------------------------------
(* Serving and the end. *)

(* Run returns only when listening or accepting fails; requests in flight go on. *)
RunFails ==
    /\ phase = "serving" /\ phase' = "returning"
    /\ UNCHANGED <<deferred, open, key, ctx, tracing, spans>>

(* Mutant of SpanEnds: the queue has no limit. *)
SpanEndsUnbounded == spans' = IF tracing = "on" THEN spans + 1 ELSE spans

(* A request's span ends; a full queue drops it, and so does a shut pipeline.    *)
SpanEnds ==
    spans' = IF tracing = "on" /\ spans < SpanQueue THEN spans + 1 ELSE spans

(* The batcher exports what it holds, or fails and drops it. *)
ExportBatch ==
    /\ phase \in Running /\ tracing = "on" /\ spans > 0 /\ spans' = 0
    /\ UNCHANGED <<phase, deferred, open, key, ctx, tracing>>

(* The shutdown function calls the one that is registered: the provider's, which *)
(* flushes the queue, unless the context is done or the export fails.           *)
ShutdownTracer ==
    /\ tracing' = "shut"
    /\ \/ UNCHANGED spans
       \/ ctx = "live" /\ spans' = 0

(* The last call deferred is the next to run. *)
RunDeferred ==
    /\ phase \in {"returning", "panicking"} /\ deferred # <<>>
    /\ LET call == deferred[Len(deferred)]
       IN /\ deferred' = SubSeq(deferred, 1, Len(deferred) - 1)
          /\ open' = open \ {call}
          /\ ctx' = IF call = "cancel" THEN "cancelled" ELSE ctx
          /\ IF call = "otelShutdown" THEN ShutdownTracer ELSE UNCHANGED <<tracing, spans>>
    /\ UNCHANGED <<phase, key>>

(* main is over. *)
Exit ==
    /\ phase \in {"returning", "panicking"} /\ deferred = <<>>
    /\ phase' = IF phase = "returning" THEN "returned" ELSE "crashed"
    /\ UNCHANGED <<deferred, open, key, ctx, tracing, spans>>

(* SIGTERM and SIGKILL: no handler is installed. *)
Signal ==
    /\ phase \in Running /\ phase' = "killed"
    /\ UNCHANGED <<deferred, open, key, ctx, tracing, spans>>

(* The platform starts the process again. *)
Restart ==
    /\ phase \in Ended /\ phase' = "config"
    /\ deferred' = <<>> /\ open' = {} /\ key' = FALSE
    /\ ctx' = "none" /\ tracing' = "off" /\ spans' = 0

(* The steps the process survives, and the ones it does not. *)
LifeGoesOn ==
    \/ LoadConfig \/ NewLogger \/ InitTracerStep \/ NewTracerProvider \/ CheckProject
    \/ NewGCSClient \/ NewFirestoreClient \/ NewSecretsClient \/ LoadKey
    \/ GetSecretPanics \/ RunFails \/ ExportBatch \/ RunDeferred \/ Restart

LifeEnds == Fatal \/ Exit \/ Signal

-----------------------------------------------------------------------------
(* Safety. *)

Pending(call) == \E i \in 1..Len(deferred) : deferred[i] = call

(* Requests are accepted only when everything a request needs is there, whatever *)
(* way the startup took.                                                        *)
ServingIsReady ==
    phase = "serving" => open = Clients /\ key /\ ctx = "live" /\ tracing = "on"

(* While main runs, what is open is exactly what it still has to close: nothing   *)
(* leaks on a path that runs the deferred calls, and nothing is closed twice.    *)
OpenIsDeferred ==
    phase \in Running => open = {c \in Clients : Pending(c)}

(* The spans are flushed while the context they are flushed with still lives, and *)
(* after the last client that may end a span was closed.                         *)
FlushIsInTime ==
    [][(tracing = "on" /\ tracing' = "shut") => (ctx = "live" /\ open = {})]_lifeVars

(* A main that returns or panics has released everything and shut the tracer     *)
(* down, if it was up.                                                           *)
OrderlyEnd ==
    phase \in {"returned", "crashed"} => open = {} /\ ctx = "cancelled" /\ tracing = "shut"

-----------------------------------------------------------------------------
(* The inductive invariant. *)

(* The calls main defers, in its order. *)
AllDeferred == <<"logger.Sync", "cancel", "otelShutdown", "gcs", "firestore", "secrets">>

Up == Startup \cup {"serving"}

(* They are pending in main's order, as many as main has come to on its way up.   *)
PendingInv ==
    /\ Len(deferred) <= 6 /\ \A i \in 1..Len(deferred) : deferred[i] = AllDeferred[i]
    /\ phase \in {"config", "logger"} => Len(deferred) = 0
    /\ phase \in {"credentials", "exporter", "resource"} => Len(deferred) = 2
    /\ phase \in {"project", "gcs"} => Len(deferred) = 3
    /\ phase = "firestore" => Len(deferred) = 4
    /\ phase = "secrets" => Len(deferred) = 5
    /\ phase \in {"key", "serving"} => Len(deferred) = 6

(* What main has acquired is what it still has to release, on the way up and on   *)
(* the way down.                                                                 *)
HoldingInv ==
    /\ phase \in Running =>
         /\ "gcs" \in open <=> Len(deferred) >= 4
         /\ "firestore" \in open <=> Len(deferred) >= 5
         /\ "secrets" \in open <=> Len(deferred) >= 6
         /\ Len(deferred) >= 2 => ctx = "live"
         /\ Len(deferred) < 2 => ctx = IF phase \in Up THEN "none" ELSE "cancelled"
         /\ Len(deferred) >= 3 => tracing = "on"
         /\ Len(deferred) < 3 => tracing = IF phase \in Up THEN "off" ELSE "shut"
    /\ phase = "serving" => key
    /\ phase \in {"returned", "crashed"} =>
         open = {} /\ ctx = "cancelled" /\ tracing = "shut"

LifespanInv == LifespanTypeOK /\ PendingInv /\ HoldingInv
================================================================================
