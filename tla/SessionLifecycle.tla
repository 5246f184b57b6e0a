----------------------------- MODULE SessionLifecycle -----------------------------
(***************************************************************************)
(* What the service promises about the durable record of an upload, with no *)
(* requests, copies or calls: the collection, the objects and the clock,    *)
(* changed by one atomic action per promise.  Every guard looks at the real  *)
(* state of the upload at the moment the record changes, never at something *)
(* read earlier.  UploadService implements this specification.              *)
(***************************************************************************)
EXTENDS UploadModel

CONSTANTS Sizes, MaxHeld, MaxClock

VARIABLES store, gcs, clock

lvars == <<store, gcs, clock>>

Init ==
    /\ store = [u \in UploadIDs |-> NoDoc]
    /\ gcs = [u \in UploadIDs |-> EmptyObject]
    /\ clock = 0

Stored(u) == store[u] # NoDoc
URLUsable(u) == Stored(u) /\ clock <= store[u].urlExpiresAt

(* A session comes into being once, empty, with a life that started in the   *)
(* past and a URL that outlasts it.                                         *)
Open(u) ==
    /\ ~Stored(u)
    /\ \E user \in Users \cup {NoUser}, key \in IdempotencyKeys \cup {NoKey},
          size \in Sizes \ {0}, started \in 0..clock, signed \in 0..clock :
         /\ started <= signed
         /\ store' = [store EXCEPT ![u] = NewSession(user, key, size, started, signed)]
    /\ UNCHANGED <<gcs, clock>>

(* Progress is a count GCS has reached and short of the size; the weak       *)
(* promise is about the status: it may fall back to one of the two that a    *)
(* live, unfinished session can have.                                       *)
Progress(u) ==
    /\ Stored(u)
    /\ \E status \in {"created", "cancelled"}, n \in 0..(store[u].sizeBytes - 1) :
         /\ n <= gcs[u].held
         /\ store' = [store EXCEPT ![u] = WithProgress(store[u], status, n)]
    /\ UNCHANGED <<gcs, clock>>

Complete(u) ==
    /\ Stored(u) /\ UploadFinished(gcs[u], store[u])
    /\ store' = [store EXCEPT ![u] = WithProgress(store[u], "completed", store[u].sizeBytes)]
    /\ UNCHANGED <<gcs, clock>>

Cancel(u) ==
    /\ Stored(u)
    /\ store' = [store EXCEPT ![u] = WithStatus(store[u], "cancelled")]
    /\ UNCHANGED <<gcs, clock>>

Expire(u) ==
    /\ Stored(u) /\ TTLElapsed(clock, store[u])
    /\ store' = [store EXCEPT ![u] = WithStatus(store[u], "expired")]
    /\ UNCHANGED <<gcs, clock>>

Upload(u) ==
    /\ URLUsable(u) /\ ~gcs[u].final
    /\ \/ gcs' = [gcs EXCEPT ![u].final = TRUE]
       \/ \E n \in (gcs[u].held + 1)..MaxHeld : gcs' = [gcs EXCEPT ![u].held = n]
    /\ UNCHANGED <<store, clock>>

Tick == clock < MaxClock /\ clock' = clock + 1 /\ UNCHANGED <<store, gcs>>

Next ==
    \/ \E u \in UploadIDs : Open(u) \/ Progress(u) \/ Complete(u) \/ Cancel(u)
                              \/ Expire(u) \/ Upload(u)
    \/ Tick

Spec == Init /\ [][Next]_lvars
================================================================================
