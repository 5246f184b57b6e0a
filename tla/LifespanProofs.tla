------------------------------ MODULE LifespanProofs ------------------------------
(***************************************************************************)
(* The steps of main() keep the invariant of Lifespan, for a span queue of   *)
(* any size.                                                                *)
(***************************************************************************)
EXTENDS Lifespan, SequenceTheorems, TLAPS

LEMMA ListOfCalls ==
    /\ AllDeferred[1] = "logger.Sync" /\ AllDeferred[2] = "cancel"
    /\ AllDeferred[3] = "otelShutdown" /\ AllDeferred[4] = "gcs"
    /\ AllDeferred[5] = "firestore" /\ AllDeferred[6] = "secrets"
BY DEF AllDeferred

LEMMA LifespanStarts == LifespanInit => LifespanInv
<1> SUFFICES ASSUME LifespanInit PROVE LifespanInv
  OBVIOUS
<1>1. LifespanTypeOK
  <2>1. deferred \in Seq(Deferrable)
    BY EmptySeq DEF LifespanInit
  <2>2. key \in BOOLEAN
    BY Zenon DEF LifespanInit
  <2>3. spans \in 0..SpanQueue
    BY SpanQueueAssumption DEF LifespanInit
  <2> QED
    BY <2>1, <2>2, <2>3 DEF LifespanInit, LifespanTypeOK, Phases, Startup
<1>2. PendingInv
  BY DEF LifespanInit, PendingInv
<1>3. HoldingInv
  BY DEF LifespanInit, HoldingInv, Up, Startup
<1> QED
  BY <1>1, <1>2, <1>3 DEF LifespanInv

(* The phases main passes on its way up, and what becomes of it. *)
LEMMA WhereMainIs ==
    /\ Startup \subseteq Up /\ Up \subseteq Running /\ Running \subseteq Phases
    /\ {"returning", "panicking"} \subseteq Running
    /\ "returning" \notin Up /\ "panicking" \notin Up /\ "serving" \in Up
BY DEF Startup, Up, Running, Phases, Ended

(* A step that only moves on. *)
LEMMA MovingOn ==
    ASSUME LifespanInv,
           \/ LoadConfig \/ InitTracerStep \/ CheckProject \/ RunFails \/ GetSecretPanics
    PROVE  LifespanInv'
<1>1. UNCHANGED <<deferred, open, key, ctx, tracing, spans>>
  BY DEF LoadConfig, InitTracerStep, CheckProject, RunFails, GetSecretPanics
<1>2. LifespanTypeOK'
  BY <1>1 DEF LifespanInv, LifespanTypeOK, Phases, Startup, LoadConfig, InitTracerStep,
     CheckProject, RunFails, GetSecretPanics
<1>3. PendingInv'
  BY <1>1 DEF LifespanInv, PendingInv, LoadConfig, InitTracerStep, CheckProject, RunFails,
     GetSecretPanics
<1>4. HoldingInv'
  BY <1>1 DEF LifespanInv, PendingInv, HoldingInv, LoadConfig, InitTracerStep, CheckProject,
     RunFails, GetSecretPanics, Up, Startup, Running, Phases, Ended
<1> QED
  BY <1>2, <1>3, <1>4 DEF LifespanInv

LEMMA KeyIsLoaded == ASSUME LifespanInv, LoadKey PROVE LifespanInv'
<1>1. LifespanTypeOK'
  <2>1. key' \in BOOLEAN
    BY Zenon DEF LoadKey
  <2> QED
    BY <2>1 DEF LifespanInv, LifespanTypeOK, LoadKey, Phases
<1>2. PendingInv'
  BY DEF LifespanInv, PendingInv, LoadKey
<1>3. phase = "key" /\ phase' = "serving" /\ UNCHANGED <<deferred, open, ctx, tracing>>
  BY DEF LoadKey
<1>4. HoldingInv'
  <2>1. phase' = "serving" => key'
    BY Zenon DEF LoadKey
  <2>2. phase \in Running /\ phase \in Up /\ Len(deferred) = 6
    BY <1>3, WhereMainIs DEF LifespanInv, PendingInv, Startup
  <2>3. /\ "gcs" \in open /\ "firestore" \in open /\ "secrets" \in open
        /\ ctx = "live" /\ tracing = "on"
    BY <2>2 DEF LifespanInv, HoldingInv
  <2> QED
    BY <1>3, <2>1, <2>2, <2>3 DEF HoldingInv
<1> QED
  BY <1>1, <1>2, <1>4 DEF LifespanInv

LEMMA LoggerIsReady == ASSUME LifespanInv, NewLogger PROVE LifespanInv'
<1> DEFINE base == <<"logger.Sync", "cancel">>
<1>1. /\ deferred \in Seq(Deferrable) /\ Len(deferred) = 0 /\ base \in Seq(Deferrable)
      /\ Len(base) = 2 /\ base[1] = "logger.Sync" /\ base[2] = "cancel"
      /\ deferred' = deferred \o base
  BY DEF LifespanInv, LifespanTypeOK, PendingInv, NewLogger, Deferrable
<1> HIDE DEF base
<1>2. /\ deferred' \in Seq(Deferrable) /\ Len(deferred') = 2
      /\ deferred'[1] = "logger.Sync" /\ deferred'[2] = "cancel"
  <2>1. \A i \in 1..(Len(deferred) + Len(base)) :
          (deferred \o base)[i] = IF i <= Len(deferred) THEN deferred[i] ELSE base[i - Len(deferred)]
    BY <1>1, ConcatProperties
  <2>2. deferred \o base \in Seq(Deferrable) /\ Len(deferred \o base) = Len(deferred) + Len(base)
    BY <1>1, ConcatProperties
  <2> QED
    BY <1>1, <2>1, <2>2
<1>3. LifespanTypeOK'
  BY <1>2 DEF LifespanInv, LifespanTypeOK, NewLogger, Phases, Startup
<1>4. PendingInv'
  BY <1>2, ListOfCalls DEF PendingInv, NewLogger
<1>5. HoldingInv'
  BY <1>1, <1>2 DEF LifespanInv, HoldingInv, NewLogger, Up, Startup, Running, Phases, Ended
<1> QED
  BY <1>3, <1>4, <1>5 DEF LifespanInv

(* A step that defers one more call, the next of the list. *)
LEMMA OneMoreCall ==
    ASSUME LifespanInv, NEW call \in Deferrable, Defer(call),
           Len(deferred) < 6, call = AllDeferred[Len(deferred) + 1]
    PROVE  /\ deferred' \in Seq(Deferrable) /\ Len(deferred') = Len(deferred) + 1
           /\ \A i \in 1..Len(deferred') : deferred'[i] = AllDeferred[i]
<1>1. /\ deferred' \in Seq(Deferrable) /\ Len(deferred') = Len(deferred) + 1
      /\ Len(deferred) \in Nat
      /\ \A i \in 1..Len(deferred) : deferred'[i] = deferred[i]
      /\ deferred'[Len(deferred) + 1] = call
  BY AppendProperties, LenProperties DEF Defer, LifespanInv, LifespanTypeOK
<1>2. \A i \in 1..Len(deferred) : deferred[i] = AllDeferred[i]
  BY DEF LifespanInv, PendingInv
<1> QED
  BY <1>1, <1>2

LEMMA TracerIsReady == ASSUME LifespanInv, NewTracerProvider PROVE LifespanInv'
<1>1. Len(deferred) = 2
  BY DEF LifespanInv, PendingInv, NewTracerProvider
<1>2. /\ deferred' \in Seq(Deferrable) /\ Len(deferred') = 3
      /\ \A i \in 1..Len(deferred') : deferred'[i] = AllDeferred[i]
  BY <1>1, OneMoreCall, ListOfCalls DEF NewTracerProvider, Deferrable
<1>3. LifespanTypeOK'
  BY <1>2 DEF LifespanInv, LifespanTypeOK, NewTracerProvider, Phases, Startup
<1>4. PendingInv'
  BY <1>2 DEF PendingInv, NewTracerProvider
<1>5. HoldingInv'
  BY <1>1, <1>2, WhereMainIs DEF LifespanInv, HoldingInv, NewTracerProvider, Startup
<1> QED
  BY <1>3, <1>4, <1>5 DEF LifespanInv

LEMMA StorageIsReady == ASSUME LifespanInv, NewGCSClient PROVE LifespanInv'
<1>1. /\ phase = "gcs" /\ phase' = "firestore" /\ Len(deferred) = 3
      /\ open' = open \cup {"gcs"} /\ Defer("gcs") /\ UNCHANGED <<key, ctx, tracing, spans>>
  BY DEF LifespanInv, PendingInv, NewGCSClient, Acquire
<1>2. /\ deferred' \in Seq(Deferrable) /\ Len(deferred') = 4
      /\ \A i \in 1..Len(deferred') : deferred'[i] = AllDeferred[i]
  BY <1>1, OneMoreCall, ListOfCalls DEF Deferrable, Clients
<1>3. LifespanTypeOK'
  BY <1>1, <1>2 DEF LifespanInv, LifespanTypeOK, Clients, Phases, Startup
<1>4. PendingInv'
  BY <1>1, <1>2 DEF PendingInv
<1>5. HoldingInv'
  BY <1>1, <1>2, WhereMainIs DEF LifespanInv, HoldingInv, Startup
<1> QED
  BY <1>3, <1>4, <1>5 DEF LifespanInv

LEMMA FirestoreIsReady == ASSUME LifespanInv, NewFirestoreClient PROVE LifespanInv'
<1>1. /\ phase = "firestore" /\ phase' = "secrets" /\ Len(deferred) = 4
      /\ open' = open \cup {"firestore"} /\ Defer("firestore") /\ UNCHANGED <<key, ctx, tracing, spans>>
  BY DEF LifespanInv, PendingInv, NewFirestoreClient, Acquire
<1>2. /\ deferred' \in Seq(Deferrable) /\ Len(deferred') = 5
      /\ \A i \in 1..Len(deferred') : deferred'[i] = AllDeferred[i]
  BY <1>1, OneMoreCall, ListOfCalls DEF Deferrable, Clients
<1>3. LifespanTypeOK'
  BY <1>1, <1>2 DEF LifespanInv, LifespanTypeOK, Clients, Phases, Startup
<1>4. PendingInv'
  BY <1>1, <1>2 DEF PendingInv
<1>5. HoldingInv'
  BY <1>1, <1>2, WhereMainIs DEF LifespanInv, HoldingInv, Startup
<1> QED
  BY <1>3, <1>4, <1>5 DEF LifespanInv

LEMMA SecretsAreReady == ASSUME LifespanInv, NewSecretsClient PROVE LifespanInv'
<1>1. /\ phase = "secrets" /\ phase' = "key" /\ Len(deferred) = 5
      /\ open' = open \cup {"secrets"} /\ Defer("secrets") /\ UNCHANGED <<key, ctx, tracing, spans>>
  BY DEF LifespanInv, PendingInv, NewSecretsClient, Acquire
<1>2. /\ deferred' \in Seq(Deferrable) /\ Len(deferred') = 6
      /\ \A i \in 1..Len(deferred') : deferred'[i] = AllDeferred[i]
  BY <1>1, OneMoreCall, ListOfCalls DEF Deferrable, Clients
<1>3. LifespanTypeOK'
  BY <1>1, <1>2 DEF LifespanInv, LifespanTypeOK, Clients, Phases, Startup
<1>4. PendingInv'
  BY <1>1, <1>2 DEF PendingInv
<1>5. HoldingInv'
  BY <1>1, <1>2, WhereMainIs DEF LifespanInv, HoldingInv, Startup
<1> QED
  BY <1>3, <1>4, <1>5 DEF LifespanInv

LEMMA DeathIsSafe ==
    ASSUME LifespanInv, Fatal \/ Signal
    PROVE  LifespanInv'
<1>1. UNCHANGED <<deferred, open, key, ctx, tracing, spans>> /\ phase' \in {"exited", "killed"}
  BY DEF Fatal, Signal
<1>2. LifespanTypeOK'
  BY <1>1 DEF LifespanInv, LifespanTypeOK, Phases, Ended
<1>3. PendingInv'
  BY <1>1 DEF LifespanInv, PendingInv
<1>4. HoldingInv'
  BY <1>1 DEF HoldingInv, Running, Ended
<1> QED
  BY <1>2, <1>3, <1>4 DEF LifespanInv

LEMMA SpansComeAndGo ==
    ASSUME LifespanInv, SpanEnds \/ spans' = 0 \/ UNCHANGED spans,
           UNCHANGED <<phase, deferred, open, key, ctx, tracing>>
    PROVE  LifespanInv'
<1>1. spans' \in 0..SpanQueue
  BY SpanQueueAssumption DEF LifespanInv, LifespanTypeOK, SpanEnds
<1>2. LifespanTypeOK'
  BY <1>1 DEF LifespanInv, LifespanTypeOK
<1>3. PendingInv'
  BY DEF LifespanInv, PendingInv
<1>4. HoldingInv'
  BY DEF LifespanInv, HoldingInv
<1> QED
  BY <1>2, <1>3, <1>4 DEF LifespanInv

LEMMA NotEmpty == ASSUME NEW S, NEW s \in Seq(S), s # <<>> PROVE Len(s) \in Nat \ {0}
BY EmptySeq, Zenon

LEMMA FirstElements ==
    ASSUME NEW S, NEW s \in Seq(S), NEW m \in Int, m >= 0, m <= Len(s)
    PROVE  /\ SubSeq(s, 1, m) \in Seq(S)
           /\ Len(SubSeq(s, 1, m)) = m
           /\ \A i \in 1..m : SubSeq(s, 1, m)[i] = s[i]
<1>1. \A i \in 1..m : s[i] \in S
  BY ElementOfSeq, LenProperties
<1>2. SubSeq(s, 1, m) \in Seq(S)
  BY <1>1, SubSeqProperties
<1>3. Len(SubSeq(s, 1, m)) = m
  BY <1>1, SubSeqProperties
<1>4. \A i \in 1..m : SubSeq(s, 1, m)[i] = s[i]
  BY <1>1, SubSeqProperties
<1> QED
  BY <1>2, <1>3, <1>4

LEMMA WithoutTheLast ==
    ASSUME NEW S, NEW s \in Seq(S), NEW n \in Nat, n # 0, n = Len(s)
    PROVE  /\ SubSeq(s, 1, n - 1) \in Seq(S)
           /\ Len(SubSeq(s, 1, n - 1)) = n - 1
           /\ \A i \in 1..(n - 1) : SubSeq(s, 1, n - 1)[i] = s[i]
BY FirstElements

(* One deferred call runs: it was the last of those pending. *)
LEMMA OneCallLess ==
    ASSUME LifespanInv, NEW n \in Nat, n # 0, n = Len(deferred),
           deferred' = SubSeq(deferred, 1, n - 1)
    PROVE  /\ deferred' \in Seq(Deferrable) /\ Len(deferred') = n - 1 /\ n \in 1..6
           /\ \A i \in 1..Len(deferred') : deferred'[i] = AllDeferred[i]
           /\ deferred[n] = AllDeferred[n]
<1>1. /\ deferred \in Seq(Deferrable) /\ n <= 6
      /\ \A i \in 1..n : deferred[i] = AllDeferred[i]
  BY DEF LifespanInv, LifespanTypeOK, PendingInv
<1>2. /\ deferred' \in Seq(Deferrable) /\ Len(deferred') = n - 1
      /\ \A i \in 1..(n - 1) : deferred'[i] = deferred[i]
  BY <1>1, WithoutTheLast
<1> QED
  BY <1>1, <1>2

LEMMA CallsAreRun == ASSUME LifespanInv, RunDeferred PROVE LifespanInv'
<1> DEFINE n == Len(deferred)
           call == deferred[n]
<1>1. /\ phase \in {"returning", "panicking"} /\ UNCHANGED <<phase, key>>
      /\ deferred' = SubSeq(deferred, 1, Len(deferred) - 1)
      /\ open' = open \ {call}
      /\ ctx' = IF call = "cancel" THEN "cancelled" ELSE ctx
      /\ IF call = "otelShutdown" THEN ShutdownTracer ELSE UNCHANGED <<tracing, spans>>
  BY DEF RunDeferred
<1>2. /\ deferred' \in Seq(Deferrable) /\ Len(deferred') = n - 1 /\ n \in 1..6
      /\ \A i \in 1..Len(deferred') : deferred'[i] = AllDeferred[i]
      /\ call = AllDeferred[n]
  <2>1. deferred \in Seq(Deferrable) /\ deferred # <<>>
    BY DEF LifespanInv, LifespanTypeOK, RunDeferred
  <2>2. Len(deferred) \in Nat \ {0}
    BY <2>1, NotEmpty, Zenon
  <2> QED
    BY <1>1, <2>2, OneCallLess
<1>3. /\ phase \in Running /\ phase \notin Up
  BY <1>1, WhereMainIs
<1> HIDE DEF n, call
<1>4. /\ "gcs" \in open <=> n >= 4
      /\ "firestore" \in open <=> n >= 5
      /\ "secrets" \in open <=> n >= 6
      /\ n >= 2 => ctx = "live"
      /\ n < 2 => ctx = "cancelled"
      /\ n >= 3 => tracing = "on"
      /\ n < 3 => tracing = "shut"
  BY <1>3 DEF LifespanInv, HoldingInv, n
<1>5. /\ tracing' = IF n = 3 THEN "shut" ELSE tracing
      /\ spans' = 0 \/ UNCHANGED spans
      /\ ctx' = IF n = 2 THEN "cancelled" ELSE ctx
      /\ open' = open \ (IF n = 4 THEN {"gcs"} ELSE IF n = 5 THEN {"firestore"}
                         ELSE IF n = 6 THEN {"secrets"} ELSE {call})
      /\ n <= 3 => call \notin Clients
  BY <1>1, <1>2, ListOfCalls DEF ShutdownTracer, Clients
<1>6. LifespanTypeOK'
  BY <1>1, <1>2, <1>5, SpanQueueAssumption DEF LifespanInv, LifespanTypeOK
<1>7. PendingInv'
  BY <1>1, <1>2 DEF PendingInv
<1>8. HoldingInv'
  <2>1. /\ "gcs" \in open' <=> n - 1 >= 4
        /\ "firestore" \in open' <=> n - 1 >= 5
        /\ "secrets" \in open' <=> n - 1 >= 6
    BY <1>2, <1>4, <1>5 DEF Clients
  <2>2. /\ n - 1 >= 2 => ctx' = "live"
        /\ n - 1 < 2 => ctx' = "cancelled"
        /\ n - 1 >= 3 => tracing' = "on"
        /\ n - 1 < 3 => tracing' = "shut"
    BY <1>2, <1>4, <1>5
  <2> QED
    BY <1>1, <1>2, <1>3, <2>1, <2>2 DEF HoldingInv
<1> QED
  BY <1>6, <1>7, <1>8 DEF LifespanInv

LEMMA MainIsOver == ASSUME LifespanInv, Exit PROVE LifespanInv'
<1>1. /\ phase \in {"returning", "panicking"} /\ deferred = <<>>
      /\ phase' \in {"returned", "crashed"}
      /\ UNCHANGED <<deferred, open, key, ctx, tracing, spans>>
  BY DEF Exit
<1>2. Len(deferred) = 0 /\ phase \in Running /\ phase \notin Up
  BY <1>1, WhereMainIs
<1>3. open = {} /\ ctx = "cancelled" /\ tracing = "shut"
  <2>1. "gcs" \notin open /\ "firestore" \notin open /\ "secrets" \notin open
    BY <1>2 DEF LifespanInv, HoldingInv
  <2>2. open \subseteq Clients
    BY DEF LifespanInv, LifespanTypeOK
  <2> QED
    BY <1>2, <2>1, <2>2 DEF LifespanInv, HoldingInv, Clients
<1>4. LifespanTypeOK'
  BY <1>1 DEF LifespanInv, LifespanTypeOK, Phases, Ended
<1>5. PendingInv'
  BY <1>1 DEF LifespanInv, PendingInv
<1>6. HoldingInv'
  BY <1>1, <1>3 DEF HoldingInv, Running, Ended
<1> QED
  BY <1>4, <1>5, <1>6 DEF LifespanInv

LEMMA LifeStartsOver == ASSUME Restart PROVE LifespanInv'
<1>1. LifespanTypeOK'
  <2>1. deferred' \in Seq(Deferrable)
    BY EmptySeq DEF Restart
  <2>2. key' \in BOOLEAN
    BY Zenon DEF Restart
  <2>3. spans' \in 0..SpanQueue
    BY SpanQueueAssumption DEF Restart
  <2> QED
    BY <2>1, <2>2, <2>3 DEF Restart, LifespanTypeOK, Phases, Startup
<1>2. PendingInv'
  BY DEF Restart, PendingInv
<1>3. HoldingInv'
  BY DEF Restart, HoldingInv, Up, Startup
<1> QED
  BY <1>1, <1>2, <1>3 DEF LifespanInv

(* Whatever main does next, the invariant stays. *)
LEMMA LifeIsSafe == ASSUME LifespanInv, LifeGoesOn \/ LifeEnds PROVE LifespanInv'
<1>1. CASE ExportBatch
  <2>1. spans' = 0 /\ UNCHANGED <<phase, deferred, open, key, ctx, tracing>>
    BY <1>1 DEF ExportBatch
  <2> QED
    BY <2>1, SpansComeAndGo
<1> QED
  BY <1>1, MovingOn, KeyIsLoaded, LoggerIsReady, TracerIsReady, StorageIsReady,
     FirestoreIsReady, SecretsAreReady, CallsAreRun, LifeStartsOver, MainIsOver, DeathIsSafe
     DEF LifeGoesOn, LifeEnds
================================================================================
