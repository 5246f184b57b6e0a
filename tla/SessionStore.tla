------------------------------ MODULE SessionStore ------------------------------
(***************************************************************************)
(* FirestoreUploadSessionStore: one operator per method, from the contents  *)
(* of the collection to its contents after the call.  A collection is a     *)
(* function from UploadIDs to a session or NoDoc.  Each method is a single  *)
(* document operation, which Firestore applies atomically; none of them has *)
(* a precondition on the document's current fields.                         *)
(***************************************************************************)
EXTENDS UploadModel

EmptyCollection == [u \in UploadIDs |-> NoDoc]
Documents(c) == {u \in UploadIDs : c[u] # NoDoc}

(* Mutant of Create: Doc.Set in place of Doc.Create. *)
CreateBySet(c, u, s) == [c EXCEPT ![u] = s]

(* Doc.Create fails, and changes nothing, when the document exists. *)
Create(c, u, s) == IF c[u] = NoDoc THEN [c EXCEPT ![u] = s] ELSE c

GetByID(c, u) == c[u]

(* The documents the Limit(1) query may return.  The key "" never matches.  *)
ByIdempotencyKey(c, user, key) ==
    {u \in Documents(c) : key # NoKey /\ c[u].userID = user /\ c[u].idempotencyKey = key}

(* Doc.Update of a document that does not exist fails. *)
Update(c, u, status, bytes) ==
    IF c[u] = NoDoc THEN c
    ELSE [c EXCEPT ![u] = WithProgress(c[u], status, bytes)]

SetStatus(c, u, status) ==
    IF c[u] = NoDoc THEN c ELSE [c EXCEPT ![u] = WithStatus(c[u], status)]

UpdateStatus(c, u, status, bytes) == Update(c, u, status, bytes)

(* Mutant of MarkCompleted: the byte count is left as it was. *)
MarkCompletedStatusOnly(c, u, bytes) == SetStatus(c, u, "completed")

MarkCompleted(c, u, bytes) == Update(c, u, "completed", bytes)

(* Mutant of MarkCancelled: a status outside the model's constants. *)
MarkCanceled(c, u) == SetStatus(c, u, "canceled")

MarkCancelled(c, u) == SetStatus(c, u, "cancelled")

MarkExpired(c, u) == SetStatus(c, u, "expired")
================================================================================
