--------------------------- MODULE UploadServiceClaims ---------------------------
(***************************************************************************)
(* What comments of the code say of a session, taken at their word.  The    *)
(* service does not keep these claims: each one is violated by a behaviour  *)
(* of UploadService, which the README walks through.                        *)
(***************************************************************************)
EXTENDS UploadService

Terminal == {"completed", "cancelled", "failed", "expired"}

StatusOf(u) == IF Stored(u) THEN store[u].status ELSE "absent"

(* model/upload_session.go: "Transitions follow: created -> in_progress ->    *)
(* completed/cancelled/failed/expired", read at its weakest: a session that   *)
(* reached one of the last four is never open again.                         *)
(* The run sequential checks that it takes an overlap to break this claim.    *)
TerminalIsNeverReopened ==
    [][\A u \in UploadIDs :
         StatusOf(u) \in Terminal => StatusOf(u)' \in Terminal]_store

(* "StatusExpired means the session TTL elapsed before the upload completed." *)
CompletedNeverExpires ==
    [][\A u \in UploadIDs :
         StatusOf(u) = "completed" => StatusOf(u)' # "expired"]_store

(* "UserID identifies the authenticated user who initiated the upload."       *)
SessionBelongsToItsCreator ==
    \A p \in Procs : At(p, "respond") /\ req[p].code = 201 =>
        store[req[p].uploadID].userID = req[p].user

(* "IdempotencyKey is a client-supplied key used to deduplicate session       *)
(* creation": also when the client retries while its first request still runs. *)
KeyDeduplicatesCreation == OneSessionPerKey

(* CreateUploadSession "returns the signed URL and session metadata so the     *)
(* client can begin uploading directly to GCS": at least when it is answered   *)
(* within the tick it began in.                                               *)
CreateReturnsUsableURL ==
    \A p \in Procs : At(p, "respond") /\ req[p].code = 201 /\ clock = req[p].startTime =>
        URLUsable(req[p].uploadID)
================================================================================
