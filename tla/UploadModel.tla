------------------------------ MODULE UploadModel ------------------------------
(***************************************************************************)
(* The persistence model of the upload platform: the session documents of  *)
(* the Firestore collection "upload_sessions" and the GCS objects that      *)
(* clients upload directly to through a signed URL.                        *)
(*                                                                         *)
(* A session is abstracted to the fields some operation reads back or some  *)
(* property compares.  Names, checksums, metadata and labels are carried    *)
(* through the program unread and are left out; time is a natural number.   *)
(***************************************************************************)
EXTENDS Integers

CONSTANTS
    UploadIDs,        \* the identifiers generateUploadID can return
    Users,            \* the subjects the authentication middleware accepts
    IdempotencyKeys,  \* the keys a client may send
    NoUser,           \* the empty user id
    NoKey,            \* the empty idempotency key
    NoDoc,            \* the absence of a document
    SessionTTL,       \* defaultUploadTTL, in ticks
    SignedURLTTL      \* the life of a signed URL, in ticks

ASSUME SentinelsAssumption == NoUser \notin Users /\ NoKey \notin IdempotencyKeys

(* Both durations are 15 minutes in the code; only their order matters.     *)
ASSUME TTLAssumption ==
    SessionTTL \in Nat /\ SignedURLTTL \in Nat /\ SessionTTL <= SignedURLTTL

UploadStatus ==
    {"created", "in_progress", "completed", "cancelled", "failed", "expired"}

UploadSession ==
    [userID         : Users \cup {NoUser},
     idempotencyKey : IdempotencyKeys \cup {NoKey},
     sizeBytes      : Nat \ {0},
     status         : UploadStatus,
     uploadedBytes  : Nat,
     expiresAt      : Nat,
     urlExpiresAt   : Nat]  \* the expiry carried inside gcsUploadUrl

ASSUME NoDocAssumption == NoDoc \notin UploadSession

(* The object behind a resumable upload: the bytes GCS holds and whether     *)
(* the client has finalized it.                                             *)
GCSObject == [held : Nat, final : BOOLEAN]
EmptyObject == [held |-> 0, final |-> FALSE]

(* time.Now().UTC().After(session.ExpiresAt): strictly later. *)
TTLElapsed(now, s) == now > s.expiresAt

(* SignResumableUploadURL gives the URL a life of its own, counted from the  *)
(* moment it signs.                                                         *)
SignedURLExpiry(signedAt) == signedAt + SignedURLTTL

(* The session CreateUploadSession persists for a request that began at      *)
(* startTime and whose URL was signed at signedAt.                           *)
NewSession(user, key, size, startTime, signedAt) ==
    [userID |-> user, idempotencyKey |-> key, sizeBytes |-> size,
     status |-> "created", uploadedBytes |-> 0,
     expiresAt |-> startTime + SessionTTL,
     urlExpiresAt |-> SignedURLExpiry(signedAt)]

(* The part of a session no operation of the service rewrites.              *)
Identity(s) == <<s.userID, s.idempotencyKey, s.sizeBytes, s.expiresAt, s.urlExpiresAt>>

(* The two ways a document is updated: its status alone, or with the count.  *)
WithStatus(s, status) == [s EXCEPT !.status = status]
WithProgress(s, status, bytes) == [s EXCEPT !.status = status, !.uploadedBytes = bytes]

(* All bytes of the session's upload are with GCS: what the refresh accepts  *)
(* as proof of completion.                                                  *)
UploadFinished(o, s) == o.final \/ o.held >= s.sizeBytes
================================================================================
