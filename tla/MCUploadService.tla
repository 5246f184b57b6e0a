---------------------------- MODULE MCUploadService ----------------------------
(***************************************************************************)
(* Model checking of UploadService: the values the configurations share.    *)
(***************************************************************************)
EXTENDS UploadServiceClaims, TLC

Symmetry == Permutations(Procs) \cup Permutations(UploadIDs)

AllOperations    == Operations
CoreOperations   == {"create", "get", "refresh", "cancel"}
CreateOnly       == {"create"}
RefreshAndCancel == {"create", "refresh", "cancel"}
================================================================================
