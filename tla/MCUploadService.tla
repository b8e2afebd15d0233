-------------------------- MODULE MCUploadService --------------------------
(* UploadService for TLC.                                                   *)
EXTENDS UploadService
=============================================================================
