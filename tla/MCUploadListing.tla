-------------------------- MODULE MCUploadListing --------------------------
(* UploadListing for TLC.                                                  *)
EXTENDS UploadListing
=============================================================================
