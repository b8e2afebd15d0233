---------------------------- MODULE MCPublisher ----------------------------
(* Publisher for TLC.                                                       *)
EXTENDS Publisher
=============================================================================
