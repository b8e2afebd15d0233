-------------------------- MODULE MCClientSession ---------------------------
(* ClientSession for TLC: its instance is in Session.cfg.                  *)
EXTENDS ClientSession
=============================================================================
