----------------------------- MODULE MCGuardian -----------------------------
(* Two engines, two helpers and the files of an earlier session.             *)
EXTENDS Guardian
=============================================================================
