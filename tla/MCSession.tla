----------------------------- MODULE MCSession -----------------------------
(***************************************************************************)
(* An instance of Session for TLC.                                         *)
(***************************************************************************)
EXTENDS Session

\* The fast retries: as in the code two, the second after a longer wait.
FastRetries == <<1, 2>>
=============================================================================
