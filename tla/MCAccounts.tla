----------------------------- MODULE MCAccounts -----------------------------
(***************************************************************************)
(* Accounts on a few requests, which are interchangeable but for liveness. *)
(***************************************************************************)
EXTENDS Accounts, TLC

=============================================================================
