--------------------------- MODULE MCCredentialVault ---------------------------
(***************************************************************************)
(* Instances of CredentialVault for TLC.                                   *)
(***************************************************************************)
EXTENDS CredentialVault, TLC

Alike == Permutations(Callers)
=============================================================================
