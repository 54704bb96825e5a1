------------------------------- MODULE MCMfa -------------------------------
(* Instances of Mfa: requests and codes are interchangeable.               *)
EXTENDS Mfa, TLC

Symmetry ==
  Permutations(Requests) \union Permutations(BackupCodes) \union Permutations(EmailCodes)
=============================================================================
