---------------------- MODULE MCPromptAcceptanceLedger ----------------------
(***************************************************************************)
(* Instances of PromptAcceptanceLedger for TLC.                            *)
(***************************************************************************)
EXTENDS PromptAcceptanceLedger, TLC

Symmetric == Permutations(Nonce) \cup Permutations(Digest)
=============================================================================
