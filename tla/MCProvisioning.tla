--------------------------- MODULE MCProvisioning ---------------------------
(* Small instances of Provisioning.                                        *)
EXTENDS Provisioning, TLC

Same == Permutations(Tokens)
=============================================================================
