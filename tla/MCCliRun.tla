------------------------------ MODULE MCCliRun ------------------------------
(* Finite instances of CliRun.                                             *)
EXTENDS CliRun

NewSession == {<<UserMessage>>}
=============================================================================
