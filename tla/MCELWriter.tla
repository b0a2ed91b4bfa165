----------------------------- MODULE MCELWriter -----------------------------
(* TLC instance of ELWriter: the caller may invoke any write method.       *)
EXTENDS ELWriter, TLC

MC_Called == DOMAIN Program

=============================================================================
