---------------------------- MODULE MCEntrypoint ----------------------------
(* Entrypoints of up to six characters.                                    *)
EXTENDS Entrypoint, TLC
=============================================================================
