------------------------------ MODULE MCOutputs ------------------------------
EXTENDS Outputs, TLC

(* Two outputs, so that a sensitive one and a published one meet.          *)
MCNames == {"o1", "o2"}

=============================================================================
