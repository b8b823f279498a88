---------------------------- MODULE MCReserveSync ---------------------------
(* Constants of the model-checking runs of ReserveSync.                    *)
EXTENDS ReserveSync, TLC

CONSTANTS n1, c1, c2

=============================================================================
