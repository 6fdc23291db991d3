--------------------------- MODULE MCExportQueue ---------------------------
(* A Tiger queue of three events: two clients that claim two at a time under *)
(* a lease of one tick.                                                      *)
EXTENDS ExportQueue, TLC

QueueSymmetry == Permutations(Clients)

=============================================================================
