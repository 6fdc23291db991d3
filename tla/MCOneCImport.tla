---------------------------- MODULE MCOneCImport ----------------------------
(* Two payments, claimed one or two at a time under a lease of one tick.     *)
EXTENDS OneCImport

=============================================================================
