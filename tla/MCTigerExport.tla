---------------------------- MODULE MCTigerExport ----------------------------
(* Two invoices and one or two voucher groups, under a lease of one tick.    *)
(* Groups are not symmetric: a free job names one of them.                   *)
EXTENDS TigerExport

=============================================================================
