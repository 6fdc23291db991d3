------------------------------ MODULE MCStartup ------------------------------
(* Three QRs of one invoice, two of them paid in the same second, and one   *)
(* QR of no invoice.                                                        *)
EXTENDS Startup, TLC

CONSTANT i1

MCInvoiceOf == (1 :> i1) @@ (2 :> i1) @@ (3 :> i1) @@ (4 :> NoInvoice)

MCPaidAt == (1 :> 2) @@ (2 :> 1) @@ (3 :> 1) @@ (4 :> 1)

=============================================================================
