------------------------- MODULE MCPaymentGateway -------------------------
(* Small instances of PaymentGateway: one invoice printed with two codes,   *)
(* mbank (MKassa: m1, m2) and obank (O!Dengi: o1), and QRs made outside     *)
(* printing, d1 for the same invoice and e1 for none.                       *)
EXTENDS PaymentGateway, TLC

CONSTANTS m1, m2, o1, d1, e1, mbank, obank, inv1

MCInvoiceOf == [t \in Tx |-> IF t = e1 THEN NoInvoice ELSE inv1]

MCCodeOf == [t \in Tx |-> CASE t \in {m1, m2} -> mbank
                            [] t = o1 -> obank
                            [] OTHER -> NoCode]

MCPrintCodes == <<mbank, obank>>

MCOnePrintCode == <<mbank>>

HandlerSymmetry == Permutations(Handlers)

=============================================================================
