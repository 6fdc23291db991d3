---------------------------- MODULE MCExportEvents ----------------------------
(* An invoice printed with two codes, each with an account of its own.  It  *)
(* is paid by either of two QRs printed with mbank (p1, p2), by one that a  *)
(* caller of the API gave that code but the account of the other (api), by  *)
(* one that an older version printed with obank and no account (old), or by *)
(* one without a code (plain).                                              *)
EXTENDS ExportEvents, TLC

CONSTANTS mbank, obank, i1, p1, p2, old, api, plain, a, b

MCAccountsOf == (mbank :> {a}) @@ (obank :> {b})

MCInvoiceOf == [t \in Tx |-> i1]

MCCodeOf == [t \in Tx |-> CASE t \in {p1, p2, api} -> mbank
                            [] t = old -> obank
                            [] OTHER -> NoCode]

MCGiven == (old :> NoAccount) @@ (api :> b) @@ (plain :> a)

QrSymmetry == Permutations(Handlers) \cup Permutations({p1, p2})

=============================================================================
