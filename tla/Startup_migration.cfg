SPECIFICATION Spec
CONSTANTS
    i1 = i1
    NoTx = NoTx
    NoInvoice = NoInvoice
    Tx = {1, 2, 3, 4}
    Invoices = {i1}
    InvoiceOf <- MCInvoiceOf
    PaidAt <- MCPaidAt
INVARIANTS
    TypeOK
    IndexIsCreatable
    TigerRowAccepted
PROPERTIES
    BookedIsKept
    PaidInvoiceStaysPaid
    AcceptedSurvivesRestart
