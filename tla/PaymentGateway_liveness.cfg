SPECIFICATION FairSpec
CONSTANTS
    m1 = m1
    m2 = m2
    o1 = o1
    d1 = d1
    e1 = e1
    mbank = mbank
    obank = obank
    inv1 = inv1
    Invoices = {inv1}
    Codes = {mbank, obank}
    NoTx = NoTx
    NoInvoice = NoInvoice
    NoCode = NoCode
    Nobody = Nobody
    InvoiceOf <- MCInvoiceOf
    CodeOf <- MCCodeOf
    Tx = {m1, m2}
    ProviderIdTx = {}
    PrintCodes <- MCOnePrintCode
    Handlers = {h1, h2}
    OpenStatuses = {"waiting"}
    BankFails = TRUE
    DirectCreates = FALSE
    MaxCrashes = 1
INVARIANTS
    OnePaidPerInvoice
    DuplicateHasWinner
PROPERTY PaymentReachesQueues
