SPECIFICATION Spec
CONSTANTS
    mbank = mbank
    obank = obank
    i1 = i1
    p1 = p1
    p2 = p2
    old = old
    api = api
    plain = plain
    a = a
    b = b
    NoTx = NoTx
    NoCode = NoCode
    NoAccount = NoAccount
    Codes = {mbank, obank}
    EnabledByDefault = {mbank}
    AccountsOf <- MCAccountsOf
    Invoices = {i1}
    Tx = {p1, p2, old, api, plain}
    InvoiceOf <- MCInvoiceOf
    CodeOf <- MCCodeOf
    Given <- MCGiven
    Handlers = {h1, h2}
SYMMETRY QrSymmetry
INVARIANTS
    TypeOK
    AccountFollowsCode
PROPERTY ClaimableIsValid
