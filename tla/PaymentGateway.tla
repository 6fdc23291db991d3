--------------------------- MODULE PaymentGateway ---------------------------
(***************************************************************************)
(* The payment core: PaymentService (src/src/payment_gateway/service.py),  *)
(* the request handlers of api.py that call it, and the transactions table *)
(* of PaymentStore (store.py), between two external parties, the bank and  *)
(* the customer.  A definition commented as a mutant is no part of the     *)
(* specification: it is a plausible bug that some property must catch.     *)
(*                                                                         *)
(* Handlers are coroutines of one event loop.  A handler runs without      *)
(* interruption from one await to the next, and the only awaits are calls  *)
(* to a bank; `loop' is the handler that is running, if any.  Every store  *)
(* call commits on its own, so the process may crash between two of them.  *)
(*                                                                         *)
(* A transaction id is opaque, so the invoice, the print code and the bank *)
(* an id will be issued for are constants of the id.  "waiting" stands for *)
(* inited, waiting and qr_scanned; "canceled" for every final unpaid       *)
(* status (canceled, failed, overdue).                                     *)
(***************************************************************************)
EXTENDS Naturals, Sequences, FiniteSets

CONSTANTS
    Tx,            \* transaction ids the banks can issue
    Invoices,      \* invoice ids of the accounting system
    Codes,         \* print QR codes
    PrintCodes,    \* sequence of the enabled ones, in print order
    Handlers,      \* requests in progress at the same time
    InvoiceOf,     \* the invoice a transaction is issued for, or NoInvoice
    CodeOf,        \* its print code, or NoCode
    ProviderIdTx,  \* O!Dengi ids: the bank cancels them by its own invoice id
    NoTx, NoInvoice, NoCode, Nobody,
    OpenStatuses,  \* what a bank calls a QR that can still be paid
    BankFails,     \* whether a call to a bank may fail for no reason of ours
    DirectCreates, \* whether QRs are also created outside invoice printing
    MaxCrashes     \* bound on process crashes

ASSUME ConstantsAssumption ==
    /\ NoTx \notin Tx
    /\ NoInvoice \notin Invoices
    /\ Nobody \notin Handlers
    /\ InvoiceOf \in [Tx -> Invoices \cup {NoInvoice}]
    /\ ProviderIdTx \subseteq Tx
    /\ NoCode \notin Codes
    /\ PrintCodes \in Seq(Codes)
    /\ CodeOf \in [Tx -> Codes \cup {NoCode}]
    /\ OpenStatuses \subseteq {"waiting", "unknown"} /\ "waiting" \in OpenStatuses
    /\ {BankFails, DirectCreates} \subseteq BOOLEAN
    /\ MaxCrashes \in Nat

VARIABLES
    status,        \* transactions.status, "absent" when there is no row
    providerIds,   \* O!Dengi rows whose raw_payload holds the bank's own id
    oneC,          \* payment ids that have a row in one_c_payment_exports
    tigerTx,       \* tiger_invoice_exports.paid_transaction_id by invoice
    bank,          \* the bank's own record of each transaction
    acked,         \* paid notifications the bank got a 200 for
    loop,          \* the handler the event loop is running, or Nobody
    task,          \* the local state of each handler
    crashes

store == <<status, providerIds, oneC, tigerTx>>
vars == <<store, bank, acked, loop, task, crashes>>

BankStates == {"none", "open", "paid", "canceled"}
RowStatuses == {"absent", "waiting", "unknown", "canceled", "paid", "duplicate"}
Reusable == {"waiting", "paid"}
AutoCancel == {"waiting", "unknown"}
Accepted == {"paid", "duplicate"}

Task == [pc : {"idle", "create", "get", "cancel", "autoCancel",
               "export1C", "exportTiger", "cancelNext", "printNext"},
         op : {"none", "webhook", "refresh", "adminCancel", "apiCancel",
               "print", "direct"},
         cur : Tx \cup {NoTx},       \* the transaction the request is about
         target : Tx \cup {NoTx},    \* the transaction of the call to the bank
         byId : BOOLEAN,             \* the cancel call carries the bank's own id
         todo : SUBSET Tx,           \* siblings still to be canceled
         inv : Invoices \cup {NoInvoice},
         next : Nat,                 \* position in PrintCodes
         notice : BOOLEAN,           \* a genuine paid notification
         reply : {"none", "ok", "error", "waiting", "unknown", "canceled", "paid"}]

Idle == [pc |-> "idle", op |-> "none", cur |-> NoTx, target |-> NoTx,
         byId |-> TRUE, todo |-> {}, inv |-> NoInvoice, next |-> 1,
         notice |-> FALSE, reply |-> "none"]

TypeOK ==
    /\ status \in [Tx -> RowStatuses]
    /\ providerIds \subseteq ProviderIdTx
    /\ oneC \subseteq Tx
    /\ tigerTx \in [Invoices -> Tx \cup {NoTx}]
    /\ bank \in [Tx -> BankStates]
    /\ acked \subseteq Tx
    /\ loop \in Handlers \cup {Nobody}
    /\ task \in [Handlers -> Task]
    /\ crashes \in 0..MaxCrashes

Init ==
    /\ status = [t \in Tx |-> "absent"]
    /\ providerIds = {}
    /\ oneC = {}
    /\ tigerTx = [i \in Invoices |-> NoTx]
    /\ bank = [t \in Tx |-> "none"]
    /\ acked = {}
    /\ loop = Nobody
    /\ task = [h \in Handlers |-> Idle]
    /\ crashes = 0

-----------------------------------------------------------------------------
(* The transactions table.  Each operator is one committed store call: it   *)
(* returns the new status column.                                           *)

(* Mutant: a payment is a duplicate as soon as its invoice has another row. *)
AnyRowPaid(st, t) ==
    /\ InvoiceOf[t] # NoInvoice
    /\ \E u \in Tx \ {t} : InvoiceOf[u] = InvoiceOf[t] /\ st[u] # "absent"

(* The partial unique index uq_transactions_paid_invoice: the database      *)
(* refuses a second paid row of an invoice.                                 *)
PaidElsewhere(st, t) ==
    /\ InvoiceOf[t] # NoInvoice
    /\ \E u \in Tx \ {t} : InvoiceOf[u] = InvoiceOf[t] /\ st[u] = "paid"

(* Mutant: no unique index, so no fallback. *)
WithoutFallback(st, t, s) == [st EXCEPT ![t] = s]

WithPaidFallback(st, t, s) ==
    [st EXCEPT ![t] = IF s = "paid" /\ PaidElsewhere(st, t) THEN "duplicate" ELSE s]

UpsertTransaction(st, t, s) ==
    WithPaidFallback(st, t, IF st[t] \in Accepted THEN st[t] ELSE s)

(* Mutant: the accepted row is not guarded against later callbacks. *)
LateCallbackWins(st, t, s) == WithPaidFallback(st, t, s)

UpdateFromWebhook(st, t, s) ==
    IF st[t] \in Accepted /\ s # "paid" THEN st ELSE WithPaidFallback(st, t, s)

(* Mutant: the amount and the provider of the callback are not compared. *)
AnyCallbackCounts(st, t, s, matches) ==
    IF st[t] # "absent" THEN UpdateFromWebhook(st, t, s) ELSE st

(* matches: the callback has the row's provider and amount. *)
SaveWebhook(st, t, s, matches) ==
    IF st[t] # "absent" /\ matches THEN UpdateFromWebhook(st, t, s) ELSE st

UpdateTransactionStatus(st, t, s) == WithPaidFallback(st, t, s)

FindInvoiceTransactions(i, c) ==
    {t \in Tx : InvoiceOf[t] = i /\ CodeOf[t] = c /\ status[t] \in Reusable}

PaidPrinted(i) ==
    {t \in Tx : InvoiceOf[t] = i /\ CodeOf[t] # NoCode /\ status[t] = "paid"}

(* Mutant: QRs of unknown status are left alone. *)
RelatedWaiting(t) ==
    {u \in Tx \ {t} : InvoiceOf[u] = InvoiceOf[t] /\ status[u] = "waiting"}

RelatedForCancel(t) ==
    {u \in Tx \ {t} : InvoiceOf[u] = InvoiceOf[t] /\ status[u] \in AutoCancel}

-----------------------------------------------------------------------------
(* Scheduling of the coroutines. *)

Free(h) == loop = Nobody /\ task[h].pc = "idle"
Running(h, pc) == loop = h /\ task[h].pc = pc
Resumes(h, pc) == loop = Nobody /\ task[h].pc = pc

Become(h, new) == task' = [task EXCEPT ![h] = new]
Continue(h, new) == Become(h, new) /\ loop' = h
Await(h, new) == Become(h, new) /\ loop' = Nobody
Finish(h) == Await(h, Idle)

(* A cancel call is addressed by the provider id kept in raw_payload, or by *)
(* our own transaction id when raw_payload has none.                        *)
CancelCall(h, t, pc) ==
    [task[h] EXCEPT !.pc = pc, !.target = t, !.reply = "none",
                    !.byId = t \in ProviderIdTx => t \in providerIds,
                    !.todo = @ \ {t}]

-----------------------------------------------------------------------------
(* Bank callbacks. *)

(* Statuses the bank may have notified so far: callbacks are delivered late,*)
(* repeatedly, out of order or never.                                       *)
Notified(t) ==
    IF bank[t] = "none" THEN {} ELSE OpenStatuses \cup ({bank[t]} \ {"open"})

ReceiveWebhook(h, t, s, matches) ==
    /\ Free(h)
    /\ matches => s \in Notified(t)
    /\ status' = SaveWebhook(status, t, s, matches)
    /\ Continue(h, [Idle EXCEPT !.pc = "export1C", !.op = "webhook", !.cur = t,
                                !.notice = matches /\ s = "paid"])
    /\ UNCHANGED <<providerIds, oneC, tigerTx, bank, acked, crashes>>

(* Callbacks nobody has a matching row for, and genuine ones. *)
Webhook(h) ==
    \E t \in Tx, s \in OpenStatuses \cup {"canceled", "paid"}, matches \in BOOLEAN :
        ReceiveWebhook(h, t, s, matches)

PaidNotice(h, t) == t \notin acked /\ ReceiveWebhook(h, t, "paid", TRUE)

-----------------------------------------------------------------------------
(* cancel_other_invoice_transactions_if_paid, run after every operation     *)
(* that may have seen a payment: two export rows, then the siblings' QRs.   *)

(* What the caller does when it returns.  get_transaction re-reads the row, *)
(* and only the admin cancel goes on: it cancels what is still unpaid.      *)
EndExports(h) ==
    /\ IF task[h].op = "adminCancel" /\ status[task[h].cur] = "waiting"
         THEN Await(h, CancelCall(h, task[h].cur, "cancel"))
         ELSE Finish(h)
    /\ acked' = IF task[h].notice THEN acked \cup {task[h].cur} ELSE acked

(* Mutants: duplicates are exported too; an export is not repeated. *)
ExportsAnyPayment(t) == status[t] \in Accepted /\ InvoiceOf[t] # NoInvoice
ExportsOnce(t) == status[t] = "paid" /\ InvoiceOf[t] # NoInvoice /\ t \notin oneC

ExportsPayment(t) == status[t] = "paid" /\ InvoiceOf[t] # NoInvoice

ExportToOneC(h) ==
    /\ Running(h, "export1C")
    /\ IF ExportsPayment(task[h].cur)
         THEN /\ oneC' = oneC \cup {task[h].cur}
              /\ Continue(h, [task[h] EXCEPT !.pc = "exportTiger"])
              /\ UNCHANGED acked
         ELSE EndExports(h) /\ UNCHANGED oneC
    /\ UNCHANGED <<status, providerIds, tigerTx, bank, crashes>>

(* The Tiger row of an invoice keeps the transaction it was created for. *)
ExportToTiger(h) ==
    /\ Running(h, "exportTiger")
    /\ LET t == task[h].cur IN
       /\ tigerTx' = [tigerTx EXCEPT ![InvoiceOf[t]] = IF @ = NoTx THEN t ELSE @]
       /\ Continue(h, [task[h] EXCEPT !.pc = "cancelNext", !.todo = RelatedForCancel(t)])
    /\ UNCHANGED <<status, providerIds, oneC, bank, acked, crashes>>

CancelNext(h) ==
    /\ Running(h, "cancelNext")
    /\ \/ /\ task[h].todo = {}
          /\ EndExports(h)
       \/ \E u \in task[h].todo :
             Await(h, CancelCall(h, u, "autoCancel")) /\ UNCHANGED acked
    /\ UNCHANGED <<store, bank, crashes>>

(* The answer to a sibling's cancellation; a failure is only logged. *)
AfterAutoCancel(h) ==
    /\ Resumes(h, "autoCancel") /\ task[h].reply # "none"
    /\ status' = IF task[h].reply = "ok"
                   THEN UpdateTransactionStatus(status, task[h].target, "canceled")
                   ELSE status
    /\ Continue(h, [task[h] EXCEPT !.pc = "cancelNext"])
    /\ UNCHANGED <<providerIds, oneC, tigerTx, bank, acked, crashes>>

-----------------------------------------------------------------------------
(* Status refresh and cancellation on request. *)

StartRefresh(h, t, op) ==
    /\ Free(h)
    /\ status[t] # "absent"
    /\ Await(h, [Idle EXCEPT !.pc = "get", !.op = op, !.cur = t, !.target = t])
    /\ UNCHANGED <<store, bank, acked, crashes>>

(* Mutant: a refresh that finds a payment does not export it. *)
RefreshOnly(h) ==
    /\ Resumes(h, "get") /\ task[h].reply # "none"
    /\ status' = IF task[h].reply = "error" THEN status
                 ELSE UpsertTransaction(status, task[h].target, task[h].reply)
    /\ Finish(h)
    /\ UNCHANGED <<providerIds, oneC, tigerTx, bank, acked, crashes>>

(* Mutant: the failure of the call is stored as the status of the row. *)
FailureIsAStatus(h) ==
    /\ Resumes(h, "get") /\ task[h].reply # "none"
    /\ status' = UpsertTransaction(status, task[h].target, task[h].reply)
    /\ providerIds' = providerIds \ {task[h].target}
    /\ Continue(h, [task[h] EXCEPT !.pc = "export1C"])
    /\ UNCHANGED <<oneC, tigerTx, bank, acked, crashes>>

(* The bank's answer replaces raw_payload, the provider id in it included. *)
AfterGet(h) ==
    /\ Resumes(h, "get") /\ task[h].reply # "none"
    /\ IF task[h].reply = "error"
         THEN Finish(h) /\ UNCHANGED <<status, providerIds>>
         ELSE /\ status' = UpsertTransaction(status, task[h].target, task[h].reply)
              /\ providerIds' = providerIds \ {task[h].target}
              /\ Continue(h, [task[h] EXCEPT !.pc = "export1C"])
    /\ UNCHANGED <<oneC, tigerTx, bank, acked, crashes>>

StartApiCancel(h, t) ==
    /\ Free(h)
    /\ status[t] # "absent"
    /\ Await(h, [CancelCall(h, t, "cancel") EXCEPT !.op = "apiCancel", !.cur = t])
    /\ UNCHANGED <<store, bank, acked, crashes>>

AfterCancel(h) ==
    /\ Resumes(h, "cancel") /\ task[h].reply # "none"
    /\ status' = IF task[h].reply = "ok"
                   THEN UpdateTransactionStatus(status, task[h].target, "canceled")
                   ELSE status
    /\ Finish(h)
    /\ UNCHANGED <<providerIds, oneC, tigerTx, bank, acked, crashes>>

-----------------------------------------------------------------------------
(* Creating QRs: the print bundle of an invoice, and single QRs. *)

(* A paid invoice is only exported again; a changed amount is a 409 that    *)
(* changes nothing, and so is no step.                                      *)
StartPrint(h, i) ==
    /\ Free(h)
    /\ \/ \E t \in PaidPrinted(i) :
            Continue(h, [Idle EXCEPT !.pc = "export1C", !.op = "print", !.cur = t])
       \/ /\ PaidPrinted(i) = {}
          /\ Continue(h, [Idle EXCEPT !.pc = "printNext", !.op = "print", !.inv = i])
    /\ UNCHANGED <<store, bank, acked, crashes>>

(* A code whose QR can be reused is skipped, or, when the amount of the     *)
(* invoice has changed since, ends the request with a 409.                  *)
PrintNext(h) ==
    /\ Running(h, "printNext")
    /\ LET n == task[h].next
           reusable == FindInvoiceTransactions(task[h].inv, PrintCodes[n])
       IN \/ n > Len(PrintCodes) /\ Finish(h)
          \/ /\ n <= Len(PrintCodes) /\ reusable # {}
             /\ Continue(h, [task[h] EXCEPT !.next = n + 1]) \/ Finish(h)
          \/ /\ n <= Len(PrintCodes) /\ reusable = {}
             /\ Await(h, [task[h] EXCEPT !.pc = "create"])
    /\ UNCHANGED <<store, bank, acked, crashes>>

StartDirect(h, i) ==
    /\ DirectCreates
    /\ Free(h)
    /\ Await(h, [Idle EXCEPT !.pc = "create", !.op = "direct", !.inv = i])
    /\ UNCHANGED <<store, bank, acked, crashes>>

(* Ids the bank can issue for what the handler asks.  A bank issues an id   *)
(* once: O!Dengi has one order id for an invoice and code.                  *)
Issuable(h) ==
    {t \in Tx : /\ bank[t] = "none"
                /\ InvoiceOf[t] = task[h].inv
                /\ CodeOf[t] = IF task[h].op = "print" THEN PrintCodes[task[h].next]
                                                       ELSE NoCode}

(* The QR exists for the customer once its row is saved and the response    *)
(* shows it; what a failed call leaves at the bank is never shown.          *)
AfterCreate(h) ==
    /\ Resumes(h, "create")
    /\ \/ \E t \in Issuable(h) :
            /\ bank' = [bank EXCEPT ![t] = "open"]
            /\ status' = UpsertTransaction(status, t, "waiting")
            /\ providerIds' = providerIds \cup ({t} \cap ProviderIdTx)
            /\ IF task[h].op = "print"
                 THEN Continue(h, [task[h] EXCEPT !.pc = "printNext", !.next = @ + 1])
                 ELSE Finish(h)
       \/ /\ BankFails \/ Issuable(h) = {}
          /\ Finish(h)
          /\ UNCHANGED <<status, providerIds, bank>>
    /\ UNCHANGED <<oneC, tigerTx, acked, crashes>>

-----------------------------------------------------------------------------
(* The outside world. *)

(* The bank may say "waiting" for a while after it canceled a QR. *)
Answers(t) ==
    CASE bank[t] = "open" -> OpenStatuses
      [] bank[t] = "canceled" -> {"canceled", "waiting"}
      [] bank[t] = "paid" -> {"paid"}
      [] OTHER -> {"error"}

Reply(h, r) == task' = [task EXCEPT ![h].reply = r]
Lost == IF BankFails THEN {"error"} ELSE {}

BankAnswersGet(h) ==
    /\ task[h].pc = "get" /\ task[h].reply = "none"
    /\ \E r \in Answers(task[h].target) \cup Lost : Reply(h, r)
    /\ UNCHANGED <<store, bank, acked, loop, crashes>>

(* A bank cancels only what is not paid, and only under the id it knows.    *)
(* The answer to an accepted call may still be lost.                        *)
BankAnswersCancel(h) ==
    LET t == task[h].target
        accepted == task[h].byId /\ bank[t] \in {"open", "canceled"}
    IN /\ task[h].pc \in {"cancel", "autoCancel"} /\ task[h].reply = "none"
       /\ \/ /\ accepted
             /\ bank' = [bank EXCEPT ![t] = "canceled"]
             /\ \E r \in {"ok"} \cup Lost : Reply(h, r)
          \/ /\ BankFails \/ ~accepted \/ bank[t] = "canceled"
             /\ Reply(h, "error")
             /\ UNCHANGED bank
       /\ UNCHANGED <<store, acked, loop, crashes>>

CustomerPays(t) ==
    /\ bank[t] = "open"
    /\ bank' = [bank EXCEPT ![t] = "paid"]
    /\ UNCHANGED <<store, acked, loop, task, crashes>>

(* A QR expires, or a cancel call outlives the process that sent it. *)
BankCloses(t) ==
    /\ bank[t] = "open"
    /\ bank' = [bank EXCEPT ![t] = "canceled"]
    /\ UNCHANGED <<store, acked, loop, task, crashes>>

Crash ==
    /\ crashes < MaxCrashes
    /\ crashes' = crashes + 1
    /\ task' = [h \in Handlers |-> Idle]
    /\ loop' = Nobody
    /\ UNCHANGED <<store, bank, acked>>

-----------------------------------------------------------------------------

Handle(h) ==
    \/ ExportToOneC(h) \/ ExportToTiger(h) \/ CancelNext(h) \/ AfterAutoCancel(h)
    \/ AfterGet(h) \/ AfterCancel(h) \/ PrintNext(h) \/ AfterCreate(h)

Request(h) ==
    \/ \E t \in Tx : StartRefresh(h, t, "refresh") \/ StartRefresh(h, t, "adminCancel")
    \/ \E t \in Tx : StartApiCancel(h, t)
    \/ \E i \in Invoices : StartPrint(h, i)
    \/ \E i \in Invoices \cup {NoInvoice} : StartDirect(h, i)

Next ==
    \/ \E h \in Handlers : Request(h) \/ Webhook(h) \/ Handle(h)
    \/ \E h \in Handlers : BankAnswersGet(h) \/ BankAnswersCancel(h)
    \/ \E t \in Tx : CustomerPays(t) \/ BankCloses(t)
    \/ Crash

Spec == Init /\ [][Next]_vars

(* The event loop runs every handler that can go on, every call to a bank   *)
(* is answered or times out, and a bank repeats a paid notification until   *)
(* it gets a 200 (docs/MKASSA_API_NOTES.md:44).                             *)
Fairness ==
    /\ \A h \in Handlers : /\ SF_vars(Handle(h))
                           /\ WF_vars(BankAnswersGet(h) \/ BankAnswersCancel(h))
    /\ \A t \in Tx : SF_vars(\E h \in Handlers : PaidNotice(h, t))

FairSpec == Spec /\ Fairness

-----------------------------------------------------------------------------
(* Properties. *)

(* At most one transaction of an invoice is accepted as its payment. *)
OnePaidPerInvoice ==
    \A t, u \in Tx :
        /\ status[t] = "paid" /\ status[u] = "paid"
        /\ InvoiceOf[t] = InvoiceOf[u] /\ InvoiceOf[t] # NoInvoice
        => t = u

(* An accepted payment stays accepted: neither a late callback, nor a stale *)
(* refresh, nor a cancellation that was in progress when it was paid takes  *)
(* it back (store.py:436, "Once a payment is accepted, delayed cancel       *)
(* callbacks cannot downgrade it").                                         *)
PaidStays == [][\A t \in Tx : status[t] = "paid" => status'[t] = "paid"]_vars

(* The gateway accepts only what the bank has been paid for, whatever       *)
(* callbacks with another amount or provider claim.                         *)
AcceptedIsPaidAtBank ==
    \A t \in Tx : status[t] \in Accepted => bank[t] = "paid"

(* Money is set aside as a duplicate only when another transaction of the   *)
(* same invoice is accepted: no payment is lost to its own repetition.      *)
DuplicateHasWinner ==
    \A t \in Tx : status[t] = "duplicate" =>
        \E u \in Tx : InvoiceOf[u] = InvoiceOf[t] /\ status[u] = "paid"

(* Both export queues hold accepted payments only, one event an invoice,    *)
(* and the Tiger event is about the payment 1C is told of.                  *)
ExportsAccepted ==
    /\ \A t \in oneC : status[t] = "paid" /\ InvoiceOf[t] # NoInvoice
    /\ \A t, u \in oneC : InvoiceOf[t] = InvoiceOf[u] => t = u
    /\ \A i \in Invoices :
          tigerTx[i] # NoTx => tigerTx[i] \in oneC /\ InvoiceOf[tigerTx[i]] = i

(* Without a crash, whenever no handler is running every accepted payment   *)
(* of an invoice is in both queues: every path that accepts a payment       *)
(* exports it before it gives up the event loop.                            *)
NoGapWithoutCrash ==
    crashes = 0 /\ loop = Nobody =>
        \A t \in Tx :
            status[t] = "paid" /\ InvoiceOf[t] # NoInvoice =>
                t \in oneC /\ tigerTx[InvoiceOf[t]] = t

(* Every payment of an invoice is eventually on record, and the invoice     *)
(* eventually in both queues, through crashes and failing calls.            *)
PaymentReachesQueues ==
    \A t \in Tx :
        bank[t] = "paid" /\ InvoiceOf[t] # NoInvoice ~>
            /\ status[t] \in Accepted
            /\ \E u \in oneC : InvoiceOf[u] = InvoiceOf[t]
            /\ tigerTx[InvoiceOf[t]] # NoTx

(* Once an invoice is paid its other QRs stop being payable (README.md:213, *)
(* the other QRs of the invoice are canceled at the provider).              *)
SiblingsClosed ==
    \A t \in Tx :
        status[t] = "paid" /\ InvoiceOf[t] # NoInvoice ~>
            \A u \in Tx \ {t} : InvoiceOf[u] = InvoiceOf[t] => bank[u] # "open"

(* Every cancel call names the QR by the id the bank knows it by            *)
(* (docs/ODENGI_API_NOTES.md:44, invoiceCancel by invoice_id, which         *)
(* raw_payload keeps).                                                      *)
CancelByProviderId ==
    \A h \in Handlers : task[h].pc \in {"cancel", "autoCancel"} => task[h].byId

=============================================================================
