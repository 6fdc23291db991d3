------------------------ MODULE PaymentGatewayProofs ------------------------
(* Proofs about PaymentGateway, for every value of its constants: the safety *)
(* invariants and the action property PaidStays, from one inductive          *)
(* invariant.                                                                *)
EXTENDS PaymentGateway, TLAPS

-----------------------------------------------------------------------------
(* The inductive invariant.  The properties of the status column are stated  *)
(* about any such column, so that a store call is one lemma.                 *)

OnePaid(st) ==
    \A t, u \in Tx :
        /\ st[t] = "paid" /\ st[u] = "paid"
        /\ InvoiceOf[t] = InvoiceOf[u] /\ InvoiceOf[t] # NoInvoice
        => t = u

DuplicatesWon(st) ==
    \A t \in Tx : st[t] = "duplicate" =>
        \E u \in Tx : InvoiceOf[u] = InvoiceOf[t] /\ st[u] = "paid"

RowsOK(st) == st \in [Tx -> RowStatuses] /\ OnePaid(st) /\ DuplicatesWon(st)

PaidKept(st, new) == \A t \in Tx : st[t] = "paid" => new[t] = "paid"

(* What a coroutine remembers across an await is still true of the bank: a   *)
(* payment it was told of has been made, and what it canceled stays          *)
(* canceled.                                                                 *)
TaskOK(tk, bk) ==
    /\ tk \in Task
    /\ tk.pc \notin {"idle", "create", "printNext"} => tk.cur \in Tx
    /\ tk.pc \in {"get", "cancel", "autoCancel"} => tk.target \in Tx
    /\ tk.pc = "get" => tk.target = tk.cur /\ tk.reply # "ok"
    /\ tk.pc = "get" /\ tk.reply = "paid" => bk[tk.target] = "paid"
    /\ tk.pc \in {"cancel", "autoCancel"} /\ tk.reply = "ok"
       => bk[tk.target] = "canceled"

TasksOK == \A h \in Handlers : TaskOK(task[h], bank)

OneCFirst == \A h \in Handlers : task[h].pc = "exportTiger" => task[h].cur \in oneC

Exporting(t) ==
    \E h \in Handlers : /\ loop = h /\ task[h].cur = t
                        /\ task[h].pc \in {"export1C", "exportTiger"}

GapIsBeingClosed ==
    crashes = 0 =>
        \A t \in Tx :
            status[t] = "paid" /\ InvoiceOf[t] # NoInvoice =>
                \/ t \in oneC /\ tigerTx[InvoiceOf[t]] = t
                \/ Exporting(t)

IInv ==
    /\ TypeOK
    /\ RowsOK(status)
    /\ AcceptedIsPaidAtBank
    /\ TasksOK
    /\ ExportsAccepted
    /\ OneCFirst
    /\ GapIsBeingClosed

-----------------------------------------------------------------------------
(* The store calls. *)

(* A write of one row that keeps an accepted row accepted and writes         *)
(* "duplicate" only over a duplicate: the table stays sound, a paid row      *)
(* stays paid, no other row changes, and the row is accepted afterwards only *)
(* if the written status is.                                                 *)
LEMMA FallbackKeepsRows ==
    ASSUME ConstantsAssumption,
           NEW st, RowsOK(st), NEW t \in Tx, NEW s \in RowStatuses,
           st[t] = "paid" => s = "paid",
           s = "duplicate" => st[t] = "duplicate"
    PROVE  LET new == WithPaidFallback(st, t, s)
           IN /\ RowsOK(new)
              /\ PaidKept(st, new)
              /\ \A u \in Tx \ {t} : new[u] = st[u]
              /\ new[t] \in Accepted => s \in Accepted
              /\ new[t] = "paid" => s = "paid"
<1> DEFINE new == WithPaidFallback(st, t, s)
<1> DEFINE v == IF s = "paid" /\ PaidElsewhere(st, t) THEN "duplicate" ELSE s
<1>1. /\ st \in [Tx -> RowStatuses]
      /\ new = [st EXCEPT ![t] = v]
      /\ v \in RowStatuses
  BY DEF RowsOK, WithPaidFallback, RowStatuses
<1>2. /\ new \in [Tx -> RowStatuses]
      /\ new[t] = v
      /\ \A u \in Tx \ {t} : new[u] = st[u]
  BY <1>1
<1>3. ASSUME NEW u \in Tx, st[u] = "paid" PROVE new[u] = "paid"
  <2>1. CASE u # t
    BY <2>1, <1>2, <1>3
  <2>2. CASE u = t
    <3>1. ~PaidElsewhere(st, t)
      BY <2>2, <1>3 DEF RowsOK, OnePaid, PaidElsewhere
    <3> QED BY <3>1, <2>2, <1>2, <1>3
  <2> QED BY <2>1, <2>2
<1>4. OnePaid(new)
  <2> SUFFICES ASSUME NEW a \in Tx, NEW b \in Tx, new[a] = "paid", new[b] = "paid",
                      InvoiceOf[a] = InvoiceOf[b], InvoiceOf[a] # NoInvoice
               PROVE  a = b
    BY DEF OnePaid
  <2>1. CASE a # t /\ b # t
    BY <2>1, <1>2 DEF RowsOK, OnePaid
  <2>2. CASE a = t /\ b # t
    BY <2>2, <1>2 DEF PaidElsewhere
  <2>3. CASE b = t /\ a # t
    BY <2>3, <1>2 DEF PaidElsewhere
  <2> QED BY <2>1, <2>2, <2>3
<1>5. DuplicatesWon(new)
  <2> SUFFICES ASSUME NEW a \in Tx, new[a] = "duplicate"
               PROVE  \E u \in Tx : InvoiceOf[u] = InvoiceOf[a] /\ new[u] = "paid"
    BY DEF DuplicatesWon
  <2>1. \E u \in Tx : InvoiceOf[u] = InvoiceOf[a] /\ st[u] = "paid"
    <3>1. CASE st[a] = "duplicate"
      BY <3>1 DEF RowsOK, DuplicatesWon
    <3>2. CASE st[a] # "duplicate"
      <4>1. a = t /\ PaidElsewhere(st, t)
        BY <3>2, <1>2
      <4> QED BY <4>1 DEF PaidElsewhere
    <3> QED BY <3>1, <3>2
  <2> QED BY <2>1, <1>3
<1> QED
  <2>1. RowsOK(new)
    BY <1>2, <1>4, <1>5 DEF RowsOK
  <2>2. new[t] \in Accepted => s \in Accepted
    BY <1>2 DEF Accepted
  <2>3. new[t] = "paid" => s = "paid"
    BY <1>2
  <2> QED BY <2>1, <2>2, <2>3, <1>2, <1>3 DEF PaidKept

(* A status read from the bank: an accepted row keeps its status.            *)
LEMMA UpsertKeepsRows ==
    ASSUME ConstantsAssumption,
           NEW st, RowsOK(st), NEW t \in Tx, NEW s \in RowStatuses \ {"duplicate"}
    PROVE  LET new == UpsertTransaction(st, t, s)
           IN /\ RowsOK(new)
              /\ PaidKept(st, new)
              /\ \A u \in Tx \ {t} : new[u] = st[u]
              /\ new[t] \in Accepted => st[t] \in Accepted \/ s = "paid"
<1> DEFINE s2 == IF st[t] \in Accepted THEN st[t] ELSE s
<1>1. /\ s2 \in RowStatuses
      /\ st[t] = "paid" => s2 = "paid"
      /\ s2 = "duplicate" => st[t] = "duplicate"
      /\ s2 \in Accepted => st[t] \in Accepted \/ s = "paid"
  BY DEF RowsOK, Accepted, RowStatuses
<1>2. UpsertTransaction(st, t, s) = WithPaidFallback(st, t, s2)
  BY DEF UpsertTransaction
<1> HIDE DEF s2
<1> QED BY <1>1, <1>2, FallbackKeepsRows

(* A callback: an accepted row ignores everything but another "paid".        *)
LEMMA WebhookKeepsRows ==
    ASSUME ConstantsAssumption,
           NEW st, RowsOK(st), NEW t \in Tx, NEW s \in RowStatuses \ {"duplicate"},
           NEW matches \in BOOLEAN
    PROVE  LET new == SaveWebhook(st, t, s, matches)
           IN /\ RowsOK(new)
              /\ PaidKept(st, new)
              /\ \A u \in Tx \ {t} : new[u] = st[u]
              /\ new[t] \in Accepted => st[t] \in Accepted \/ (matches /\ s = "paid")
<1>1. CASE st[t] # "absent" /\ matches /\ ~(st[t] \in Accepted /\ s # "paid")
  <2>1. SaveWebhook(st, t, s, matches) = WithPaidFallback(st, t, s)
    BY <1>1 DEF SaveWebhook, UpdateFromWebhook
  <2>2. /\ st[t] = "paid" => s = "paid"
        /\ s \in Accepted => s = "paid"
    BY <1>1 DEF Accepted
  <2> QED BY <2>1, <2>2, <1>1, FallbackKeepsRows
<1>2. CASE ~(st[t] # "absent" /\ matches /\ ~(st[t] \in Accepted /\ s # "paid"))
  <2>1. SaveWebhook(st, t, s, matches) = st
    BY <1>2 DEF SaveWebhook, UpdateFromWebhook
  <2> QED BY <2>1 DEF PaidKept
<1> QED BY <1>1, <1>2

(* A cancellation, of a row that is not accepted.                            *)
LEMMA CancelKeepsRows ==
    ASSUME ConstantsAssumption,
           NEW st, RowsOK(st), NEW t \in Tx, st[t] \notin Accepted
    PROVE  LET new == UpdateTransactionStatus(st, t, "canceled")
           IN /\ RowsOK(new)
              /\ PaidKept(st, new)
              /\ \A u \in Tx \ {t} : new[u] = st[u]
              /\ new[t] \notin Accepted
<1>1. "canceled" \in RowStatuses /\ "canceled" \notin Accepted /\ st[t] # "paid"
  BY DEF RowStatuses, Accepted
<1>2. UpdateTransactionStatus(st, t, "canceled") = WithPaidFallback(st, t, "canceled")
  BY DEF UpdateTransactionStatus
<1> QED BY <1>1, <1>2, FallbackKeepsRows

-----------------------------------------------------------------------------
(* Steps of a handler. *)

BankGrows ==
    \A t \in Tx : /\ bank[t] = "paid" => bank'[t] = "paid"
                  /\ bank[t] = "canceled" => bank'[t] = "canceled"

LEMMA TasksStep ==
    ASSUME TypeOK, TasksOK, BankGrows,
           NEW h \in Handlers, NEW new, Become(h, new), TaskOK(new, bank')
    PROVE  /\ TasksOK'
           /\ task' \in [Handlers -> Task]
           /\ task'[h] = new
           /\ \A g \in Handlers \ {h} : task'[g] = task[g]
<1>1. /\ task \in [Handlers -> Task]
      /\ task' = [task EXCEPT ![h] = new]
      /\ new \in Task
  BY DEF TypeOK, Become, TaskOK
<1>2. /\ task' \in [Handlers -> Task]
      /\ task'[h] = new
      /\ \A g \in Handlers \ {h} : task'[g] = task[g]
  BY <1>1
<1>3. ASSUME NEW g \in Handlers PROVE TaskOK(task'[g], bank')
  <2>1. CASE g = h
    BY <2>1, <1>2
  <2>2. CASE g # h
    <3>1. task'[g] = task[g] /\ TaskOK(task[g], bank)
      BY <2>2, <1>2 DEF TasksOK
    <3>2. TaskOK(task[g], bank')
      BY <3>1 DEF TaskOK, BankGrows
    <3> QED BY <3>1, <3>2
  <2> QED BY <2>1, <2>2
<1> QED BY <1>2, <1>3 DEF TasksOK

(* Every step of a handler but the two export writes: it writes rows or      *)
(* none, keeps paid rows paid, and a payment that is new or being exported   *)
(* is being exported afterwards.                                             *)
LEMMA HandlerStep ==
    ASSUME ConstantsAssumption, IInv,
           NEW h \in Handlers, NEW new, Become(h, new), TaskOK(new, bank'),
           new.pc # "exportTiger",
           RowsOK(status'), PaidKept(status, status'), AcceptedIsPaidAtBank',
           bank' \in [Tx -> BankStates], BankGrows,
           providerIds' \subseteq ProviderIdTx, acked' \subseteq Tx,
           loop' \in Handlers \cup {Nobody},
           UNCHANGED <<oneC, tigerTx, crashes>>,
           \A t \in Tx : /\ status'[t] = "paid" /\ InvoiceOf[t] # NoInvoice
                         /\ status[t] # "paid" \/ Exporting(t)
                         => Exporting(t)'
    PROVE  IInv'
<1>1. /\ TasksOK'
      /\ task' \in [Handlers -> Task]
      /\ task'[h] = new
      /\ \A g \in Handlers \ {h} : task'[g] = task[g]
  BY TasksStep DEF IInv
<1>2. TypeOK'
  BY <1>1 DEF IInv, TypeOK, RowsOK
<1>3. ExportsAccepted'
  BY DEF IInv, TypeOK, ExportsAccepted, PaidKept
<1>4. OneCFirst'
  BY <1>1 DEF IInv, OneCFirst
<1>5. GapIsBeingClosed'
  BY DEF IInv, GapIsBeingClosed
<1> QED BY <1>1, <1>2, <1>3, <1>4, <1>5 DEF IInv

(* A step that writes nothing to the store.                                  *)
LEMMA QuietStep ==
    ASSUME ConstantsAssumption, IInv,
           NEW h \in Handlers, NEW new, Become(h, new), TaskOK(new, bank),
           new.pc # "exportTiger",
           acked' \subseteq Tx, loop' \in Handlers \cup {Nobody},
           UNCHANGED <<store, bank, crashes>>,
           \A t \in Tx : /\ status[t] = "paid" /\ InvoiceOf[t] # NoInvoice
                         /\ Exporting(t)
                         => Exporting(t)'
    PROVE  IInv'
<1>1. /\ status' = status /\ providerIds' = providerIds /\ bank' = bank
      /\ UNCHANGED <<oneC, tigerTx, crashes>>
  BY DEF store
<1>2. /\ RowsOK(status') /\ PaidKept(status, status') /\ AcceptedIsPaidAtBank'
      /\ BankGrows
  BY <1>1 DEF IInv, PaidKept, AcceptedIsPaidAtBank, BankGrows
<1>3. bank' \in [Tx -> BankStates] /\ providerIds' \subseteq ProviderIdTx
  BY <1>1 DEF IInv, TypeOK
<1>4. TaskOK(new, bank')
  BY <1>1
<1>5. \A t \in Tx : /\ status'[t] = "paid" /\ InvoiceOf[t] # NoInvoice
                    /\ status[t] # "paid" \/ Exporting(t)
                    => Exporting(t)'
  BY <1>1
<1> QED BY <1>1, <1>2, <1>3, <1>4, <1>5, HandlerStep

(* Between two awaits nothing is half exported.                              *)
LEMMA NothingExporting ==
    ASSUME ConstantsAssumption, loop = Nobody
    PROVE  \A t \in Tx : ~Exporting(t)
BY DEF ConstantsAssumption, Exporting

LEMMA IdleOK == ASSUME NEW bk PROVE TaskOK(Idle, bk)
BY DEF TaskOK, Idle, Task

-----------------------------------------------------------------------------
(* One lemma an action. *)

LEMMA ReceiveWebhookKeepsIInv ==
    ASSUME ConstantsAssumption, IInv, NEW h \in Handlers, NEW t \in Tx,
           NEW s \in OpenStatuses \cup {"canceled", "paid"}, NEW matches \in BOOLEAN,
           ReceiveWebhook(h, t, s, matches)
    PROVE  IInv' /\ PaidKept(status, status')
<1> DEFINE new == [Idle EXCEPT !.pc = "export1C", !.op = "webhook", !.cur = t,
                               !.notice = matches /\ s = "paid"]
<1>1. /\ Become(h, new) /\ loop' = h /\ loop = Nobody
      /\ status' = SaveWebhook(status, t, s, matches)
      /\ UNCHANGED <<providerIds, oneC, tigerTx, bank, acked, crashes>>
  BY DEF ReceiveWebhook, Continue, Free
<1>2. TaskOK(new, bank')
  BY DEF TaskOK, Idle, Task
<1>3. matches /\ s = "paid" => bank[t] = "paid"
  BY DEF ReceiveWebhook, Notified, ConstantsAssumption
<1>4. s \in RowStatuses \ {"duplicate"}
  BY DEF ConstantsAssumption, RowStatuses
<1>5. /\ RowsOK(status')
      /\ PaidKept(status, status')
      /\ \A u \in Tx \ {t} : status'[u] = status[u]
      /\ status'[t] \in Accepted => status[t] \in Accepted \/ (matches /\ s = "paid")
  BY <1>1, <1>4, WebhookKeepsRows DEF IInv
<1>6. AcceptedIsPaidAtBank'
  BY <1>1, <1>3, <1>5 DEF IInv, AcceptedIsPaidAtBank
<1>7. \A u \in Tx : status'[u] = "paid" /\ (status[u] # "paid" \/ Exporting(u)) => Exporting(u)'
  <2>1. Exporting(t)'
    <3>1. task'[h] = new
      BY <1>1 DEF Become, IInv, TypeOK
    <3>2. new.pc = "export1C" /\ new.cur = t
      BY DEF Idle
    <3> HIDE DEF new
    <3> QED BY <3>1, <3>2, <1>1 DEF Exporting
  <2>2. \A u \in Tx : ~Exporting(u)
    BY <1>1, NothingExporting
  <2> QED BY <2>1, <2>2, <1>5
<1>8. /\ new.pc # "exportTiger"
      /\ bank' \in [Tx -> BankStates] /\ BankGrows
      /\ providerIds' \subseteq ProviderIdTx /\ acked' \subseteq Tx
      /\ loop' \in Handlers \cup {Nobody}
      /\ UNCHANGED <<oneC, tigerTx, crashes>>
  BY <1>1 DEF IInv, TypeOK, BankGrows, Idle
<1> HIDE DEF new
<1> QED BY <1>1, <1>2, <1>5, <1>6, <1>7, <1>8, HandlerStep

LEMMA EndExportsKeepsIInv ==
    ASSUME ConstantsAssumption, IInv, NEW h \in Handlers, loop = h,
           task[h].pc \in {"export1C", "cancelNext"},
           status[task[h].cur] # "paid" \/ InvoiceOf[task[h].cur] = NoInvoice
             \/ task[h].pc = "cancelNext",
           EndExports(h), UNCHANGED <<store, bank, crashes>>
    PROVE  IInv'
<1>1. TaskOK(task[h], bank) /\ task[h].cur \in Tx
  BY DEF IInv, TasksOK, TaskOK
<1>2. acked' \subseteq Tx
  BY <1>1 DEF IInv, TypeOK, EndExports
<1>3. loop' = Nobody
  BY DEF EndExports, Finish, Await
<1>4. \A t \in Tx : ~(status[t] = "paid" /\ InvoiceOf[t] # NoInvoice /\ Exporting(t))
  BY DEF Exporting
<1>5. CASE Become(h, CancelCall(h, task[h].cur, "cancel"))
  <2>1. TaskOK(CancelCall(h, task[h].cur, "cancel"), bank)
    BY <1>1 DEF TaskOK, CancelCall, Task
  <2>2. CancelCall(h, task[h].cur, "cancel").pc # "exportTiger"
    BY <1>1 DEF CancelCall, TaskOK, Task
  <2> QED BY <1>2, <1>3, <1>4, <1>5, <2>1, <2>2, QuietStep
<1>6. CASE Become(h, Idle)
  <2>1. Idle.pc # "exportTiger"
    BY DEF Idle
  <2> QED BY <1>2, <1>3, <1>4, <1>6, <2>1, IdleOK, QuietStep
<1> QED BY <1>5, <1>6 DEF EndExports, Finish, Await

LEMMA ExportToOneCKeepsIInv ==
    ASSUME ConstantsAssumption, IInv, NEW h \in Handlers, ExportToOneC(h)
    PROVE  IInv'
<1>0. PICK t \in Tx : t = task[h].cur
  BY DEF IInv, TasksOK, TaskOK, ExportToOneC, Running
<1> DEFINE new == [task[h] EXCEPT !.pc = "exportTiger"]
<1>1. TaskOK(task[h], bank) /\ task[h].cur = t /\ task[h].pc = "export1C" /\ loop = h
  BY <1>0 DEF IInv, TasksOK, ExportToOneC, Running
<1>2. CASE ExportsPayment(t)
  <2>1. /\ Become(h, new) /\ loop' = h
        /\ oneC' = oneC \cup {t}
        /\ UNCHANGED <<status, providerIds, tigerTx, bank, acked, crashes>>
    BY <1>0, <1>2 DEF ExportToOneC, Continue
  <2>2. TaskOK(new, bank') /\ new.cur = t /\ new.pc = "exportTiger"
    BY <1>1, <2>1 DEF TaskOK, Task
  <2>3. BankGrows
    BY <2>1 DEF BankGrows
  <2> HIDE DEF new
  <2>4. /\ TasksOK'
        /\ task' \in [Handlers -> Task]
        /\ task'[h] = new
        /\ \A g \in Handlers \ {h} : task'[g] = task[g]
    BY <2>1, <2>2, <2>3, TasksStep DEF IInv
  <2>5. TypeOK' /\ RowsOK(status)' /\ AcceptedIsPaidAtBank'
    BY <1>1, <2>1, <2>4 DEF IInv, TypeOK, RowsOK, OnePaid, DuplicatesWon, AcceptedIsPaidAtBank
  <2>6. ExportsAccepted'
    BY <1>1, <1>2, <2>1 DEF IInv, ExportsAccepted, ExportsPayment, RowsOK, OnePaid, TypeOK
  <2>7. OneCFirst'
    BY <2>1, <2>2, <2>4 DEF IInv, OneCFirst
  <2>8. GapIsBeingClosed'
    <3>1. Exporting(t)'
      BY <2>1, <2>2, <2>4 DEF Exporting
    <3>2. \A u \in Tx : Exporting(u) => u = t
      BY <1>1 DEF Exporting
    <3> QED BY <2>1, <3>1, <3>2 DEF IInv, GapIsBeingClosed
  <2> QED BY <2>4, <2>5, <2>6, <2>7, <2>8 DEF IInv
<1>3. CASE ~ExportsPayment(t)
  <2>1. EndExports(h) /\ UNCHANGED <<store, bank, crashes>>
    BY <1>0, <1>3 DEF ExportToOneC, store
  <2>2. status[t] # "paid" \/ InvoiceOf[t] = NoInvoice
    BY <1>3 DEF ExportsPayment
  <2> QED BY <1>1, <2>1, <2>2, EndExportsKeepsIInv
<1> QED BY <1>2, <1>3

LEMMA ExportToTigerKeepsIInv ==
    ASSUME ConstantsAssumption, IInv, NEW h \in Handlers, ExportToTiger(h)
    PROVE  IInv'
<1>0. PICK t \in Tx : t = task[h].cur
  BY DEF IInv, TasksOK, TaskOK, ExportToTiger, Running
<1> DEFINE new == [task[h] EXCEPT !.pc = "cancelNext", !.todo = RelatedForCancel(t)]
<1>1. TaskOK(task[h], bank) /\ task[h].cur = t /\ task[h].pc = "exportTiger" /\ loop = h
  BY <1>0 DEF IInv, TasksOK, ExportToTiger, Running
<1>2. /\ Become(h, new) /\ loop' = h
      /\ tigerTx' = [tigerTx EXCEPT ![InvoiceOf[t]] = IF @ = NoTx THEN t ELSE @]
      /\ UNCHANGED <<status, providerIds, oneC, bank, acked, crashes>>
  BY <1>0 DEF ExportToTiger, Continue
<1>3. TaskOK(new, bank') /\ new.pc = "cancelNext"
  BY <1>1, <1>2 DEF TaskOK, Task, RelatedForCancel
<1>4. BankGrows
  BY <1>2 DEF BankGrows
<1> HIDE DEF new
<1>5. /\ TasksOK'
      /\ task' \in [Handlers -> Task]
      /\ task'[h] = new
      /\ \A g \in Handlers \ {h} : task'[g] = task[g]
  BY <1>2, <1>3, <1>4, TasksStep DEF IInv
<1>6. t \in oneC /\ status[t] = "paid" /\ InvoiceOf[t] \in Invoices
  BY <1>1 DEF IInv, OneCFirst, ExportsAccepted, ConstantsAssumption
<1>7. TypeOK'
  BY <1>2, <1>5 DEF IInv, TypeOK
<1>11. RowsOK(status)' /\ AcceptedIsPaidAtBank'
  BY <1>2 DEF IInv, RowsOK, OnePaid, DuplicatesWon, AcceptedIsPaidAtBank
<1>8. ExportsAccepted'
  BY <1>1, <1>2, <1>6 DEF IInv, TypeOK, ExportsAccepted
<1>9. OneCFirst'
  BY <1>2, <1>3, <1>5 DEF IInv, OneCFirst
<1>10. GapIsBeingClosed'
  <2>1. tigerTx[InvoiceOf[t]] \in {NoTx, t}
    BY <1>1, <1>6 DEF IInv, ExportsAccepted, TypeOK
  <2>2. tigerTx'[InvoiceOf[t]] = t
    BY <1>2, <1>6, <2>1 DEF IInv, TypeOK
  <2>3. \A u \in Tx : Exporting(u) => u = t
    BY <1>1 DEF Exporting
  <2>4. \A u \in Tx : tigerTx[InvoiceOf[u]] = u => tigerTx'[InvoiceOf[u]] = u
    BY <1>1, <1>2, <1>6, <2>1 DEF IInv, TypeOK, ConstantsAssumption
  <2> QED BY <1>2, <1>6, <2>2, <2>3, <2>4 DEF IInv, GapIsBeingClosed
<1> QED BY <1>5, <1>7, <1>8, <1>9, <1>10, <1>11 DEF IInv

LEMMA CancelNextKeepsIInv ==
    ASSUME ConstantsAssumption, IInv, NEW h \in Handlers, CancelNext(h)
    PROVE  IInv'
<1>1. /\ TaskOK(task[h], bank) /\ task[h].pc = "cancelNext" /\ loop = h
      /\ UNCHANGED <<store, bank, crashes>>
  BY DEF IInv, TasksOK, CancelNext, Running
<1>2. CASE EndExports(h)
  BY <1>1, <1>2, EndExportsKeepsIInv
<1>3. ASSUME NEW u \in task[h].todo, UNCHANGED acked,
             Await(h, CancelCall(h, u, "autoCancel"))
      PROVE  IInv'
  <2> DEFINE new == CancelCall(h, u, "autoCancel")
  <2>1. TaskOK(new, bank) /\ new.pc # "exportTiger"
    BY <1>1 DEF TaskOK, CancelCall, Task
  <2>2. Become(h, new) /\ acked' \subseteq Tx /\ loop' \in Handlers \cup {Nobody}
    BY <1>3 DEF IInv, TypeOK, Await
  <2>3. \A t \in Tx : ~Exporting(t)
    BY <1>1 DEF Exporting
  <2> HIDE DEF new
  <2> QED BY <1>1, <2>1, <2>2, <2>3, QuietStep
<1> QED BY <1>2, <1>3 DEF CancelNext

(* The two ways a cancellation on its way back ends: the row is canceled, or *)
(* nothing is written.                                                       *)
LEMMA CancelAnswerKeepsIInv ==
    ASSUME ConstantsAssumption, IInv, NEW h \in Handlers,
           loop = Nobody, task[h].pc \in {"cancel", "autoCancel"},
           status' = IF task[h].reply = "ok"
                       THEN UpdateTransactionStatus(status, task[h].target, "canceled")
                       ELSE status,
           NEW new, Become(h, new), TaskOK(new, bank), new.pc # "exportTiger",
           loop' \in Handlers \cup {Nobody},
           UNCHANGED <<providerIds, oneC, tigerTx, bank, acked, crashes>>
    PROVE  IInv' /\ PaidKept(status, status')
<1>1. PICK t \in Tx : t = task[h].target
  BY DEF IInv, TasksOK, TaskOK
<1>2. /\ RowsOK(status') /\ PaidKept(status, status')
      /\ \A u \in Tx : status'[u] \in Accepted => status[u] \in Accepted
      /\ \A u \in Tx : status'[u] = "paid" => status[u] = "paid"
  <2>1. CASE task[h].reply = "ok"
    <3>1. bank[t] = "canceled"
      BY <1>1, <2>1 DEF IInv, TasksOK, TaskOK
    <3>2. status[t] \notin Accepted
      BY <3>1 DEF IInv, AcceptedIsPaidAtBank
    <3>3. /\ RowsOK(status') /\ PaidKept(status, status')
          /\ \A u \in Tx \ {t} : status'[u] = status[u]
          /\ status'[t] \notin Accepted
      BY <1>1, <2>1, <3>2, CancelKeepsRows DEF IInv
    <3> QED BY <3>3 DEF Accepted
  <2>2. CASE task[h].reply # "ok"
    BY <2>2 DEF IInv, PaidKept
  <2> QED BY <2>1, <2>2
<1>3. AcceptedIsPaidAtBank'
  BY <1>2 DEF IInv, AcceptedIsPaidAtBank
<1>4. /\ bank' \in [Tx -> BankStates] /\ BankGrows
      /\ providerIds' \subseteq ProviderIdTx /\ acked' \subseteq Tx
      /\ TaskOK(new, bank')
      /\ UNCHANGED <<oneC, tigerTx, crashes>>
  BY DEF IInv, TypeOK, BankGrows
<1>5. \A u \in Tx : ~(status[u] # "paid" /\ status'[u] = "paid") /\ ~Exporting(u)
  BY <1>2, NothingExporting
<1> QED BY <1>2, <1>3, <1>4, <1>5, HandlerStep

LEMMA AfterAutoCancelKeepsIInv ==
    ASSUME ConstantsAssumption, IInv, NEW h \in Handlers, AfterAutoCancel(h)
    PROVE  IInv' /\ PaidKept(status, status')
<1> DEFINE new == [task[h] EXCEPT !.pc = "cancelNext"]
<1>1. TaskOK(task[h], bank) /\ task[h].pc = "autoCancel"
  BY DEF IInv, TasksOK, AfterAutoCancel, Resumes
<1>2. TaskOK(new, bank) /\ new.pc # "exportTiger"
  BY <1>1 DEF TaskOK, Task
<1>3. /\ Become(h, new) /\ loop' = h /\ loop = Nobody
      /\ status' = IF task[h].reply = "ok"
                     THEN UpdateTransactionStatus(status, task[h].target, "canceled")
                     ELSE status
      /\ UNCHANGED <<providerIds, oneC, tigerTx, bank, acked, crashes>>
  BY DEF AfterAutoCancel, Continue, Resumes
<1> HIDE DEF new
<1> QED BY <1>1, <1>2, <1>3, CancelAnswerKeepsIInv

LEMMA AfterCancelKeepsIInv ==
    ASSUME ConstantsAssumption, IInv, NEW h \in Handlers, AfterCancel(h)
    PROVE  IInv' /\ PaidKept(status, status')
<1>1. Idle.pc # "exportTiger" /\ task[h].pc = "cancel"
  BY DEF Idle, AfterCancel, Resumes
<1>2. /\ Become(h, Idle) /\ loop' = Nobody /\ loop = Nobody
      /\ status' = IF task[h].reply = "ok"
                     THEN UpdateTransactionStatus(status, task[h].target, "canceled")
                     ELSE status
      /\ UNCHANGED <<providerIds, oneC, tigerTx, bank, acked, crashes>>
  BY DEF AfterCancel, Finish, Await, Resumes
<1> QED BY <1>1, <1>2, IdleOK, CancelAnswerKeepsIInv

LEMMA StartRefreshKeepsIInv ==
    ASSUME ConstantsAssumption, IInv, NEW h \in Handlers, NEW t \in Tx,
           NEW op \in {"refresh", "adminCancel"}, StartRefresh(h, t, op)
    PROVE  IInv'
<1> DEFINE new == [Idle EXCEPT !.pc = "get", !.op = op, !.cur = t, !.target = t]
<1>1. /\ Become(h, new) /\ loop = Nobody /\ loop' = Nobody /\ acked' \subseteq Tx
      /\ UNCHANGED <<store, bank, crashes>>
  BY DEF StartRefresh, Await, Free, IInv, TypeOK
<1>2. TaskOK(new, bank) /\ new.pc # "exportTiger"
  BY DEF TaskOK, Idle, Task
<1> HIDE DEF new
<1> QED BY <1>1, <1>2, NothingExporting, QuietStep

LEMMA StartApiCancelKeepsIInv ==
    ASSUME ConstantsAssumption, IInv, NEW h \in Handlers, NEW t \in Tx,
           StartApiCancel(h, t)
    PROVE  IInv'
<1> DEFINE new == [CancelCall(h, t, "cancel") EXCEPT !.op = "apiCancel", !.cur = t]
<1>1. /\ Become(h, new) /\ loop = Nobody /\ loop' = Nobody /\ acked' \subseteq Tx
      /\ UNCHANGED <<store, bank, crashes>>
  BY DEF StartApiCancel, Await, Free, IInv, TypeOK
<1>2. TaskOK(new, bank) /\ new.pc # "exportTiger"
  <2> DEFINE call == CancelCall(h, t, "cancel")
  <2>1. call \in Task /\ call.pc = "cancel" /\ call.target = t /\ call.reply = "none"
    <3>1. task[h] \in Task
      BY DEF IInv, TypeOK
    <3> QED BY <3>1 DEF CancelCall, Task
  <2> HIDE DEF call
  <2>2. new = [call EXCEPT !.op = "apiCancel", !.cur = t]
    BY DEF call
  <2> QED BY <2>1, <2>2 DEF TaskOK, Task
<1> HIDE DEF new
<1> QED BY <1>1, <1>2, NothingExporting, QuietStep

LEMMA AfterGetKeepsIInv ==
    ASSUME ConstantsAssumption, IInv, NEW h \in Handlers, AfterGet(h)
    PROVE  IInv' /\ PaidKept(status, status')
<1> DEFINE new == [task[h] EXCEPT !.pc = "export1C"]
<1>0. PICK t \in Tx : t = task[h].target
  BY DEF IInv, TasksOK, TaskOK, AfterGet, Resumes
<1>1. /\ TaskOK(task[h], bank) /\ task[h].pc = "get" /\ task[h].cur = t
      /\ loop = Nobody /\ task[h].reply # "none"
  BY <1>0 DEF IInv, TasksOK, TaskOK, AfterGet, Resumes
<1>2. CASE task[h].reply = "error"
  <2>1. /\ Become(h, Idle) /\ loop' = Nobody /\ acked' \subseteq Tx
        /\ UNCHANGED <<store, bank, crashes>>
    BY <1>2 DEF AfterGet, Finish, Await, IInv, TypeOK, store
  <2>2. Idle.pc # "exportTiger" /\ PaidKept(status, status')
    BY <2>1 DEF Idle, PaidKept, store
  <2> QED BY <1>1, <2>1, <2>2, IdleOK, NothingExporting, QuietStep
<1>3. CASE task[h].reply # "error"
  <2>1. /\ Become(h, new) /\ loop' = h
        /\ status' = UpsertTransaction(status, t, task[h].reply)
        /\ providerIds' = providerIds \ {t}
        /\ UNCHANGED <<oneC, tigerTx, bank, acked, crashes>>
    BY <1>0, <1>3 DEF AfterGet, Continue
  <2>2. TaskOK(new, bank') /\ new.pc = "export1C" /\ new.cur = t
    BY <1>1, <2>1 DEF TaskOK, Task
  <2>3. /\ task[h].reply \in RowStatuses \ {"duplicate"}
        /\ task[h].reply = "paid" => bank[t] = "paid"
    BY <1>0, <1>1, <1>3 DEF TaskOK, Task, RowStatuses
  <2>4. /\ RowsOK(status') /\ PaidKept(status, status')
        /\ \A u \in Tx \ {t} : status'[u] = status[u]
        /\ status'[t] \in Accepted => status[t] \in Accepted \/ task[h].reply = "paid"
    BY <2>1, <2>3, UpsertKeepsRows DEF IInv
  <2>5. AcceptedIsPaidAtBank'
    BY <2>1, <2>3, <2>4 DEF IInv, AcceptedIsPaidAtBank
  <2>6. /\ bank' \in [Tx -> BankStates] /\ BankGrows
        /\ providerIds' \subseteq ProviderIdTx /\ acked' \subseteq Tx
        /\ loop' \in Handlers \cup {Nobody}
    BY <2>1 DEF IInv, TypeOK, BankGrows
  <2> HIDE DEF new
  <2>7. \A u \in Tx : status'[u] = "paid" /\ (status[u] # "paid" \/ Exporting(u))
                        => Exporting(u)'
    <3>1. task'[h] = new
      BY <2>1 DEF Become, IInv, TypeOK
    <3>2. Exporting(t)'
      BY <2>1, <2>2, <3>1 DEF Exporting
    <3>3. \A u \in Tx : ~Exporting(u)
      BY <1>1, NothingExporting
    <3> QED BY <2>4, <3>2, <3>3
  <2> QED BY <2>1, <2>2, <2>4, <2>5, <2>6, <2>7, HandlerStep
<1> QED BY <1>2, <1>3

LEMMA StartPrintKeepsIInv ==
    ASSUME ConstantsAssumption, IInv, NEW h \in Handlers, NEW i \in Invoices,
           StartPrint(h, i)
    PROVE  IInv'
<1>1. /\ loop = Nobody /\ loop' = h /\ acked' \subseteq Tx
      /\ UNCHANGED <<store, bank, crashes>>
  BY DEF StartPrint, Continue, Free, IInv, TypeOK
<1>2. ASSUME NEW t \in PaidPrinted(i),
             Become(h, [Idle EXCEPT !.pc = "export1C", !.op = "print", !.cur = t])
      PROVE  IInv'
  <2> DEFINE new == [Idle EXCEPT !.pc = "export1C", !.op = "print", !.cur = t]
  <2>1. TaskOK(new, bank) /\ new.pc # "exportTiger"
    BY DEF TaskOK, Idle, Task, PaidPrinted
  <2>2. Become(h, new)
    BY <1>2
  <2> HIDE DEF new
  <2> QED BY <1>1, <2>1, <2>2, NothingExporting, QuietStep
<1>3. ASSUME Become(h, [Idle EXCEPT !.pc = "printNext", !.op = "print", !.inv = i])
      PROVE  IInv'
  <2> DEFINE new == [Idle EXCEPT !.pc = "printNext", !.op = "print", !.inv = i]
  <2>1. TaskOK(new, bank) /\ new.pc # "exportTiger"
    BY DEF TaskOK, Idle, Task
  <2>2. Become(h, new)
    BY <1>3
  <2> HIDE DEF new
  <2> QED BY <1>1, <2>1, <2>2, NothingExporting, QuietStep
<1> QED BY <1>2, <1>3 DEF StartPrint, Continue

LEMMA PrintNextKeepsIInv ==
    ASSUME ConstantsAssumption, IInv, NEW h \in Handlers, PrintNext(h)
    PROVE  IInv'
<1>1. /\ TaskOK(task[h], bank) /\ task[h].pc = "printNext" /\ loop = h
      /\ acked' \subseteq Tx /\ loop' \in Handlers \cup {Nobody}
      /\ UNCHANGED <<store, bank, crashes>>
  BY DEF PrintNext, Running, Continue, Finish, Await, IInv, TasksOK, TypeOK
<1>2. \A t \in Tx : ~Exporting(t)
  BY <1>1 DEF Exporting
<1>3. ASSUME NEW new, Become(h, new),
             new \in {Idle, [task[h] EXCEPT !.next = task[h].next + 1],
                      [task[h] EXCEPT !.pc = "create"]}
      PROVE  IInv'
  <2>1. TaskOK(new, bank) /\ new.pc # "exportTiger"
    <3>1. CASE new = Idle
      BY <3>1, IdleOK DEF Idle
    <3>2. CASE new = [task[h] EXCEPT !.next = task[h].next + 1]
      BY <1>1, <3>2 DEF TaskOK, Task
    <3>3. CASE new = [task[h] EXCEPT !.pc = "create"]
      BY <1>1, <3>3 DEF TaskOK, Task
    <3> QED BY <1>3, <3>1, <3>2, <3>3
  <2> QED BY <1>1, <1>2, <1>3, <2>1, QuietStep
<1> QED BY <1>3 DEF PrintNext, Continue, Finish, Await

LEMMA StartDirectKeepsIInv ==
    ASSUME ConstantsAssumption, IInv, NEW h \in Handlers,
           NEW i \in Invoices \cup {NoInvoice}, StartDirect(h, i)
    PROVE  IInv'
<1> DEFINE new == [Idle EXCEPT !.pc = "create", !.op = "direct", !.inv = i]
<1>1. /\ Become(h, new) /\ loop = Nobody /\ loop' = Nobody /\ acked' \subseteq Tx
      /\ UNCHANGED <<store, bank, crashes>>
  BY DEF StartDirect, Await, Free, IInv, TypeOK
<1>2. TaskOK(new, bank) /\ new.pc # "exportTiger"
  BY DEF TaskOK, Idle, Task
<1> HIDE DEF new
<1> QED BY <1>1, <1>2, NothingExporting, QuietStep

LEMMA AfterCreateKeepsIInv ==
    ASSUME ConstantsAssumption, IInv, NEW h \in Handlers, AfterCreate(h)
    PROVE  IInv' /\ PaidKept(status, status')
<1>1. TaskOK(task[h], bank) /\ task[h].pc = "create" /\ loop = Nobody
  BY DEF IInv, TasksOK, AfterCreate, Resumes
<1>2. CASE Finish(h) /\ UNCHANGED <<status, providerIds, bank>>
  <2>1. /\ Become(h, Idle) /\ loop' = Nobody /\ acked' \subseteq Tx
        /\ UNCHANGED <<store, bank, crashes>>
    BY <1>2 DEF AfterCreate, Finish, Await, IInv, TypeOK, store
  <2>2. Idle.pc # "exportTiger" /\ PaidKept(status, status')
    BY <1>2 DEF Idle, PaidKept
  <2> QED BY <1>1, <2>1, <2>2, IdleOK, NothingExporting, QuietStep
<1>3. ASSUME NEW t \in Issuable(h),
             bank' = [bank EXCEPT ![t] = "open"],
             status' = UpsertTransaction(status, t, "waiting"),
             providerIds' = providerIds \cup ({t} \cap ProviderIdTx),
             NEW new, Become(h, new), loop' \in Handlers \cup {Nobody},
             new \in {Idle, [task[h] EXCEPT !.pc = "printNext", !.next = @ + 1]}
      PROVE  IInv' /\ PaidKept(status, status')
  <2>1. t \in Tx /\ bank[t] = "none" /\ UNCHANGED <<oneC, tigerTx, acked, crashes>>
    BY <1>3 DEF Issuable, AfterCreate
  <2>2. /\ bank' \in [Tx -> BankStates] /\ BankGrows
        /\ providerIds' \subseteq ProviderIdTx /\ acked' \subseteq Tx
    BY <1>3, <2>1 DEF IInv, TypeOK, BankGrows, BankStates
  <2>3. TaskOK(new, bank') /\ new.pc # "exportTiger"
    <3>1. CASE new = Idle
      BY <3>1, IdleOK DEF Idle
    <3>2. CASE new = [task[h] EXCEPT !.pc = "printNext", !.next = @ + 1]
      <4>1. task[h] \in Task /\ task[h].next + 1 \in Nat
        BY <1>1 DEF TaskOK, Task
      <4>2. new \in Task /\ new.pc = "printNext"
        BY <3>2, <4>1 DEF Task
      <4> QED BY <4>2 DEF TaskOK
    <3> QED BY <1>3, <3>1, <3>2
  <2>4. status[t] \notin Accepted
    BY <2>1 DEF IInv, AcceptedIsPaidAtBank
  <2>5. /\ RowsOK(status') /\ PaidKept(status, status')
        /\ \A u \in Tx \ {t} : status'[u] = status[u]
        /\ status'[t] \notin Accepted
    <3>1. "waiting" \in RowStatuses \ {"duplicate"}
      BY DEF RowStatuses
    <3> QED BY <1>3, <2>1, <2>4, <3>1, UpsertKeepsRows DEF IInv
  <2>6. AcceptedIsPaidAtBank'
    BY <2>2, <2>5 DEF IInv, AcceptedIsPaidAtBank, BankGrows
  <2>7. \A u \in Tx : ~(status'[u] = "paid" /\ (status[u] # "paid" \/ Exporting(u)))
    BY <1>1, <2>5, NothingExporting DEF Accepted
  <2> QED BY <1>3, <2>1, <2>2, <2>3, <2>5, <2>6, <2>7, HandlerStep
<1>4. ASSUME NEW t \in Issuable(h),
             bank' = [bank EXCEPT ![t] = "open"],
             status' = UpsertTransaction(status, t, "waiting"),
             providerIds' = providerIds \cup ({t} \cap ProviderIdTx),
             IF task[h].op = "print"
               THEN Continue(h, [task[h] EXCEPT !.pc = "printNext", !.next = @ + 1])
               ELSE Finish(h)
      PROVE  IInv' /\ PaidKept(status, status')
  BY <1>3, <1>4 DEF Continue, Finish, Await
<1> QED BY <1>2, <1>4 DEF AfterCreate

LEMMA BankAnswersGetKeepsIInv ==
    ASSUME ConstantsAssumption, IInv, NEW h \in Handlers, BankAnswersGet(h)
    PROVE  IInv'
<1>1. PICK r \in Answers(task[h].target) \cup Lost : Reply(h, r)
  BY DEF BankAnswersGet
<1> DEFINE new == [task[h] EXCEPT !.reply = r]
<1>2. /\ TaskOK(task[h], bank) /\ task[h].pc = "get"
      /\ task[h].target \in Tx
      /\ UNCHANGED <<store, bank, acked, loop, crashes>>
  BY DEF IInv, TasksOK, TaskOK, BankAnswersGet
<1>3. r \in {"error", "waiting", "unknown", "canceled", "paid"}
  BY <1>1 DEF Answers, Lost, ConstantsAssumption
<1>4. r = "paid" => bank[task[h].target] = "paid"
  BY <1>1 DEF Answers, Lost, ConstantsAssumption
<1>5. TaskOK(new, bank) /\ new.pc = "get" /\ new.cur = task[h].cur
  BY <1>2, <1>3, <1>4 DEF TaskOK, Task
<1>6. Become(h, new)
  BY <1>1 DEF Reply, Become
<1> HIDE DEF new
<1>7. \A t \in Tx : Exporting(t) => Exporting(t)'
  <2>1. /\ task' = [task EXCEPT ![h] = new]
        /\ task \in [Handlers -> Task]
        /\ loop' = loop
    BY <1>2, <1>6 DEF Become, IInv, TypeOK
  <2> QED BY <1>2, <2>1 DEF Exporting
<1>8. acked' \subseteq Tx /\ loop' \in Handlers \cup {Nobody}
  BY <1>2 DEF IInv, TypeOK
<1> QED BY <1>2, <1>5, <1>6, <1>7, <1>8, QuietStep

LEMMA BankAnswersCancelKeepsIInv ==
    ASSUME ConstantsAssumption, IInv, NEW h \in Handlers, BankAnswersCancel(h)
    PROVE  IInv'
<1>0. PICK t \in Tx : t = task[h].target
  BY DEF IInv, TasksOK, TaskOK, BankAnswersCancel
<1>1. PICK r \in {"ok", "error"} :
        /\ Reply(h, r)
        /\ \/ bank' = bank /\ r = "error"
           \/ bank[t] \in {"open", "canceled"} /\ bank' = [bank EXCEPT ![t] = "canceled"]
  BY <1>0 DEF BankAnswersCancel, Lost
<1> DEFINE new == [task[h] EXCEPT !.reply = r]
<1>2. /\ TaskOK(task[h], bank) /\ task[h].pc \in {"cancel", "autoCancel"}
      /\ UNCHANGED <<store, acked, loop, crashes>>
  BY DEF IInv, TasksOK, BankAnswersCancel
<1>3. /\ bank' \in [Tx -> BankStates] /\ BankGrows
      /\ r = "ok" => bank'[t] = "canceled"
  BY <1>1 DEF IInv, TypeOK, BankGrows, BankStates
<1>4. TaskOK(new, bank')
  BY <1>0, <1>2, <1>3 DEF TaskOK, Task
<1>5. new.pc = task[h].pc /\ new.cur = task[h].cur /\ new.pc # "exportTiger"
  BY <1>2 DEF TaskOK, Task
<1>6. Become(h, new)
  BY <1>1 DEF Reply, Become
<1> HIDE DEF new
<1>7. \A u \in Tx : Exporting(u) => Exporting(u)'
  <2>1. /\ task' = [task EXCEPT ![h] = new]
        /\ task \in [Handlers -> Task]
        /\ loop' = loop
    BY <1>2, <1>6 DEF Become, IInv, TypeOK
  <2> QED BY <1>2, <1>5, <2>1 DEF Exporting
<1>8. /\ RowsOK(status') /\ PaidKept(status, status')
      /\ acked' \subseteq Tx /\ loop' \in Handlers \cup {Nobody}
      /\ providerIds' \subseteq ProviderIdTx
      /\ UNCHANGED <<oneC, tigerTx, crashes>>
  BY <1>2 DEF IInv, TypeOK, PaidKept, store
<1>9. AcceptedIsPaidAtBank'
  BY <1>2, <1>3 DEF IInv, AcceptedIsPaidAtBank, BankGrows, store
<1>10. \A u \in Tx : /\ status'[u] = "paid" /\ InvoiceOf[u] # NoInvoice
                     /\ status[u] # "paid" \/ Exporting(u)
                     => Exporting(u)'
  BY <1>2, <1>7 DEF store
<1> QED BY <1>3, <1>4, <1>5, <1>6, <1>8, <1>9, <1>10, HandlerStep

(* The customer and the bank on their own: an open QR is paid or closes.     *)
LEMMA BankKeepsIInv ==
    ASSUME ConstantsAssumption, IInv, NEW t \in Tx, CustomerPays(t) \/ BankCloses(t)
    PROVE  IInv'
<1>1. /\ bank[t] = "open"
      /\ bank' \in [Tx -> BankStates]
      /\ \A u \in Tx \ {t} : bank'[u] = bank[u]
      /\ UNCHANGED <<store, acked, loop, task, crashes>>
  BY DEF CustomerPays, BankCloses, IInv, TypeOK, BankStates
<1>2. BankGrows
  BY <1>1 DEF BankGrows
<1>3. TypeOK' /\ RowsOK(status)' /\ ExportsAccepted' /\ OneCFirst' /\ GapIsBeingClosed'
  <2>1. TypeOK'
    BY <1>1 DEF IInv, TypeOK, store
  <2>2. RowsOK(status)' /\ ExportsAccepted' /\ OneCFirst'
    BY <1>1 DEF IInv, RowsOK, OnePaid, DuplicatesWon, ExportsAccepted, OneCFirst, store
  <2>3. GapIsBeingClosed'
    BY <1>1 DEF IInv, GapIsBeingClosed, Exporting, store
  <2> QED BY <2>1, <2>2, <2>3
<1>4. AcceptedIsPaidAtBank'
  BY <1>1, <1>2 DEF IInv, AcceptedIsPaidAtBank, BankGrows, store
<1>5. TasksOK'
  BY <1>1, <1>2 DEF IInv, TasksOK, TaskOK, BankGrows
<1> QED BY <1>3, <1>4, <1>5 DEF IInv

LEMMA CrashKeepsIInv ==
    ASSUME ConstantsAssumption, IInv, Crash
    PROVE  IInv'
<1>1. /\ crashes' \in 0..MaxCrashes /\ crashes' # 0
      /\ task' = [h \in Handlers |-> Idle]
      /\ loop' = Nobody
      /\ UNCHANGED <<store, bank, acked>>
  BY DEF Crash, IInv, TypeOK, ConstantsAssumption
<1>2. Idle \in Task /\ Idle.pc = "idle"
  BY IdleOK DEF TaskOK, Idle
<1>3. TypeOK'
  BY <1>1, <1>2 DEF IInv, TypeOK, store
<1>4. RowsOK(status)' /\ AcceptedIsPaidAtBank' /\ ExportsAccepted'
  BY <1>1 DEF IInv, RowsOK, OnePaid, DuplicatesWon, AcceptedIsPaidAtBank, ExportsAccepted, store
<1>5. TasksOK'
  BY <1>1, IdleOK DEF TasksOK
<1>6. OneCFirst' /\ GapIsBeingClosed'
  BY <1>1, <1>2 DEF OneCFirst, GapIsBeingClosed
<1> QED BY <1>3, <1>4, <1>5, <1>6 DEF IInv

-----------------------------------------------------------------------------
(* The theorems. *)

LEMMA InitIInv == ConstantsAssumption /\ Init => IInv
<1> SUFFICES ASSUME ConstantsAssumption, Init PROVE IInv
  OBVIOUS
<1>1. TypeOK
  BY IdleOK DEF Init, TypeOK, TaskOK, RowStatuses, BankStates, ConstantsAssumption
<1>2. RowsOK(status) /\ AcceptedIsPaidAtBank /\ ExportsAccepted /\ GapIsBeingClosed
  BY DEF Init, RowsOK, OnePaid, DuplicatesWon, AcceptedIsPaidAtBank, ExportsAccepted,
         GapIsBeingClosed, RowStatuses, Accepted
<1>3. TasksOK /\ OneCFirst
  BY IdleOK DEF Init, TasksOK, OneCFirst, Idle
<1> QED BY <1>1, <1>2, <1>3 DEF IInv

LEMMA NextKeepsIInv ==
    ConstantsAssumption /\ IInv /\ [Next]_vars => IInv' /\ PaidKept(status, status')
<1> SUFFICES ASSUME ConstantsAssumption, IInv, [Next]_vars
             PROVE  IInv' /\ PaidKept(status, status')
  OBVIOUS
<1>1. ASSUME NEW h \in Handlers, Request(h) PROVE IInv'
  BY <1>1, StartRefreshKeepsIInv, StartApiCancelKeepsIInv, StartPrintKeepsIInv,
     StartDirectKeepsIInv DEF Request
<1>2. ASSUME NEW h \in Handlers, Webhook(h) PROVE IInv' /\ PaidKept(status, status')
  BY <1>2, ReceiveWebhookKeepsIInv DEF Webhook
<1>3. ASSUME NEW h \in Handlers, Handle(h) PROVE IInv'
  BY <1>3, ExportToOneCKeepsIInv, ExportToTigerKeepsIInv, CancelNextKeepsIInv,
     AfterAutoCancelKeepsIInv, AfterGetKeepsIInv, AfterCancelKeepsIInv,
     PrintNextKeepsIInv, AfterCreateKeepsIInv DEF Handle
<1>4. ASSUME NEW h \in Handlers, BankAnswersGet(h) \/ BankAnswersCancel(h) PROVE IInv'
  BY <1>4, BankAnswersGetKeepsIInv, BankAnswersCancelKeepsIInv
<1>5. ASSUME NEW t \in Tx, CustomerPays(t) \/ BankCloses(t) PROVE IInv'
  BY <1>5, BankKeepsIInv
<1>6. CASE Crash
  <2>1. IInv'
    BY <1>6, CrashKeepsIInv
  <2> QED BY <1>6, <2>1 DEF Crash, store, PaidKept
<1>7. CASE UNCHANGED vars
  BY <1>7 DEF IInv, vars, store, TypeOK, RowsOK, OnePaid, DuplicatesWon,
     AcceptedIsPaidAtBank, TasksOK, TaskOK, ExportsAccepted, OneCFirst,
     GapIsBeingClosed, Exporting, PaidKept
<1>8. ASSUME NEW h \in Handlers, Request(h) PROVE UNCHANGED status
  BY <1>8 DEF Request, StartRefresh, StartApiCancel, StartPrint, StartDirect, store
<1>9. ASSUME NEW h \in Handlers, Handle(h) PROVE PaidKept(status, status')
  <2>1. CASE ExportToOneC(h) \/ ExportToTiger(h) \/ CancelNext(h) \/ PrintNext(h)
    BY <2>1 DEF ExportToOneC, ExportToTiger, CancelNext, PrintNext, store, PaidKept
  <2>2. CASE AfterAutoCancel(h) \/ AfterGet(h) \/ AfterCancel(h) \/ AfterCreate(h)
    BY <2>2, AfterAutoCancelKeepsIInv, AfterGetKeepsIInv, AfterCancelKeepsIInv,
       AfterCreateKeepsIInv
  <2> QED BY <1>9, <2>1, <2>2 DEF Handle
<1>10. ASSUME NEW h \in Handlers, BankAnswersGet(h) \/ BankAnswersCancel(h)
       PROVE  UNCHANGED status
  BY <1>10 DEF BankAnswersGet, BankAnswersCancel, store
<1>11. ASSUME NEW t \in Tx, CustomerPays(t) \/ BankCloses(t) PROVE UNCHANGED status
  BY <1>11 DEF CustomerPays, BankCloses, store
<1> QED BY <1>1, <1>2, <1>3, <1>4, <1>5, <1>6, <1>7, <1>8, <1>9, <1>10, <1>11
        DEF Next, PaidKept

(* The inductive invariant holds in every reachable state.                   *)
THEOREM Inductive == Spec => []IInv
BY ConstantsAssumption, InitIInv, NextKeepsIInv, PTL DEF Spec

(* Every column, queue and coroutine holds values of its type.               *)
THEOREM TypeCorrect == Spec => []TypeOK
BY Inductive, PTL DEF IInv

(* service.py and store.py accept one payment an invoice, whatever callbacks,*)
(* refreshes and prints overlap.                                             *)
THEOREM OnePaymentAccepted == Spec => []OnePaidPerInvoice
<1>1. IInv => OnePaidPerInvoice
  BY DEF IInv, RowsOK, OnePaid, OnePaidPerInvoice
<1> QED BY <1>1, Inductive, PTL

(* A payment is set aside as a duplicate only beside an accepted one.        *)
THEOREM DuplicatesHaveWinners == Spec => []DuplicateHasWinner
<1>1. IInv => DuplicateHasWinner
  BY DEF IInv, RowsOK, DuplicatesWon, DuplicateHasWinner
<1> QED BY <1>1, Inductive, PTL

(* The gateway accepts only what was paid at the bank.                       *)
THEOREM NothingAcceptedUnpaid == Spec => []AcceptedIsPaidAtBank
BY Inductive, PTL DEF IInv

(* The export queues hold accepted payments only, one an invoice, and agree. *)
THEOREM QueuesHoldAccepted == Spec => []ExportsAccepted
BY Inductive, PTL DEF IInv

(* Without a crash no accepted payment waits outside the queues while no     *)
(* handler runs.                                                             *)
THEOREM ExportedBeforeAwait == Spec => []NoGapWithoutCrash
<1>1. IInv => NoGapWithoutCrash
  BY ConstantsAssumption, NothingExporting DEF IInv, GapIsBeingClosed, NoGapWithoutCrash
<1> QED BY <1>1, Inductive, PTL

(* An accepted payment stays accepted.                                       *)
THEOREM AcceptedForGood == Spec => PaidStays
<1>1. IInv /\ [Next]_vars => [\A t \in Tx : status[t] = "paid" => status'[t] = "paid"]_vars
  BY ConstantsAssumption, NextKeepsIInv DEF PaidKept
<1> QED BY <1>1, Inductive, PTL DEF Spec, PaidStays

=============================================================================
