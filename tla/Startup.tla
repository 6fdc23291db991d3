------------------------------- MODULE Startup -------------------------------
(***************************************************************************)
(* Starting the gateway on the data it left: PaymentStore.initialize with  *)
(* the migration of an old SQLite file (store.py), the Alembic revision    *)
(* 0008, and the payments accepted between two starts.                     *)
(*                                                                         *)
(* A database from before revision 0008 lacks the unique index             *)
(* uq_transactions_paid_invoice, and the gateway runs on it all the same   *)
(* when AUTO_CREATE_SCHEMA is off or the database is PostgreSQL.  It then  *)
(* accepts several payments of an invoice, and a later start has to choose *)
(* one of them by what the export tables say was told to whom.             *)
(*                                                                         *)
(* A definition commented as a mutant is no part of the specification: it  *)
(* is a plausible bug that some property must catch.                       *)
(***************************************************************************)
EXTENDS Naturals

CONSTANTS
    Tx,            \* transaction ids, numbered in the order of the strings
    Invoices,
    InvoiceOf,     \* the invoice of a transaction, or NoInvoice
    PaidAt,        \* paid_at, or what stands for it when it is missing
    NoTx, NoInvoice

ASSUME StartupAssumption ==
    /\ Tx \subseteq Nat
    /\ InvoiceOf \in [Tx -> Invoices \cup {NoInvoice}]
    /\ PaidAt \in [Tx -> Nat]
    /\ NoTx \notin Tx /\ NoInvoice \notin Invoices

VARIABLES
    status,        \* transactions.status
    oneC,          \* one_c_payment_exports.status by payment id
    tiger,         \* tiger_invoice_exports.paid_transaction_id by invoice
    indexed,       \* whether uq_transactions_paid_invoice exists
    process,       \* "down", "starting", "up", or "failed" while starting
    export         \* the payment being exported, and the next table

rows == <<status, oneC, tiger>>
vars == <<rows, indexed, process, export>>

NoExport == [tx |-> NoTx, to |-> "none"]

TypeOK ==
    /\ status \in [Tx -> {"waiting", "paid", "duplicate"}]
    /\ oneC \in [Tx -> {"absent", "pending", "processing", "success", "error"}]
    /\ tiger \in [Invoices -> Tx \cup {NoTx}]
    /\ indexed \in BOOLEAN
    /\ process \in {"down", "starting", "up", "failed"}
    /\ export \in [tx : Tx \cup {NoTx}, to : {"none", "oneC", "tiger"}]

(* A new database has the index from create_all, an old one has not. *)
Init ==
    /\ status = [t \in Tx |-> "waiting"]
    /\ oneC = [t \in Tx |-> "absent"]
    /\ tiger = [i \in Invoices |-> NoTx]
    /\ indexed \in BOOLEAN
    /\ process = "down"
    /\ export = NoExport

-----------------------------------------------------------------------------
(* _deduplicate_paid_invoice_transactions. *)

PaidOf(i) == {t \in Tx : InvoiceOf[t] = i /\ status[t] = "paid"}

(* The least by rank, and among equals by id. *)
First(S, rank) ==
    CHOOSE t \in S : \A u \in S : rank[t] < rank[u] \/ (rank[t] = rank[u] /\ t <= u)

(* Mutant: what 1C has booked counts no more than what it is still to get. *)
AnyRowIsTold(t) == 0

Priority(t) ==
    CASE oneC[t] = "success" -> 0
      [] oneC[t] \in {"processing", "pending"} -> 1
      [] oneC[t] = "error" -> 2
      [] OTHER -> 3

Progress == [t \in Tx |-> Priority(t)]

(* Mutants: 1C's word before Tiger's; a told payment need not be paid.      *)
OneCFirst(i) ==
    LET paid == PaidOf(i)
        told == {t \in paid : oneC[t] # "absent"}
    IN IF told # {} THEN First(told, Progress)
       ELSE IF tiger[i] \in paid THEN tiger[i] ELSE First(paid, PaidAt)

ToldWins(i) ==
    LET told == {t \in Tx : InvoiceOf[t] = i /\ oneC[t] # "absent"}
    IN IF tiger[i] \in PaidOf(i) THEN tiger[i]
       ELSE IF told # {} THEN First(told, Progress) ELSE First(PaidOf(i), PaidAt)

(* The payment Tiger was told of; else the one 1C got furthest with; else   *)
(* the earliest.                                                            *)
Winner(i) ==
    LET paid == PaidOf(i)
        told == {t \in paid : oneC[t] # "absent"}
    IN CASE tiger[i] \in paid -> tiger[i]
         [] tiger[i] \notin paid /\ told # {} -> First(told, Progress)
         [] OTHER -> First(paid, PaidAt)

(* Mutant: only payments later than the winner's are set aside. *)
LaterThanWinner(t) ==
    /\ status[t] = "paid" /\ InvoiceOf[t] # NoInvoice
    /\ PaidAt[t] > PaidAt[Winner(InvoiceOf[t])]

SetAside(t) ==
    status[t] = "paid" /\ InvoiceOf[t] # NoInvoice /\ t # Winner(InvoiceOf[t])

(* Mutant: a payment that is set aside counts as canceled. *)
DeduplicatedAsCanceled == [t \in Tx |-> IF SetAside(t) THEN "canceled" ELSE status[t]]

Deduplicated == [t \in Tx |-> IF SetAside(t) THEN "duplicate" ELSE status[t]]

UniquePaid(st) ==
    \A t, u \in Tx :
        /\ st[t] = "paid" /\ st[u] = "paid"
        /\ InvoiceOf[t] = InvoiceOf[u] /\ InvoiceOf[t] # NoInvoice
        => t = u

(* Duplicates are set aside and the index is created in one transaction,    *)
(* which fails as a whole when some invoice still has two paid rows.        *)
CreateIndex(done, failed) ==
    IF UniquePaid(Deduplicated)
      THEN /\ status' = Deduplicated /\ indexed' = TRUE /\ process' = done
           /\ UNCHANGED <<oneC, tiger, export>>
      ELSE process' = failed /\ UNCHANGED <<rows, indexed, export>>

-----------------------------------------------------------------------------
(* Starting and stopping. *)

MigrateLegacySqlite == process = "down" /\ CreateIndex("starting", "failed")

(* create_all and ensure_default_print_qr_codes, in transactions of their own. *)
FinishInitialize ==
    /\ process = "starting"
    /\ process' = "up"
    /\ UNCHANGED <<rows, indexed, export>>

(* AUTO_CREATE_SCHEMA is off, or create_all finds the tables of an old      *)
(* PostgreSQL database and leaves them as they are.                         *)
StartAsIs ==
    /\ process = "down"
    /\ process' = "up"
    /\ UNCHANGED <<rows, indexed, export>>

Upgrade == process = "down" /\ ~indexed /\ CreateIndex("down", "failed")

Downgrade ==
    /\ process = "down" /\ indexed
    /\ indexed' = FALSE
    /\ UNCHANGED <<rows, process, export>>

(* A crash or a stop, also between the writes of a handler. *)
Stop ==
    /\ process \in {"starting", "up"}
    /\ process' = "down" /\ export' = NoExport
    /\ UNCHANGED <<rows, indexed>>

-----------------------------------------------------------------------------
(* The running gateway: the writes of PaymentGateway that matter here. *)

(* Mutant: a second payment replaces the accepted one. *)
LatestPaymentWins(t) ==
    [u \in Tx |-> IF u = t THEN "paid"
                  ELSE IF InvoiceOf[u] = InvoiceOf[t] /\ InvoiceOf[t] # NoInvoice
                          /\ indexed /\ status[u] = "paid"
                  THEN "duplicate" ELSE status[u]]

(* Only the index can refuse a second paid row. *)
WithPaidFallback(t) ==
    [status EXCEPT ![t] =
        IF indexed /\ InvoiceOf[t] # NoInvoice /\ PaidOf(InvoiceOf[t]) \ {t} # {}
          THEN "duplicate" ELSE "paid"]

(* A paid notification, the first or a repeated one; exports follow at once.*)
PaidWebhook(t) ==
    /\ process = "up" /\ export = NoExport
    /\ status' = WithPaidFallback(t)
    /\ export' = IF status'[t] = "paid" /\ InvoiceOf[t] # NoInvoice
                   THEN [tx |-> t, to |-> "oneC"] ELSE NoExport
    /\ UNCHANGED <<oneC, tiger, indexed, process>>

ExportToOneC ==
    /\ process = "up" /\ export.to = "oneC"
    /\ oneC' = [oneC EXCEPT ![export.tx] = IF @ = "absent" THEN "pending" ELSE @]
    /\ export' = [export EXCEPT !.to = "tiger"]
    /\ UNCHANGED <<status, tiger, indexed, process>>

ExportToTiger ==
    /\ process = "up" /\ export.to = "tiger"
    /\ tiger' = [tiger EXCEPT ![InvoiceOf[export.tx]] = IF @ = NoTx THEN export.tx ELSE @]
    /\ export' = NoExport
    /\ UNCHANGED <<status, oneC, indexed, process>>

(* Claims, expired leases, results and resets of the 1C queue. *)
QueueMoves ==
    [pending |-> {"processing", "success", "error"},
     processing |-> {"pending", "success", "error"},
     error |-> {"pending"}]

OneCQueue(t) ==
    /\ process = "up" /\ export = NoExport
    /\ oneC[t] \in DOMAIN QueueMoves
    /\ \E s \in QueueMoves[oneC[t]] : oneC' = [oneC EXCEPT ![t] = s]
    /\ UNCHANGED <<status, tiger, indexed, process, export>>

-----------------------------------------------------------------------------

Next ==
    \/ MigrateLegacySqlite \/ FinishInitialize \/ StartAsIs
    \/ Upgrade \/ Downgrade \/ Stop
    \/ \E t \in Tx : PaidWebhook(t) \/ OneCQueue(t)
    \/ ExportToOneC \/ ExportToTiger

Spec == Init /\ [][Next]_vars

-----------------------------------------------------------------------------
(* Properties. *)

(* The gateway never fails to start, and no upgrade fails, because the      *)
(* index cannot be created over the payments that are kept                  *)
(* (store.py:1181-1187).                                                    *)
IndexIsCreatable == process # "failed"

(* Tiger's row names an accepted payment at any time, with or without the   *)
(* index: no migration sets aside the payment Tiger was told of, which the  *)
(* row keeps naming for ever (store.py:721-722, another payment changes     *)
(* nothing).                                                                *)
TigerRowAccepted == \A i \in Invoices : tiger[i] # NoTx => status[tiger[i]] = "paid"

(* A payment 1C has booked is set aside only for one that Tiger was told of *)
(* or that 1C has booked as well.                                           *)
BookedIsKept ==
    [][\A t \in Tx :
          status[t] = "paid" /\ status'[t] # "paid" /\ oneC[t] = "success" =>
              \E u \in Tx : /\ InvoiceOf[u] = InvoiceOf[t] /\ status'[u] = "paid"
                            /\ oneC[u] = "success" \/ tiger[InvoiceOf[u]] = u]_vars

(* An invoice that has been paid keeps an accepted payment through every    *)
(* start, stop, upgrade and downgrade: an earlier duplicate that still has  *)
(* a row at 1C is not taken for the winner.                                 *)
PaidInvoiceStaysPaid ==
    [][\A i \in Invoices :
          (\E t \in Tx : InvoiceOf[t] = i /\ status[t] = "paid") =>
              \E t \in Tx : InvoiceOf[t] = i /\ status'[t] = "paid"]_vars

(* While the index exists, no payment and no restart changes which payment  *)
(* of an invoice is accepted: a second start finds nothing to set aside.    *)
AcceptedSurvivesRestart ==
    [][indexed => \A t \in Tx : status[t] = "paid" => status'[t] = "paid"]_vars

=============================================================================
