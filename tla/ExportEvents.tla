----------------------------- MODULE ExportEvents -----------------------------
(***************************************************************************)
(* How the Tiger bank account of a payment travels: from the print QR      *)
(* configuration (store.py, models.py) by printing (api.py) into the       *)
(* metadata of a QR, from there into the event of a paid invoice           *)
(* (service.py), through the Tiger queue, and into the worker's voucher.   *)
(* Each hop copies it, and the copies are taken at different times.        *)
(*                                                                         *)
(* Of the fields an event must have, the account stands for all: NoAccount *)
(* is metadata or an event that lacks the account or the client.  paidAt,  *)
(* amount and currency are always there (_payment_paid_at falls back to    *)
(* updated_at).                                                            *)
(*                                                                         *)
(* Most QRs are made by printing.  Others were printed by an older version,*)
(* which knew no accounts, or are made through the API by a caller who may *)
(* put any metadata into them, a print code and an account of another code *)
(* included: Given says what account, and they start out with it or, when  *)
(* it or the client is missing, with none.                                 *)
(*                                                                         *)
(* A definition commented as a mutant is no part of the specification: it  *)
(* is a plausible bug that some property must catch.                       *)
(***************************************************************************)
EXTENDS Functions, FiniteSets

CONSTANTS
    Codes,            \* the fixed print QR codes
    EnabledByDefault, \* those DEFAULT_PRINT_QR_CODES enables
    AccountsOf,       \* accounts an administrator may enter for a code
    Invoices, Tx,
    InvoiceOf,        \* the invoice of each transaction
    CodeOf,           \* metadata.print_qr_code, or NoCode
    Given,            \* of the QRs made outside printing, the account given them
    Handlers,         \* print requests in progress at the same time
    NoTx, NoCode, NoAccount

Accounts == UNION {AccountsOf[c] : c \in Codes}
Maybe(S) == S \cup {NoAccount}

ASSUME EventsAssumption ==
    /\ EnabledByDefault \subseteq Codes
    /\ InvoiceOf \in [Tx -> Invoices]
    /\ CodeOf \in [Tx -> Codes \cup {NoCode}]
    /\ DOMAIN Given \subseteq Tx /\ Given \in [DOMAIN Given -> Maybe(Accounts)]
    /\ NoTx \notin Tx /\ NoCode \notin Codes /\ NoAccount \notin Accounts

VARIABLES
    config,     \* print_qr_codes: enabled flag and account of the saved codes
    meta,       \* metadata.tiger_bank_account_code of the saved transactions
    paid,       \* the accepted transaction of an invoice
    event,      \* tiger_invoice_exports: status and account in the payload
    held,       \* payloads the worker has claimed and not yet reported
    booked,     \* accounts of the bank voucher lines in Tiger
    task        \* print requests waiting for a bank

tables == <<config, meta, paid, event>>
tiger == <<held, booked>>
vars == <<tables, tiger, task>>

Entry == [enabled : BOOLEAN, account : Maybe(Accounts)]
Statuses == {"absent", "pending", "processing", "success", "error"}
Idle == [code |-> NoCode]

Partial(D, S) == UNION {[E -> S] : E \in SUBSET D}

TypeOK ==
    /\ config \in Partial(Codes, Entry)
    /\ meta \in Partial(Tx, Maybe(Accounts))
    /\ paid \in [Invoices -> Tx \cup {NoTx}]
    /\ event \in [Invoices -> [st : Statuses, account : Maybe(Accounts)]]
    /\ held \in Partial(Invoices, Maybe(Accounts))
    /\ booked \in Partial(Invoices, Accounts)
    /\ task \in [Handlers -> {Idle} \cup
                [code : Codes, inv : Invoices, items : Partial(Codes, Accounts)]]

Absent == [st |-> "absent", account |-> NoAccount]

(* What an older version may have saved of an invoice and its payment t:    *)
(* events were queued without an account.  One that is done stays as it is  *)
(* and is left out.                                                         *)
OldEvents(t, m) ==
    IF t = NoTx THEN {Absent}
    ELSE {Absent} \cup [st : {"pending", "processing", "error"}, account : {NoAccount, m[t]}]

(* The tables of an older version: codes, accounts and metadata may be      *)
(* missing, QRs may be unpaid or paid.                                      *)
Init ==
    /\ config \in {f \in Partial(Codes, Entry) :
                      \A c \in DOMAIN f : f[c].account \in Maybe(AccountsOf[c])}
    /\ meta \in {f \in Partial(DOMAIN Given, Maybe(Accounts)) :
                    \A t \in DOMAIN f : f[t] \in Maybe({Given[t]})}
    /\ paid \in {f \in [Invoices -> DOMAIN meta \cup {NoTx}] :
                    \A i \in Invoices : f[i] # NoTx => InvoiceOf[f[i]] = i}
    /\ event \in {f \in [Invoices -> [st : Statuses, account : Maybe(Accounts)]] :
                     \A i \in Invoices : f[i] \in OldEvents(paid[i], meta)}
    /\ held = << >> /\ booked = << >>
    /\ task = [h \in Handlers |-> Idle]

(* f with more; the first of two functions wins. *)
Over(f, g) == [x \in DOMAIN f \cup DOMAIN g |-> IF x \in DOMAIN f THEN f[x] ELSE g[x]]
With(f, x, v) == Over([y \in {x} |-> v], f)

-----------------------------------------------------------------------------
(* The print QR configuration. *)

Defaults == [c \in Codes |-> [enabled |-> c \in EnabledByDefault, account |-> NoAccount]]

EnsureDefaultPrintQrCodes == config' = Over(config, Defaults)

(* A stop or crash, and a start; requests in progress are lost. *)
Restart ==
    /\ EnsureDefaultPrintQrCodes
    /\ task' = [h \in Handlers |-> Idle]
    /\ UNCHANGED <<meta, paid, event, tiger>>

(* PrintQRCodeConfigUpdate: exactly the fixed codes, and an account for     *)
(* each enabled one.  Labels, slots and order are not kept here.            *)
ValidUpdate ==
    {f \in [Codes -> Entry] :
        \A c \in Codes : f[c].account \in Maybe(AccountsOf[c]) /\
                         (f[c].enabled => f[c].account # NoAccount)}

ReplacePrintQrCodes ==
    /\ config' \in ValidUpdate
    /\ UNCHANGED <<meta, paid, event, tiger, task>>

Enabled == {c \in DOMAIN config : config[c].enabled}

-----------------------------------------------------------------------------
(* Building, validating and saving an event. *)

(* Mutant: the account is not looked at. *)
AnyEventIsValid(account) == TRUE

Valid(account) == account # NoAccount

(* A success stays as it is; otherwise the payload is rewritten, also under *)
(* a client that is processing it.                                          *)
Upsert(e, account) ==
    CASE e.st = "success" -> e
      [] e.st \in {"absent", "pending"} ->
            [st |-> IF Valid(account) THEN "pending" ELSE "error", account |-> account]
      [] OTHER -> [st |-> e.st, account |-> account]

(* The payload is built from the metadata of the accepted transaction.      *)
EventOf(m, t) == m[t]

(* The events as cancel_other_invoice_transactions_if_paid leaves them.     *)
Exported(m, t) ==
    IF paid'[InvoiceOf[t]] = t
      THEN [event EXCEPT ![InvoiceOf[t]] = Upsert(@, EventOf(m, t))] ELSE event

(* The first payment of an invoice is accepted; a repeated callback or a    *)
(* refresh of it exports it again.  A crash may come before the export.     *)
Payment(t) ==
    /\ t \in DOMAIN meta
    /\ paid' = [paid EXCEPT ![InvoiceOf[t]] = IF @ = NoTx THEN t ELSE @]
    /\ \/ event' = Exported(meta, t) /\ UNCHANGED task
       \/ task' = [h \in Handlers |-> Idle] /\ UNCHANGED event
    /\ UNCHANGED <<config, meta, tiger>>

(* A QR made outside printing: through the API, or by asking for the status *)
(* of one that no row knows, which saves it with the metadata it has.       *)
CreateDirect(t) ==
    /\ t \in DOMAIN Given \ DOMAIN meta
    /\ \E a \in Maybe({Given[t]}) : meta' = With(meta, t, a)
    /\ UNCHANGED <<config, paid, event, tiger, task>>

-----------------------------------------------------------------------------
(* Printing an invoice. *)

(* The metadata a QR of each code gets. *)
Items(S) == [c \in S |-> config[c].account]

(* Mutant: the account of any enabled code. *)
MergedAnyAccount(m, found, items) ==
    [t \in DOMAIN m |-> IF t \in found THEN items[CHOOSE c \in DOMAIN items : TRUE] ELSE m[t]]

(* merge_transaction_metadata of the QRs found for these items. *)
Merged(m, found, items) ==
    [t \in DOMAIN m |-> IF t \in found THEN items[CodeOf[t]] ELSE m[t]]

(* The saved QRs of an invoice that have the code of an item, whoever made  *)
(* them.                                                                    *)
QrsFor(m, i, items) == {t \in DOMAIN m : InvoiceOf[t] = i /\ CodeOf[t] \in DOMAIN items}

(* find_invoice_transaction takes the latest one that is open or paid and   *)
(* of the item's bank.  None of these is kept here: any one of a code, or   *)
(* none, is found.                                                          *)
Findable(m, i, items) ==
    {found \in SUBSET QrsFor(m, i, items) : \A t, u \in found : CodeOf[t] = CodeOf[u] => t = u}

(* The loop over the items until its next await: QRs that are found are     *)
(* reused, and a new one is asked for at the bank of the first other item.  *)
(* A changed amount of a saved QR ends it.                                  *)
Continue(h, m, i, items) ==
    \E found \in Findable(m, i, items) :
        LET reused == {CodeOf[t] : t \in found} IN
        /\ meta' = Merged(m, found, items)
        /\ \/ /\ reused = DOMAIN items \/ \E t \in QrsFor(m, i, items) : CodeOf[t] \notin reused
              /\ task' = [task EXCEPT ![h] = Idle]
           \/ \E c \in DOMAIN items \ reused :
                 task' = [task EXCEPT ![h] =
                            [code |-> c, inv |-> i,
                             items |-> Restrict(items, DOMAIN items \ reused)]]

(* An unpaid invoice: refused when nothing is enabled or an account is      *)
(* missing; the items are read here, once.                                  *)
PrintInvoice(h, i) ==
    /\ task[h] = Idle
    /\ ~ \E t \in Tx : paid[i] = t /\ CodeOf[t] \in DOMAIN config
    /\ Enabled # {} /\ \A c \in Enabled : config[c].account # NoAccount
    /\ Continue(h, meta, i, Items(Enabled))
    /\ UNCHANGED <<config, paid, event, tiger>>

(* A bank issues a QR, or the call fails and the request with it.  Two      *)
(* requests may each get a QR of the same code.                             *)
AfterCreate(h) ==
    /\ task[h] # Idle
    /\ \/ \E t \in Tx \ (DOMAIN meta \cup DOMAIN Given) :
             /\ InvoiceOf[t] = task[h].inv /\ CodeOf[t] = task[h].code
             /\ Continue(h, With(meta, t, task[h].items[task[h].code]), task[h].inv,
                         Restrict(task[h].items, DOMAIN task[h].items \ {task[h].code}))
       \/ task' = [task EXCEPT ![h] = Idle] /\ UNCHANGED meta
    /\ UNCHANGED <<config, paid, event, tiger>>

(* The account of a paid QR when its metadata is refreshed: the configured  *)
(* one; without it only the client is written, which may have been all that *)
(* was missing.                                                             *)
Refreshed(t) ==
    IF config[CodeOf[t]].account # NoAccount THEN {config[CodeOf[t]].account}
    ELSE {meta[t]} \cup (IF t \in DOMAIN Given /\ meta[t] = NoAccount THEN {Given[t]} ELSE {})

(* An invoice paid by a QR with a print code: its metadata is refreshed     *)
(* from the configuration, enabled or not, and it is exported again.        *)
Reprint(i) ==
    /\ paid[i] # NoTx /\ CodeOf[paid[i]] \in DOMAIN config
    /\ \E a \in Refreshed(paid[i]) : meta' = With(meta, paid[i], a)
    /\ UNCHANGED <<config, paid, tiger, task>>
    /\ event' = Exported(meta', paid[i])

-----------------------------------------------------------------------------
(* The queue and the worker. *)

SetStatus(i, s) == event' = [event EXCEPT ![i].st = s]

(* Mutant: a reset does not build and validate the event again. *)
ResetUnchecked(i) ==
    /\ event[i].st = "error"
    /\ SetStatus(i, "pending")
    /\ UNCHANGED <<config, meta, paid, tiger, task>>

(* The event is rebuilt first, and reset only when it is valid now. *)
Reset(i) ==
    /\ event[i].st \notin {"absent", "success"}
    /\ LET rebuilt == Upsert(event[i], EventOf(meta, paid[i]))
       IN event' = [event EXCEPT ![i] =
                      IF Valid(rebuilt.account) /\ rebuilt.st = "error"
                        THEN [rebuilt EXCEPT !.st = "pending"] ELSE rebuilt]
    /\ UNCHANGED <<config, meta, paid, tiger, task>>

Claim(i) ==
    /\ event[i].st = "pending" /\ i \notin DOMAIN held
    /\ SetStatus(i, "processing")
    /\ held' = With(held, i, event[i].account)
    /\ UNCHANGED <<config, meta, paid, booked, task>>

LeaseExpires(i) ==
    /\ event[i].st = "processing"
    /\ SetStatus(i, "pending")
    /\ UNCHANGED <<config, meta, paid, tiger, task>>

(* ProcessInvoicePaid: an invalid event is refused, a line is added once.   *)
Book(i) ==
    /\ i \in DOMAIN held \ DOMAIN booked
    /\ Valid(held[i])
    /\ booked' = With(booked, i, held[i])
    /\ UNCHANGED <<tables, held, task>>

Drop(i) == held' = Restrict(held, DOMAIN held \ {i})

Report(i) ==
    /\ i \in DOMAIN held
    /\ Drop(i)
    /\ \E result \in {"error"} \cup (IF i \in DOMAIN booked THEN {"success"} ELSE {}) :
          IF event[i].st \in {"pending", "processing"}
            THEN SetStatus(i, result) ELSE UNCHANGED event
    /\ UNCHANGED <<config, meta, paid, booked, task>>

WorkerCrash(i) == i \in DOMAIN held /\ Drop(i) /\ UNCHANGED <<tables, booked, task>>

-----------------------------------------------------------------------------

Next ==
    \/ Restart \/ ReplacePrintQrCodes
    \/ \E t \in Tx : Payment(t) \/ CreateDirect(t)
    \/ \E h \in Handlers : AfterCreate(h) \/ \E i \in Invoices : PrintInvoice(h, i)
    \/ \E i \in Invoices : Reprint(i) \/ Reset(i)
    \/ \E i \in Invoices : Claim(i) \/ LeaseExpires(i) \/ Book(i) \/ Report(i) \/ WorkerCrash(i)

Spec == Init /\ [][Next]_vars

-----------------------------------------------------------------------------
(* Properties. *)

(* Claimable, and the worker would refuse it. *)
Refused(e) == e.st \in {"pending", "processing"} /\ ~Valid(e.account)

(* The worker is given no event it has to refuse: whatever is saved,        *)
(* rewritten under a lease, expired or reset, no step makes one claimable   *)
(* that does not pass validation (service.py:283), the worker's own as well *)
(* (LogoObjectsClient.cs:790).  Only what an older version left in the      *)
(* queue may be refused, until it is exported again.                        *)
ClaimableIsValid ==
    [][\A i \in Invoices :
          /\ Refused(event'[i]) => Refused(event[i])
          /\ i \in DOMAIN held' /\ ~Valid(held'[i]) =>
                Refused(event[i]) \/ (i \in DOMAIN held /\ ~Valid(held[i]))]_vars

(* The accounts a QR may carry: those entered for its code, and what it was *)
(* given when it was made outside printing.                                 *)
AccountsFor(t) ==
    (IF CodeOf[t] \in Codes THEN AccountsOf[CodeOf[t]] ELSE {})
        \cup (IF t \in DOMAIN Given THEN Maybe({Given[t]}) ELSE {})

(* The QR a customer paid by decides the account, in its metadata, in the   *)
(* event, in the worker's hand and on the voucher (docs/                    *)
(* TIGER_INTEGRATION_PLAN.md:229, "The paid QR therefore determines the     *)
(* bank account").  For a QR the gateway has printed it is an account       *)
(* entered for the code of that QR, never none and never one of another     *)
(* code, whichever of the overlapping prints wrote it.  A QR of an older    *)
(* version or of a caller of the API has what it was given, until a print   *)
(* of its code enters another.                                              *)
AccountFollowsCode ==
    /\ \A t \in DOMAIN meta : meta[t] \in AccountsFor(t)
    /\ \A i \in Invoices :
          paid[i] # NoTx =>
            /\ event[i].st # "absent" => event[i].account \in AccountsFor(paid[i])
            /\ i \in DOMAIN held => held[i] \in AccountsFor(paid[i])
            /\ i \in DOMAIN booked => booked[i] \in AccountsFor(paid[i])

=============================================================================
