# A formal model of the PayQR payment gateway

PayQR issues QR codes for the invoices of 1C, learns from the banks which of
them were paid, and hands each accepted payment to two consumers: 1C, which
makes a payment document, and Tiger (Logo), which books a bank voucher line.
This directory holds TLA+ models of that program, TLC configurations that check
them on small instances, and proofs checked by TLAPS.

The models are translated from the source under `src/`; `PROJECT.json` maps each
definition to its lines. Every configuration runs as
`tlc -config X.cfg MCModule.tla`, every proof as `tlapm XProofs.tla`.

## 1. The system

| Part | Source | State it keeps | Modelled by |
|---|---|---|---|
| Payment core | `service.py`, the payment handlers of `api.py`, the transactions table of `store.py` | one row per transaction (status, raw payload), audit of callbacks | `PaymentGateway` |
| Export queues | `store.py` (`*_export*`), their endpoints in `api.py` | `tiger_invoice_exports`, `one_c_payment_exports`: status, lease age | `ExportQueue` |
| 1C payment importer | `integrations/1c/…/PayQR_ЗагрузкаОплат.bsl` | payment documents in 1C | `OneCImport`, `Delivery` |
| Tiger worker | `PaymentGatewayPoller.cs`, `LogoObjectsClient.cs`, `Program.cs` of `TigerIntegrationWorker` | vouchers and lines in Tiger | `TigerExport`, `Delivery` |
| Provider clients | `providers/*.py` | attempt and answer of each call | `ProviderClient`, `BankCalls` |
| Start-up, migration of duplicate payments | `store.py:237-246`, `1159-1357`, migration 0008 | rows of an older version, the unique index | `Startup` |
| Export events, validation | `service.py:240-350` | none; they copy the metadata of a payment into an event | `ExportEvents`; in `ExportQueue` their verdict is `Validity` |
| Print QR configuration | `store.py`, `models.py:334-403`, `api.py` | table of print codes | `ExportEvents`; in `PaymentGateway` a constant |
| Access control, configuration, audit, other data models, admin web UI, 1C printing, other schema migrations | see `PROJECT.json` | | not modelled, reasons in section 8 |

**Interaction.** The gateway is one uvicorn process. All its handlers are
coroutines of one event loop and every store call is synchronous, so a handler
runs without interruption between two awaits, and the only awaits are HTTP calls
to a bank. Every store call commits on its own. Banks call back (webhooks), 1C
and Tiger poll: they claim a batch under a lease, work, and report a result for
each event. Nothing calls the consumers.

    bank --callback--> payment core --export--> 1C queue    <--claim/report-- 1C importer
    bank <-get/cancel/create--                 \-> Tiger queue <--claim/report-- Tiger worker

**What is hard.**

- A handler remembers across an await what it read before: a payment, a new QR
  or a cancellation may have happened meanwhile.
- Callbacks are repeated, late and out of order, and a callback that does not
  match its row is answered 200 and never repeated.
- One invoice has a QR per bank (a print makes all of them), and two of them can
  be paid.
- Accepting a payment and writing it to two queues are three commits: a crash
  may fall between them.
- Leases expire while the consumer still works; results come late, or never, or
  twice; an administrator resets events meanwhile.
- A consumer writes its document and then reports: either half can be lost.
- A call to a bank is repeated after a lost answer, and a request may be executed
  after its call has given up.
- The database may be older than the code: without the unique index several
  payments of an invoice are accepted, and a later start must choose one of them
  that agrees with what the consumers were told.
- The bank account of a payment is copied four times on its way to Tiger, each
  time at another moment, while an administrator changes the configuration.

What makes each part correct is listed, with the source line where it could go
wrong, under `hazards` in `PROJECT.json`; the properties are in section 4.

## 2. Plan

In this order; all but the last two are done.

1. `PaymentGateway`, the core: interleaving of handlers, calls to the banks,
   crashes. Proofs: type, one accepted payment per invoice, exports.
2. `ExportQueue`, the queue under arbitrary clients. Proofs: type, exclusive
   leases, final results.
3. `OneCImport`, the importer composed with the queue
   (`INSTANCE ExportQueue WITH held <- Held`), and `Delivery`, what queue and
   importer promise together, with both refinements checked and proved.
4. `TigerExport`, the worker composed with the same queue: the polling cycle,
   the grouping of lines into daily vouchers, probes before and after a write.
   It implements `Delivery` too. Proofs: all its safety properties and both
   refinements.
5. `ProviderClient`, the retry loop of the two clients, and `BankCalls`, what the
   payment core relies on. Proofs: all its safety properties and the refinement.
6. `Startup`: the start of the gateway on the data of an older version, with the
   payments accepted between two starts. Proofs: all its properties.
7. `ExportEvents`: from the print configuration to the bank account of a voucher.
   Proofs: all its properties.
8. An abstract ledger for the core: an invoice gets one accepted payment for good,
   and only accepted payments are offered to the queues. `PaymentGateway` shown to
   implement it.
9. Static QRs in the core, once something depends on them.

## 3. The modules

### PaymentGateway

`status` is the column of the transactions table, `oneC` and `tigerTx` the
presence of a row in the two export tables, `providerIds` the O!Dengi rows whose
`raw_payload` still holds the bank's own id, `bank` and `acked` what the bank
knows. `task[h]` is the coroutine of a request: `pc` is the await or the store
call it stands before, the other fields are its local variables. `loop` is the
handler that runs now; while it is not `Nobody`, no other handler takes a step,
but a crash may happen.

| Action | Code |
|---|---|
| `StartPrint`, `PrintNext`, `AfterCreate` | `create_invoice_qr_codes`, `create_or_reuse_invoice_qr` |
| `StartDirect`, `AfterCreate` | `create_dynamic_qr` |
| `Webhook` (`ReceiveWebhook`, `SaveWebhook`, `UpdateFromWebhook`) | `mkassa_webhook`, `odengi_webhook`, `save_webhook` |
| `StartRefresh`, `AfterGet` | refresh and the refresh before an administrator's cancel |
| `StartApiCancel`, `AfterCancel` | `cancel_transaction` |
| `ExportToOneC`, `ExportToTiger`, `CancelNext`, `AfterAutoCancel` | `cancel_other_invoice_transactions_if_paid` |
| `BankAnswersGet`, `BankAnswersCancel`, `CustomerPays`, `BankCloses` | the world outside |
| `Crash` | the process ends: coroutines are lost, commits stay |

Abstractions. An id is opaque, so its invoice, print code and bank are constants
of the id. An amount only decides whether a callback matches its row and whether
a reused QR is refused with a 409, and is a nondeterministic choice there.
`waiting` stands for every status in which a QR is open (inited, waiting,
qr_scanned), `canceled` for every final unpaid one. Rollback statuses and static
QRs are left out. `StartApiCancel` and `StartRefresh` act on saved rows: the
status of an id that no row knows is asked for in `ExportEvents`. A callback that
does not match its row changes nothing but the audit, so none is generated.

External assumptions. A QR can be paid once the row is saved. A bank issues an
id once. A successful cancel call means the QR is closed, though a status call
may answer `waiting` for a while (`api.py:852-853`); O!Dengi's client takes any
answer without an error for one (`odengi.py:209`). A bank repeats a paid
notification until it gets a 200.

### ExportQueue

`rows[e]` is the row of an event (status, insertion order `id`, age of
`last_attempt_at`), `held[c][e]` the age of client c's claim. The store calls are
operators on the table (`Upsert`, `Claimed`, `UpdateResult`, `ResetRow`), the
actions the endpoints around them. Clients are arbitrary: they may report late,
report part of a batch, or forget it. Both queues have the same code; they differ
in `Validity`, because only Tiger events are validated when built. Ages are
compared with `Lease` only, so they stop at `Lease + 1`. `attempt_count` and
texts are left out: nothing depends on them.

### OneCImport and Delivery

`run[r]` is the local state of a run of `PayQR_ЗагрузитьУспешныеОплаты`: fetch a
batch, take its oldest event, find the payment's document, create it, report.
`docs[e]` counts its documents. Every HTTP call may fail (`Abort`, and
`ReportFails` for an answer that is only shown). `Runs` is the set of runs that
may overlap (timer and button). The queue's operators are those of `ExportQueue`.
`Find` compares ids exactly; the code looks for the id in a comment with LIKE
(`bsl:204-214`), which differs only for two accepted ids of which one begins with the
other.

`Delivery` is the promise: a payment is offered, recorded at most once, confirmed
only when recorded, failed, tried again on request. `Delivers` says that
`OneCImport` implements it under `outcome <- Outcome`, `docs <- docs`.

### TigerExport

`PaymentGatewayPoller` is `poller`: it claims a batch (`Claim`), takes its events
in order (`Take`), hands each to `ProcessInvoicePaid` and reports (`Report`,
`ReportLost`). An exception ends the cycle (`CycleEnds`) and leaves the rest of the
batch leased; a report that is refused (409) is one, since the client throws for
every answer that is not a success.

`job` is the call of `ProcessInvoicePaid` that holds `_comLock`; `Direct` is the
endpoint `/api/invoices/paid`, which calls the same function. Its steps are
`Find` (validation, login, first look for the line), `FindGroup`,
`CreateVoucher` or `BeforeAppend` and `PostLine`, `Verify`, and `Probe`, the
look after an exception. Each of them may throw. Tiger's state is `vouchers`
(the group marker of each) and `lines`.

What the steps ask of Tiger: `Seen` and `NotSeen` are the query for a marker.
A query that fails answers null, as one that finds nothing; `MaxMisses` bounds
how often. A line is posted only into a voucher whose line count is the one read
before; a mismatch found afterwards throws, and `Probe` then finds the line and
reports a success, so the failed verification is only logged.

The payload of an event is not stored in the model: the group is chosen anew at
each attempt, since a repeated export may have changed it.

External assumptions. A Post that answers true, or throws after writing, adds the
line and keeps the others; any other Post writes nothing. Nobody cancels a line.
Users of Tiger add lines of their own (`UserAddsLine`).

`Delivers` is the refinement of `Delivery` with `docs <- Booked`, the number of
lines of an invoice. It is checked without direct calls, which may book what the
queue never offered, and without failing queries; the lines of users are in this
run only (`tiger_lines` has `MaxEdits = 0`), and in the theorems.

### ProviderClient and BankCalls

`call[c]` is a call of `create_dynamic_qr`, `get_transaction` or
`cancel_transaction` on its way through `_request`: `Send`, then `Receive` or
`Fail`, each of which goes on to the next attempt (`Retry`) or ends the call
(`Return`). Both clients have the same loop. `wire` holds the requests that were
sent and not yet executed; a request outlives its attempt and its call. `bank` is
the record of each QR at its bank and `maker` the call it was issued to.

An answer is `transient` (429, 500, 502, 503, 504), an `error`, or a success in the
bank's words, which `StatusOf` translates. A body the client cannot read is an
error. The last attempt takes a transient answer for an error (`ResultOf`).

`BankCalls` is the promise: a call ends once; an answer was true while the call
was open; an error tells nothing, and what was asked may still happen. In
`PaymentGateway` this is what `BankAnswersGet`, `BankAnswersCancel` and
`AfterCreate` take for granted: an answer that agrees with `bank` (`Answers`), or
none at all (`Lost`). `Promised` says that `ProviderClient` implements it.

External assumptions. MKassa issues a QR to every request. O!Dengi refuses an order
id it knows. A bank may answer `waiting`, or O!Dengi its error 63 (no payments), for
a while after it closed a QR, but never for one that was paid before the call. A
`statusPayment` answer lists no failed attempt after the successful one. A
`Retry-After` is finite.

### Startup

`status`, `oneC` and `tiger` are the columns the migration looks at; `indexed` is
whether `uq_transactions_paid_invoice` exists. `MigrateLegacySqlite` (an SQLite
start) and `Upgrade` (Alembic 0008) hold the same choice: `Winner`, the payment Tiger
was told of, else the one 1C got furthest with, else the earliest; the others
become duplicates and the index is created in the same transaction.
`StartAsIs` is a start that leaves the schema alone. Between starts `PaidWebhook`
accepts payments, refused only by the index, and `ExportToOneC` and
`ExportToTiger` write the two queues one after the other; a stop may fall
between any two steps. `OneCQueue` is the life of a row of the 1C queue.

The old data are not invented: they are what this code writes while the index is
missing. One process runs at a time. The rows of `PaymentGateway` that are neither
paid nor duplicate are `waiting` here.

### ExportEvents

The account of a payment has five copies: `config` (the print configuration),
`task[h].items` (what a print request read before it waits for a bank), `meta`
(the QR's metadata), `event` (the payload in the Tiger queue) and `held` (what the
worker claimed); `booked` is the account of the line in Tiger. `PrintInvoice`,
`AfterCreate` and `Reprint` are `create_invoice_qr_codes` for an unpaid and a paid
invoice; `Payment` exports; `Upsert` rewrites an event that is not yet a success,
also under a lease; `Reset` rebuilds and validates it first.

The account stands for every field validation asks for: `NoAccount` is metadata
or an event that lacks the account or the client. An invoice may have any number
of QRs of one code: two prints that overlap may each make one, and so may a
reprint after a cancellation. Which of them a print finds
(`find_invoice_transaction`) depends on status, bank and age, none of which is kept
here, so `Findable` is any one of them or none.

Not every QR is printed by this version. `Given` holds the others with the account
they were given, or with none: QRs of an older version, which knew no accounts
(`Init`, where they may be paid already and their events queued without an account),
and QRs made through the API, with any metadata, a print code and an account of
another code included, or saved because somebody asked for the status of an id that
no row knew (`CreateDirect`). A print of their code finds them like any other QR and
writes its own account into them (`Merged`, `Refreshed`). Of an older version's
events those that are done are left out, since nothing touches them.

A refresh and a callback leave the metadata of a saved row alone
(`update_metadata=False`). The worker is one client; leases are the subject of
`ExportQueue`.

External assumption. The bank returns the metadata it was sent with a new QR.

## 4. The runs

| Run | Instance | Distinct states | What it shows |
|---|---|---|---|
| `gateway_faults` | 3 QRs (one printed, one direct, one without invoice), 2 handlers, failing calls, 1 crash | 1.5 M | `TypeOK`; only what the bank was paid for is accepted (`AcceptedIsPaidAtBank`); an accepted payment is never taken back (`PaidStays`); queues hold accepted payments (`ExportsAccepted`); without a crash no handler leaves a payment unexported (`NoGapWithoutCrash`) |
| `gateway_liveness` | 2 QRs of an invoice, 2 handlers, failing calls, 1 crash, fair | 0.23 M | `OnePaidPerInvoice`, `DuplicateHasWinner`; every payment reaches both queues (`PaymentReachesQueues`) |
| `gateway_sequential` | 3 QRs, 2 print codes and banks, 1 handler, 1 crash, fair | 0.12 M | with one request at a time, the other QRs of a paid invoice get closed (`SiblingsClosed`) |
| `gateway_siblings` | 2 QRs, 2 handlers, fair | | violation: with two requests they do not |
| `gateway_provider_id` | one QR of each bank, 1 handler | | violation of `CancelByProviderId` |
| `queue_leases` | 3 events, 2 clients, batch 2, 2 resets | 0.49 M | `TypeOK`, exclusive leases until a reset, `SuccessFinal`, `ErrorNeedsReset` |
| `import_single` | 2 payments, 1 run, batch 2, 1 reset, fair | 10 k | `TypeOK`, `AtMostOneDocument`, `ConfirmedHasDocument`; the importer is a client of the queue (`FollowsQueue`) and implements `Delivery` (`Delivers`); every event gets a result (`EventSettles`) |
| `tiger_lines` | 2 invoices (one also sent directly), 2 groups, batch 2, 1 reset, 1 failing query, 1 crash | 0.96 M | `TypeOK`; one line an invoice and one voucher a group while queries are answered (`OneLineWhileAnswered`, `OneVoucherPerGroup`); what is confirmed has a line (`ConfirmedHasLine`); `FollowsQueue` |
| `tiger_delivery` | 2 invoices, some rejected, 1 group, batch 2, 1 reset, 1 line of a user, 1 crash, fair | 32 k | `Delivers`, `EventSettles` |
| `client_retries` | 2 create calls (one may be a cancel), 1 status call, 2 QRs at each bank, 1 retry, fair | 0.65 M | `TypeOK`; O!Dengi holds one QR an order (`OneQrPerOrder`); a call leaves no more unknown QRs than it had failed attempts (`UnknownQrsBounded`); `Promised`; `EveryCallEnds` |
| `startup_migration` | 3 QRs of an invoice, two of them paid in the same second, 1 of none | 35 k | `TypeOK`; the index can be created (`IndexIsCreatable`); no migration sets aside what Tiger was told of (`TigerRowAccepted`), nor what 1C booked unless for a payment told to Tiger or booked as well (`BookedIsKept`), nor leaves a paid invoice unpaid (`PaidInvoiceStaysPaid`); with the index nothing changes at a restart (`AcceptedSurvivesRestart`) |
| `export_account` | 1 invoice, 2 codes with an account each, 5 QRs: 2 printed with one code, 1 of that code from the API with the other's account, 1 of the other code from an older version without an account, 1 of no code; 2 print requests | 0.46 M | `TypeOK`; no step makes an event claimable that the worker refuses (`ClaimableIsValid`); every copy of the account is one entered for the code of the paid QR, or the one that QR was given outside printing (`AccountFollowsCode`) |

**Bounds.** Two concurrent handlers reach every race of the core: each hazard is
between a request that waits for a bank and one other request, and a third
handler only adds another bystander. Two QRs of one invoice give a winner and a
duplicate, three of them also a QR to be canceled. One crash separates any two commits; a second
crash starts from a state a first one reaches. In the queue, three events with a
batch of two exercise the order of a claim, and a lease of one tick has a live, a
last and an expired moment; two resets let an event fail twice. In the worker, two invoices in one group make one create the voucher
and the other append to it, and in two groups keep them apart. In the clients, one
retry gives a first and a last attempt, two QRs at each bank leave room for the one
too many, and three calls let a status call race a create and a cancel. In
`Startup`, three payments give a winner by each of the three rules and a tie
between two; stops, starts and payments are not bounded. In `ExportEvents`, two
print requests can each make a QR of one code and write its metadata in either order.
No property tells two accounts of one code apart, so one each is enough: the wrong one
is that of the other code, or none. `MaxCrashes`,
`MaxResets`, `MaxMisses`, `MaxEdits` and `MaxRetries` are the only counters cut off; `Lease + 1` stands for every expired
age. Symmetry is used for handlers and clients, and only in cfgs without
liveness.

Deadlock is checked in every run but `client_retries`, where each call is made once
and all of them end: elsewhere the customer, the clock or a request can always
move.

**Fairness.** In `PaymentGateway`: strong fairness of each handler, since the
event loop runs whatever can go on and other handlers only take turns with it
(`loop` disables it meanwhile, hence strong); weak fairness of the bank's
answers, since every HTTP call has a timeout; strong fairness of the paid
notification, since a bank repeats it until it is answered 200
(`docs/MKASSA_API_NOTES.md:44`). Customers, requests and crashes are not fair. In
`OneCImport`: time passes, the scheduled job starts again, and no step of a run
is hit by a crash or a lost connection every time (strong fairness of the steps,
for reporting of each event). In
`TigerExport` the same holds of the poller's claims and reports, `Take` (strong,
since direct calls hold the lock in between) and the steps of a call (weak: none
waits for another). In `ProviderClient` the client's own steps are weakly fair, since
every request has a timeout and every pause ends; nothing is assumed of the
network and the banks. `Startup` and `ExportEvents` state no fairness. Nothing is
assumed of administrators.

## 5. Findings

Three runs show the code disagreeing with its own documents, the first two by a
violation; `PROJECT.json` quotes the lines.

- `gateway_siblings`: a print that is in progress when an invoice is paid leaves
  a payable QR (`service.py:206`, `api.py:1151`). `README.md:213` says the
  other QRs are canceled. With one request at a time the claim holds.
- `gateway_provider_id`: a status refresh overwrites `raw_payload` (`store.py:362`)
  and with it the id O!Dengi needs for a cancel.
- `queue_leases`: no reset takes a success back (`SuccessFinal`, which holds). The
  code resets rows in error only (`store.py:858`, `1061`) and answers 409 for a success, as
  `docs/1C_PAYMENT_SYNC.md:111-112` and two tests have it. Line 253 of the same
  document, and `README.md:206-208` for Tiger, describe the reset of a success for a
  repeated delivery: there is none. The mutant `ResetAsDocumented` is that reset.

Three properties hold under a condition that the documents do not state or the
code does not enforce:

- Leases are exclusive until an administrator's reset (`LeaseExclusiveUntilReset`).
  A result is stored whoever holds the lease (`store.py:841`), so after a late
  error and a reset an event is claimed again under a live lease, although
  `docs/TIGER_INTEGRATION_PLAN.md:251` promises exclusive ones without condition.
- One document a payment needs one run of the importer at a time
  (`AtMostOneDocument`, the assumption `OneRun`). The importer takes no lock;
  `docs/1C_PAYMENT_SYNC.md:118` asks for one.
- One line an invoice needs every query for a marker to be answered
  (`OneLineWhileAnswered`). A query that fails counts as an absent line
  (`LogoObjectsClient.cs:1177`), although the worker's `README.md:36-38` says that
  the marker avoids duplicate lines.

And limits of the code that no property excludes:

- The 1C event of a payment that the migration sets aside stays queued.
- A code that is moved to the other bank does not find its old QR, which stays
  payable.
- A payment by a QR without an account and without a print code is never booked by
  Tiger, since only a print of its code gives a QR an account.
- A QR of a caller of the API is booked on the account the caller gave it, even when it
  carries a print code with another account, until that code is printed.
- An event that an older version queued without an account can be claimed until it
  is exported again; the worker refuses it.
- A callback that does not match its row is answered 200 and only audited
  (`store.py:399`): the payment is unknown until somebody refreshes the
  transaction.

## 6. What is proved

The theorems hold for every value of the constants that satisfies the module's
`ASSUME`: any number of QRs, invoices, handlers, events, clients, runs, crashes
and resets.

**PaymentGatewayProofs.** `TypeCorrect`, `OnePaymentAccepted`,
`DuplicatesHaveWinners`, `NothingAcceptedUnpaid`, `QueuesHoldAccepted`,
`ExportedBeforeAwait` (`NoGapWithoutCrash`) and `AcceptedForGood` (`PaidStays`).
None of these is inductive by itself. `IInv` adds three facts. `TasksOK`: what a
coroutine remembers across its await stays true, namely that a bank that said
`paid` has been paid. `OneCFirst`: the Tiger row of an invoice is never written
before the 1C row. `GapIsBeingClosed`: until the first crash, a payment that is
accepted and not yet in both queues belongs to the handler that runs, which is
about to export it.

**ExportQueueProofs.** `QueueTypeCorrect`, `LeasesExclusive`
(`LeaseExclusiveUntilReset`), `ConfirmedForGood`, `FailedUntilReset`. The
invariant relates two ages: until a reset, an event held under a live lease is
`processing` with the lease's own age, or already has its result. So a claim,
which takes only pending and expired rows, never takes it.

**OneCImportProofs.** `DeliveredIsDocumented` for any number of overlapping runs.
Under the assumption `OneRun` (`\A r, s \in Runs : r = s`),
`OneDocumentPerPayment` and `ImportDelivers`, the refinement
`Spec => Promise!Spec`. The strengthening `HandOK` says that what the run has in
hand is still open in the queue, and that it goes on to create a document only
when there is none.

For any number of runs again, `ImportFollowsQueue` is the refinement
`Spec => FollowsQueue`. What a run holds are the event in hand and the rest of its
batch; skipping an event it has seen before, losing a report and being killed are
the client's `Forget`, fetching is its `Claim`. `QInv` adds `Tidy`: a run claims only when its batch is used up
(otherwise a claim would also give something up), and the event in hand is no
longer in the batch. Since the importer is a client of the queue, the theorems of
`ExportQueueProofs` hold of it, through an instance of that module:
`RunsShareNoLease` (overlapping runs never hold live leases on one event before a
reset) and `ImportKeepsResults` (a success is final, an error needs a reset). So
without a reset two runs can only meet on an event after a lease has ended, and
that is enough for a second document: this is why `OneRun` is assumed.

**StartupProofs.** All properties of `Startup`: `StartupTypeCorrect`,
`IndexAlwaysCreatable`, `ToldPaymentAccepted` (`TigerRowAccepted`),
`BookedPaymentsKept` (`BookedIsKept`), `InvoicesStayPaid` and
`AcceptedForGoodWithIndex` (`AcceptedSurvivesRestart`), for any starts, stops,
upgrades and downgrades. The invariant says that the index implies unique paid
rows, that Tiger's rows and an export under way name accepted payments of their
own invoice, and that only the running gateway exports. `FirstChooses` shows that
the choice of a winner is well defined: the ranks are numbers, so by the
well-foundedness of `<` a nonempty set of payments, even an infinite one, has a
first. `OnlyDeduplicationTakesBack` reduces the three action properties to the
one step that sets payments aside.

**TigerExportProofs.** `TigerTypeCorrect`, `BookedOnce` (`OneLineWhileAnswered`),
`OneVoucherADay` (`OneVoucherPerGroup`), `ExportedIsBooked` (`ConfirmedHasLine`)
and `WorkerFollowsQueue` (`FollowsQueue`), for any events, accounts and days, batch
size, lease, and number of crashes, resets, direct calls, unanswered queries and
lines of users. `IInv` adds three facts. `ControlOK`: the poller waits exactly for
the call it has made, about the event it has in hand. `ResultsTrue`: a success that
is about to be reported has its line, so a report never confirms what is not
booked. `CallKnows`: while every query is answered, a call that looks for a voucher
has no line yet, and one about to create a voucher knows that its account and day
have none. Only one call writes at a time (`_comLock`), so what it
knows stays true until it writes. `WorkerDelivers` is the refinement
`Spec => Delivers`, under the assumption `OneWayOnly`
(`Manual = {} /\ MaxMisses = 0`: events come from the queue alone and every query
is answered); without it an invoice may be booked that was never offered, or
twice. It needs `HandLeased` as well: what the poller has in hand is still
`processing`, for a lease is given up only at the next claim, which is its own.
The module takes the lemmas on store calls from an instance of
`ExportQueueProofs`, and from its theorems `WorkerKeepsResults`: neither a direct
call nor a crash takes an exported event back. Its assumption on the constants is `TigerAssumption`, with
`Groups # {}`: there is an account and a day to book on.

**ProviderClientProofs.** `ClientTypeCorrect`, `OdengiIsIdempotent`
(`OneQrPerOrder`), `UnknownQrsAreFew` (`UnknownQrsBounded`) and `ClientsKeepPromise`,
the refinement `Spec => Promised`, for any calls, orders, QRs and retries. `IInv`
adds five facts. `MakersOK`: a QR was made by a create call for its order, and a
call keeps its operation and order. `IdsDiffer`: the QRs at O!Dengi have different
order ids, which with `MakersOK` is `OneQrPerOrder`. `AnswersTrue`: an answer on its
way is a failure, or is still true when it is read. That is what needs an argument,
for the bank goes on between answer and reading: it holds because no step undoes a
payment, a cancellation or the maker of a QR (`Steady`), and because `Heard` keeps
of a status only what lasts. `Counted`: the QRs a call has made and its requests
under way are together no more than the requests it has sent; a request that is
executed moves from one count to the other. `ControlOK`: a call is open until it
returns, so it ends once. In the refinement sending, retrying, being refused and
asking for a status are stutters, a request that is executed is the bank's `Issue`
or `Close` whether or not its call still waits, and the return is `End`.

**ExportEventsProofs.** `EventsTypeCorrect`, `OnlyValidClaimed` (`ClaimableIsValid`)
and `QrDecidesAccount` (`AccountFollowsCode`), for any codes, accounts, invoices,
QRs (any number of one code), QRs of other origin and concurrent print requests.
`IInv` says of each copy of an account where it may come from. Configuration and
requests hold accounts entered for the code they stand under (`ConfigOK`,
`TasksOK`); the metadata of a QR holds one of `AccountsFor` that QR (`GoodMeta`): one
entered for its code, or what it was given; event, payload and line hold an account
`Copied` from the accepted payment. `Copied` says more than `AccountsFor`: a valid
copy means that the metadata is valid too. Validity needs this: a repeated export
rewrites an event under a lease with what the metadata holds by then, and must not
make an invalid one of a valid one. It is preserved because no step takes a valid
account out of the metadata (`Keeps`), which is true of every merge: a print writes
an account, and a refresh without one leaves the old.

**Only model-checked.** Liveness (`PaymentReachesQueues`, `SiblingsClosed`,
`EventSettles`, `EveryCallEnds`): fairness and `ENABLED` are outside the prover's
reach. Every other property of the runs that hold is stated by a theorem. That
`PaymentGateway` takes no more for granted than `BankCalls` promises is argued in
section 3, by reading: the core makes a call and takes its answer in other steps
than `BankCalls`, and neither implements the other. Nothing
here needs induction over data, and no module uses `RECURSIVE`; the insertion order
of a queue is an id, not a sequence.

## 7. Mutants

Every property that holds has a mutant: an operator next to the definition it replaces,
commented as a mutant, that changes it the way a bug would (a dropped guard, a
lease given up a tick early, a result stored over another). TLC finds the
property violated when the definition is replaced by it. The mutants are no part
of any specification.

## 8. Not modelled

- *Access control and configuration*: requests are modelled after authorisation.
- *Audit of API access*: an append-only log that nothing reads.
- *Data models* other than the print configuration: validation of single fields, no
  state.
- *Dry-run mode and diagnostic endpoints of the Tiger worker*: a dry run writes
  nothing and reports nothing; `append-strategy` books test lines, in a test firm only, which
  for the model are lines of a user.
- *Static QRs*: created and stored, never exported or canceled.
- *Amounts, texts, labels and slots*: data no property here tells apart. An amount
  that does not match is a nondeterministic refusal.
- *Lists of transactions at the banks and their paging, signatures*: reads that
  change nothing, and the form of a request.
- *The 1C event and the normalisation of `paidAt`*: every input yields a value, and
  nothing downstream depends on which.
- *1C printing, admin web UI*: presentation; their requests are actions of the
  modules above.
- *Schema migrations* other than revision 0008, and the columns that the start of an
  old SQLite file adds: no behaviour at run time.
