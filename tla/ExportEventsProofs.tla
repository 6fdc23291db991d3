-------------------------- MODULE ExportEventsProofs --------------------------
(***************************************************************************)
(* Proofs about ExportEvents, for any codes, accounts, invoices, QRs, old  *)
(* rows and print requests, and for configuration, printing, payments,     *)
(* restarts, resets and the worker in whatever order.                      *)
(***************************************************************************)
EXTENDS ExportEvents, TLAPS

USE EventsAssumption DEF EventsAssumption

Metas == Partial(Tx, Maybe(Accounts))
Event == [st : Statuses, account : Maybe(Accounts)]
Request == [code : Codes, inv : Invoices, items : Partial(Codes, Accounts)]

(* Accounts that were entered for the code they stand under. *)
Entered(items) == \A c \in DOMAIN items : items[c] \in AccountsOf[c]

ConfigOK ==
    /\ config \in Partial(Codes, Entry)
    /\ \A c \in DOMAIN config : config[c].account \in Maybe(AccountsOf[c])

(* A request goes on with accounts it has read before, and for the code     *)
(* whose QR it has asked for.                                               *)
TasksOK ==
    /\ task \in [Handlers -> {Idle} \cup Request]
    /\ \A h \in Handlers : task[h] # Idle => /\ Entered(task[h].items)
                                             /\ task[h].code \in DOMAIN task[h].items

GoodMeta(m) ==
    /\ m \in Metas
    /\ \A t \in DOMAIN m : m[t] \in AccountsFor(t)

PaidOK ==
    /\ paid \in [Invoices -> Tx \cup {NoTx}]
    /\ \A i \in Invoices :
          paid[i] # NoTx => InvoiceOf[paid[i]] = i /\ paid[i] \in DOMAIN meta

(* An account was copied from the accepted payment of an invoice: it is one *)
(* that QR may carry, and its metadata has not lost the account since,      *)
(* though it may have another now.                                          *)
Copied(i, a) ==
    /\ paid[i] # NoTx
    /\ a \in AccountsFor(paid[i])
    /\ Valid(a) => Valid(meta[paid[i]])

GoodEvent(i, e) == e.st # "absent" => Copied(i, e.account)

EventsOK ==
    /\ event \in [Invoices -> Event]
    /\ \A i \in Invoices : GoodEvent(i, event[i])

HeldOK ==
    /\ held \in Partial(Invoices, Maybe(Accounts))
    /\ \A i \in DOMAIN held : Copied(i, held[i])

BookedOK ==
    /\ booked \in Partial(Invoices, Accounts)
    /\ \A i \in DOMAIN booked : Copied(i, booked[i])

IInv == ConfigOK /\ TasksOK /\ GoodMeta(meta) /\ PaidOK /\ EventsOK /\ HeldOK /\ BookedOK

-----------------------------------------------------------------------------
(* Partial functions, and the operators that update them. *)

LEMMA PartialIs ==
    ASSUME NEW D, NEW S, NEW f
    PROVE  f \in Partial(D, S) <=> DOMAIN f \subseteq D /\ f \in [DOMAIN f -> S]
BY DEF Partial

LEMMA NothingIs ==
    /\ DOMAIN << >> = {}
    /\ \A D, S : << >> \in Partial(D, S)
<1>1. DOMAIN << >> = {} /\ \A S : << >> \in [{} -> S]
  OBVIOUS
<1> QED
  BY <1>1, PartialIs

LEMMA RestrictIs ==
    ASSUME NEW D, NEW S, NEW f \in Partial(D, S), NEW E \in SUBSET (DOMAIN f)
    PROVE  /\ Restrict(f, E) \in Partial(D, S)
           /\ DOMAIN Restrict(f, E) = E
           /\ \A x \in E : Restrict(f, E)[x] = f[x]
BY PartialIs DEF Restrict

(* What is left of a request's items was entered as well. *)
LEMMA RestrictEntered ==
    ASSUME NEW items \in Partial(Codes, Accounts), Entered(items), NEW E \in SUBSET (DOMAIN items)
    PROVE  /\ Restrict(items, E) \in Partial(Codes, Accounts)
           /\ DOMAIN Restrict(items, E) = E
           /\ Entered(Restrict(items, E))
BY RestrictIs DEF Entered

-----------------------------------------------------------------------------
(* Accounts and metadata. *)

LEMMA EnteredIsAccount ==
    ASSUME NEW c \in Codes, NEW a \in AccountsOf[c]
    PROVE  a \in Accounts /\ a # NoAccount
BY DEF Accounts

LEMMA AccountsForIs ==
    ASSUME NEW t \in Tx
    PROVE  /\ AccountsFor(t) \subseteq Maybe(Accounts)
           /\ CodeOf[t] \in Codes => AccountsOf[CodeOf[t]] \subseteq AccountsFor(t)
           /\ t \in DOMAIN Given => Maybe({Given[t]}) \subseteq AccountsFor(t)
BY EnteredIsAccount DEF AccountsFor, Maybe

(* Whatever happens to the metadata, no row goes and no account is lost.    *)
Keeps(m, new) ==
    /\ DOMAIN m \subseteq DOMAIN new
    /\ \A t \in DOMAIN m : Valid(m[t]) => Valid(new[t])

LEMMA MergedIs ==
    ASSUME NEW m, GoodMeta(m), NEW i, NEW items \in Partial(Codes, Accounts), Entered(items),
           NEW found \in SUBSET QrsFor(m, i, items)
    PROVE  GoodMeta(Merged(m, found, items)) /\ Keeps(m, Merged(m, found, items))
<1>1. /\ DOMAIN m \subseteq Tx /\ m \in [DOMAIN m -> Maybe(Accounts)]
      /\ DOMAIN items \subseteq Codes
  BY PartialIs DEF GoodMeta, Metas
<1>2. ASSUME NEW t \in DOMAIN m
      PROVE  /\ Merged(m, found, items)[t] \in AccountsFor(t)
             /\ Valid(m[t]) => Valid(Merged(m, found, items)[t])
  <2>1. CASE t \in found
    <3>1. /\ CodeOf[t] \in DOMAIN items /\ Merged(m, found, items)[t] = items[CodeOf[t]]
          /\ t \in Tx /\ CodeOf[t] \in Codes
      BY <1>1, <2>1 DEF Merged, QrsFor
    <3>2. items[CodeOf[t]] \in AccountsOf[CodeOf[t]] /\ items[CodeOf[t]] # NoAccount
      BY <3>1, EnteredIsAccount DEF Entered
    <3> QED
      BY <3>1, <3>2, AccountsForIs DEF Valid
  <2>2. CASE t \notin found
    BY <1>1, <2>2 DEF Merged, GoodMeta
  <2> QED
    BY <2>1, <2>2
<1>3. DOMAIN Merged(m, found, items) = DOMAIN m
  BY DEF Merged
<1>4. Merged(m, found, items) \in [DOMAIN m -> Maybe(Accounts)]
  BY <1>1, <1>2, AccountsForIs DEF Merged
<1> QED
  BY <1>1, <1>2, <1>3, <1>4, PartialIs DEF GoodMeta, Metas, Keeps

(* Saving a new QR, or another account with an old one.                     *)
LEMMA SavedIs ==
    ASSUME NEW m, GoodMeta(m), NEW t \in Tx, NEW a \in AccountsFor(t),
           t \in DOMAIN m /\ Valid(m[t]) => Valid(a),
           NEW new, new = With(m, t, a)
    PROVE  GoodMeta(new) /\ Keeps(m, new) /\ DOMAIN new = DOMAIN m \cup {t}
<1>1. m \in Partial(Tx, Maybe(Accounts)) /\ a \in Maybe(Accounts)
  BY AccountsForIs DEF GoodMeta, Metas
<1>2. /\ new \in Partial(Tx, Maybe(Accounts)) /\ DOMAIN new = DOMAIN m \cup {t}
      /\ new[t] = a /\ \A u \in DOMAIN m \ {t} : new[u] = m[u]
  BY <1>1, PartialIs DEF With, Over
<1>3. \A u \in DOMAIN new : new[u] \in AccountsFor(u)
  BY <1>2 DEF GoodMeta
<1>4. \A u \in DOMAIN m : Valid(m[u]) => Valid(new[u])
  BY <1>2
<1> QED
  BY <1>2, <1>3, <1>4 DEF GoodMeta, Metas, Keeps

LEMMA Keeping ==
    ASSUME NEW m, NEW n, NEW o, Keeps(m, n), Keeps(n, o)
    PROVE  Keeps(m, o)
BY DEF Keeps

-----------------------------------------------------------------------------
(* The loop of a print request until its next await. *)

LEMMA ContinueIs ==
    ASSUME IInv, NEW h \in Handlers, NEW m, GoodMeta(m), NEW i \in Invoices,
           NEW items \in Partial(Codes, Accounts), Entered(items), Continue(h, m, i, items)
    PROVE  TasksOK' /\ GoodMeta(meta') /\ Keeps(m, meta')
<1>1. PICK found \in Findable(m, i, items) :
        /\ meta' = Merged(m, found, items)
        /\ \/ task' = [task EXCEPT ![h] = Idle]
           \/ \E c \in DOMAIN items \ {CodeOf[t] : t \in found} :
                 task' = [task EXCEPT ![h] =
                            [code |-> c, inv |-> i,
                             items |-> Restrict(items, DOMAIN items \ {CodeOf[t] : t \in found})]]
  BY DEF Continue
<1> DEFINE reused == {CodeOf[t] : t \in found}
<1>2. found \in SUBSET QrsFor(m, i, items)
  BY DEF Findable
<1>3. GoodMeta(meta') /\ Keeps(m, meta')
  BY <1>1, <1>2, MergedIs
<1> HIDE DEF reused
<1>4. ASSUME task' = [task EXCEPT ![h] = Idle]
      PROVE  TasksOK'
  BY <1>4 DEF IInv, TasksOK
<1>5. ASSUME NEW c \in DOMAIN items \ reused,
             task' = [task EXCEPT ![h] =
                        [code |-> c, inv |-> i,
                         items |-> Restrict(items, DOMAIN items \ reused)]]
      PROVE  TasksOK'
  <2> DEFINE rest == Restrict(items, DOMAIN items \ reused)
             new == [code |-> c, inv |-> i, items |-> rest]
  <2>1. /\ rest \in Partial(Codes, Accounts) /\ Entered(rest)
        /\ DOMAIN rest = DOMAIN items \ reused
    BY RestrictEntered
  <2>2. c \in Codes /\ c \in DOMAIN rest
    BY <2>1, PartialIs
  <2>3. new \in Request
    BY <2>1, <2>2 DEF Request
  <2>4. task' = [task EXCEPT ![h] = new]
    BY <1>5
  <2>5. task' \in [Handlers -> {Idle} \cup Request]
    BY <2>3, <2>4 DEF IInv, TasksOK
  <2>6. ASSUME NEW g \in Handlers, task'[g] # Idle
        PROVE  Entered(task'[g].items) /\ task'[g].code \in DOMAIN task'[g].items
    <3>1. CASE g = h
      <4>1. task'[g] = new
        BY <2>4, <3>1 DEF IInv, TasksOK
      <4> QED
        BY <4>1, <2>1, <2>2
    <3>2. CASE g # h
      BY <2>4, <2>6, <3>2 DEF IInv, TasksOK
    <3> QED
      BY <3>1, <3>2
  <2> QED
    BY <2>5, <2>6 DEF TasksOK
<1>6. TasksOK'
  BY <1>1, <1>4, <1>5 DEF reused
<1> QED
  BY <1>3, <1>6

-----------------------------------------------------------------------------
(* The event of an accepted payment. *)

(* What was copied stays a copy, whatever happens to the metadata. *)
LEMMA CopiedStays ==
    ASSUME IInv, Keeps(meta, meta'), NEW i \in Invoices, NEW a, Copied(i, a),
           paid'[i] = paid[i]
    PROVE  Copied(i, a)'
BY DEF IInv, PaidOK, Copied, Keeps

(* The accounts that are in the queue, held and booked stay right while     *)
(* what each invoice was paid by stays and no metadata is lost.             *)
Steady ==
    /\ Keeps(meta, meta') /\ GoodMeta(meta')
    /\ paid' \in [Invoices -> Tx \cup {NoTx}]
    /\ \A i \in Invoices : paid[i] # NoTx => paid'[i] = paid[i]

LEMMA GoodEventStays ==
    ASSUME IInv, Steady, NEW i \in Invoices, NEW e, GoodEvent(i, e)
    PROVE  GoodEvent(i, e)'
BY CopiedStays DEF Steady, GoodEvent, Copied

LEMMA BooksStay ==
    ASSUME IInv, Steady, UNCHANGED tiger
    PROVE  HeldOK' /\ BookedOK'
<1>1. \A a : \A i \in Invoices : Copied(i, a) => Copied(i, a)'
  BY CopiedStays DEF Steady, Copied
<1>2. DOMAIN held \subseteq Invoices /\ DOMAIN booked \subseteq Invoices
  BY PartialIs DEF IInv, HeldOK, BookedOK
<1> QED
  BY <1>1, <1>2 DEF IInv, HeldOK, BookedOK, tiger

LEMMA EventsStay ==
    ASSUME IInv, Steady, UNCHANGED event
    PROVE  EventsOK'
BY GoodEventStays DEF IInv, EventsOK

(* The account in the metadata of an accepted payment is a copy of itself. *)
LEMMA MetaIsCopied ==
    ASSUME NEW i \in Invoices, GoodMeta(meta'), PaidOK', paid'[i] # NoTx,
           NEW a, a = meta'[paid'[i]]
    PROVE  Copied(i, a)' /\ a \in Maybe(Accounts)
<1>1. paid'[i] \in DOMAIN meta' /\ meta' \in Partial(Tx, Maybe(Accounts))
  BY DEF PaidOK, GoodMeta, Metas
<1>2. a \in Maybe(Accounts)
  BY <1>1, PartialIs
<1>3. a \in AccountsFor(paid'[i])
  BY <1>1 DEF GoodMeta
<1> QED
  BY <1>2, <1>3 DEF Copied

(* Of an event that was valid the new account is valid, so that only one an *)
(* older version left may be refused.                                       *)
LEMMA UpsertIs ==
    ASSUME NEW e \in Event, NEW a \in Maybe(Accounts)
    PROVE  /\ Upsert(e, a) \in Event
           /\ Upsert(e, a).st # "absent"
           /\ Upsert(e, a).account = IF e.st = "success" THEN e.account ELSE a
           /\ (e.st # "absent" /\ Valid(e.account) => Valid(a)) /\ Refused(Upsert(e, a))
                 => Refused(e)
BY DEF Upsert, Event, Statuses, Valid, Refused

LEMMA UpsertGood ==
    ASSUME NEW i \in Invoices, GoodMeta(meta'), PaidOK', paid'[i] # NoTx,
           NEW e \in Event, GoodEvent(i, e)', NEW u, u = Upsert(e, meta'[paid'[i]])
    PROVE  u \in Event /\ GoodEvent(i, u)' /\ (Refused(u) => Refused(e))
<1>1. PICK a : a = meta'[paid'[i]]
  OBVIOUS
<1>2. Copied(i, a)' /\ a \in Maybe(Accounts)
  BY <1>1, MetaIsCopied
<1>3. /\ u \in Event /\ u.st # "absent"
      /\ u.account = IF e.st = "success" THEN e.account ELSE a
      /\ (e.st # "absent" /\ Valid(e.account) => Valid(a)) /\ Refused(u) => Refused(e)
  BY <1>1, <1>2, UpsertIs
<1>4. e.st # "absent" /\ Valid(e.account) => Valid(a)
  BY <1>1 DEF GoodEvent, Copied
<1> QED
  BY <1>2, <1>3, <1>4 DEF GoodEvent

(* Writing one good event, in a step that leaves the others alone. *)
LEMMA OneEvent ==
    ASSUME IInv, Steady, NEW i \in Invoices, NEW e \in Event, GoodEvent(i, e)',
           event' = [event EXCEPT ![i] = e]
    PROVE  EventsOK'
<1>1. event' \in [Invoices -> Event]
  BY DEF IInv, EventsOK
<1>2. ASSUME NEW j \in Invoices
      PROVE  GoodEvent(j, event[j])'
  <2>1. CASE j = i
    <3>1. event'[j] = e
      BY <2>1 DEF IInv, EventsOK
    <3> QED
      BY <2>1, <3>1 DEF GoodEvent
  <2>2. CASE j # i
    <3>1. event'[j] = event[j] /\ GoodEvent(j, event[j])
      BY <2>2 DEF IInv, EventsOK
    <3> QED
      BY <3>1, GoodEventStays DEF GoodEvent
  <2> QED
    BY <2>1, <2>2
<1> QED
  BY <1>1, <1>2 DEF EventsOK

(* No event becomes one the worker refuses. *)
NoneRefused == \A i \in Invoices : Refused(event'[i]) => Refused(event[i])

LEMMA ExportedGood ==
    ASSUME IInv, Steady, PaidOK', NEW t \in Tx, event' = Exported(meta', t)
    PROVE  EventsOK' /\ NoneRefused
<1> DEFINE i == InvoiceOf[t]
<1>1. CASE paid'[i] = t
  <2>1. PICK u : u = Upsert(event[i], meta'[paid'[i]])
    OBVIOUS
  <2>2. event' = [event EXCEPT ![i] = u]
    BY <1>1, <2>1 DEF Exported, EventOf
  <2>3. i \in Invoices /\ event[i] \in Event /\ GoodEvent(i, event[i]) /\ t # NoTx
    BY DEF IInv, EventsOK
  <2>4. PICK e : e = event[i]
    OBVIOUS
  <2>5. GoodEvent(i, e)'
    BY <2>3, <2>4, GoodEventStays
  <2>6. u \in Event /\ GoodEvent(i, u)' /\ (Refused(u) => Refused(event[i]))
    BY <1>1, <2>1, <2>3, <2>4, <2>5, UpsertGood DEF Steady
  <2>7. NoneRefused
    BY <2>2, <2>3, <2>6 DEF NoneRefused, IInv, EventsOK
  <2> QED
    BY <2>2, <2>3, <2>6, <2>7, OneEvent
<1>2. CASE paid'[i] # t
  BY <1>2, EventsStay DEF Exported, NoneRefused
<1> QED
  BY <1>1, <1>2

-----------------------------------------------------------------------------
(* The actions. *)

(* Steps that leave payments and metadata alone. *)
LEMMA Unmoved ==
    ASSUME IInv, UNCHANGED <<meta, paid>>
    PROVE  GoodMeta(meta)' /\ PaidOK' /\ Steady
BY DEF IInv, PaidOK, Steady, Keeps

LEMMA RestartKeeps == IInv /\ Restart => IInv'
<1> SUFFICES ASSUME IInv, Restart
             PROVE  IInv'
  OBVIOUS
<1>1. /\ config' = Over(config, Defaults) /\ task' = [h \in Handlers |-> Idle]
      /\ UNCHANGED <<meta, paid, event, tiger>>
  BY DEF Restart, EnsureDefaultPrintQrCodes
<1>2. ConfigOK'
  <2>1. DOMAIN config \subseteq Codes /\ config \in [DOMAIN config -> Entry]
    BY PartialIs DEF IInv, ConfigOK
  <2>2. DOMAIN Defaults = Codes /\ \A c \in Codes : Defaults[c] \in Entry /\ Defaults[c].account = NoAccount
    BY DEF Defaults, Entry, Maybe
  <2>3. DOMAIN config' = Codes /\ config' \in [Codes -> Entry]
    BY <1>1, <2>1, <2>2 DEF Over
  <2>4. \A c \in Codes : config'[c].account \in Maybe(AccountsOf[c])
    BY <1>1, <2>1, <2>2 DEF Over, IInv, ConfigOK, Maybe
  <2> QED
    BY <2>3, <2>4, PartialIs DEF ConfigOK
<1>3. TasksOK'
  BY <1>1 DEF TasksOK
<1> QED
  BY <1>1, <1>2, <1>3, Unmoved, EventsStay, BooksStay DEF IInv

LEMMA ReplaceKeeps == IInv /\ ReplacePrintQrCodes => IInv'
<1> SUFFICES ASSUME IInv, ReplacePrintQrCodes
             PROVE  IInv'
  OBVIOUS
<1>1. config' \in ValidUpdate /\ UNCHANGED <<meta, paid, event, tiger, task>>
  BY DEF ReplacePrintQrCodes
<1>2. ConfigOK'
  BY <1>1, PartialIs DEF ConfigOK, ValidUpdate
<1>3. TasksOK'
  BY <1>1 DEF TasksOK, IInv
<1> QED
  BY <1>1, <1>2, <1>3, Unmoved, EventsStay, BooksStay DEF IInv

LEMMA PaymentKeeps == ASSUME NEW t \in Tx PROVE IInv /\ Payment(t) => IInv' /\ NoneRefused
<1> SUFFICES ASSUME IInv, Payment(t)
             PROVE  IInv' /\ NoneRefused
  OBVIOUS
<1> DEFINE i == InvoiceOf[t]
<1>1. /\ t \in DOMAIN meta /\ UNCHANGED <<config, meta, tiger>>
      /\ paid' = [paid EXCEPT ![i] = IF paid[i] = NoTx THEN t ELSE paid[i]]
      /\ \/ event' = Exported(meta, t) /\ UNCHANGED task
         \/ task' = [h \in Handlers |-> Idle] /\ UNCHANGED event
  BY DEF Payment
<1>2. i \in Invoices
  OBVIOUS
<1>3. PaidOK' /\ GoodMeta(meta)'
  BY <1>1, <1>2 DEF IInv, PaidOK
<1>4. Steady
  BY <1>1, <1>2, <1>3 DEF IInv, PaidOK, Steady, Keeps
<1>5. ConfigOK'
  BY <1>1 DEF IInv, ConfigOK
<1>6. TasksOK'
  BY <1>1 DEF IInv, TasksOK
<1>7. EventsOK' /\ NoneRefused
  <2>1. CASE event' = Exported(meta, t)
    BY <1>1, <1>3, <1>4, <2>1, ExportedGood DEF Exported
  <2>2. CASE UNCHANGED event
    BY <1>4, <2>2, EventsStay DEF NoneRefused
  <2> QED
    BY <1>1, <2>1, <2>2
<1> QED
  BY <1>1, <1>3, <1>4, <1>5, <1>6, <1>7, BooksStay DEF IInv

LEMMA CreateDirectKeeps == ASSUME NEW t \in Tx PROVE IInv /\ CreateDirect(t) => IInv'
<1> SUFFICES ASSUME IInv, CreateDirect(t)
             PROVE  IInv'
  OBVIOUS
<1>1. PICK a \in Maybe({Given[t]}) : meta' = With(meta, t, a)
  BY DEF CreateDirect
<1>2. /\ t \in DOMAIN Given /\ t \notin DOMAIN meta
      /\ UNCHANGED <<config, paid, event, tiger, task>>
  BY DEF CreateDirect
<1>3. a \in AccountsFor(t)
  BY <1>2, AccountsForIs
<1>4. PaidOK' /\ Steady
  <2>1. GoodMeta(meta') /\ Keeps(meta, meta')
    BY <1>1, <1>2, <1>3, SavedIs DEF IInv
  <2> QED
    BY <1>2, <2>1 DEF IInv, PaidOK, Steady, Keeps
<1>5. ConfigOK' /\ TasksOK'
  BY <1>2 DEF IInv, ConfigOK, TasksOK
<1> QED
  BY <1>2, <1>4, <1>5, EventsStay, BooksStay DEF IInv, Steady

(* Steps of printing change metadata and the request alone. *)
LEMMA Printing ==
    ASSUME IInv, TasksOK', GoodMeta(meta'), Keeps(meta, meta'),
           UNCHANGED <<config, paid, event, tiger>>
    PROVE  IInv'
<1>1. PaidOK' /\ Steady
  BY DEF IInv, PaidOK, Steady, Keeps
<1>2. ConfigOK'
  BY DEF IInv, ConfigOK
<1> QED
  BY <1>1, <1>2, EventsStay, BooksStay DEF IInv

LEMMA PrintKeeps ==
    ASSUME NEW h \in Handlers, NEW i \in Invoices
    PROVE  IInv /\ PrintInvoice(h, i) => IInv'
<1> SUFFICES ASSUME IInv, PrintInvoice(h, i)
             PROVE  IInv'
  OBVIOUS
<1>1. /\ \A c \in Enabled : config[c].account # NoAccount
      /\ Continue(h, meta, i, Items(Enabled)) /\ UNCHANGED <<config, paid, event, tiger>>
  BY DEF PrintInvoice
<1>2. Items(Enabled) \in Partial(Codes, Accounts) /\ Entered(Items(Enabled))
  <2>1. DOMAIN config \subseteq Codes /\ Enabled \subseteq DOMAIN config
    BY PartialIs DEF IInv, ConfigOK, Enabled
  <2>2. \A c \in Enabled : config[c].account \in AccountsOf[c]
    BY <1>1, <2>1 DEF IInv, ConfigOK, Maybe
  <2>3. \A c \in Enabled : config[c].account \in Accounts
    BY <2>1, <2>2, EnteredIsAccount
  <2> QED
    BY <2>1, <2>2, <2>3, PartialIs DEF Items, Entered
<1>3. TasksOK' /\ GoodMeta(meta') /\ Keeps(meta, meta')
  BY <1>1, <1>2, ContinueIs DEF IInv
<1> QED
  BY <1>1, <1>3, Printing

LEMMA AfterCreateKeeps == ASSUME NEW h \in Handlers PROVE IInv /\ AfterCreate(h) => IInv'
<1> SUFFICES ASSUME IInv, AfterCreate(h)
             PROVE  IInv'
  OBVIOUS
<1> DEFINE inv == task[h].inv
           code == task[h].code
           items == task[h].items
<1>1. task[h] # Idle /\ UNCHANGED <<config, paid, event, tiger>>
  BY DEF AfterCreate
<1>2. /\ inv \in Invoices /\ code \in Codes /\ items \in Partial(Codes, Accounts)
      /\ Entered(items) /\ code \in DOMAIN items
  BY <1>1 DEF IInv, TasksOK, Request
<1>3. ASSUME task' = [task EXCEPT ![h] = Idle] /\ UNCHANGED meta
      PROVE  IInv'
  <2>1. TasksOK'
    BY <1>3 DEF IInv, TasksOK
  <2> QED
    BY <1>1, <1>3, <2>1, Printing DEF IInv, Keeps
<1>4. ASSUME NEW t \in Tx \ (DOMAIN meta \cup DOMAIN Given), CodeOf[t] = code,
             Continue(h, With(meta, t, items[code]), inv, Restrict(items, DOMAIN items \ {code}))
      PROVE  IInv'
  <2> DEFINE rest == Restrict(items, DOMAIN items \ {code})
  <2>1. PICK a : a = items[code]
    OBVIOUS
  <2>2. a \in AccountsFor(t)
    BY <1>2, <1>4, <2>1, AccountsForIs DEF Entered
  <2>3. PICK m : m = With(meta, t, a)
    OBVIOUS
  <2>4. GoodMeta(m) /\ Keeps(meta, m)
    BY <1>4, <2>2, <2>3, SavedIs DEF IInv
  <2>5. rest \in Partial(Codes, Accounts) /\ Entered(rest)
    BY <1>2, RestrictEntered
  <2>6. TasksOK' /\ GoodMeta(meta') /\ Keeps(m, meta')
    BY <1>2, <1>4, <2>1, <2>3, <2>4, <2>5, ContinueIs
  <2>7. Keeps(meta, meta')
    BY <2>4, <2>6, Keeping
  <2> QED
    BY <1>1, <2>6, <2>7, Printing
<1> QED
  BY <1>3, <1>4 DEF AfterCreate

LEMMA ReprintKeeps == ASSUME NEW i \in Invoices PROVE IInv /\ Reprint(i) => IInv' /\ NoneRefused
<1> SUFFICES ASSUME IInv, Reprint(i)
             PROVE  IInv' /\ NoneRefused
  OBVIOUS
<1>1. PICK a \in Refreshed(paid[i]) : meta' = With(meta, paid[i], a)
  BY DEF Reprint
<1>2. /\ paid[i] # NoTx /\ CodeOf[paid[i]] \in DOMAIN config
      /\ event' = Exported(meta', paid[i]) /\ UNCHANGED <<config, paid, tiger, task>>
  BY DEF Reprint
<1>3. /\ paid[i] \in Tx /\ paid[i] \in DOMAIN meta /\ DOMAIN config \subseteq Codes
  BY <1>2, PartialIs DEF IInv, PaidOK, ConfigOK
<1>4. a \in AccountsFor(paid[i]) /\ (Valid(meta[paid[i]]) => Valid(a))
  <2> DEFINE new == config[CodeOf[paid[i]]].account
  <2>1. CASE new # NoAccount
    <3>1. a = new /\ new \in AccountsOf[CodeOf[paid[i]]]
      BY <1>2, <2>1 DEF Refreshed, IInv, ConfigOK, Maybe
    <3> QED
      BY <1>2, <1>3, <2>1, <3>1, AccountsForIs DEF Valid
  <2>2. CASE new = NoAccount
    <3>1. a = meta[paid[i]] \/ (paid[i] \in DOMAIN Given /\ meta[paid[i]] = NoAccount
                                 /\ a = Given[paid[i]])
      BY <2>2 DEF Refreshed
    <3>2. meta[paid[i]] \in AccountsFor(paid[i])
      BY <1>3 DEF IInv, GoodMeta
    <3> QED
      BY <1>3, <3>1, <3>2, AccountsForIs DEF Valid, Maybe
  <2> QED
    BY <2>1, <2>2
<1>5. GoodMeta(meta') /\ Keeps(meta, meta')
  BY <1>1, <1>3, <1>4, SavedIs DEF IInv
<1>6. PaidOK' /\ Steady
  BY <1>2, <1>5 DEF IInv, PaidOK, Steady, Keeps
<1>7. ConfigOK' /\ TasksOK'
  BY <1>2 DEF IInv, ConfigOK, TasksOK
<1>8. EventsOK' /\ NoneRefused
  BY <1>2, <1>3, <1>6, ExportedGood
<1> QED
  BY <1>2, <1>5, <1>6, <1>7, <1>8, BooksStay DEF IInv

(* Steps of the queue and the worker change neither payments, metadata,     *)
(* configuration nor requests.                                              *)
LEMMA Queueing ==
    ASSUME IInv, UNCHANGED <<config, meta, paid, task>>
    PROVE  /\ ConfigOK' /\ TasksOK' /\ GoodMeta(meta)' /\ PaidOK' /\ Steady
           /\ UNCHANGED tiger => HeldOK' /\ BookedOK'
           /\ \A a : \A i \in Invoices : Copied(i, a) => Copied(i, a)'
BY Unmoved, BooksStay, CopiedStays DEF IInv, ConfigOK, TasksOK, Steady

LEMMA StatusKeeps ==
    ASSUME IInv, NEW i \in Invoices, NEW s \in Statuses \ {"absent"}, SetStatus(i, s),
           UNCHANGED <<config, meta, paid, task>>, event[i].st # "absent"
    PROVE  EventsOK'
<1>1. event[i] \in Event /\ GoodEvent(i, event[i])
  BY DEF IInv, EventsOK
<1>2. PICK e : e = [st |-> s, account |-> event[i].account]
  OBVIOUS
<1>3. e \in Event /\ GoodEvent(i, e)
  BY <1>1, <1>2 DEF Event, GoodEvent
<1>4. event' = [event EXCEPT ![i] = e]
  <2>1. [event[i] EXCEPT !.st = s] = e
    BY <1>1, <1>2 DEF Event
  <2> QED
    BY <2>1 DEF SetStatus
<1>5. Steady /\ GoodEvent(i, e)'
  BY <1>3, Unmoved, GoodEventStays
<1> QED
  BY <1>3, <1>4, <1>5, OneEvent

LEMMA ResetKeeps == ASSUME NEW i \in Invoices PROVE IInv /\ Reset(i) => IInv' /\ NoneRefused
<1> SUFFICES ASSUME IInv, Reset(i)
             PROVE  IInv' /\ NoneRefused
  OBVIOUS
<1>1. /\ event[i].st \notin {"absent", "success"}
      /\ UNCHANGED <<config, meta, paid, tiger, task>>
  BY DEF Reset
<1>2. PICK u : u = Upsert(event[i], meta'[paid'[i]])
  OBVIOUS
<1>3. PICK e : e = IF Valid(u.account) /\ u.st = "error" THEN [u EXCEPT !.st = "pending"] ELSE u
  OBVIOUS
<1>4. event' = [event EXCEPT ![i] = e]
  BY <1>1, <1>2, <1>3 DEF Reset, EventOf
<1>5. PICK old : old = event[i]
  OBVIOUS
<1>6. /\ old \in Event /\ GoodEvent(i, old) /\ paid'[i] # NoTx
      /\ GoodMeta(meta') /\ PaidOK' /\ Steady
  BY <1>1, <1>5, Unmoved DEF IInv, EventsOK, GoodEvent, Copied
<1>7. u \in Event /\ GoodEvent(i, u)' /\ (Refused(u) => Refused(old))
  BY <1>2, <1>5, <1>6, GoodEventStays, UpsertGood
<1>8. e \in Event /\ GoodEvent(i, e)' /\ (Refused(e) => Refused(old))
  <2>1. CASE Valid(u.account) /\ u.st = "error"
    <3>1. e = [u EXCEPT !.st = "pending"]
      BY <1>3, <2>1
    <3> QED
      BY <1>7, <2>1, <3>1 DEF Event, Statuses, GoodEvent, Refused
  <2>2. CASE ~ (Valid(u.account) /\ u.st = "error")
    BY <1>3, <1>7, <2>2
  <2> QED
    BY <2>1, <2>2
<1>9. EventsOK' /\ NoneRefused
  <2>1. EventsOK'
    BY <1>4, <1>6, <1>8, OneEvent
  <2>2. NoneRefused
    BY <1>4, <1>5, <1>8 DEF NoneRefused, IInv, EventsOK
  <2> QED
    BY <2>1, <2>2
<1> QED
  BY <1>1, <1>9, Queueing DEF IInv

LEMMA ClaimKeeps == ASSUME NEW i \in Invoices PROVE IInv /\ Claim(i) => IInv'
<1> SUFFICES ASSUME IInv, Claim(i)
             PROVE  IInv'
  OBVIOUS
<1>1. /\ event[i].st = "pending" /\ i \notin DOMAIN held /\ SetStatus(i, "processing")
      /\ held' = With(held, i, event[i].account)
      /\ UNCHANGED <<config, meta, paid, booked, task>>
  BY DEF Claim
<1>2. EventsOK'
  BY <1>1, StatusKeeps DEF Statuses
<1>3. /\ Copied(i, event[i].account)
      /\ event[i].account \in Maybe(Accounts)
  BY <1>1 DEF IInv, EventsOK, GoodEvent, Event
<1>4. DOMAIN held \subseteq Invoices /\ held \in [DOMAIN held -> Maybe(Accounts)]
  BY PartialIs DEF IInv, HeldOK
<1>5. /\ held' \in Partial(Invoices, Maybe(Accounts)) /\ DOMAIN held' = DOMAIN held \cup {i}
      /\ held'[i] = event[i].account /\ \A j \in DOMAIN held \ {i} : held'[j] = held[j]
  BY <1>1, <1>3, <1>4, PartialIs DEF With, Over
<1>6. \A j \in DOMAIN held' : Copied(j, held'[j])
  BY <1>3, <1>5 DEF IInv, HeldOK
<1>7. /\ ConfigOK' /\ TasksOK' /\ GoodMeta(meta)' /\ PaidOK'
      /\ \A a : \A j \in Invoices : Copied(j, a) => Copied(j, a)'
  BY <1>1, Queueing
<1>8. HeldOK'
  BY <1>4, <1>5, <1>6, <1>7 DEF HeldOK
<1>9. BookedOK'
  BY <1>1, <1>7, PartialIs DEF IInv, BookedOK
<1> QED
  BY <1>2, <1>7, <1>8, <1>9 DEF IInv

LEMMA LeaseKeeps == ASSUME NEW i \in Invoices PROVE IInv /\ LeaseExpires(i) => IInv'
<1> SUFFICES ASSUME IInv, LeaseExpires(i)
             PROVE  IInv'
  OBVIOUS
<1>1. /\ event[i].st = "processing" /\ SetStatus(i, "pending")
      /\ UNCHANGED <<config, meta, paid, tiger, task>>
  BY DEF LeaseExpires
<1>2. EventsOK'
  BY <1>1, StatusKeeps DEF Statuses
<1> QED
  BY <1>1, <1>2, Queueing DEF IInv

LEMMA BookKeeps == ASSUME NEW i \in Invoices PROVE IInv /\ Book(i) => IInv'
<1> SUFFICES ASSUME IInv, Book(i)
             PROVE  IInv'
  OBVIOUS
<1>1. /\ i \in DOMAIN held \ DOMAIN booked /\ Valid(held[i]) /\ booked' = With(booked, i, held[i])
      /\ UNCHANGED <<tables, held, task>>
  BY DEF Book
<1>2. /\ Copied(i, held[i]) /\ held[i] \in Accounts
      /\ DOMAIN booked \subseteq Invoices /\ booked \in [DOMAIN booked -> Accounts]
  BY <1>1, PartialIs DEF IInv, HeldOK, BookedOK, Valid, Maybe
<1>3. /\ booked' \in Partial(Invoices, Accounts) /\ DOMAIN booked' = DOMAIN booked \cup {i}
      /\ booked'[i] = held[i] /\ \A j \in DOMAIN booked \ {i} : booked'[j] = booked[j]
  BY <1>1, <1>2, PartialIs DEF With, Over
<1>4. \A j \in DOMAIN booked' : Copied(j, booked'[j])
  BY <1>2, <1>3 DEF IInv, BookedOK
<1>5. /\ ConfigOK' /\ TasksOK' /\ GoodMeta(meta)' /\ PaidOK' /\ Steady
      /\ \A a : \A j \in Invoices : Copied(j, a) => Copied(j, a)'
  BY <1>1, Queueing DEF tables
<1>6. BookedOK'
  BY <1>2, <1>3, <1>4, <1>5 DEF BookedOK
<1>7. EventsOK'
  BY <1>1, <1>5, EventsStay DEF tables
<1>8. HeldOK'
  BY <1>1, <1>5, PartialIs DEF IInv, HeldOK
<1> QED
  BY <1>5, <1>6, <1>7, <1>8 DEF IInv

(* What is given up, by a report or by a crash, leaves the other payloads. *)
LEMMA DropKeeps ==
    ASSUME IInv, NEW i \in Invoices, Drop(i), UNCHANGED <<config, meta, paid, booked, task>>
    PROVE  HeldOK' /\ BookedOK'
<1>1. /\ held' \in Partial(Invoices, Maybe(Accounts)) /\ DOMAIN held' = DOMAIN held \ {i}
      /\ \A j \in DOMAIN held' : held'[j] = held[j]
  BY RestrictIs DEF Drop, IInv, HeldOK
<1>2. \A a : \A j \in Invoices : Copied(j, a) => Copied(j, a)'
  BY Queueing
<1>3. DOMAIN held \subseteq Invoices /\ DOMAIN booked \subseteq Invoices
  BY PartialIs DEF IInv, HeldOK, BookedOK
<1>4. HeldOK'
  BY <1>1, <1>2, <1>3 DEF IInv, HeldOK
<1>5. BookedOK'
  BY <1>2, <1>3 DEF IInv, BookedOK
<1> QED
  BY <1>4, <1>5

LEMMA ReportKeeps == ASSUME NEW i \in Invoices PROVE IInv /\ Report(i) => IInv'
<1> SUFFICES ASSUME IInv, Report(i)
             PROVE  IInv'
  OBVIOUS
<1>1. PICK result \in {"error"} \cup (IF i \in DOMAIN booked THEN {"success"} ELSE {}) :
        IF event[i].st \in {"pending", "processing"}
          THEN SetStatus(i, result) ELSE UNCHANGED event
  BY DEF Report
<1>2. Drop(i) /\ UNCHANGED <<config, meta, paid, booked, task>>
  BY DEF Report
<1>3. result \in {"error", "success"}
  OBVIOUS
<1>4. EventsOK'
  <2>1. CASE event[i].st \in {"pending", "processing"}
    BY <1>1, <1>2, <1>3, <2>1, StatusKeeps DEF Statuses
  <2>2. CASE event[i].st \notin {"pending", "processing"}
    BY <1>1, <1>2, <2>2, Unmoved, EventsStay
  <2> QED
    BY <2>1, <2>2
<1> QED
  BY <1>2, <1>4, DropKeeps, Queueing DEF IInv

LEMMA CrashKeeps == ASSUME NEW i \in Invoices PROVE IInv /\ WorkerCrash(i) => IInv'
<1> SUFFICES ASSUME IInv, WorkerCrash(i)
             PROVE  IInv'
  OBVIOUS
<1>1. Drop(i) /\ UNCHANGED <<config, meta, paid, booked, task, event>>
  BY DEF WorkerCrash, tables
<1> QED
  BY <1>1, DropKeeps, Queueing, EventsStay DEF IInv

-----------------------------------------------------------------------------
(* The theorems. *)

LEMMA InitIInv == Init => IInv
<1> SUFFICES ASSUME Init
             PROVE  IInv
  OBVIOUS
<1>1. ConfigOK
  BY DEF Init, ConfigOK
<1>2. TasksOK
  BY DEF Init, TasksOK
<1>3. GoodMeta(meta)
  <2>1. DOMAIN meta \subseteq DOMAIN Given /\ meta \in [DOMAIN meta -> Maybe(Accounts)]
    BY PartialIs DEF Init
  <2>2. \A t \in DOMAIN meta : meta[t] \in AccountsFor(t)
    BY <2>1, AccountsForIs DEF Init
  <2> QED
    BY <2>1, <2>2, PartialIs DEF GoodMeta, Metas
<1>4. PaidOK
  BY <1>3, PartialIs DEF Init, PaidOK, GoodMeta, Metas
<1>5. EventsOK
  <2>1. event \in [Invoices -> Event]
    BY DEF Init, Event
  <2>2. ASSUME NEW i \in Invoices, event[i].st # "absent"
        PROVE  Copied(i, event[i].account)
    <3>1. event[i] \in OldEvents(paid[i], meta)
      BY DEF Init
    <3>2. paid[i] # NoTx /\ event[i].account \in {NoAccount, meta[paid[i]]}
      BY <2>2, <3>1 DEF OldEvents, Absent
    <3>3. paid[i] \in DOMAIN Given /\ paid[i] \in DOMAIN meta
      BY <3>2, PartialIs DEF Init
    <3> QED
      BY <1>3, <3>2, <3>3, AccountsForIs DEF Copied, Valid, Maybe, GoodMeta
  <2> QED
    BY <2>1, <2>2 DEF EventsOK, GoodEvent
<1>6. HeldOK /\ BookedOK
  BY NothingIs DEF Init, HeldOK, BookedOK
<1> QED
  BY <1>1, <1>2, <1>3, <1>4, <1>5, <1>6 DEF IInv

LEMMA NextKeepsIInv == IInv /\ [Next]_vars => IInv'
<1> SUFFICES ASSUME IInv, [Next]_vars
             PROVE  IInv'
  OBVIOUS
<1>1. CASE UNCHANGED vars
  BY <1>1, Queueing, EventsStay DEF vars, tables, IInv
<1>2. CASE Next
  BY <1>2, RestartKeeps, ReplaceKeeps, PaymentKeeps, CreateDirectKeeps, AfterCreateKeeps,
     PrintKeeps, ReprintKeeps, ResetKeeps, ClaimKeeps, LeaseKeeps, BookKeeps, ReportKeeps,
     CrashKeeps DEF Next
<1> QED
  BY <1>1, <1>2

LEMMA EventsInductive == Spec => []IInv
BY InitIInv, NextKeepsIInv, PTL DEF Spec

(* Configuration, metadata, events, payloads, lines and requests hold       *)
(* values of their types.                                                   *)
THEOREM EventsTypeCorrect == Spec => []TypeOK
<1>1. IInv => TypeOK
  BY DEF IInv, ConfigOK, TasksOK, Request, GoodMeta, Metas, PaidOK, EventsOK, Event, HeldOK,
         BookedOK, TypeOK
<1> QED
  BY <1>1, EventsInductive, PTL

(* A payload the worker has to refuse was in the queue or in its hand. *)
HeldFromQueue ==
    \A i \in Invoices :
        i \in DOMAIN held' /\ ~Valid(held'[i]) =>
            Refused(event[i]) \/ (i \in DOMAIN held /\ ~Valid(held[i]))

(* A status that does not make an event claimable refuses none anew. *)
LEMMA StatusRefuses ==
    ASSUME IInv, NEW i \in Invoices, NEW s, SetStatus(i, s),
           s \in {"pending", "processing"} => event[i].st \in {"pending", "processing"}
    PROVE  NoneRefused
BY DEF IInv, EventsOK, Event, SetStatus, NoneRefused, Refused

(* What is given up leaves the other payloads as they are. *)
LEMMA DropFromQueue ==
    ASSUME IInv, NEW i \in Invoices, Drop(i), i \in DOMAIN held
    PROVE  HeldFromQueue
<1>1. \A j \in DOMAIN held' : j \in DOMAIN held /\ held'[j] = held[j]
  BY RestrictIs DEF Drop, IInv, HeldOK
<1> QED
  BY <1>1 DEF HeldFromQueue

LEMMA StepKeepsValid == IInv /\ Next => NoneRefused /\ HeldFromQueue
<1> SUFFICES ASSUME IInv, Next
             PROVE  NoneRefused /\ HeldFromQueue
  OBVIOUS
<1>1. UNCHANGED event => NoneRefused
  BY DEF NoneRefused
<1>2. UNCHANGED held => HeldFromQueue
  BY DEF HeldFromQueue
<1>3. CASE Restart \/ ReplacePrintQrCodes
  BY <1>1, <1>2, <1>3 DEF Restart, ReplacePrintQrCodes, tiger
<1>4. ASSUME NEW t \in Tx, Payment(t) \/ CreateDirect(t)
      PROVE  NoneRefused /\ HeldFromQueue
  BY <1>1, <1>2, <1>4, PaymentKeeps DEF Payment, CreateDirect, tiger
<1>5. ASSUME NEW h \in Handlers, AfterCreate(h) \/ \E i \in Invoices : PrintInvoice(h, i)
      PROVE  NoneRefused /\ HeldFromQueue
  BY <1>1, <1>2, <1>5 DEF AfterCreate, PrintInvoice, tiger
<1>6. ASSUME NEW i \in Invoices, Reprint(i) \/ Reset(i)
      PROVE  NoneRefused /\ HeldFromQueue
  BY <1>2, <1>6, ReprintKeeps, ResetKeeps DEF Reprint, Reset, tiger
<1>7. ASSUME NEW i \in Invoices, Claim(i)
      PROVE  NoneRefused /\ HeldFromQueue
  <2>1. /\ event[i].st = "pending" /\ SetStatus(i, "processing")
        /\ held' = With(held, i, event[i].account)
    BY <1>7 DEF Claim
  <2>2. NoneRefused
    BY <2>1, StatusRefuses
  <2>3. /\ DOMAIN held' = DOMAIN held \cup {i} /\ held'[i] = event[i].account
        /\ \A j \in DOMAIN held \ {i} : held'[j] = held[j]
    BY <2>1 DEF With, Over
  <2>4. HeldFromQueue
    BY <2>1, <2>3 DEF HeldFromQueue, Refused
  <2> QED
    BY <2>2, <2>4
<1>8. ASSUME NEW i \in Invoices, LeaseExpires(i) \/ Book(i)
      PROVE  NoneRefused /\ HeldFromQueue
  BY <1>1, <1>2, <1>8, StatusRefuses DEF LeaseExpires, Book, tables, tiger
<1>9. ASSUME NEW i \in Invoices, Report(i) \/ WorkerCrash(i)
      PROVE  NoneRefused /\ HeldFromQueue
  <2>1. HeldFromQueue
    BY <1>9, DropFromQueue DEF Report, WorkerCrash
  <2>2. ASSUME NEW result \in {"error", "success"}, SetStatus(i, result)
        PROVE  NoneRefused
    BY <2>2, StatusRefuses
  <2>3. NoneRefused
    BY <1>1, <1>9, <2>2 DEF Report, WorkerCrash, tables
  <2> QED
    BY <2>1, <2>3
<1> QED
  BY <1>3, <1>4, <1>5, <1>6, <1>7, <1>8, <1>9 DEF Next

(* The worker is given no event it has to refuse: through saving, rewriting *)
(* under a lease, expiry, results and resets, no step makes an event        *)
(* claimable that does not pass validation (service.py:283,                 *)
(* LogoObjectsClient.cs:790).                                               *)
THEOREM OnlyValidClaimed == Spec => ClaimableIsValid
<1>1. IInv /\ [Next]_vars =>
        [\A i \in Invoices :
            /\ Refused(event'[i]) => Refused(event[i])
            /\ i \in DOMAIN held' /\ ~Valid(held'[i]) =>
                  Refused(event[i]) \/ (i \in DOMAIN held /\ ~Valid(held[i]))]_vars
  BY StepKeepsValid DEF NoneRefused, HeldFromQueue
<1> QED
  BY <1>1, EventsInductive, PTL DEF Spec, ClaimableIsValid

(* The QR a customer paid by decides the account, in the metadata, in the   *)
(* event, in the worker's hand and on the voucher, however the              *)
(* configuration changes and prints overlap in between                      *)
(* (docs/TIGER_INTEGRATION_PLAN.md:229): one entered for the code of a      *)
(* printed QR, and otherwise what the QR was given outside printing or a    *)
(* print of its code has entered since.                                     *)
THEOREM QrDecidesAccount == Spec => []AccountFollowsCode
<1>1. IInv => AccountFollowsCode
  BY DEF IInv, GoodMeta, EventsOK, GoodEvent, HeldOK, BookedOK, Copied, AccountFollowsCode
<1> QED
  BY <1>1, EventsInductive, PTL

=============================================================================
