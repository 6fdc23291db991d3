---------------------------- MODULE ProviderClient ----------------------------
(***************************************************************************)
(* The clients of the two banks, providers/mkassa.py and                   *)
(* providers/odengi.py: one HTTP request after another until one of them   *)
(* is answered for good, with timeouts and retries.  Both clients run the  *)
(* same loop; they differ in what an answer means and in the id a QR is    *)
(* created under.  A definition commented as a mutant is no part of the    *)
(* specification: it is a plausible bug that some property must catch.     *)
(*                                                                         *)
(* A request that has been sent is executed at some later time or never,   *)
(* whether or not the client still waits for its answer: neither bank is   *)
(* given anything that would let it recognise a repeated request, except   *)
(* the order id that O!Dengi requires.                                     *)
(***************************************************************************)
EXTENDS Naturals, FiniteSets

CONSTANTS
    Calls,         \* calls made, each of them once
    OpsOf,         \* what a call may be: "create", "get", "cancel"
    Qrs,           \* QRs the banks can issue
    Orders,        \* what a QR is asked for: an invoice and a print code
    OrderOf,       \* the order a QR is issued for
    Odengi,        \* orders at O!Dengi; the others are at MKassa
    Invoiced,      \* orders whose metadata name an invoice
    MaxRetries,    \* REQUEST_MAX_RETRIES
    NoQr, NoCall

ASSUME ClientAssumption ==
    /\ OpsOf \in [Calls -> SUBSET {"create", "get", "cancel"}]
    /\ OrderOf \in [Qrs -> Orders]
    /\ Odengi \subseteq Orders /\ Invoiced \subseteq Orders
    /\ MaxRetries \in Nat
    /\ NoQr \notin Qrs /\ NoCall \notin Calls
    /\ Calls \cap Orders = {}

VARIABLES
    bank,          \* the bank's record of each QR
    maker,         \* the call whose request a QR was issued to
    wire,          \* requests sent and not yet executed: call and attempt
    call           \* the local state of each call

vars == <<bank, maker, wire, call>>

-----------------------------------------------------------------------------
(* Answers over HTTP: "transient" is a status of TRANSIENT_STATUS_CODES,    *)
(* "error" any other error status, an O!Dengi payload with an error in it,  *)
(* or a body the client cannot read.  "no payments" is O!Dengi's error 63.  *)
(* The rest are successes: a QR, an accepted cancellation ("done"), or a    *)
(* status in the bank's own words.                                          *)

MKassaStatuses == {"waiting", "unknown", "canceled", "paid"}
ODengiStatuses == {"processing", "approved", "cancelled", "other", "no payments"}
Failures == {"transient", "error"}
Words == MKassaStatuses \cup ODengiStatuses \cup Failures \cup {"issued", "done"}

Answer == [word : Words, qr : Qrs \cup {NoQr}]
NoAnswer == [word |-> "none", qr |-> NoQr]
Say(w) == [word |-> w, qr |-> NoQr]

Results == {"none", "open", "error", "ok", "waiting", "unknown", "canceled", "paid"}

Call == [pc : {"idle", "send", "wait", "done"},
         op : {"none", "create", "get", "cancel"},
         order : Orders \cup {"none"},
         qr : Qrs \cup {NoQr},          \* the QR asked about, or created
         paid : BOOLEAN,                \* it was paid when the call began
         attempt : 0..MaxRetries,
         answer : Answer \cup {NoAnswer},
         result : Results]

Idle == [pc |-> "idle", op |-> "none", order |-> "none", qr |-> NoQr, paid |-> FALSE,
         attempt |-> 0, answer |-> NoAnswer, result |-> "none"]

TypeOK ==
    /\ bank \in [Qrs -> {"none", "open", "canceled", "paid"}]
    /\ maker \in [Qrs -> Calls \cup {NoCall}]
    /\ wire \subseteq Calls \X (0..MaxRetries)
    /\ call \in [Calls -> Call]

Init ==
    /\ bank = [q \in Qrs |-> "none"]
    /\ maker = [q \in Qrs |-> NoCall]
    /\ wire = {}
    /\ call = [c \in Calls |-> Idle]

-----------------------------------------------------------------------------
(* What an answer means. *)

(* Error 63 of a status call. *)
NoPayments == {"no payments"}

(* _status of the O!Dengi client; MKassa's statuses are taken as they are.  *)
StatusOf(w) ==
    CASE w = "approved" -> "paid"
      [] w = "cancelled" -> "canceled"
      [] w \in {"processing"} \cup NoPayments -> "waiting"
      [] w = "other" -> "unknown"
      [] OTHER -> w

(* Mutant: every answer of the last attempt is taken for a success. *)
ResultIgnoringStatus(c, a) ==
    IF call[c].op = "get" /\ a.word \notin Failures THEN StatusOf(a.word) ELSE "ok"

ResultOf(c, a) ==
    IF a.word \in Failures THEN "error"
    ELSE IF call[c].op = "get" THEN StatusOf(a.word)
    ELSE "ok"

(* Mutant: an order id of its own for every call. *)
FreshOrderId(c) == c

(* The id O!Dengi knows a QR by: the invoice with the print code, or a      *)
(* random one, made before the first attempt and sent with each.            *)
OrderId(c) == IF call[c].order \in Invoiced THEN call[c].order ELSE c

-----------------------------------------------------------------------------
(* The client. *)

Set(c, new) == call' = [call EXCEPT ![c] = new]

(* QRs some call has returned: only these have rows and are shown. *)
Shown == {call[c].qr : c \in {d \in Calls : call[d].op = "create" /\ call[d].result = "ok"}}

Started(c, op, o, q) ==
    Set(c, [Idle EXCEPT !.pc = "send", !.result = "open", !.op = op, !.order = o, !.qr = q,
                        !.paid = q # NoQr /\ bank[q] = "paid"])

Create(c) ==
    /\ call[c].pc = "idle" /\ "create" \in OpsOf[c]
    /\ \E o \in Orders : Started(c, "create", o, NoQr)
    /\ UNCHANGED <<bank, maker, wire>>

GetOrCancel(c) ==
    /\ call[c].pc = "idle"
    /\ \E op \in OpsOf[c] \ {"create"}, q \in Shown : Started(c, op, OrderOf[q], q)
    /\ UNCHANGED <<bank, maker, wire>>

Send(c) ==
    /\ call[c].pc = "send"
    /\ wire' = wire \cup {<<c, call[c].attempt>>}
    /\ Set(c, [call[c] EXCEPT !.pc = "wait"])
    /\ UNCHANGED <<bank, maker>>

(* Mutant: the attempts are counted one too far. *)
RetriesOnceMore(c) == call[c].attempt <= MaxRetries

MayRetry(c) == call[c].attempt < MaxRetries

(* Mutant: a retry is not counted. *)
RetryUncounted(c) == Set(c, [call[c] EXCEPT !.pc = "send", !.answer = NoAnswer])

(* The pause before the next attempt is the time it stays in "send". *)
Retry(c) == Set(c, [call[c] EXCEPT !.pc = "send", !.attempt = @ + 1, !.answer = NoAnswer])
Return(c, r, q) == Set(c, [call[c] EXCEPT !.pc = "done", !.result = r, !.qr = q,
                                          !.answer = NoAnswer])

(* An answer that is not transient ends the call, whatever it says. *)
Receive(c) ==
    LET a == call[c].answer IN
    /\ call[c].pc = "wait" /\ a # NoAnswer
    /\ IF a.word = "transient" /\ MayRetry(c)
         THEN Retry(c)
         ELSE Return(c, ResultOf(c, a), IF a.word = "issued" THEN a.qr ELSE call[c].qr)
    /\ UNCHANGED <<bank, maker, wire>>

(* A timeout or a broken connection, before the answer is read. *)
Fail(c) ==
    /\ call[c].pc = "wait"
    /\ IF MayRetry(c) THEN Retry(c) ELSE Return(c, "error", call[c].qr)
    /\ UNCHANGED <<bank, maker, wire>>

-----------------------------------------------------------------------------
(* The network and the banks. *)

(* The answer to a request reaches the client only while it still waits for *)
(* the answer to that attempt.                                              *)
Deliver(c, n, a) ==
    IF call[c].pc = "wait" /\ call[c].attempt = n
      THEN call' = [call EXCEPT ![c].answer = a]
      ELSE UNCHANGED call

(* What the bank did is one thing, what it answers another. *)
Done(w) == {Say("transient"), Say("error"), w}

(* MKassa issues a QR to every request; O!Dengi knows an order id once. *)
Issues(c, q) ==
    /\ bank[q] = "none" /\ OrderOf[q] = call[c].order
    /\ call[c].order \in Odengi =>
         \A r \in Qrs : maker[r] # NoCall /\ call[maker[r]].order \in Odengi =>
                            OrderId(maker[r]) # OrderId(c)

ExecuteCreate(c, n) ==
    /\ call[c].op = "create"
    /\ \E q \in Qrs :
          /\ Issues(c, q)
          /\ bank' = [bank EXCEPT ![q] = "open"]
          /\ maker' = [maker EXCEPT ![q] = c]
          /\ \E a \in Done([word |-> "issued", qr |-> q]) : Deliver(c, n, a)

ExecuteCancel(c, n) ==
    /\ call[c].op = "cancel"
    /\ bank[call[c].qr] \in {"open", "canceled"}
    /\ bank' = [bank EXCEPT ![call[c].qr] = "canceled"]
    /\ \E a \in Done(Say("done")) : Deliver(c, n, a)
    /\ UNCHANGED maker

(* A bank may say "waiting" for a while after it closed a QR, and O!Dengi   *)
(* finds no payments as long as nobody paid.                                *)
StatusWords(c) ==
    LET s == bank[call[c].qr] IN
    IF call[c].order \in Odengi
      THEN CASE s = "paid" -> {"approved"}
             [] s = "canceled" -> {"cancelled", "no payments"}
             [] OTHER -> {"processing", "other", "no payments"}
      ELSE CASE s = "paid" -> {"paid"}
             [] s = "canceled" -> {"canceled", "waiting"}
             [] OTHER -> {"waiting", "unknown"}

ExecuteGet(c, n) ==
    /\ call[c].op = "get"
    /\ \E w \in StatusWords(c) : \E a \in Done(Say(w)) : Deliver(c, n, a)
    /\ UNCHANGED <<bank, maker>>

(* The bank does nothing, and says so or not. *)
Refuse(c, n) ==
    /\ \E w \in Failures : Deliver(c, n, Say(w))
    /\ UNCHANGED <<bank, maker>>

Execute(c, n) ==
    /\ <<c, n>> \in wire
    /\ wire' = wire \ {<<c, n>>}
    /\ ExecuteCreate(c, n) \/ ExecuteCancel(c, n) \/ ExecuteGet(c, n) \/ Refuse(c, n)

CustomerPays(q) ==
    /\ bank[q] = "open" /\ q \in Shown
    /\ bank' = [bank EXCEPT ![q] = "paid"]
    /\ UNCHANGED <<maker, wire, call>>

Expires(q) ==
    /\ bank[q] = "open"
    /\ bank' = [bank EXCEPT ![q] = "canceled"]
    /\ UNCHANGED <<maker, wire, call>>

-----------------------------------------------------------------------------

Client(c) == Send(c) \/ Receive(c) \/ Fail(c)

Next ==
    \/ \E c \in Calls : Create(c) \/ GetOrCancel(c) \/ Client(c)
    \/ \E c \in Calls, n \in 0..MaxRetries : Execute(c, n)
    \/ \E q \in Qrs : CustomerPays(q) \/ Expires(q)

Spec == Init /\ [][Next]_vars

(* Every wait has a timeout, and every pause before a retry ends: the       *)
(* client goes on whatever the network and the bank do.                     *)
FairSpec == Spec /\ \A c \in Calls : WF_vars(Client(c))

-----------------------------------------------------------------------------
(* Properties. *)

(* However often createInvoice is sent for an invoice and print code, by    *)
(* retries or by several requests, O!Dengi holds one QR for it: the order   *)
(* id makes the call idempotent (tests/test_odengi_client.py:111).          *)
OneQrPerOrder ==
    \A q, r \in Qrs :
        /\ maker[q] # NoCall /\ maker[r] # NoCall
        /\ OrderOf[q] = OrderOf[r] /\ OrderOf[q] \in Odengi
        /\ OrderOf[q] \in Invoiced \/ maker[q] = maker[r]
        => q = r

(* A create call leaves no more QRs that nobody knows at the bank than it   *)
(* had attempts without a usable answer (mkassa.py:190, a POST is repeated).*)
UnknownQrsBounded ==
    \A c \in Calls :
        Cardinality({q \in Qrs : maker[q] = c /\ q # call[c].qr}) <=
            IF call[c].result = "ok" THEN call[c].attempt ELSE call[c].attempt + 1

(* Every call ends, so a request handler never waits for a bank for ever:   *)
(* again and again there is no call in progress.                            *)
EveryCallEnds == []<>(\A c \in Calls : call[c].pc \in {"idle", "done"})

(* The clients keep the promise the payment core relies on: answers are     *)
(* true and errors tell nothing, through retries, lost answers and requests *)
(* executed after their call has ended.                                     *)
Promise == INSTANCE BankCalls WITH
    result <- [c \in Calls |-> [state |-> call[c].result, op |-> call[c].op,
                                order |-> call[c].order, qr |-> call[c].qr,
                                paid |-> call[c].paid]]

Promised == Promise!Spec

=============================================================================
