------------------------------ MODULE BankCalls ------------------------------
(***************************************************************************)
(* What the payment core may rely on when it calls a bank: a call ends     *)
(* once, with an error or with an answer that was true while it was open.  *)
(* An error tells nothing: the bank may have done what was asked, and may  *)
(* still do it later.  PaymentGateway takes its bank for granted in this   *)
(* form (BankAnswersGet, BankAnswersCancel, AfterCreate).                  *)
(***************************************************************************)
EXTENDS Naturals

CONSTANTS
    Calls,       \* calls made, each of them once
    Qrs,         \* QRs the banks can issue
    Orders,      \* what a QR is asked for: an invoice and a print code
    OrderOf,     \* the order a QR is issued for
    NoQr

VARIABLES
    bank,        \* the bank's record of each QR
    result       \* by call: "none", "open", or how it ended

(* The call and what was known when it began. *)
Open(op, o, q, paid) == [state |-> "open", op |-> op, order |-> o, qr |-> q, paid |-> paid]

None == [state |-> "none", op |-> "none", order |-> "none", qr |-> NoQr, paid |-> FALSE]

Init ==
    /\ bank = [q \in Qrs |-> "none"]
    /\ result = [c \in Calls |-> None]

Shown == {result[c].qr : c \in {d \in Calls : result[d].op = "create" /\ result[d].state = "ok"}}

Begin(c) ==
    /\ result[c].state = "none"
    /\ \/ \E o \in Orders : result' = [result EXCEPT ![c] = Open("create", o, NoQr, FALSE)]
       \/ \E op \in {"get", "cancel"}, q \in Shown :
             result' = [result EXCEPT ![c] = Open(op, OrderOf[q], q, bank[q] = "paid")]
    /\ UNCHANGED bank

(* A QR is issued to a call that asked for its order, even after it ended. *)
Issue(q) ==
    /\ bank[q] = "none"
    /\ \E c \in Calls : result[c].op = "create" /\ result[c].order = OrderOf[q]
    /\ bank' = [bank EXCEPT ![q] = "open"]
    /\ UNCHANGED result

(* It is closed by the bank's clock or by a cancel call, and is paid only   *)
(* when a customer has seen it.                                             *)
Close(q) ==
    /\ bank[q] = "open"
    /\ bank' = [bank EXCEPT ![q] = "canceled"]
    /\ UNCHANGED result

Pay(q) ==
    /\ bank[q] = "open" /\ q \in Shown
    /\ bank' = [bank EXCEPT ![q] = "paid"]
    /\ UNCHANGED result

(* What a call may end with.  "waiting" may be late: it is only excluded    *)
(* when the QR was paid before the call began.                              *)
Truthful(c, r, q) ==
    CASE result[c].op = "create" -> /\ r = "ok" /\ q \in Qrs \ Shown
                                    /\ bank[q] # "none" /\ OrderOf[q] = result[c].order
      [] result[c].op = "cancel" -> r = "ok" /\ bank[q] = "canceled"
      [] OTHER -> /\ r \in {"waiting", "unknown", "canceled", "paid"}
                  /\ r \in {"paid", "canceled"} => bank[q] = r
                  /\ result[c].paid => r = "paid"

End(c) ==
    /\ result[c].state = "open"
    /\ LET r == result'[c].state
           q == result'[c].qr
       IN /\ r = "error" \/ Truthful(c, r, q)
          /\ q = result[c].qr \/ (result[c].op = "create" /\ r = "ok")
          /\ result' = [result EXCEPT ![c].state = r, ![c].qr = q]
    /\ UNCHANGED bank

Next ==
    \/ \E c \in Calls : Begin(c) \/ End(c)
    \/ \E q \in Qrs : Issue(q) \/ Close(q) \/ Pay(q)

Spec == Init /\ [][Next]_<<bank, result>>

=============================================================================
