------------------------- MODULE ProviderClientProofs -------------------------
(***************************************************************************)
(* Proofs about ProviderClient, for any calls, QRs, orders and retries,    *)
(* with requests and answers lost or late and banks that close QRs at any  *)
(* time: the invariants, and the refinement of BankCalls, on which the     *)
(* payment core relies.                                                    *)
(***************************************************************************)
EXTENDS ProviderClient, FiniteSetTheorems, TLAPS

USE ClientAssumption DEF ClientAssumption

(* A call that has begun has one operation and one order for good; one that *)
(* has not ended is open.                                                   *)
CallOK(me) ==
    /\ me.pc = "idle" => me = Idle
    /\ me.pc \in {"send", "wait"} => me.result = "open"
    /\ me.pc # "idle" => me.op # "none" /\ me.order \in Orders
    /\ me.op \in {"get", "cancel"} => me.qr \in Qrs /\ me.order = OrderOf[me.qr]
    /\ me.op \notin {"get", "cancel"} => ~me.paid

ControlOK == \A c \in Calls : CallOK(call[c])

(* The maker of a QR is a create call for the QR's order. *)
MakersOK ==
    \A q \in Qrs :
        maker[q] # NoCall =>
            /\ bank[q] # "none"
            /\ call[maker[q]].op = "create" /\ call[maker[q]].order = OrderOf[q]

(* O!Dengi knows each of its QRs by an order id of its own. *)
IdsDiffer ==
    \A q, r \in Qrs :
        /\ maker[q] # NoCall /\ OrderOf[q] \in Odengi
        /\ maker[r] # NoCall /\ OrderOf[r] \in Odengi
        /\ OrderId(maker[q]) = OrderId(maker[r])
        => q = r

(* What a status call has heard is still true when it is final, and says    *)
(* "paid" when the QR had been paid before the call.                        *)
Heard(me, w) ==
    /\ StatusOf(w) \in {"waiting", "unknown", "canceled", "paid"}
    /\ StatusOf(w) \in {"paid", "canceled"} => bank[me.qr] = StatusOf(w)
    /\ me.paid => StatusOf(w) = "paid"

Usable(c, me, a) ==
    \/ me.op = "create" /\ a.word = "issued" /\ a.qr \in Qrs /\ maker[a.qr] = c
    \/ me.op = "cancel" /\ a.word = "done" /\ bank[me.qr] = "canceled"
    \/ me.op = "get" /\ a.word # "issued" /\ Heard(me, a.word)

AnswerTrue(c, me) ==
    /\ me.answer = NoAnswer \/ me.answer.word \in Failures \/ Usable(c, me, me.answer)
    /\ me.paid => bank[me.qr] = "paid"
    /\ me.op = "create" /\ me.result = "ok" => me.qr \in Qrs /\ maker[me.qr] = c

AnswersTrue == \A c \in Calls : AnswerTrue(c, call[c])

(* The requests of a call: those sent, those under way, and those that made *)
(* a QR.  A request makes at most one.                                      *)
Sent(me) ==
    CASE me.pc = "idle" -> 0
      [] me.pc = "send" -> me.attempt
      [] OTHER -> me.attempt + 1

Pending(c) == {n \in 0..MaxRetries : <<c, n>> \in wire}

Made(c) == {q \in Qrs : maker[q] = c}

Counted ==
    \A c \in Calls :
        /\ IsFiniteSet(Made(c))
        /\ Cardinality(Made(c)) + Cardinality(Pending(c)) <= Sent(call[c])

IInv == TypeOK /\ ControlOK /\ MakersOK /\ IdsDiffer /\ AnswersTrue /\ Counted

-----------------------------------------------------------------------------
(* What no step undoes. *)

(* A closed or paid QR stays so, and keeps its maker. *)
Steady ==
    \A q \in Qrs :
        /\ bank[q] \in {"paid", "canceled"} => bank'[q] = bank[q]
        /\ maker[q] # NoCall => bank'[q] # "none" /\ maker'[q] = maker[q]

(* A call keeps its operation and its order. *)
CallsSteady ==
    \A c \in Calls :
        call[c].op # "none" => call'[c].op = call[c].op /\ call'[c].order = call[c].order

(* A step of one call. *)
Changes(c, me) ==
    /\ Set(c, me) /\ me \in Call /\ CallOK(me)
    /\ call[c].op # "none" => me.op = call[c].op /\ me.order = call[c].order

LEMMA AnswerStaysTrue ==
    ASSUME IInv, Steady, NEW c \in Calls, NEW me \in Call, CallOK(me), AnswerTrue(c, me)
    PROVE  AnswerTrue(c, me)'
<1>1. me.op \in {"get", "cancel"} => me.qr \in Qrs
  BY DEF CallOK
<1>2. me.paid => bank'[me.qr] = "paid"
  BY <1>1 DEF AnswerTrue, Steady, CallOK, Call
<1>3. me.op = "create" /\ me.result = "ok" => me.qr \in Qrs /\ maker'[me.qr] = c
  BY DEF AnswerTrue, Steady
<1>4. ASSUME Usable(c, me, me.answer)
      PROVE  Usable(c, me, me.answer)'
  BY <1>1, <1>4 DEF Usable, Heard, Steady
<1> QED
  BY <1>2, <1>3, <1>4 DEF AnswerTrue

LEMMA CallsStay ==
    ASSUME IInv, Steady, NEW c \in Calls, NEW me, Changes(c, me), AnswerTrue(c, me)'
    PROVE  /\ call' \in [Calls -> Call] /\ ControlOK' /\ AnswersTrue' /\ CallsSteady
           /\ \A d \in Calls : call'[d] = IF d = c THEN me ELSE call[d]
<1>1. call' = [call EXCEPT ![c] = me] /\ call \in [Calls -> Call] /\ me \in Call
  BY DEF Changes, Set, IInv, TypeOK
<1>2. \A d \in Calls : call'[d] = IF d = c THEN me ELSE call[d]
  BY <1>1
<1>3. call' \in [Calls -> Call]
  BY <1>1
<1>4. ControlOK'
  BY <1>2 DEF Changes, ControlOK, IInv
<1>5. ASSUME NEW d \in Calls
      PROVE  AnswerTrue(d, call[d])'
  <2>1. CASE d = c
    <3>1. call'[d] = me
      BY <1>2, <2>1
    <3> QED
      BY <2>1, <3>1 DEF AnswerTrue, Usable, Heard
  <2>2. CASE d # c
    <3>1. PICK you : you = call[d]
      OBVIOUS
    <3>2. you \in Call /\ CallOK(you) /\ AnswerTrue(d, you) /\ call'[d] = you
      BY <1>1, <1>2, <2>2, <3>1 DEF IInv, ControlOK, AnswersTrue
    <3>3. AnswerTrue(d, you)'
      BY <3>2, AnswerStaysTrue
    <3> QED
      BY <3>2, <3>3 DEF AnswerTrue, Usable, Heard
  <2> QED
    BY <2>1, <2>2
<1>6. CallsSteady
  BY <1>2 DEF CallsSteady, Changes
<1> QED
  BY <1>2, <1>3, <1>4, <1>5, <1>6 DEF AnswersTrue

(* The order id of a call that has begun is fixed. *)
LEMMA OrderIdStays ==
    ASSUME CallsSteady, NEW c \in Calls, call[c].op # "none"
    PROVE  OrderId(c)' = OrderId(c)
BY DEF CallsSteady, OrderId

LEMMA MakersStay ==
    ASSUME IInv, Steady, CallsSteady, UNCHANGED maker
    PROVE  MakersOK' /\ IdsDiffer'
<1>1. \A q \in Qrs : maker[q] # NoCall => maker[q] \in Calls /\ call[maker[q]].op # "none"
  BY DEF IInv, TypeOK, MakersOK
<1>2. MakersOK'
  BY <1>1 DEF IInv, MakersOK, Steady, CallsSteady
<1>3. \A q \in Qrs : maker[q] # NoCall => OrderId(maker[q])' = OrderId(maker[q])
  BY <1>1, OrderIdStays
<1>4. IdsDiffer'
  BY <1>3 DEF IInv, IdsDiffer
<1> QED
  BY <1>2, <1>4

-----------------------------------------------------------------------------
(* Counting. *)

LEMMA PendingIsFinite ==
    ASSUME NEW c
    PROVE  IsFiniteSet(Pending(c)) /\ Cardinality(Pending(c)) \in Nat
<1>1. IsFiniteSet(0..MaxRetries)
  BY FS_Interval
<1>2. Pending(c) \subseteq 0..MaxRetries
  BY DEF Pending
<1> QED
  BY <1>1, <1>2, FS_Subset, FS_CardinalityType

LEMMA SentIs == ASSUME NEW me \in Call PROVE Sent(me) \in Nat /\ Sent(me) <= me.attempt + 1
BY DEF Sent, Call

(* Nothing is made, and nothing sent, while no call forgets what it sent. *)
LEMMA CountStays ==
    ASSUME IInv, UNCHANGED maker, wire' \subseteq wire, call' \in [Calls -> Call],
           \A c \in Calls : Sent(call[c]) <= Sent(call'[c])
    PROVE  Counted'
<1> SUFFICES ASSUME NEW c \in Calls
             PROVE  /\ IsFiniteSet(Made(c)')
                    /\ Cardinality(Made(c)') + Cardinality(Pending(c)') <= Sent(call'[c])
  BY DEF Counted
<1>1. Made(c)' = Made(c) /\ Pending(c)' \subseteq Pending(c)
  BY DEF Made, Pending
<1>2. Cardinality(Pending(c)') \in Nat /\ Cardinality(Pending(c)') <= Cardinality(Pending(c))
  BY <1>1, PendingIsFinite, FS_Subset, FS_CardinalityType
<1>3. /\ IsFiniteSet(Made(c)) /\ Cardinality(Made(c)) \in Nat
      /\ Cardinality(Made(c)) + Cardinality(Pending(c)) <= Sent(call[c])
  BY FS_CardinalityType DEF IInv, Counted
<1>4. Sent(call[c]) \in Nat /\ Sent(call'[c]) \in Nat /\ Sent(call[c]) <= Sent(call'[c])
  BY SentIs DEF IInv, TypeOK
<1> QED
  BY <1>1, <1>2, <1>3, <1>4, PendingIsFinite

-----------------------------------------------------------------------------
(* The client's steps. *)

LEMMA LocalStep ==
    ASSUME IInv, NEW c \in Calls, NEW me, Changes(c, me), AnswerTrue(c, me),
           UNCHANGED <<bank, maker, wire>>, Sent(call[c]) <= Sent(me)
    PROVE  IInv'
<1>1. Steady
  BY DEF Steady, IInv, MakersOK
<1>2. AnswerTrue(c, me)'
  BY DEF AnswerTrue, Usable, Heard
<1>3. /\ call' \in [Calls -> Call] /\ ControlOK' /\ AnswersTrue' /\ CallsSteady
      /\ \A d \in Calls : call'[d] = IF d = c THEN me ELSE call[d]
  BY <1>1, <1>2, CallsStay
<1>4. MakersOK' /\ IdsDiffer'
  BY <1>1, <1>3, MakersStay
<1>5. \A d \in Calls : Sent(call[d]) <= Sent(call'[d])
  BY <1>3, SentIs DEF IInv, TypeOK
<1>6. Counted'
  BY <1>3, <1>5, CountStays
<1> QED
  BY <1>3, <1>4, <1>6 DEF IInv, TypeOK

LEMMA ShownIs ==
    ASSUME IInv
    PROVE  /\ Shown \subseteq Qrs
           /\ \A q \in Shown : maker[q] # NoCall /\ bank[q] # "none"
<1> SUFFICES ASSUME NEW c \in Calls, call[c].op = "create", call[c].result = "ok"
             PROVE  call[c].qr \in Qrs /\ maker[call[c].qr] = c /\ bank[call[c].qr] # "none"
  BY DEF Shown
<1> QED
  BY DEF IInv, AnswersTrue, AnswerTrue, MakersOK

(* What a call is when it begins. *)
LEMMA BegunIs ==
    ASSUME NEW c, NEW op \in {"create", "get", "cancel"}, NEW o \in Orders,
           NEW q \in Qrs \cup {NoQr}, Started(c, op, o, q)
    PROVE  \E me \in Call, paid \in BOOLEAN :
              /\ paid = (q # NoQr /\ bank[q] = "paid")
              /\ Set(c, me)
              /\ me.pc = "send" /\ me.op = op /\ me.order = o /\ me.qr = q /\ me.paid = paid
              /\ me.attempt = 0 /\ me.answer = NoAnswer /\ me.result = "open"
<1>1. PICK paid \in BOOLEAN : paid = (q # NoQr /\ bank[q] = "paid")
  OBVIOUS
<1>2. PICK idle : idle = Idle
  OBVIOUS
<1>3. idle \in Call /\ idle.attempt = 0 /\ idle.answer = NoAnswer
  BY <1>2 DEF Idle, Call, Results
<1>4. PICK me : me = [idle EXCEPT !.pc = "send", !.result = "open", !.op = op, !.order = o,
                                  !.qr = q, !.paid = paid]
  OBVIOUS
<1>5. Set(c, me)
  BY <1>1, <1>2, <1>4, Zenon DEF Started
<1>6. me \in Call
  BY <1>3, <1>4 DEF Call, Results
<1>7. /\ me.pc = "send" /\ me.op = op /\ me.order = o /\ me.qr = q /\ me.paid = paid
      /\ me.attempt = 0 /\ me.answer = NoAnswer /\ me.result = "open"
  BY <1>3, <1>4 DEF Call
<1> QED
  BY <1>1, <1>5, <1>6, <1>7

LEMMA BeginStep ==
    ASSUME IInv, NEW c \in Calls, call[c].pc = "idle", UNCHANGED <<bank, maker, wire>>,
           NEW op \in {"create", "get", "cancel"}, NEW o \in Orders, NEW q \in Qrs \cup {NoQr},
           Started(c, op, o, q), op = "create" <=> q = NoQr, op # "create" => o = OrderOf[q]
    PROVE  IInv'
<1>1. PICK me \in Call, paid \in BOOLEAN :
          /\ paid = (q # NoQr /\ bank[q] = "paid")
          /\ Set(c, me)
          /\ me.pc = "send" /\ me.op = op /\ me.order = o /\ me.qr = q /\ me.paid = paid
          /\ me.attempt = 0 /\ me.answer = NoAnswer /\ me.result = "open"
  BY BegunIs
<1>2. CallOK(me) /\ AnswerTrue(c, me)
  BY <1>1 DEF CallOK, AnswerTrue
<1>3. call[c] = Idle
  BY DEF IInv, ControlOK, CallOK
<1>4. call[c].op = "none" /\ Sent(call[c]) = 0 /\ Sent(me) = 0
  BY <1>1, <1>3 DEF Idle, Sent
<1> QED
  BY <1>1, <1>2, <1>4, LocalStep DEF Changes

LEMMA CreateKeeps == ASSUME IInv, NEW c \in Calls, Create(c) PROVE IInv'
BY BeginStep DEF Create

LEMMA GetOrCancelKeeps == ASSUME IInv, NEW c \in Calls, GetOrCancel(c) PROVE IInv'
<1>1. PICK op \in OpsOf[c] \ {"create"}, q \in Shown : Started(c, op, OrderOf[q], q)
  BY DEF GetOrCancel
<1>2. op \in {"get", "cancel"} /\ q \in Qrs /\ OrderOf[q] \in Orders /\ q # NoQr
  BY <1>1, ShownIs
<1> QED
  BY <1>1, <1>2, BeginStep DEF GetOrCancel

(* The call goes on: it has the same operation, order and QR. *)
LEMMA RetryIs ==
    ASSUME IInv, NEW c \in Calls, call[c].pc = "wait", MayRetry(c), Retry(c),
           UNCHANGED <<bank, maker, wire>>
    PROVE  IInv'
<1>1. PICK old : old = call[c]
  OBVIOUS
<1>2. /\ old \in Call /\ CallOK(old) /\ AnswerTrue(c, old) /\ old.pc = "wait"
      /\ old.attempt < MaxRetries
  BY <1>1 DEF IInv, TypeOK, ControlOK, AnswersTrue, MayRetry
<1>3. PICK me : me = [old EXCEPT !.pc = "send", !.attempt = old.attempt + 1, !.answer = NoAnswer]
  OBVIOUS
<1>4. Set(c, me)
  BY <1>1, <1>3 DEF Retry
<1>5. /\ me.pc = "send" /\ me.attempt = old.attempt + 1 /\ me.answer = NoAnswer
      /\ me.op = old.op /\ me.order = old.order /\ me.qr = old.qr /\ me.paid = old.paid
      /\ me.result = old.result
  BY <1>2, <1>3 DEF Call
<1>6. me \in Call
  <2>1. old.attempt + 1 \in 0..MaxRetries
    BY <1>2 DEF Call
  <2>2. PICK n \in 0..MaxRetries : n = old.attempt + 1
    BY <2>1
  <2>3. me = [old EXCEPT !.pc = "send", !.attempt = n, !.answer = NoAnswer]
    BY <1>3, <2>2
  <2> QED
    BY <1>2, <2>3 DEF Call
<1>7. CallOK(me) /\ AnswerTrue(c, me)
  BY <1>2, <1>5 DEF CallOK, AnswerTrue
<1>8. Sent(old) = old.attempt + 1 /\ Sent(me) = old.attempt + 1 /\ Sent(me) \in Nat
  BY <1>2, <1>5 DEF Sent, Call
<1> QED
  BY <1>1, <1>4, <1>5, <1>6, <1>7, <1>8, LocalStep DEF Changes

(* The call ends, and its result is what AnswerTrue allows. *)
LEMMA ReturnIs ==
    ASSUME IInv, NEW c \in Calls, call[c].pc = "wait", UNCHANGED <<bank, maker, wire>>,
           NEW r \in Results, NEW q \in Qrs \cup {NoQr}, Return(c, r, q),
           call[c].op # "create" => q = call[c].qr,
           call[c].op = "create" /\ r = "ok" => q \in Qrs /\ maker[q] = c
    PROVE  IInv'
<1>1. PICK old : old = call[c]
  OBVIOUS
<1>2. old \in Call /\ CallOK(old) /\ AnswerTrue(c, old) /\ old.pc = "wait"
  BY <1>1 DEF IInv, TypeOK, ControlOK, AnswersTrue
<1>3. PICK me : me = [old EXCEPT !.pc = "done", !.result = r, !.qr = q, !.answer = NoAnswer]
  OBVIOUS
<1>4. Set(c, me)
  BY <1>1, <1>3 DEF Return
<1>5. /\ me.pc = "done" /\ me.attempt = old.attempt /\ me.answer = NoAnswer
      /\ me.op = old.op /\ me.order = old.order /\ me.qr = q /\ me.paid = old.paid
      /\ me.result = r
  BY <1>2, <1>3 DEF Call
<1>6. me \in Call
  BY <1>2, <1>3 DEF Call
<1>7. old.paid => old.op # "create"
  BY <1>2 DEF CallOK, Call
<1>8. CallOK(me) /\ AnswerTrue(c, me)
  BY <1>1, <1>2, <1>5, <1>7 DEF CallOK, AnswerTrue
<1>9. Sent(old) = old.attempt + 1 /\ Sent(me) = old.attempt + 1 /\ Sent(me) \in Nat
  BY <1>2, <1>5 DEF Sent, Call
<1> QED
  BY <1>1, <1>4, <1>5, <1>6, <1>8, <1>9, LocalStep DEF Changes

(* How a call may end. *)
Told(c, r, q) ==
    \/ r = "error" /\ q = call[c].qr
    \/ call[c].op = "create" /\ r = "ok" /\ q \in Qrs /\ maker[q] = c
    \/ call[c].op = "cancel" /\ r = "ok" /\ q = call[c].qr /\ bank[q] = "canceled"
    \/ /\ call[c].op = "get" /\ q = call[c].qr
       /\ r \in {"waiting", "unknown", "canceled", "paid"}
       /\ r \in {"paid", "canceled"} => bank[q] = r
       /\ call[c].paid => r = "paid"

LEMMA AnswerTells ==
    ASSUME IInv, NEW c \in Calls, Receive(c),
           ~(call[c].answer.word = "transient" /\ MayRetry(c))
    PROVE  \E r \in Results, q \in Qrs \cup {NoQr} : Return(c, r, q) /\ Told(c, r, q)
<1>1. PICK old : old = call[c]
  OBVIOUS
<1>2. PICK a : a = old.answer
  OBVIOUS
<1>3. PICK q : q = IF a.word = "issued" THEN a.qr ELSE old.qr
  OBVIOUS
<1>4. old \in Call /\ AnswerTrue(c, old) /\ a \in Answer /\ a # NoAnswer
  BY <1>1, <1>2 DEF IInv, TypeOK, AnswersTrue, Receive, Call
<1>5. Return(c, ResultOf(c, a), q)
  BY <1>1, <1>2, <1>3 DEF Receive
<1>6. a.word \in Failures \/ Usable(c, old, a)
  BY <1>2, <1>4 DEF AnswerTrue
<1>7. q \in Qrs \cup {NoQr}
  BY <1>3, <1>4 DEF Answer, Call
<1>8. CASE a.word \in Failures
  <2>1. ResultOf(c, a) = "error" /\ q = old.qr
    BY <1>3, <1>8 DEF ResultOf, Failures
  <2> QED
    BY <1>1, <1>5, <1>7, <2>1 DEF Results, Told
<1>9. CASE a.word \notin Failures /\ old.op = "get"
  <2>1. ResultOf(c, a) = StatusOf(a.word) /\ q = old.qr
    BY <1>1, <1>3, <1>6, <1>9 DEF ResultOf, Usable
  <2>2. Heard(old, a.word)
    BY <1>6, <1>9 DEF Usable
  <2> QED
    BY <1>1, <1>5, <1>7, <1>9, <2>1, <2>2 DEF Results, Told, Heard
<1>10. CASE a.word \notin Failures /\ old.op # "get"
  <2>1. ResultOf(c, a) = "ok"
    BY <1>1, <1>10 DEF ResultOf
  <2>2. Told(c, "ok", q)
    BY <1>1, <1>3, <1>6, <1>10 DEF Usable, Told
  <2> QED
    BY <1>5, <1>7, <2>1, <2>2 DEF Results
<1> QED
  BY <1>8, <1>9, <1>10

LEMMA ReceiveKeeps == ASSUME IInv, NEW c \in Calls, Receive(c) PROVE IInv'
<1>1. CASE call[c].answer.word = "transient" /\ MayRetry(c)
  BY <1>1, RetryIs DEF Receive
<1>2. CASE ~(call[c].answer.word = "transient" /\ MayRetry(c))
  <2>1. PICK r \in Results, q \in Qrs \cup {NoQr} : Return(c, r, q) /\ Told(c, r, q)
    BY <1>2, AnswerTells
  <2> QED
    BY <2>1, ReturnIs DEF Receive, Told
<1> QED
  BY <1>1, <1>2

LEMMA FailKeeps == ASSUME IInv, NEW c \in Calls, Fail(c) PROVE IInv'
<1>1. CASE MayRetry(c)
  BY <1>1, RetryIs DEF Fail
<1>2. CASE ~MayRetry(c)
  <2>1. call[c].qr \in Qrs \cup {NoQr} /\ "error" \in Results
    BY DEF IInv, TypeOK, Call, Results
  <2> QED
    BY <1>2, <2>1, ReturnIs DEF Fail
<1> QED
  BY <1>1, <1>2

LEMMA SendKeeps == ASSUME IInv, NEW c \in Calls, Send(c) PROVE IInv'
<1>1. PICK old : old = call[c]
  OBVIOUS
<1>2. old \in Call /\ CallOK(old) /\ AnswerTrue(c, old) /\ old.pc = "send"
  BY <1>1 DEF IInv, TypeOK, ControlOK, AnswersTrue, Send
<1>3. PICK me : me = [old EXCEPT !.pc = "wait"]
  OBVIOUS
<1>4. /\ me \in Call /\ me.pc = "wait" /\ me.attempt = old.attempt /\ me.answer = old.answer
      /\ me.op = old.op /\ me.order = old.order /\ me.qr = old.qr /\ me.paid = old.paid
      /\ me.result = old.result
  BY <1>2, <1>3 DEF Call
<1>5. Changes(c, me)
  BY <1>1, <1>2, <1>3, <1>4 DEF Changes, Send, CallOK
<1>6. Steady
  BY DEF Steady, IInv, MakersOK, Send
<1>7. AnswerTrue(c, me)'
  BY <1>2, <1>4 DEF AnswerTrue, Usable, Heard, Send
<1>8. /\ call' \in [Calls -> Call] /\ ControlOK' /\ AnswersTrue' /\ CallsSteady
      /\ \A d \in Calls : call'[d] = IF d = c THEN me ELSE call[d]
  BY <1>5, <1>6, <1>7, CallsStay
<1>9. MakersOK' /\ IdsDiffer'
  BY <1>6, <1>8, MakersStay DEF Send
<1>10. Sent(old) = old.attempt /\ Sent(me) = old.attempt + 1 /\ old.attempt \in 0..MaxRetries
  BY <1>2, <1>4 DEF Sent, Call
<1>11. wire' \subseteq Calls \X (0..MaxRetries)
  BY <1>1, <1>10 DEF IInv, TypeOK, Send
<1>12. ASSUME NEW d \in Calls
       PROVE  /\ IsFiniteSet(Made(d)')
              /\ Cardinality(Made(d)') + Cardinality(Pending(d)') <= Sent(call'[d])
  <2>1. /\ Made(d)' = Made(d) /\ IsFiniteSet(Made(d)) /\ Cardinality(Made(d)) \in Nat
        /\ Cardinality(Made(d)) + Cardinality(Pending(d)) <= Sent(call[d])
    BY FS_CardinalityType DEF IInv, Counted, Made, Send
  <2>2. CASE d # c
    <3>1. Pending(d)' = Pending(d) /\ call'[d] = call[d]
      BY <1>8, <2>2 DEF Pending, Send
    <3> QED
      BY <2>1, <3>1
  <2>3. CASE d = c
    <3>1. Pending(c)' \subseteq Pending(c) \cup {old.attempt}
      BY <1>1 DEF Pending, Send
    <3>2. /\ IsFiniteSet(Pending(c)) /\ Cardinality(Pending(c)) \in Nat
          /\ IsFiniteSet(Pending(c) \cup {old.attempt})
          /\ Cardinality(Pending(c) \cup {old.attempt}) \in Nat
          /\ Cardinality(Pending(c) \cup {old.attempt}) <= Cardinality(Pending(c)) + 1
      BY PendingIsFinite, FS_AddElement, FS_CardinalityType
    <3>3. /\ Cardinality(Pending(c)') \in Nat
          /\ Cardinality(Pending(c)') <= Cardinality(Pending(c) \cup {old.attempt})
      BY <3>1, <3>2, FS_Subset, FS_CardinalityType
    <3>4. call'[c] = me
      BY <1>8
    <3> QED
      BY <1>1, <1>10, <2>1, <2>3, <3>2, <3>3, <3>4
  <2> QED
    BY <2>2, <2>3
<1> QED
  BY <1>8, <1>9, <1>11, <1>12 DEF IInv, TypeOK, Counted, Send

-----------------------------------------------------------------------------
(* The requests executed. *)

(* Only the answer of the call that waits for it may change. *)
LEMMA DeliverIs ==
    ASSUME IInv, NEW c \in Calls, NEW n, NEW a \in Answer, Deliver(c, n, a)
    PROVE  \E me \in Call :
              /\ Changes(c, me)
              /\ me.pc = call[c].pc /\ me.attempt = call[c].attempt
              /\ me.op = call[c].op /\ me.order = call[c].order /\ me.qr = call[c].qr
              /\ me.paid = call[c].paid /\ me.result = call[c].result
              /\ me.answer \in {call[c].answer, a}
<1>1. PICK old : old = call[c]
  OBVIOUS
<1>2. old \in Call /\ CallOK(old) /\ call \in [Calls -> Call]
  BY <1>1 DEF IInv, TypeOK, ControlOK
<1>3. CASE old.pc = "wait" /\ old.attempt = n
  <2>1. PICK me : me = [old EXCEPT !.answer = a]
    OBVIOUS
  <2>2. /\ me \in Call /\ me.pc = "wait" /\ me.attempt = old.attempt /\ me.answer = a
        /\ me.op = old.op /\ me.order = old.order /\ me.qr = old.qr /\ me.paid = old.paid
        /\ me.result = old.result
    BY <1>2, <1>3, <2>1 DEF Call
  <2>3. CallOK(me)
    BY <1>2, <1>3, <2>2 DEF CallOK
  <2>4. Set(c, me)
    BY <1>1, <1>2, <1>3, <2>1 DEF Set, Deliver
  <2> QED
    BY <1>1, <1>3, <2>2, <2>3, <2>4 DEF Changes
<1>4. CASE ~(old.pc = "wait" /\ old.attempt = n)
  <2>1. Set(c, old)
    BY <1>1, <1>2, <1>4 DEF Set, Deliver
  <2> QED
    BY <1>1, <1>2, <2>1 DEF Changes
<1> QED
  BY <1>3, <1>4

LEMMA Delivered ==
    ASSUME IInv, Steady, NEW c \in Calls, NEW n, NEW a \in Answer, Deliver(c, n, a),
           NEW old, old = call[c], a.word \in Failures \/ Usable(c, old, a)'
    PROVE  /\ call' \in [Calls -> Call] /\ ControlOK' /\ AnswersTrue' /\ CallsSteady
           /\ \A d \in Calls : Sent(call'[d]) = Sent(call[d])
<1>1. PICK me \in Call :
          /\ Changes(c, me)
          /\ me.pc = old.pc /\ me.attempt = old.attempt
          /\ me.op = old.op /\ me.order = old.order /\ me.qr = old.qr
          /\ me.paid = old.paid /\ me.result = old.result
          /\ me.answer \in {old.answer, a}
  BY DeliverIs
<1>2. AnswerTrue(c, old)'
  <2>1. old \in Call /\ CallOK(old) /\ AnswerTrue(c, old)
    BY DEF IInv, TypeOK, ControlOK, AnswersTrue
  <2> QED
    BY <2>1, AnswerStaysTrue
<1>3. AnswerTrue(c, me)'
  BY <1>1, <1>2 DEF AnswerTrue, Usable, Heard
<1>4. /\ call' \in [Calls -> Call] /\ ControlOK' /\ AnswersTrue' /\ CallsSteady
      /\ \A d \in Calls : call'[d] = IF d = c THEN me ELSE call[d]
  BY <1>1, <1>3, CallsStay
<1>5. Sent(me) = Sent(old)
  BY <1>1 DEF Sent
<1> QED
  BY <1>4, <1>5

LEMMA SayIs ==
    /\ \A w \in Words : Say(w) \in Answer /\ Say(w).word = w
    /\ \A w, a : a \in Done(w) => a = w \/ (a \in Answer /\ a.word \in Failures)
BY DEF Say, Done, Answer, Words, Failures

(* A request that makes no QR. *)
LEMMA ExecuteStep ==
    ASSUME IInv, Steady, NEW c \in Calls, NEW n, NEW a \in Answer, Deliver(c, n, a),
           NEW old, old = call[c], a.word \in Failures \/ Usable(c, old, a)',
           bank' \in [Qrs -> {"none", "open", "canceled", "paid"}],
           UNCHANGED maker, wire' = wire \ {<<c, n>>}
    PROVE  IInv'
<1>1. /\ call' \in [Calls -> Call] /\ ControlOK' /\ AnswersTrue' /\ CallsSteady
      /\ \A d \in Calls : Sent(call'[d]) = Sent(call[d])
  BY Delivered
<1>2. MakersOK' /\ IdsDiffer'
  BY <1>1, MakersStay
<1>3. Counted'
  <2>1. \A d \in Calls : Sent(call[d]) <= Sent(call'[d])
    BY <1>1, SentIs DEF IInv, TypeOK
  <2> QED
    BY <1>1, <2>1, CountStays
<1> QED
  BY <1>1, <1>2, <1>3 DEF IInv, TypeOK

LEMMA CancelKeeps ==
    ASSUME IInv, NEW c \in Calls, NEW n, ExecuteCancel(c, n), wire' = wire \ {<<c, n>>}
    PROVE  IInv'
<1>1. PICK old : old = call[c]
  OBVIOUS
<1>2. old \in Call /\ old.op = "cancel" /\ old.qr \in Qrs
  BY <1>1 DEF IInv, TypeOK, ControlOK, CallOK, ExecuteCancel
<1>3. /\ bank' = [bank EXCEPT ![old.qr] = "canceled"] /\ UNCHANGED maker
      /\ bank[old.qr] \in {"open", "canceled"}
  BY <1>1 DEF ExecuteCancel
<1>4. Steady /\ bank' \in [Qrs -> {"none", "open", "canceled", "paid"}]
  BY <1>2, <1>3 DEF IInv, TypeOK, MakersOK, Steady
<1>5. PICK a \in Done(Say("done")) : Deliver(c, n, a)
  BY DEF ExecuteCancel
<1>6. "done" \in Words
  BY DEF Words
<1>7. a \in Answer /\ (a.word \in Failures \/ a.word = "done")
  BY <1>5, <1>6, SayIs
<1>8. bank'[old.qr] = "canceled"
  BY <1>2, <1>3 DEF IInv, TypeOK
<1>9. a.word \in Failures \/ Usable(c, old, a)'
  BY <1>2, <1>7, <1>8 DEF Usable
<1> QED
  BY <1>1, <1>3, <1>4, <1>5, <1>7, <1>9, ExecuteStep

LEMMA StatusIsHeard ==
    ASSUME IInv, NEW c \in Calls, call[c].op = "get", NEW w \in StatusWords(c)
    PROVE  w \in Words /\ w # "issued" /\ Heard(call[c], w)
<1>1. call[c].qr \in Qrs /\ (call[c].paid => bank[call[c].qr] = "paid")
  BY DEF IInv, ControlOK, CallOK, AnswersTrue, AnswerTrue
<1>2. w \in Words /\ w # "issued"
  BY DEF StatusWords, Words, MKassaStatuses, ODengiStatuses
<1>3. CASE bank[call[c].qr] = "paid"
  <2>1. w \in {"approved", "paid"}
    BY <1>3 DEF StatusWords
  <2>2. StatusOf(w) = "paid"
    BY <2>1 DEF StatusOf, NoPayments
  <2> QED
    BY <1>2, <1>3, <2>2 DEF Heard
<1>4. CASE bank[call[c].qr] = "canceled"
  <2>1. w \in {"cancelled", "no payments", "canceled", "waiting"}
    BY <1>4 DEF StatusWords
  <2>2. StatusOf(w) \in {"canceled", "waiting"}
    BY <2>1 DEF StatusOf, NoPayments
  <2> QED
    BY <1>1, <1>2, <1>4, <2>2 DEF Heard
<1>5. CASE bank[call[c].qr] \notin {"paid", "canceled"}
  <2>1. w \in {"processing", "other", "no payments", "waiting", "unknown"}
    BY <1>5 DEF StatusWords
  <2>2. StatusOf(w) \in {"unknown", "waiting"}
    BY <2>1 DEF StatusOf, NoPayments
  <2> QED
    BY <1>1, <1>2, <1>5, <2>2 DEF Heard
<1> QED
  BY <1>3, <1>4, <1>5

LEMMA GetKeeps ==
    ASSUME IInv, NEW c \in Calls, NEW n, ExecuteGet(c, n), wire' = wire \ {<<c, n>>}
    PROVE  IInv'
<1>1. PICK old : old = call[c]
  OBVIOUS
<1>2. PICK w \in StatusWords(c) : \E a \in Done(Say(w)) : Deliver(c, n, a)
  BY DEF ExecuteGet
<1> PICK a \in Done(Say(w)) : Deliver(c, n, a)
  BY <1>2
<1>3. /\ old.op = "get" /\ w \in Words /\ w # "issued" /\ Heard(old, w)
      /\ UNCHANGED <<bank, maker>>
  BY <1>1, <1>2, StatusIsHeard DEF ExecuteGet
<1>4. a \in Answer /\ (a.word \in Failures \/ a.word = w)
  BY <1>2, <1>3, SayIs
<1>5. a.word \in Failures \/ Usable(c, old, a)'
  BY <1>3, <1>4 DEF Usable, Heard
<1>6. Steady /\ bank' \in [Qrs -> {"none", "open", "canceled", "paid"}]
  BY <1>3 DEF IInv, TypeOK, MakersOK, Steady
<1> QED
  BY <1>1, <1>3, <1>4, <1>5, <1>6, ExecuteStep

LEMMA RefuseKeeps ==
    ASSUME IInv, NEW c \in Calls, NEW n, Refuse(c, n), wire' = wire \ {<<c, n>>}
    PROVE  IInv'
<1>1. PICK old : old = call[c]
  OBVIOUS
<1>2. PICK w \in Failures : Deliver(c, n, Say(w))
  BY DEF Refuse
<1>3. Say(w) \in Answer /\ Say(w).word \in Failures
  BY <1>2, SayIs DEF Words
<1>4. UNCHANGED <<bank, maker>>
  BY DEF Refuse
<1>5. Steady /\ bank' \in [Qrs -> {"none", "open", "canceled", "paid"}]
  BY <1>4 DEF IInv, TypeOK, MakersOK, Steady
<1> QED
  BY <1>1, <1>2, <1>3, <1>4, <1>5, ExecuteStep

(* A QR is issued, to a call that asked for its order. *)
LEMMA CreateExecutedKeeps ==
    ASSUME IInv, NEW c \in Calls, NEW n \in 0..MaxRetries, <<c, n>> \in wire,
           ExecuteCreate(c, n), wire' = wire \ {<<c, n>>}
    PROVE  IInv'
<1>1. PICK old : old = call[c]
  OBVIOUS
<1>2. old.op = "create"
  BY <1>1 DEF ExecuteCreate
<1>3. PICK q \in Qrs :
         /\ Issues(c, q)
         /\ bank' = [bank EXCEPT ![q] = "open"]
         /\ maker' = [maker EXCEPT ![q] = c]
         /\ \E a \in Done([word |-> "issued", qr |-> q]) : Deliver(c, n, a)
  BY DEF ExecuteCreate
<1>4. PICK a \in Done([word |-> "issued", qr |-> q]) : Deliver(c, n, a)
  BY <1>3
<1>5. /\ bank[q] = "none" /\ maker[q] = NoCall /\ OrderOf[q] = old.order
      /\ bank' \in [Qrs -> {"none", "open", "canceled", "paid"}]
      /\ maker' \in [Qrs -> Calls \cup {NoCall}]
      /\ \A r \in Qrs : /\ bank'[r] = IF r = q THEN "open" ELSE bank[r]
                        /\ maker'[r] = IF r = q THEN c ELSE maker[r]
  BY <1>1, <1>3 DEF IInv, TypeOK, MakersOK, Issues
<1>6. Steady
  BY <1>5 DEF IInv, MakersOK, Steady
<1>7. [word |-> "issued", qr |-> q] \in Answer
  BY DEF Answer, Words
<1>8. a \in Answer /\ (a.word \in Failures \/ (a.word = "issued" /\ a.qr = q))
  BY <1>4, <1>7, SayIs
<1>9. a.word \in Failures \/ Usable(c, old, a)'
  BY <1>2, <1>5, <1>8 DEF Usable
<1>10. /\ call' \in [Calls -> Call] /\ ControlOK' /\ AnswersTrue' /\ CallsSteady
       /\ \A d \in Calls : Sent(call'[d]) = Sent(call[d])
  BY <1>1, <1>4, <1>6, <1>8, <1>9, Delivered
<1>11. MakersOK'
  <2>1. call'[c].op = "create" /\ call'[c].order = OrderOf[q]
    BY <1>1, <1>2, <1>5, <1>10 DEF CallsSteady
  <2>2. ASSUME NEW r \in Qrs, r # q, maker[r] # NoCall
        PROVE  /\ bank'[r] # "none" /\ maker[r] \in Calls
               /\ call'[maker[r]].op = "create" /\ call'[maker[r]].order = OrderOf[r]
    BY <1>5, <1>10, <2>2 DEF IInv, TypeOK, MakersOK, CallsSteady
  <2> QED
    BY <1>5, <2>1, <2>2 DEF MakersOK
<1>12. IdsDiffer'
  <2>1. OrderId(c)' = OrderId(c)
    BY <1>1, <1>2, <1>10, OrderIdStays
  <2>2. ASSUME NEW r \in Qrs, NEW d, d = maker[r], d # NoCall
        PROVE  /\ OrderId(d)' = OrderId(d)
               /\ OrderOf[q] \in Odengi /\ OrderOf[r] \in Odengi => OrderId(d) # OrderId(c)
    <3>1. d \in Calls /\ call[d].op = "create" /\ call[d].order = OrderOf[r]
      BY <2>2 DEF IInv, TypeOK, MakersOK
    <3>2. OrderId(d)' = OrderId(d)
      BY <3>1, <1>10, OrderIdStays
    <3> QED
      BY <1>1, <1>3, <1>5, <2>2, <3>1, <3>2 DEF Issues
  <2> SUFFICES ASSUME NEW r \in Qrs, NEW s \in Qrs,
                      maker'[r] # NoCall, OrderOf[r] \in Odengi,
                      maker'[s] # NoCall, OrderOf[s] \in Odengi,
                      (OrderId(maker[r]) = OrderId(maker[s]))'
               PROVE  r = s
    BY DEF IdsDiffer
  <2>3. PICK d, e : d = maker'[r] /\ e = maker'[s]
    OBVIOUS
  <2>4. OrderId(d)' = OrderId(e)'
    BY <2>3 DEF OrderId
  <2>5. CASE r = q \/ s = q
    BY <1>5, <2>1, <2>2, <2>3, <2>4, <2>5
  <2>6. CASE r # q /\ s # q
    <3>1. OrderId(maker[r]) = OrderId(maker[s])
      BY <1>5, <2>2, <2>3, <2>4, <2>6
    <3> QED
      BY <1>5, <2>6, <3>1 DEF IInv, IdsDiffer
  <2> QED
    BY <2>5, <2>6
<1>13. ASSUME NEW d \in Calls
       PROVE  /\ IsFiniteSet(Made(d)')
              /\ Cardinality(Made(d)') + Cardinality(Pending(d)') <= Sent(call'[d])
  <2>1. /\ IsFiniteSet(Made(d)) /\ Cardinality(Made(d)) \in Nat
        /\ Cardinality(Made(d)) + Cardinality(Pending(d)) <= Sent(call[d])
        /\ IsFiniteSet(Pending(d)) /\ Cardinality(Pending(d)) \in Nat
        /\ Sent(call'[d]) = Sent(call[d]) /\ Sent(call[d]) \in Nat
    BY <1>10, FS_CardinalityType, PendingIsFinite, SentIs DEF IInv, TypeOK, Counted
  <2>2. CASE d # c
    <3>1. Made(d)' = Made(d) /\ Pending(d)' = Pending(d)
      BY <1>5, <2>2 DEF Made, Pending
    <3> QED
      BY <2>1, <3>1
  <2>3. CASE d = c
    <3>1. Made(d)' = Made(d) \cup {q} /\ q \notin Made(d)
      BY <1>5, <2>3 DEF Made
    <3>2. Pending(d)' = Pending(d) \ {n} /\ n \in Pending(d)
      BY <2>3 DEF Pending
    <3>3. IsFiniteSet(Made(d)') /\ Cardinality(Made(d)') = Cardinality(Made(d)) + 1
      BY <2>1, <3>1, FS_AddElement
    <3>4. Cardinality(Pending(d)') = Cardinality(Pending(d)) - 1
      BY <2>1, <3>2, FS_RemoveElement
    <3> QED
      BY <2>1, <3>3, <3>4
  <2> QED
    BY <2>2, <2>3
<1> QED
  BY <1>5, <1>10, <1>11, <1>12, <1>13 DEF IInv, TypeOK, Counted

LEMMA ExecuteKeeps ==
    ASSUME IInv, NEW c \in Calls, NEW n \in 0..MaxRetries, Execute(c, n)
    PROVE  IInv'
<1>1. CASE ExecuteCreate(c, n)
  BY <1>1, CreateExecutedKeeps DEF Execute
<1>2. CASE ExecuteCancel(c, n)
  BY <1>2, CancelKeeps DEF Execute
<1>3. CASE ExecuteGet(c, n)
  BY <1>3, GetKeeps DEF Execute
<1>4. CASE Refuse(c, n)
  BY <1>4, RefuseKeeps DEF Execute
<1> QED
  BY <1>1, <1>2, <1>3, <1>4 DEF Execute

(* The bank closes a QR, or takes the payment of a customer. *)
LEMMA BankStep ==
    ASSUME IInv, NEW q \in Qrs, bank[q] = "open", NEW s \in {"paid", "canceled"},
           bank' = [bank EXCEPT ![q] = s], UNCHANGED <<maker, wire, call>>
    PROVE  IInv'
<1>1. Steady /\ bank' \in [Qrs -> {"none", "open", "canceled", "paid"}]
  BY DEF IInv, TypeOK, MakersOK, Steady
<1>2. CallsSteady /\ call' \in [Calls -> Call] /\ ControlOK'
  BY DEF CallsSteady, IInv, TypeOK, ControlOK, CallOK
<1>3. AnswersTrue'
  <2>1. ASSUME NEW c \in Calls
        PROVE  AnswerTrue(c, call[c])'
    <3>1. PICK me : me = call[c]
      OBVIOUS
    <3>2. me \in Call /\ CallOK(me) /\ AnswerTrue(c, me)
      BY <3>1 DEF IInv, TypeOK, ControlOK, AnswersTrue
    <3>3. AnswerTrue(c, me)'
      BY <1>1, <3>2, AnswerStaysTrue
    <3>4. call'[c] = me
      BY <3>1
    <3> QED
      BY <3>3, <3>4 DEF AnswerTrue, Usable, Heard
  <2> QED
    BY <2>1 DEF AnswersTrue
<1>4. MakersOK' /\ IdsDiffer'
  BY <1>1, <1>2, MakersStay
<1>5. Counted'
  BY DEF IInv, Counted, Made, Pending, Sent
<1> QED
  BY <1>1, <1>2, <1>3, <1>4, <1>5 DEF IInv, TypeOK

-----------------------------------------------------------------------------
(* The invariants. *)

LEMMA InitIInv == Init => IInv
<1> SUFFICES ASSUME Init
             PROVE  IInv
  OBVIOUS
<1>1. Idle \in Call /\ CallOK(Idle) /\ Sent(Idle) = 0
  BY DEF Idle, Call, Results, CallOK, Sent
<1>2. TypeOK
  BY <1>1 DEF Init, TypeOK
<1>3. ControlOK
  BY <1>1 DEF Init, ControlOK
<1>4. AnswersTrue
  BY DEF Init, AnswersTrue, AnswerTrue, Idle
<1>5. Counted
  <2>1. \A c \in Calls : Made(c) = {} /\ Pending(c) = {} /\ Sent(call[c]) = 0
    BY <1>1 DEF Init, Made, Pending
  <2>2. ASSUME NEW c \in Calls
        PROVE  /\ IsFiniteSet(Made(c)) /\ Cardinality(Made(c)) = 0
               /\ Cardinality(Pending(c)) = 0 /\ Sent(call[c]) = 0
    BY <2>1, FS_EmptySet
  <2> QED
    BY <2>2 DEF Counted
<1> QED
  BY <1>2, <1>3, <1>4, <1>5 DEF Init, IInv, MakersOK, IdsDiffer

LEMMA NextKeepsIInv == IInv /\ [Next]_vars => IInv'
<1> SUFFICES ASSUME IInv, [Next]_vars
             PROVE  IInv'
  OBVIOUS
<1>1. ASSUME NEW c \in Calls, Create(c) \/ GetOrCancel(c)
      PROVE  IInv'
  BY <1>1, CreateKeeps, GetOrCancelKeeps
<1>2. ASSUME NEW c \in Calls, Client(c)
      PROVE  IInv'
  BY <1>2, SendKeeps, ReceiveKeeps, FailKeeps DEF Client
<1>3. ASSUME NEW c \in Calls, NEW n \in 0..MaxRetries, Execute(c, n)
      PROVE  IInv'
  BY <1>3, ExecuteKeeps
<1>4. ASSUME NEW q \in Qrs, CustomerPays(q) \/ Expires(q)
      PROVE  IInv'
  BY <1>4, BankStep DEF CustomerPays, Expires
<1>5. CASE UNCHANGED vars
  BY <1>5 DEF vars, IInv, TypeOK, ControlOK, CallOK, MakersOK, IdsDiffer, OrderId,
              AnswersTrue, AnswerTrue, Usable, Heard, Counted, Made, Pending, Sent
<1> QED
  BY <1>1, <1>2, <1>3, <1>4, <1>5 DEF Next

LEMMA SpecIInv == Spec => []IInv
BY InitIInv, NextKeepsIInv, PTL DEF Spec

(* Calls, answers and the banks' records keep their types, and a call is    *)
(* never sent more often than REQUEST_MAX_RETRIES allows.                   *)
THEOREM ClientTypeCorrect == Spec => []TypeOK
<1>1. IInv => TypeOK
  BY DEF IInv
<1> QED
  BY <1>1, SpecIInv, PTL

(* O!Dengi holds one QR for an invoice and print code, however many calls   *)
(* and retries asked for it, and one for every call without an invoice.     *)
THEOREM OdengiIsIdempotent == Spec => []OneQrPerOrder
<1>1. ASSUME IInv
      PROVE  OneQrPerOrder
  <2> SUFFICES ASSUME NEW q \in Qrs, NEW r \in Qrs, maker[q] # NoCall, maker[r] # NoCall,
                      OrderOf[q] = OrderOf[r], OrderOf[q] \in Odengi,
                      OrderOf[q] \in Invoiced \/ maker[q] = maker[r]
               PROVE  q = r
    BY DEF OneQrPerOrder
  <2>1. /\ call[maker[q]].order = OrderOf[q] /\ call[maker[r]].order = OrderOf[r]
    BY <1>1 DEF IInv, MakersOK
  <2>2. OrderId(maker[q]) = OrderId(maker[r])
    BY <2>1 DEF OrderId
  <2> QED
    BY <1>1, <2>2 DEF IInv, IdsDiffer
<1> QED
  BY <1>1, SpecIInv, PTL

(* A create call leaves no more QRs nobody knows at a bank than it had      *)
(* attempts without a usable answer.                                        *)
THEOREM UnknownQrsAreFew == Spec => []UnknownQrsBounded
<1>1. ASSUME IInv
      PROVE  UnknownQrsBounded
  <2> SUFFICES ASSUME NEW c \in Calls
               PROVE  Cardinality({q \in Qrs : maker[q] = c /\ q # call[c].qr}) <=
                        IF call[c].result = "ok" THEN call[c].attempt ELSE call[c].attempt + 1
    BY DEF UnknownQrsBounded
  <2>1. PICK left : left = {q \in Qrs : maker[q] = c /\ q # call[c].qr}
    OBVIOUS
  <2>2. left = Made(c) \ {call[c].qr}
    BY <2>1 DEF Made
  <2>3. /\ IsFiniteSet(Made(c)) /\ Cardinality(Made(c)) \in Nat
        /\ IsFiniteSet(left) /\ Cardinality(left) \in Nat
        /\ Cardinality(left) <= Cardinality(Made(c))
    BY <1>1, <2>2, FS_Subset, FS_CardinalityType DEF IInv, Counted
  <2>4. Cardinality(Made(c)) <= call[c].attempt + 1 /\ call[c].attempt \in Nat
    <3>1. /\ Cardinality(Made(c)) + Cardinality(Pending(c)) <= Sent(call[c])
          /\ Cardinality(Pending(c)) \in Nat
      BY <1>1, PendingIsFinite DEF IInv, Counted
    <3>2. /\ Sent(call[c]) \in Nat /\ Sent(call[c]) <= call[c].attempt + 1
          /\ call[c].attempt \in Nat
      BY <1>1, SentIs DEF IInv, TypeOK, Call
    <3> QED
      BY <2>3, <3>1, <3>2
  <2>5. CASE call[c].result = "ok" /\ call[c].op = "create"
    <3>1. call[c].qr \in Made(c)
      BY <1>1, <2>5 DEF IInv, AnswersTrue, AnswerTrue, Made
    <3>2. Cardinality(left) = Cardinality(Made(c)) - 1
      BY <2>2, <2>3, <3>1, FS_RemoveElement
    <3> QED
      BY <2>1, <2>3, <2>4, <2>5, <3>2
  <2>6. CASE call[c].op # "create"
    <3>1. left = {}
      BY <1>1, <2>1, <2>6 DEF IInv, TypeOK, MakersOK
    <3>2. Cardinality(left) = 0
      BY <3>1, FS_EmptySet
    <3> QED
      BY <2>1, <2>4, <3>2
  <2>7. CASE call[c].result # "ok"
    BY <2>1, <2>3, <2>4, <2>7
  <2> QED
    BY <2>5, <2>6, <2>7
<1> QED
  BY <1>1, SpecIInv, PTL

-----------------------------------------------------------------------------
(* The promise the payment core relies on. *)

(* What BankCalls sees of a call. *)
View(me) == [state |-> me.result, op |-> me.op, order |-> me.order, qr |-> me.qr,
             paid |-> me.paid]

(* The mapping of Promise. *)
Result == [c \in Calls |-> [state |-> call[c].result, op |-> call[c].op,
                            order |-> call[c].order, qr |-> call[c].qr,
                            paid |-> call[c].paid]]

LEMMA ResultIs ==
    /\ \A c \in Calls : Result[c] = View(call[c])
    /\ \A c \in Calls : /\ Result[c].state = call[c].result /\ Result[c].op = call[c].op
                        /\ Result[c].order = call[c].order /\ Result[c].qr = call[c].qr
                        /\ Result[c].paid = call[c].paid
BY DEF Result, View

LEMMA ShownIsShown == Promise!Shown = Shown
<1>1. Promise!Shown = {Result[c].qr : c \in {d \in Calls : /\ Result[d].op = "create"
                                                          /\ Result[d].state = "ok"}}
  BY DEF Promise!Shown, Result
<1> QED
  BY <1>1, ResultIs DEF Shown

LEMMA ResultChanges ==
    ASSUME TypeOK, NEW c \in Calls, NEW me, Set(c, me)
    PROVE  Result' = [Result EXCEPT ![c] = View(me)]
<1>1. /\ Result = [d \in Calls |-> View(call[d])]
      /\ Result' = [d \in Calls |-> View(call'[d])]
  BY DEF Result, View
<1>2. \A d \in Calls : call'[d] = IF d = c THEN me ELSE call[d]
  BY DEF TypeOK, Set
<1> QED
  BY <1>1, <1>2

(* A step of which BankCalls sees nothing. *)
LEMMA Stutters ==
    ASSUME TypeOK, NEW c \in Calls, NEW me, Set(c, me),
           me.op = call[c].op, me.order = call[c].order, me.qr = call[c].qr,
           me.paid = call[c].paid, me.result = call[c].result
    PROVE  UNCHANGED Result
<1>1. View(me) = View(call[c])
  BY DEF View
<1>2. \A d \in Calls : call'[d] = IF d = c THEN me ELSE call[d]
  BY DEF TypeOK, Set
<1>3. \A d \in Calls : View(call'[d]) = View(call[d])
  BY <1>1, <1>2
<1> QED
  BY <1>3 DEF Result, View

LEMMA CreateBegins == ASSUME IInv, NEW c \in Calls, Create(c) PROVE Promise!Begin(c)
<1>1. PICK o \in Orders : Started(c, "create", o, NoQr)
  BY DEF Create
<1>2. PICK me \in Call, paid \in BOOLEAN :
          /\ paid = (NoQr # NoQr /\ bank[NoQr] = "paid")
          /\ Set(c, me)
          /\ me.pc = "send" /\ me.op = "create" /\ me.order = o /\ me.qr = NoQr
          /\ me.paid = paid
          /\ me.attempt = 0 /\ me.answer = NoAnswer /\ me.result = "open"
  BY <1>1, BegunIs
<1>3. View(me) = Promise!Open("create", o, NoQr, FALSE)
  BY <1>2 DEF View, Promise!Open
<1>4. Result' = [Result EXCEPT ![c] = Promise!Open("create", o, NoQr, FALSE)]
  <2>1. Result' = [Result EXCEPT ![c] = View(me)]
    BY <1>2, ResultChanges DEF IInv
  <2> QED
    BY <1>3, <2>1, Zenon
<1>5. Result[c].state = "none" /\ UNCHANGED bank
  BY ResultIs DEF IInv, ControlOK, CallOK, Idle, Create
<1> QED
  BY <1>4, <1>5 DEF Promise!Begin, Result

LEMMA GetOrCancelBegins == ASSUME IInv, NEW c \in Calls, GetOrCancel(c) PROVE Promise!Begin(c)
<1>1. PICK op \in OpsOf[c] \ {"create"}, q \in Shown : Started(c, op, OrderOf[q], q)
  BY DEF GetOrCancel
<1>2. op \in {"get", "cancel"} /\ q \in Qrs /\ OrderOf[q] \in Orders /\ q # NoQr
  BY <1>1, ShownIs
<1>3. PICK o : o = OrderOf[q]
  OBVIOUS
<1>4. PICK me \in Call, paid \in BOOLEAN :
          /\ paid = (q # NoQr /\ bank[q] = "paid")
          /\ Set(c, me)
          /\ me.pc = "send" /\ me.op = op /\ me.order = o /\ me.qr = q /\ me.paid = paid
          /\ me.attempt = 0 /\ me.answer = NoAnswer /\ me.result = "open"
  BY <1>1, <1>2, <1>3, BegunIs
<1>5. paid = (bank[q] = "paid")
  BY <1>2, <1>4
<1>6. View(me) = Promise!Open(op, o, q, paid)
  BY <1>4 DEF View, Promise!Open
<1>7. Result' = [Result EXCEPT ![c] = Promise!Open(op, OrderOf[q], q, bank[q] = "paid")]
  BY <1>3, <1>4, <1>5, <1>6, ResultChanges DEF IInv
<1>8. Result[c].state = "none" /\ UNCHANGED bank
  BY ResultIs DEF IInv, ControlOK, CallOK, Idle, GetOrCancel
<1> QED
  BY <1>1, <1>2, <1>7, <1>8, ShownIsShown DEF Promise!Begin, Result

LEMMA RetryStutters ==
    ASSUME IInv, NEW c \in Calls, Retry(c)
    PROVE  UNCHANGED Result
<1>1. PICK old \in Call : old = call[c]
  BY DEF IInv, TypeOK
<1>2. PICK me : me = [old EXCEPT !.pc = "send", !.attempt = old.attempt + 1, !.answer = NoAnswer]
  OBVIOUS
<1>3. Set(c, me)
  BY <1>1, <1>2 DEF Retry
<1>4. /\ me.op = old.op /\ me.order = old.order /\ me.qr = old.qr /\ me.paid = old.paid
      /\ me.result = old.result
  BY <1>2 DEF Call
<1> QED
  BY <1>1, <1>3, <1>4, Stutters DEF IInv

LEMMA ReturnEnds ==
    ASSUME IInv, NEW c \in Calls, call[c].pc = "wait", UNCHANGED bank,
           NEW r \in Results, NEW q \in Qrs \cup {NoQr},
           Return(c, r, q), r = "error" \/ Promise!Truthful(c, r, q),
           q = call[c].qr \/ (call[c].op = "create" /\ r = "ok")
    PROVE  Promise!End(c)
<1>1. PICK old \in Call : old = call[c]
  BY DEF IInv, TypeOK
<1>2. PICK me : me = [old EXCEPT !.pc = "done", !.result = r, !.qr = q, !.answer = NoAnswer]
  OBVIOUS
<1>3. Set(c, me)
  BY <1>1, <1>2 DEF Return
<1>4. /\ me.op = old.op /\ me.order = old.order /\ me.qr = q /\ me.paid = old.paid
      /\ me.result = r
  BY <1>2 DEF Call
<1>5. Result' = [Result EXCEPT ![c] = View(me)]
  BY <1>3, ResultChanges DEF IInv
<1>6. View(me) = [View(old) EXCEPT !.state = r, !.qr = q]
  <2>1. PICK v : v = View(old)
    OBVIOUS
  <2>2. /\ v \in [state : Results, op : {"none", "create", "get", "cancel"},
                 order : Orders \cup {"none"}, qr : Qrs \cup {NoQr}, paid : BOOLEAN]
        /\ v.op = old.op /\ v.order = old.order /\ v.paid = old.paid
    BY <2>1 DEF View, Call
  <2>3. PICK new : new = [v EXCEPT !.state = r, !.qr = q]
    OBVIOUS
  <2>4. /\ new \in [state : Results, op : {"none", "create", "get", "cancel"},
                   order : Orders \cup {"none"}, qr : Qrs \cup {NoQr}, paid : BOOLEAN]
        /\ new.state = r /\ new.qr = q
        /\ new.op = me.op /\ new.order = me.order /\ new.paid = me.paid
    BY <1>4, <2>2, <2>3
  <2>5. new = View(me)
    BY <1>4, <2>4 DEF View
  <2> QED
    BY <2>1, <2>3, <2>5
<1>7. Result' = [Result EXCEPT ![c].state = r, ![c].qr = q]
  BY <1>1, <1>5, <1>6, ResultIs DEF Result
<1>8. Result'[c].state = r /\ Result'[c].qr = q
  BY <1>4, <1>5 DEF Result, View
<1>9. Result[c].state = "open" /\ Result[c].qr = call[c].qr /\ Result[c].op = call[c].op
  BY ResultIs DEF IInv, ControlOK, CallOK
<1> QED
  BY <1>7, <1>8, <1>9 DEF Promise!End, Result

LEMMA ToldIsTruthful ==
    ASSUME IInv, NEW c \in Calls, call[c].pc = "wait", NEW r, NEW q, Told(c, r, q)
    PROVE  /\ r = "error" \/ Promise!Truthful(c, r, q)
           /\ q = call[c].qr \/ (call[c].op = "create" /\ r = "ok")
<1>1. CASE call[c].op = "create" /\ r = "ok" /\ q \in Qrs /\ maker[q] = c
  <2>1. bank[q] # "none" /\ OrderOf[q] = call[c].order
    BY <1>1 DEF IInv, MakersOK
  <2>2. ASSUME NEW d \in Calls, call[d].op = "create", call[d].result = "ok", call[d].qr = q
        PROVE  FALSE
    BY <1>1, <2>2 DEF IInv, ControlOK, CallOK, AnswersTrue, AnswerTrue
  <2>3. q \notin Promise!Shown
    BY <2>2, ShownIsShown DEF Shown
  <2>4. Promise!Truthful(c, r, q)
    BY <1>1, <2>1, <2>3, ResultIs DEF Promise!Truthful, Result
  <2> QED
    BY <1>1, <2>4
<1>2. CASE call[c].op = "cancel" /\ r = "ok" /\ q = call[c].qr /\ bank[q] = "canceled"
  BY <1>2, ResultIs DEF Promise!Truthful, Result
<1>3. CASE /\ call[c].op = "get" /\ q = call[c].qr
           /\ r \in {"waiting", "unknown", "canceled", "paid"}
           /\ r \in {"paid", "canceled"} => bank[q] = r
           /\ call[c].paid => r = "paid"
  BY <1>3, ResultIs DEF Promise!Truthful, Result
<1> QED
  BY <1>1, <1>2, <1>3 DEF Told

LEMMA ReceiveEnds ==
    ASSUME IInv, NEW c \in Calls, Receive(c)
    PROVE  Promise!End(c) \/ UNCHANGED <<bank, Result>>
<1>1. CASE call[c].answer.word = "transient" /\ MayRetry(c)
  BY <1>1, RetryStutters DEF Receive
<1>2. CASE ~(call[c].answer.word = "transient" /\ MayRetry(c))
  <2>1. PICK r \in Results, q \in Qrs \cup {NoQr} : Return(c, r, q) /\ Told(c, r, q)
    BY <1>2, AnswerTells
  <2> QED
    BY <2>1, ToldIsTruthful, ReturnEnds DEF Receive
<1> QED
  BY <1>1, <1>2

LEMMA FailEnds ==
    ASSUME IInv, NEW c \in Calls, Fail(c)
    PROVE  Promise!End(c) \/ UNCHANGED <<bank, Result>>
<1>1. CASE MayRetry(c)
  BY <1>1, RetryStutters DEF Fail
<1>2. CASE ~MayRetry(c)
  <2>1. call[c].qr \in Qrs \cup {NoQr} /\ "error" \in Results
    BY DEF IInv, TypeOK, Call, Results
  <2> QED
    BY <1>2, <2>1, ReturnEnds DEF Fail
<1> QED
  BY <1>1, <1>2

LEMMA SendStutters ==
    ASSUME IInv, NEW c \in Calls, Send(c)
    PROVE  UNCHANGED <<bank, Result>>
<1>1. PICK old \in Call : old = call[c]
  BY DEF IInv, TypeOK
<1>2. PICK me : me = [old EXCEPT !.pc = "wait"]
  OBVIOUS
<1>3. Set(c, me) /\ UNCHANGED bank
  BY <1>1, <1>2 DEF Send
<1>4. /\ me.op = old.op /\ me.order = old.order /\ me.qr = old.qr /\ me.paid = old.paid
      /\ me.result = old.result
  BY <1>2 DEF Call
<1> QED
  BY <1>1, <1>3, <1>4, Stutters DEF IInv

LEMMA DeliverStutters ==
    ASSUME IInv, NEW c \in Calls, NEW n, NEW a \in Answer, Deliver(c, n, a)
    PROVE  UNCHANGED Result
<1>1. PICK me \in Call :
          /\ Changes(c, me)
          /\ me.op = call[c].op /\ me.order = call[c].order /\ me.qr = call[c].qr
          /\ me.paid = call[c].paid /\ me.result = call[c].result
  BY DeliverIs
<1> QED
  BY <1>1, Stutters DEF Changes, IInv

LEMMA ExecuteIssues ==
    ASSUME IInv, NEW c \in Calls, NEW n, ExecuteCreate(c, n)
    PROVE  \E q \in Qrs : Promise!Issue(q)
<1>1. PICK q \in Qrs :
         /\ Issues(c, q)
         /\ bank' = [bank EXCEPT ![q] = "open"]
         /\ \E a \in Done([word |-> "issued", qr |-> q]) : Deliver(c, n, a)
  BY DEF ExecuteCreate
<1>2. PICK a \in Done([word |-> "issued", qr |-> q]) : Deliver(c, n, a)
  BY <1>1
<1>3. [word |-> "issued", qr |-> q] \in Answer
  BY DEF Answer, Words
<1>4. UNCHANGED Result
  BY <1>2, <1>3, SayIs, DeliverStutters
<1>5. bank[q] = "none" /\ Result[c].op = "create" /\ Result[c].order = OrderOf[q]
  BY <1>1, ResultIs DEF Issues, ExecuteCreate
<1> QED
  BY <1>1, <1>4, <1>5 DEF Promise!Issue, Result

LEMMA ExecuteCloses ==
    ASSUME IInv, NEW c \in Calls, NEW n, ExecuteCancel(c, n)
    PROVE  (\E q \in Qrs : Promise!Close(q)) \/ UNCHANGED <<bank, Result>>
<1>1. PICK q \in Qrs : q = call[c].qr
  BY DEF IInv, ControlOK, CallOK, ExecuteCancel
<1>2. PICK a \in Done(Say("done")) : Deliver(c, n, a)
  BY DEF ExecuteCancel
<1>3. UNCHANGED Result
  <2>1. "done" \in Words
    BY DEF Words
  <2> QED
    BY <1>2, <2>1, SayIs, DeliverStutters
<1>4. bank' = [bank EXCEPT ![q] = "canceled"] /\ bank[q] \in {"open", "canceled"}
  BY <1>1 DEF ExecuteCancel
<1>5. CASE bank[q] = "open"
  BY <1>3, <1>4, <1>5 DEF Promise!Close, Result
<1>6. CASE bank[q] = "canceled"
  BY <1>3, <1>4, <1>6 DEF IInv, TypeOK
<1> QED
  BY <1>4, <1>5, <1>6

LEMMA ExecuteTells ==
    ASSUME IInv, NEW c \in Calls, NEW n, ExecuteGet(c, n) \/ Refuse(c, n)
    PROVE  UNCHANGED <<bank, Result>>
<1>1. CASE ExecuteGet(c, n)
  <2>1. PICK w \in StatusWords(c) : \E a \in Done(Say(w)) : Deliver(c, n, a)
    BY <1>1 DEF ExecuteGet
  <2>2. PICK a \in Done(Say(w)) : Deliver(c, n, a)
    BY <2>1
  <2>3. w \in Words
    BY <1>1, <2>1, StatusIsHeard DEF ExecuteGet
  <2> QED
    BY <1>1, <2>2, <2>3, SayIs, DeliverStutters DEF ExecuteGet
<1>2. CASE Refuse(c, n)
  <2>1. PICK w \in Failures : Deliver(c, n, Say(w))
    BY <1>2 DEF Refuse
  <2> QED
    BY <1>2, <2>1, SayIs, DeliverStutters DEF Refuse, Words
<1> QED
  BY <1>1, <1>2

LEMMA NextPromised ==
    IInv /\ [Next]_vars => [Promise!Next]_<<bank, Result>>
<1> SUFFICES ASSUME IInv, [Next]_vars
             PROVE  Promise!Next \/ UNCHANGED <<bank, Result>>
  OBVIOUS
<1>1. ASSUME NEW c \in Calls, Create(c) \/ GetOrCancel(c)
      PROVE  Promise!Next
  BY <1>1, CreateBegins, GetOrCancelBegins DEF Promise!Next
<1>2. ASSUME NEW c \in Calls, Client(c)
      PROVE  Promise!Next \/ UNCHANGED <<bank, Result>>
  BY <1>2, SendStutters, ReceiveEnds, FailEnds DEF Client, Promise!Next
<1>3. ASSUME NEW c \in Calls, NEW n \in 0..MaxRetries, Execute(c, n)
      PROVE  Promise!Next \/ UNCHANGED <<bank, Result>>
  BY <1>3, ExecuteIssues, ExecuteCloses, ExecuteTells DEF Execute, Promise!Next
<1>4. ASSUME NEW q \in Qrs, CustomerPays(q)
      PROVE  Promise!Next
  <2>1. UNCHANGED Result
    BY <1>4 DEF CustomerPays, Result
  <2>2. Promise!Pay(q)
    BY <1>4, <2>1, ShownIsShown DEF CustomerPays, Promise!Pay, Result
  <2> QED
    BY <2>2 DEF Promise!Next
<1>5. ASSUME NEW q \in Qrs, Expires(q)
      PROVE  Promise!Next
  <2>1. UNCHANGED Result
    BY <1>5 DEF Expires, Result
  <2>2. Promise!Close(q)
    BY <1>5, <2>1 DEF Expires, Promise!Close, Result
  <2> QED
    BY <2>2 DEF Promise!Next
<1>6. CASE UNCHANGED vars
  BY <1>6 DEF vars, Result
<1> QED
  BY <1>1, <1>2, <1>3, <1>4, <1>5, <1>6 DEF Next

LEMMA InitPromised == Init => Promise!Init
BY DEF Init, Idle, Promise!Init, Promise!None

(* The clients implement BankCalls: a call ends once, with an error or with *)
(* an answer that was true while it was open, whatever requests are lost,   *)
(* repeated, answered late or executed after their call has ended.          *)
THEOREM ClientsKeepPromise == Spec => Promised
<1>1. IInv /\ [Next]_vars => [Promise!Next]_<<bank, Result>>
  BY NextPromised
<1>2. Init => Promise!Init
  BY InitPromised
<1> QED
  BY <1>1, <1>2, SpecIInv, PTL DEF Spec, Promised, Promise!Spec, Result

=============================================================================
