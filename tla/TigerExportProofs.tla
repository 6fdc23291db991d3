-------------------------- MODULE TigerExportProofs --------------------------
(***************************************************************************)
(* Proofs about TigerExport, for any number of invoices and voucher        *)
(* groups, any lease, batch size and number of crashes, resets, direct     *)
(* calls and lines of users: the safety invariants, and that the worker is *)
(* a client of the export queue, whose own theorems it therefore inherits. *)
(***************************************************************************)
EXTENDS TigerExport, FiniteSetTheorems, TLAPS

QP == INSTANCE ExportQueueProofs WITH Clients <- {Worker}, held <- Held

USE TigerAssumption DEF TigerAssumption

Tables == [Events -> Queue!Row]

-----------------------------------------------------------------------------
(* The store calls, by the lemmas of ExportQueueProofs. *)

LEMMA SameFiniteSets ==
    \A S : /\ QP!IsFiniteSet(S) = IsFiniteSet(S)
           /\ QP!Cardinality(S) = Cardinality(S)
           /\ Queue!Cardinality(S) = Cardinality(S)
BY Zenon DEF QP!IsFiniteSet, IsFiniteSet, QP!Cardinality, Cardinality, Queue!Cardinality

LEMMA QueueAssumed == QP!QueueAssumption
BY SameFiniteSets DEF QP!QueueAssumption

(* The two instances of the queue have the same operators. *)
LEMMA SameQueue ==
    /\ QP!Tables = Tables
    /\ \A rs, e, v : Queue!Upsert(rs, e, v) = QP!Upsert(rs, e, v)
    /\ \A rs : Queue!Claimable(rs) = QP!Claimable(rs)
    /\ \A rs : Queue!Claimed(rs) = QP!Claimed(rs)
    /\ \A rs, e, s : Queue!UpdateResult(rs, e, s) = QP!UpdateResult(rs, e, s)
    /\ \A rs, e : Queue!ResetRow(rs, e) = QP!ResetRow(rs, e)
    /\ \A rs : Queue!Aged(rs) = QP!Aged(rs)
<1>1. QP!Tables = Tables
  BY Zenon DEF QP!Tables, Tables, QP!Row, Queue!Row
<1>2. \A rs, e, v : Queue!Upsert(rs, e, v) = QP!Upsert(rs, e, v)
  <2>1. \A rs : Queue!Saved(rs) = QP!Saved(rs)
    BY Zenon DEF Queue!Saved, QP!Saved
  <2>2. \A rs, e, s : Queue!SetStatus(rs, e, s) = QP!SetStatus(rs, e, s)
    BY Zenon DEF Queue!SetStatus, QP!SetStatus
  <2> QED
    BY <2>1, <2>2, SameFiniteSets DEF Queue!Upsert, QP!Upsert
<1>3. \A rs : Queue!Claimable(rs) = QP!Claimable(rs)
  BY Zenon, SameFiniteSets
     DEF Queue!Claimable, QP!Claimable, Queue!InStatus, QP!InStatus, Queue!Expired, QP!Expired
<1>4. \A rs : Queue!Claimed(rs) = QP!Claimed(rs)
  BY Zenon, <1>3 DEF Queue!Claimed, QP!Claimed, Queue!Expired, QP!Expired
<1>5. \A rs, e, s : Queue!UpdateResult(rs, e, s) = QP!UpdateResult(rs, e, s)
  BY Zenon DEF Queue!SetStatus, QP!SetStatus, Queue!UpdateResult, QP!UpdateResult
<1>6. \A rs, e : Queue!ResetRow(rs, e) = QP!ResetRow(rs, e)
  BY Zenon DEF Queue!SetStatus, QP!SetStatus, Queue!ResetRow, QP!ResetRow
<1>7. \A rs : Queue!Aged(rs) = QP!Aged(rs)
  BY Zenon DEF Queue!Aged, QP!Aged, Queue!Older, QP!Older
<1> QED
  BY <1>1, <1>2, <1>3, <1>4, <1>5, <1>6, <1>7

Confirmed(rs) == {e \in Events : rs[e].st = "success"}

(* Every store call keeps the types, and only a report confirms an event. *)
LEMMA StoreCalls ==
    ASSUME NEW rs \in Tables, NEW e \in Events
    PROVE  /\ \A valid \in BOOLEAN :
                 /\ Queue!Upsert(rs, e, valid) \in Tables
                 /\ Confirmed(Queue!Upsert(rs, e, valid)) \subseteq Confirmed(rs)
           /\ Queue!ResetRow(rs, e) \in Tables
           /\ Confirmed(Queue!ResetRow(rs, e)) \subseteq Confirmed(rs)
           /\ \A result \in {"success", "error"} : Queue!UpdateResult(rs, e, result) \in Tables
           /\ Confirmed(Queue!UpdateResult(rs, e, "error")) \subseteq Confirmed(rs)
           /\ Confirmed(Queue!UpdateResult(rs, e, "success")) \subseteq Confirmed(rs) \cup {e}
<1>1. rs \in QP!Tables /\ \A tt : QP!ConfirmedRows(tt) = Confirmed(tt)
  BY SameQueue DEF QP!ConfirmedRows, Confirmed
<1>2. QP!ResetRow(rs, e) \in QP!Tables
  BY <1>1, QueueAssumed, QP!SetStatusRow DEF QP!ResetRow, QP!Written
<1>3. \A valid \in BOOLEAN : QP!Upsert(rs, e, valid) \in QP!Tables
  BY <1>1, QueueAssumed, QP!UpsertKeeps
<1>4. \A result \in {"success", "error"} : QP!UpdateResult(rs, e, result) \in QP!Tables
  BY <1>1, QueueAssumed, QP!UpdateResultRows
<1> QED
  BY <1>1, <1>2, <1>3, <1>4, QueueAssumed, QP!OnlyReportsConfirm, SameQueue

LEMMA ClaimAndAge ==
    ASSUME NEW rs \in Tables
    PROVE  /\ Queue!Claimed(rs) \in Tables /\ Queue!Aged(rs) \in Tables
           /\ Queue!Claimable(rs) \subseteq Events
           /\ Confirmed(Queue!Claimed(rs)) \subseteq Confirmed(rs)
           /\ Confirmed(Queue!Aged(rs)) \subseteq Confirmed(rs)
<1>1. rs \in QP!Tables /\ \A tt : QP!ConfirmedRows(tt) = Confirmed(tt)
  BY SameQueue DEF QP!ConfirmedRows, Confirmed
<1>2. QP!Claimed(rs) \in QP!Tables /\ QP!Aged(rs) \in QP!Tables
  BY <1>1, QueueAssumed, QP!ClaimedRows, QP!AgedRows
<1>3. Queue!Claimable(rs) \subseteq Events
  BY DEF Queue!Claimable, Queue!InStatus
<1> QED
  BY <1>1, <1>2, <1>3, QueueAssumed, QP!ClaimsConfirmNothing, SameQueue

-----------------------------------------------------------------------------
(* The inductive invariant. *)

Pcs == {"find", "group", "create", "append", "post", "verifyNew", "verifyLine", "probe"}

(* The poller waits for the call it made, about the event it has in hand.   *)
ControlOK ==
    /\ job \in Job /\ poller \in Poller
    /\ poller.pc \in {"busy", "report"} <=> poller.cur # NoEvent
    /\ poller.pc = "report" <=> poller.result # "none"
    /\ job.pc # "free" /\ job.by = "poller" <=> poller.pc = "busy"
    /\ job.pc # "free" => job.ev \in Events
    /\ job.pc # "free" /\ job.by = "poller" => job.ev = poller.cur
    /\ job.pc # "free" /\ job.by = "direct" => job.ev \in Manual
    /\ poller.cur \notin poller.batch
    /\ poller.pc = "asleep" => poller.batch = {}

BooksOK ==
    /\ vouchers \in Seq(Groups)
    /\ lines \in Seq(Line)
    /\ \A i \in DOMAIN lines : lines[i].ref \in DOMAIN vouchers
    /\ job.pc \in {"append", "post"} => job.ref \in DOMAIN vouchers

CountersOK ==
    /\ resets \in 0..MaxResets /\ misses \in 0..MaxMisses
    /\ edits \in 0..MaxEdits /\ crashes \in 0..MaxCrashes

(* What is reported as a success, or confirmed, has its line.               *)
ResultsTrue ==
    /\ poller.pc = "report" /\ poller.result = "success" => HasLine(poller.cur)
    /\ \A e \in Confirmed(rows) : HasLine(e)

(* While every query is answered, the call that is about to create a        *)
(* voucher knows that neither the line nor a voucher of the group exists.   *)
CallKnows ==
    misses = 0 =>
        /\ job.pc \in {"group", "create"} => ~HasLine(job.ev)
        /\ job.pc = "create" => \A v \in DOMAIN vouchers : vouchers[v] # job.group

IInv ==
    /\ rows \in Tables
    /\ ControlOK /\ BooksOK /\ CountersOK
    /\ ResultsTrue /\ CallKnows
    /\ OneLineWhileAnswered /\ OneVoucherPerGroup

-----------------------------------------------------------------------------
(* What the steps of a call do. *)

LEMMA FreeIsFree ==
    Free \in Job /\ Free.pc = "free"
<1>1. (CHOOSE g \in Groups : TRUE) \in Groups
  OBVIOUS
<1> QED
  BY <1>1 DEF Free, Called, Job

LEMMA AsleepIsIdle ==
    /\ Asleep \in Poller /\ Asleep.pc = "asleep" /\ Asleep.batch = {}
    /\ Asleep.cur = NoEvent /\ Asleep.result = "none"
BY DEF Asleep, Poller, Results

LEMMA CallGoesOn ==
    ASSUME ControlOK, job.pc # "free", UNCHANGED poller,
           job' \in Job, job'.pc \in Pcs, job'.by = job.by, job'.ev = job.ev
    PROVE  ControlOK'
BY DEF ControlOK, Pcs

LEMMA GoesFacts ==
    ASSUME ControlOK, NEW pc \in Pcs, Goes(pc)
    PROVE  /\ job' \in Job /\ job'.pc = pc /\ job'.by = job.by /\ job'.ev = job.ev
           /\ job'.group = job.group /\ job'.ref = job.ref /\ UNCHANGED poller
BY DEF ControlOK, Goes, Pcs, Job

(* A call that ends leaves the poller to report, if it was the poller's. *)
LEMMA CallConcludes ==
    ASSUME ControlOK, job.pc # "free", NEW result \in {"success", "error"}, Concludes(result)
    PROVE  /\ ControlOK'
           /\ job'.pc = "free"
           /\ \/ UNCHANGED poller
              \/ poller'.result = result /\ poller'.cur = job.ev
           /\ UNCHANGED <<poller.batch, poller.cur, poller.age>>
<1>1. job' = Free
  BY DEF Concludes
<1>2. CASE job.by = "poller"
  <2>1. poller' = [poller EXCEPT !.pc = "report", !.result = result]
    BY <1>2 DEF Concludes
  <2>2. /\ poller' \in Poller /\ poller'.pc = "report" /\ poller'.result = result
        /\ poller'.cur = poller.cur /\ poller'.batch = poller.batch /\ poller'.age = poller.age
    BY <2>1 DEF ControlOK, Poller, Results
  <2> QED
    BY <1>1, <1>2, <2>2, FreeIsFree DEF ControlOK
<1>3. CASE job.by # "poller"
  <2>1. UNCHANGED poller
    BY <1>3 DEF Concludes
  <2> QED
    BY <1>1, <1>3, <2>1, FreeIsFree DEF ControlOK
<1> QED
  BY <1>2, <1>3

(* Queries that may miss a line. *)
LEMMA Queries ==
    ASSUME CountersOK, NEW e
    PROVE  /\ Seen(e) => HasLine(e) /\ misses' = misses
           /\ NotSeen(e) => misses' \in 0..MaxMisses /\ (misses' = 0 => misses = 0 /\ ~HasLine(e))
           /\ Missed => misses' \in 0..MaxMisses /\ misses' # 0
BY DEF CountersOK, Seen, NotSeen, Missed

(* A step of a call that writes nothing at Tiger. *)
LEMMA CallStep ==
    ASSUME IInv, UNCHANGED <<queue, tiger, faults>>,
           misses' \in 0..MaxMisses, misses' = 0 => misses = 0,
           ControlOK', CallKnows',
           job'.pc \in {"append", "post"} => job'.ref \in DOMAIN vouchers,
           \/ UNCHANGED poller
           \/ poller'.result = "success" => HasLine(poller'.cur)
    PROVE  IInv'
<1>1. UNCHANGED <<rows, resets, vouchers, lines, edits, crashes>>
  BY DEF queue, tiger, faults
<1>2. BooksOK' /\ CountersOK'
  BY <1>1 DEF IInv, BooksOK, CountersOK
<1>3. \A e : HasLine(e)' <=> HasLine(e)
  BY <1>1 DEF HasLine
<1>4. ResultsTrue'
  BY <1>1, <1>3 DEF IInv, ResultsTrue, HasLine
<1>5. OneLineWhileAnswered' /\ OneVoucherPerGroup'
  BY <1>1 DEF IInv, OneLineWhileAnswered, AtMostOneLine, OneVoucherPerGroup
<1> QED
  BY <1>1, <1>2, <1>4, <1>5 DEF IInv

LEMMA Concluding ==
    ASSUME IInv, job.pc # "free", NEW result \in {"success", "error"}, Concludes(result),
           result = "success" => HasLine(job.ev),
           UNCHANGED <<queue, tiger, faults>>,
           misses' \in 0..MaxMisses, misses' = 0 => misses = 0
    PROVE  IInv'
<1>1. /\ ControlOK' /\ job'.pc = "free"
      /\ UNCHANGED poller \/ (poller'.result = result /\ poller'.cur = job.ev)
  BY CallConcludes DEF IInv
<1>2. CallKnows'
  BY <1>1 DEF CallKnows
<1> QED
  BY <1>1, <1>2, CallStep

LEMMA GoingOn ==
    ASSUME IInv, job.pc # "free", NEW pc \in Pcs \ {"append", "post"}, Goes(pc),
           UNCHANGED <<queue, tiger, faults>>,
           misses' \in 0..MaxMisses, misses' = 0 => misses = 0,
           misses' = 0 /\ pc \in {"group", "create"} => ~HasLine(job.ev),
           misses' = 0 /\ pc = "create" => \A v \in DOMAIN vouchers : vouchers[v] # job.group
    PROVE  IInv'
<1>1. /\ job' \in Job /\ job'.pc = pc /\ job'.by = job.by /\ job'.ev = job.ev
      /\ job'.group = job.group /\ UNCHANGED poller
  BY GoesFacts DEF IInv
<1>2. ControlOK'
  BY <1>1, CallGoesOn DEF IInv
<1>3. CallKnows'
  BY <1>1 DEF CallKnows, HasLine, tiger
<1> QED
  BY <1>1, <1>2, <1>3, CallStep

-----------------------------------------------------------------------------
(* Lines and vouchers that are added. *)

LEMMA LineAdded ==
    ASSUME BooksOK, NEW e \in Events \cup {NoEvent}, NEW v \in Nat, AddLine(e, v)
    PROVE  /\ lines' \in Seq(Line)
           /\ DOMAIN lines \subseteq DOMAIN lines'
           /\ \A i \in DOMAIN lines : lines'[i] = lines[i]
           /\ \A i \in DOMAIN lines' \ DOMAIN lines : lines'[i] = [ev |-> e, ref |-> v]
           /\ \A i, j \in DOMAIN lines' \ DOMAIN lines : i = j
           /\ \E i \in DOMAIN lines' \ DOMAIN lines : TRUE
<1>1. lines \in Seq(Line) /\ [ev |-> e, ref |-> v] \in Line
  BY DEF BooksOK, Line
<1> DEFINE new == [ev |-> e, ref |-> v]
<1>2. lines' = Append(lines, new)
  BY DEF AddLine
<1> HIDE DEF new
<1>3. /\ lines' \in Seq(Line) /\ Len(lines') = Len(lines) + 1 /\ Len(lines) \in Nat
      /\ DOMAIN lines = 1..Len(lines) /\ DOMAIN lines' = 1..Len(lines')
      /\ \A i \in DOMAIN lines : lines'[i] = lines[i]
      /\ lines'[Len(lines) + 1] = new
  BY <1>1, <1>2 DEF new
<1>4. DOMAIN lines' \ DOMAIN lines = {Len(lines) + 1}
  BY <1>3
<1> QED
  BY <1>3, <1>4 DEF new

LEMMA LinesOf ==
    ASSUME BooksOK, NEW e \in Events \cup {NoEvent}, NEW v \in Nat, AddLine(e, v)
    PROVE  /\ \A d : HasLine(d)' <=> HasLine(d) \/ d = e
           /\ AtMostOneLine /\ (e = NoEvent \/ ~HasLine(e)) => AtMostOneLine'
<1>1. ASSUME NEW d
      PROVE  HasLine(d)' <=> HasLine(d) \/ d = e
  BY LineAdded DEF HasLine
<1>2. ASSUME AtMostOneLine, e = NoEvent \/ ~HasLine(e),
             NEW i \in DOMAIN lines', NEW j \in DOMAIN lines',
             lines'[i].ev = lines'[j].ev, lines'[i].ev # NoEvent
      PROVE  i = j
  <2>1. CASE i \in DOMAIN lines /\ j \in DOMAIN lines
    BY <1>2, <2>1, LineAdded DEF AtMostOneLine
  <2>2. CASE i \notin DOMAIN lines /\ j \notin DOMAIN lines
    BY <1>2, <2>2, LineAdded
  <2>3. CASE i \in DOMAIN lines /\ j \notin DOMAIN lines
    BY <1>2, <2>3, LineAdded DEF HasLine
  <2>4. CASE i \notin DOMAIN lines /\ j \in DOMAIN lines
    BY <1>2, <2>4, LineAdded DEF HasLine
  <2> QED
    BY <2>1, <2>2, <2>3, <2>4
<1> QED
  BY <1>1, <1>2 DEF AtMostOneLine

(* Adding a line to a voucher that is there. *)
LEMMA LineInVoucher ==
    ASSUME IInv, NEW e \in Events \cup {NoEvent}, NEW v \in DOMAIN vouchers, AddLine(e, v),
           UNCHANGED <<rows, resets, vouchers, poller, crashes>>,
           edits' \in 0..MaxEdits, misses' \in 0..MaxMisses, misses' = 0 => misses = 0,
           misses' = 0 => e = NoEvent \/ ~HasLine(e),
           ControlOK', CallKnows',
           job'.pc \in {"append", "post"} => job'.ref \in DOMAIN vouchers
    PROVE  IInv'
<1>1. v \in Nat /\ BooksOK
  BY DEF IInv, BooksOK
<1>2. BooksOK'
  <2>1. \A i \in DOMAIN lines' : lines'[i].ref \in DOMAIN vouchers
    BY <1>1, LineAdded DEF BooksOK
  <2> QED
    BY <1>1, <2>1, LineAdded DEF BooksOK
<1>3. \A d : HasLine(d) => HasLine(d)'
  BY <1>1, LinesOf
<1>4. ResultsTrue'
  BY <1>3 DEF IInv, ResultsTrue, HasLine
<1>5. OneLineWhileAnswered' /\ OneVoucherPerGroup'
  BY <1>1, LinesOf DEF IInv, OneLineWhileAnswered, OneVoucherPerGroup
<1> QED
  BY <1>2, <1>4, <1>5 DEF IInv, CountersOK

-----------------------------------------------------------------------------
(* The steps of ProcessInvoicePaid. *)

LEMMA FindKeeps == ASSUME IInv, Find PROVE IInv'
<1>1. /\ job.pc = "find" /\ job.ev \in Events /\ CountersOK
      /\ UNCHANGED <<queue, tiger, faults>>
  BY DEF Find, IInv, ControlOK
<1>2. CASE Seen(job.ev) /\ Concludes("success")
  BY <1>1, <1>2, Queries, Concluding DEF CountersOK
<1>3. CASE NotSeen(job.ev) /\ Goes("group")
  BY <1>1, <1>3, Queries, GoingOn DEF Pcs
<1>4. CASE Throws
  BY <1>1, <1>4, GoingOn DEF Throws, CountersOK, Pcs
<1>5. CASE Concludes("error") /\ UNCHANGED misses
  BY <1>1, <1>5, Concluding DEF CountersOK
<1> QED
  BY <1>2, <1>3, <1>4, <1>5 DEF Find

LEMMA FindGroupKeeps == ASSUME IInv, FindGroup PROVE IInv'
<1>1. /\ job.pc = "group" /\ job.ev \in Events /\ CountersOK /\ ControlOK
      /\ UNCHANGED <<queue, tiger, faults>>
  BY DEF FindGroup, IInv, ControlOK
<1>2. ASSUME NEW v \in VoucherOf(job.group), job' = [job EXCEPT !.pc = "append", !.ref = v],
             UNCHANGED <<poller, misses>>
      PROVE  IInv'
  <2>1. v \in DOMAIN vouchers /\ v \in Nat
    BY DEF VoucherOf, IInv, BooksOK
  <2>2. /\ job' \in Job /\ job'.pc = "append" /\ job'.ref = v
        /\ job'.by = job.by /\ job'.ev = job.ev
    BY <1>1, <1>2, <2>1 DEF ControlOK, Job
  <2>3. ControlOK' /\ CallKnows'
    BY <1>1, <1>2, <2>2, CallGoesOn DEF CallKnows, Pcs
  <2> QED
    BY <1>1, <1>2, <2>1, <2>2, <2>3, CallStep DEF CountersOK
<1>3. CASE VoucherOf(job.group) = {} /\ Goes("create") /\ UNCHANGED misses
  <2>1. misses = 0 => ~HasLine(job.ev)
    BY <1>1 DEF IInv, CallKnows
  <2>2. misses = 0 => \A v \in DOMAIN vouchers : vouchers[v] # job.group
    <3> SUFFICES ASSUME misses = 0, NEW v \in DOMAIN vouchers, vouchers[v] = job.group
                 PROVE  v \in VoucherOf(job.group)
      BY <1>3
    <3>1. v \in Nat
      BY DEF IInv, BooksOK
    <3> QED
      BY <3>1 DEF VoucherOf, IInv, OneVoucherPerGroup
  <2> QED
    BY <1>1, <1>3, <2>1, <2>2, GoingOn DEF CountersOK, Pcs
<1>4. CASE Goes("create") /\ Missed
  BY <1>1, <1>4, Queries, GoingOn DEF Pcs
<1>5. CASE Throws
  BY <1>1, <1>5, GoingOn DEF Throws, CountersOK, Pcs
<1> QED
  BY <1>2, <1>3, <1>4, <1>5 DEF FindGroup

LEMMA BeforeAppendKeeps == ASSUME IInv, BeforeAppend PROVE IInv'
<1>1. /\ job.pc = "append" /\ job.ev \in Events /\ job.ref \in DOMAIN vouchers
      /\ CountersOK /\ ControlOK /\ UNCHANGED <<queue, tiger, faults>>
  BY DEF BeforeAppend, IInv, ControlOK, BooksOK
<1>2. CASE Seen(job.ev) /\ Concludes("success")
  BY <1>1, <1>2, Queries, Concluding DEF CountersOK
<1>3. CASE /\ NotSeen(job.ev) /\ UNCHANGED poller
           /\ job' = [job EXCEPT !.pc = "post", !.before = LineCount(job.ref)]
  <2>1. LineCount(job.ref) \in Nat
    <3>1. DOMAIN lines = 1..Len(lines) /\ Len(lines) \in Nat
      BY DEF IInv, BooksOK
    <3> DEFINE S == {i \in DOMAIN lines : lines[i].ref = job.ref}
    <3>2. IsFiniteSet(DOMAIN lines)
      BY <3>1, FS_Interval
    <3>3. S \subseteq DOMAIN lines
      OBVIOUS
    <3> HIDE DEF S
    <3>4. IsFiniteSet(S)
      BY <3>2, <3>3, FS_Subset
    <3>5. Cardinality(S) \in Nat
      BY <3>4, FS_CardinalityType
    <3> QED
      BY <3>5 DEF LineCount, S
  <2>2. /\ job' \in Job /\ job'.pc = "post" /\ job'.ref = job.ref
        /\ job'.by = job.by /\ job'.ev = job.ev
    BY <1>1, <1>3, <2>1 DEF ControlOK, Job
  <2>3. ControlOK' /\ CallKnows'
    BY <1>1, <1>3, <2>2, CallGoesOn DEF CallKnows, Pcs
  <2> QED
    BY <1>1, <1>3, <2>2, <2>3, Queries, CallStep
<1>4. CASE Throws
  BY <1>1, <1>4, GoingOn DEF Throws, CountersOK, Pcs
<1> QED
  BY <1>2, <1>3, <1>4 DEF BeforeAppend

LEMMA VerifyKeeps == ASSUME IInv, Verify PROVE IInv'
<1>1. /\ job.pc # "free" /\ job.ev \in Events /\ CountersOK /\ ControlOK
      /\ UNCHANGED <<queue, tiger, faults>>
  BY DEF Verify, IInv, ControlOK
<1>2. CASE Seen(job.ev) /\ Concludes("success")
  BY <1>1, <1>2, Queries, Concluding DEF CountersOK
<1>3. CASE Throws
  BY <1>1, <1>3, GoingOn DEF Throws, CountersOK, Pcs
<1> QED
  BY <1>2, <1>3 DEF Verify

LEMMA ProbeKeeps == ASSUME IInv, Probe PROVE IInv'
<1>1. /\ job.pc # "free" /\ job.ev \in Events /\ CountersOK /\ ControlOK
      /\ UNCHANGED <<queue, tiger, faults>>
  BY DEF Probe, IInv, ControlOK
<1>2. CASE Seen(job.ev) /\ Concludes("success")
  BY <1>1, <1>2, Queries, Concluding DEF CountersOK
<1>3. CASE Concludes("error") /\ UNCHANGED misses
  BY <1>1, <1>3, Concluding DEF CountersOK
<1> QED
  BY <1>2, <1>3 DEF Probe

(* A voucher is created with its first line, or nothing is written. *)
LEMMA CreateVoucherKeeps == ASSUME IInv, CreateVoucher PROVE IInv'
<1>1. /\ job.pc = "create" /\ job.ev \in Events /\ job.group \in Groups
      /\ CountersOK /\ ControlOK /\ BooksOK
      /\ UNCHANGED <<queue, misses, faults>>
  BY DEF CreateVoucher, IInv, ControlOK, Job
<1>2. CASE /\ vouchers' = Append(vouchers, job.group)
           /\ AddLine(job.ev, Len(vouchers) + 1)
           /\ Goes("verifyNew") \/ Goes("probe")
  <2> DEFINE v == Len(vouchers) + 1
  <2>1. /\ vouchers' \in Seq(Groups) /\ v \in Nat
        /\ DOMAIN vouchers' = DOMAIN vouchers \cup {v} /\ v \notin DOMAIN vouchers
        /\ vouchers'[v] = job.group
        /\ \A w \in DOMAIN vouchers : vouchers'[w] = vouchers[w]
    BY <1>1, <1>2 DEF BooksOK
  <2> HIDE DEF v
  <2>2. AddLine(job.ev, v)
    BY <1>2 DEF v
  <2>3. PICK pc \in {"verifyNew", "probe"} : Goes(pc)
    BY <1>2
  <2>4. /\ job' \in Job /\ job'.pc = pc /\ job'.by = job.by /\ job'.ev = job.ev /\ UNCHANGED poller
    BY <1>1, <2>3, GoesFacts DEF Pcs
  <2>5. ControlOK'
    BY <1>1, <2>4, CallGoesOn DEF Pcs
  <2>6. BooksOK'
    <3>1. \A i \in DOMAIN lines' : lines'[i].ref \in DOMAIN vouchers'
      <4>1. \A i \in DOMAIN lines' \ DOMAIN lines : lines'[i] = [ev |-> job.ev, ref |-> v]
        BY <1>1, <2>1, <2>2, LineAdded
      <4>2. \A i \in DOMAIN lines : lines'[i] = lines[i]
        BY <1>1, <2>1, <2>2, LineAdded
      <4> QED
        BY <1>1, <2>1, <4>1, <4>2 DEF BooksOK
    <3> QED
      BY <1>1, <2>1, <2>2, <2>4, <3>1, LineAdded DEF BooksOK
  <2>7. ResultsTrue'
    <3>1. \A d : HasLine(d) => HasLine(d)'
      BY <1>1, <2>1, <2>2, LinesOf
    <3> QED
      BY <1>1, <2>4, <3>1 DEF IInv, ResultsTrue, HasLine, queue
  <2>8. CallKnows'
    BY <2>4 DEF CallKnows
  <2>9. OneLineWhileAnswered'
    BY <1>1, <2>1, <2>2, LinesOf DEF IInv, CallKnows, OneLineWhileAnswered
  <2>10. OneVoucherPerGroup'
    BY <1>1, <2>1 DEF IInv, CallKnows, OneVoucherPerGroup
  <2> QED
    BY <1>1, <2>5, <2>6, <2>7, <2>8, <2>9, <2>10 DEF IInv, CountersOK, queue, faults
<1>3. CASE Concludes("error") /\ UNCHANGED tiger
  BY <1>1, <1>3, Concluding DEF CountersOK
<1>4. CASE Goes("probe") /\ UNCHANGED tiger
  BY <1>1, <1>4, GoingOn DEF CountersOK, Pcs
<1> QED
  BY <1>2, <1>3, <1>4 DEF CreateVoucher

(* The line is added only after it has not been found. *)
LEMMA PostLineKeeps == ASSUME IInv, PostLine PROVE IInv'
<1>1. /\ job.pc = "post" /\ job.ev \in Events /\ job.ref \in DOMAIN vouchers
      /\ CountersOK /\ ControlOK /\ UNCHANGED <<queue, vouchers, faults>>
  BY DEF PostLine, IInv, ControlOK, BooksOK
<1>2. CASE Seen(job.ev) /\ Concludes("success") /\ UNCHANGED lines
  BY <1>1, <1>2, Queries, Concluding DEF CountersOK, tiger
<1>3. CASE /\ NotSeen(job.ev) /\ AddLine(job.ev, job.ref)
           /\ Goes("verifyLine") \/ Goes("probe")
  <2>1. PICK pc \in {"verifyLine", "probe"} : Goes(pc)
    BY <1>3
  <2>2. job' \in Job /\ job'.pc = pc /\ job'.by = job.by /\ job'.ev = job.ev /\ UNCHANGED poller
    BY <1>1, <2>1, GoesFacts DEF Pcs
  <2>3. ControlOK' /\ CallKnows'
    BY <1>1, <2>2, CallGoesOn DEF CallKnows, Pcs
  <2>4. /\ misses' \in 0..MaxMisses
        /\ misses' = 0 => misses = 0 /\ ~HasLine(job.ev)
    BY <1>1, <1>3, Queries
  <2>5. UNCHANGED <<rows, resets, crashes, edits>> /\ edits' \in 0..MaxEdits
    BY <1>1 DEF queue, faults, CountersOK
  <2> QED
    BY <1>1, <1>3, <2>2, <2>3, <2>4, <2>5, LineInVoucher
<1>4. CASE Throws /\ UNCHANGED lines
  BY <1>1, <1>4, GoingOn DEF Throws, CountersOK, Pcs, tiger
<1> QED
  BY <1>2, <1>3, <1>4 DEF PostLine

LEMMA UserAddsLineKeeps ==
    ASSUME IInv, NEW v \in DOMAIN vouchers, UserAddsLine(v)
    PROVE  IInv'
<1>1. /\ AddLine(NoEvent, v) /\ UNCHANGED <<rows, resets, vouchers, poller, crashes, job, misses>>
      /\ edits' \in 0..MaxEdits /\ ControlOK /\ BooksOK /\ CountersOK /\ v \in Nat
  BY DEF UserAddsLine, IInv, CountersOK, queue, BooksOK
<1>2. ControlOK'
  BY <1>1 DEF ControlOK
<1>3. CallKnows'
  <2>1. \A d : HasLine(d)' <=> HasLine(d) \/ d = NoEvent
    BY <1>1, LinesOf
  <2>2. job.pc \in {"group", "create"} => job.ev # NoEvent
    BY <1>1 DEF ControlOK
  <2> QED
    BY <1>1, <2>1, <2>2 DEF IInv, CallKnows, HasLine
<1> QED
  BY <1>1, <1>2, <1>3, LineInVoucher DEF CountersOK, BooksOK

LEMMA ProcessKeeps == ASSUME IInv, Process PROVE IInv'
BY FindKeeps, FindGroupKeeps, CreateVoucherKeeps, BeforeAppendKeeps, PostLineKeeps, VerifyKeeps,
   ProbeKeeps DEF Process

-----------------------------------------------------------------------------
(* The steps of the queue and the poller. *)

LEMMA DirectKeeps == ASSUME IInv, NEW e \in Events, Direct(e) PROVE IInv'
<1>1. /\ job.pc = "free" /\ e \in Manual /\ ControlOK /\ CountersOK
      /\ UNCHANGED <<queue, tiger, poller, misses, faults>>
  BY DEF Direct, IInv
<1>2. PICK g \in Groups : job' = Called("direct", e, g)
  BY DEF Direct, Begins
<1>3. job' \in Job /\ job'.pc = "find" /\ job'.by = "direct" /\ job'.ev = e
  BY <1>2 DEF Called, Job
<1>4. ControlOK' /\ CallKnows'
  BY <1>1, <1>3 DEF ControlOK, CallKnows
<1> QED
  BY <1>1, <1>3, <1>4, CallStep DEF CountersOK

LEMMA TakeOK == ASSUME IInv, Take PROVE IInv'
<1>1. /\ job.pc = "free" /\ poller.pc = "loop" /\ ControlOK /\ CountersOK
      /\ UNCHANGED <<queue, tiger, misses, faults>>
  BY DEF Take, IInv, PollerIs
<1>2. PICK e \in poller.batch : /\ Begins("poller", e)
                                /\ poller' = [poller EXCEPT !.pc = "busy", !.batch = @ \ {e}, !.cur = e]
  BY DEF Take, Polls
<1>3. e \in Events /\ e # NoEvent
  BY <1>1 DEF ControlOK, Poller
<1>4. PICK g \in Groups : job' = Called("poller", e, g)
  BY <1>2 DEF Begins
<1>5. job' \in Job /\ job'.pc = "find" /\ job'.by = "poller" /\ job'.ev = e
  BY <1>3, <1>4 DEF Called, Job
<1>6. /\ poller' \in Poller /\ poller'.pc = "busy" /\ poller'.cur = e
      /\ poller'.result = "none" /\ e \notin poller'.batch
  BY <1>1, <1>2, <1>3 DEF ControlOK, Poller
<1>7. ControlOK' /\ CallKnows'
  BY <1>3, <1>5, <1>6 DEF ControlOK, CallKnows
<1> QED
  BY <1>1, <1>5, <1>6, <1>7, CallStep DEF CountersOK

(* A step that writes nothing at Tiger and begins no call. *)
LEMMA QueueStep ==
    ASSUME IInv, UNCHANGED <<tiger, misses, edits>>, rows' \in Tables,
           resets' \in 0..MaxResets, crashes' \in 0..MaxCrashes,
           ControlOK', job' \in {job, Free},
           poller'.pc = "report" => poller'.result = poller.result /\ poller'.cur = poller.cur
                                    /\ poller.pc = "report",
           \A e \in Confirmed(rows') : HasLine(e)
    PROVE  IInv'
<1>1. UNCHANGED <<vouchers, lines>>
  BY DEF tiger
<1>2. BooksOK' /\ CountersOK' /\ CallKnows'
  BY <1>1, FreeIsFree DEF IInv, BooksOK, CountersOK, CallKnows, HasLine
<1>3. ResultsTrue'
  BY <1>1 DEF IInv, ResultsTrue, HasLine
<1> QED
  BY <1>1, <1>2, <1>3 DEF IInv, OneLineWhileAnswered, AtMostOneLine, OneVoucherPerGroup

LEMMA ConfirmedKept ==
    ASSUME IInv, Confirmed(rows') \subseteq Confirmed(rows)
    PROVE  \A e \in Confirmed(rows') : HasLine(e)
BY DEF IInv, ResultsTrue

LEMMA GatewayKeeps ==
    ASSUME IInv, NEW e \in Events, Export(e) \/ AdminReset(e)
    PROVE  IInv'
<1>1. rows \in Tables /\ CountersOK /\ UNCHANGED <<tiger, job, poller, misses, faults>>
  BY DEF IInv, Export, AdminReset
<1>2. rows' \in Tables /\ Confirmed(rows') \subseteq Confirmed(rows)
  <2>1. PICK valid \in BOOLEAN :
           rows' = Queue!Upsert(rows, e, valid) \/ rows' = Queue!ResetRow(rows, e)
    BY DEF Export, AdminReset
  <2> QED
    BY <1>1, <2>1, StoreCalls
<1>3. resets' \in 0..MaxResets
  <2>1. resets' = resets \/ (resets < MaxResets /\ resets' = resets + 1)
    BY DEF Export, AdminReset
  <2> QED
    BY <1>1, <2>1 DEF CountersOK
<1>4. ControlOK'
  BY <1>1 DEF IInv, ControlOK
<1> QED
  BY <1>1, <1>2, <1>3, <1>4, ConfirmedKept, QueueStep DEF faults, CountersOK

LEMMA TickKeeps == ASSUME IInv, Tick PROVE IInv'
<1>1. /\ rows \in Tables /\ ControlOK /\ CountersOK /\ rows' = Queue!Aged(rows)
      /\ poller' = [poller EXCEPT !.age = Queue!Older(@)]
      /\ UNCHANGED <<resets, tiger, job, misses, faults>>
  BY DEF IInv, Tick
<1>2. \A a \in 0..(Lease + 1) : Queue!Older(a) \in 0..(Lease + 1)
  BY DEF Queue!Older
<1>3. /\ poller' \in Poller /\ poller'.pc = poller.pc /\ poller'.cur = poller.cur
      /\ poller'.batch = poller.batch /\ poller'.result = poller.result
  BY <1>1, <1>2 DEF ControlOK, Poller
<1>4. ControlOK'
  BY <1>1, <1>3 DEF ControlOK
<1> QED
  BY <1>1, <1>3, <1>4, ClaimAndAge, ConfirmedKept, QueueStep DEF faults, CountersOK

LEMMA ClaimKeeps == ASSUME IInv, Claim PROVE IInv'
<1>1. /\ rows \in Tables /\ ControlOK /\ CountersOK /\ poller.pc = "asleep"
      /\ rows' = Queue!Claimed(rows) /\ UNCHANGED <<resets, tiger, job, misses, faults>>
  BY DEF IInv, Claim, PollerIs
<1>2. PICK pc \in {"loop", "failed"} :
         poller' = [Asleep EXCEPT !.pc = pc, !.batch = Queue!Claimable(rows)]
  BY DEF Claim, Polls
<1>3. /\ poller' \in Poller /\ poller'.pc = pc /\ poller'.cur = NoEvent /\ poller'.result = "none"
  <2> DEFINE batch == Queue!Claimable(rows)
  <2>1. batch \subseteq Events
    BY <1>1, ClaimAndAge
  <2>2. poller' = [pc |-> pc, batch |-> batch, age |-> 0, cur |-> NoEvent, result |-> "none"]
    BY <1>2 DEF Asleep
  <2>3. 0 \in 0..(Lease + 1)
    OBVIOUS
  <2> HIDE DEF batch
  <2> QED
    BY <2>1, <2>2, <2>3 DEF Poller, Results
<1>4. NoEvent \notin poller'.batch
  BY <1>3 DEF Poller
<1>5. ControlOK'
  BY <1>1, <1>3, <1>4 DEF ControlOK
<1> QED
  BY <1>1, <1>3, <1>5, ClaimAndAge, ConfirmedKept, QueueStep DEF faults, CountersOK

(* The poller has reported, or failed to. *)
LEMMA ReportedFacts ==
    ASSUME ControlOK, poller.pc = "report", NEW pc \in {"loop", "failed"}, Reported(pc),
           UNCHANGED job
    PROVE  /\ ControlOK' /\ poller'.pc = pc /\ poller'.cur = NoEvent
           /\ poller'.batch = poller.batch /\ poller'.age = poller.age
<1>1. poller' = [poller EXCEPT !.pc = pc, !.cur = NoEvent, !.result = "none"]
  BY DEF Reported, Polls
<1>2. /\ poller' \in Poller /\ poller'.pc = pc /\ poller'.cur = NoEvent
      /\ poller'.result = "none" /\ poller'.batch = poller.batch /\ poller'.age = poller.age
  BY <1>1 DEF ControlOK, Poller, Results
<1>3. NoEvent \notin poller'.batch
  BY <1>2 DEF Poller
<1> QED
  BY <1>2, <1>3 DEF ControlOK

LEMMA ReportKeeps == ASSUME IInv, Report PROVE IInv'
<1>1. /\ rows \in Tables /\ ControlOK /\ CountersOK /\ poller.pc = "report"
      /\ rows' = Queue!UpdateResult(rows, poller.cur, poller.result)
      /\ UNCHANGED <<resets, tiger, job, misses, faults>>
  BY DEF IInv, Report, PollerIs
<1>2. poller.cur \in Events /\ poller.result \in {"success", "error"}
  BY <1>1 DEF ControlOK, Poller, Results
<1>3. rows' \in Tables /\ \A e \in Confirmed(rows') : HasLine(e)
  <2>1. CASE poller.result = "error"
    BY <1>1, <1>2, <2>1, StoreCalls, ConfirmedKept
  <2>2. CASE poller.result = "success"
    <3>1. Confirmed(rows') \subseteq Confirmed(rows) \cup {poller.cur} /\ rows' \in Tables
      BY <1>1, <1>2, <2>2, StoreCalls
    <3>2. HasLine(poller.cur)
      BY <1>1, <2>2 DEF IInv, ResultsTrue
    <3> QED
      BY <3>1, <3>2 DEF IInv, ResultsTrue
  <2> QED
    BY <1>2, <2>1, <2>2
<1>4. PICK pc \in {"loop", "failed"} : Reported(pc)
  BY DEF Report
<1> QED
  BY <1>1, <1>3, <1>4, ReportedFacts, QueueStep DEF faults, CountersOK

LEMMA ReportLostKeeps == ASSUME IInv, ReportLost PROVE IInv'
<1>1. /\ ControlOK /\ CountersOK /\ poller.pc = "report" /\ Reported("failed")
      /\ UNCHANGED <<queue, tiger, job, misses, faults>> /\ rows \in Tables
  BY DEF IInv, ReportLost, PollerIs
<1>2. ControlOK' /\ poller'.pc = "failed"
  BY <1>1, ReportedFacts
<1> QED
  BY <1>1, <1>2, ConfirmedKept, QueueStep DEF queue, faults, CountersOK

(* The end of a cycle, and a crash. *)
LEMMA SleepKeeps ==
    ASSUME IInv, CycleEnds \/ Crash
    PROVE  IInv'
<1>1. /\ poller' = Asleep /\ UNCHANGED <<queue, tiger, misses, edits>>
      /\ crashes' \in 0..MaxCrashes /\ job' \in {job, Free} /\ rows \in Tables /\ ControlOK
  BY DEF IInv, CycleEnds, Crash, Polls, CountersOK, faults
<1>2. job'.pc # "free" => job'.by # "poller"
  BY <1>1, FreeIsFree DEF CycleEnds, Crash, PollerIs, ControlOK
<1>3. ControlOK'
  BY <1>1, <1>2, FreeIsFree, AsleepIsIdle DEF ControlOK
<1> QED
  BY <1>1, <1>3, AsleepIsIdle, ConfirmedKept, QueueStep DEF queue, IInv, CountersOK

-----------------------------------------------------------------------------
(* The theorems. *)

LEMMA InitIInv == Init => IInv
<1> SUFFICES ASSUME Init
             PROVE  IInv
  OBVIOUS
<1>1. rows \in Tables /\ Confirmed(rows) = {}
  BY DEF Init, Tables, Confirmed, Queue!Row, Queue!Absent
<1>2. ControlOK
  BY FreeIsFree, AsleepIsIdle DEF Init, ControlOK
<1>3. BooksOK /\ CountersOK /\ DOMAIN lines = {} /\ DOMAIN vouchers = {}
  BY FreeIsFree DEF Init, BooksOK, CountersOK
<1>4. ResultsTrue /\ CallKnows
  BY <1>1, FreeIsFree, AsleepIsIdle DEF Init, ResultsTrue, CallKnows
<1> QED
  BY <1>1, <1>2, <1>3, <1>4 DEF IInv, OneLineWhileAnswered, AtMostOneLine, OneVoucherPerGroup

LEMMA NextKeepsIInv == IInv /\ [Next]_vars => IInv'
<1> SUFFICES ASSUME IInv, [Next]_vars
             PROVE  IInv'
  OBVIOUS
<1>1. CASE UNCHANGED vars
  <2>1. UNCHANGED <<rows, resets, vouchers, lines, job, poller, misses, edits, crashes>>
    BY <1>1 DEF vars, queue, tiger, faults
  <2> QED
    BY <2>1 DEF IInv, ControlOK, BooksOK, CountersOK, ResultsTrue, CallKnows, HasLine, Confirmed,
                OneLineWhileAnswered, AtMostOneLine, OneVoucherPerGroup
<1> QED
  BY <1>1, GatewayKeeps, DirectKeeps, UserAddsLineKeeps, ProcessKeeps, ClaimKeeps, TakeOK,
     ReportKeeps, ReportLostKeeps, SleepKeeps, TickKeeps DEF Next

LEMMA TigerInductive == Spec => []IInv
BY InitIInv, NextKeepsIInv, PTL DEF Spec

(* Rows, vouchers, lines, the call and the poller hold values of their      *)
(* types, and the poller waits exactly for the calls it has made.           *)
THEOREM TigerTypeCorrect == Spec => []TypeOK
<1>1. IInv => TypeOK
  BY DEF IInv, ControlOK, BooksOK, CountersOK, TypeOK, Tables
<1> QED
  BY <1>1, TigerInductive, PTL

(* While every query for a marker is answered, an invoice is booked at most *)
(* once, however the worker is interrupted, whatever Post reports and       *)
(* whoever sends the invoice (LogoObjectsClient.cs, the marker is looked    *)
(* for before each write).                                                  *)
THEOREM BookedOnce == Spec => []OneLineWhileAnswered
<1>1. IInv => OneLineWhileAnswered
  BY DEF IInv
<1> QED
  BY <1>1, TigerInductive, PTL

(* Under the same condition an account and day have one voucher.            *)
THEOREM OneVoucherADay == Spec => []OneVoucherPerGroup
<1>1. IInv => OneVoucherPerGroup
  BY DEF IInv
<1> QED
  BY <1>1, TigerInductive, PTL

(* What the gateway calls exported has its line, whether or not queries     *)
(* are answered.                                                            *)
THEOREM ExportedIsBooked == Spec => []ConfirmedHasLine
<1>1. IInv => ConfirmedHasLine
  BY DEF IInv, ResultsTrue, Confirmed, HasLine, ConfirmedHasLine
<1> QED
  BY <1>1, TigerInductive, PTL

-----------------------------------------------------------------------------
(* The worker is a client of the export queue: what it holds are the event  *)
(* in hand and the rest of its batch.                                       *)

InHand == {e \in Events : e \in poller.batch \/ e = poller.cur}

LEMMA HeldIs ==
    /\ Held = [c \in {Worker} |-> [e \in Events |-> IF e \in InHand THEN poller.age ELSE Lease + 2]]
    /\ Held' = [c \in {Worker} |->
                  [e \in Events |-> IF e \in InHand' THEN poller'.age ELSE Lease + 2]]
BY DEF Held, InHand

LEMMA SameHands ==
    ASSUME InHand' = InHand, poller'.age = poller.age
    PROVE  Held' = Held
BY HeldIs

(* A call takes nothing into the poller's hand and nothing out of it. *)
LEMMA CallsKeepHands ==
    ASSUME IInv, Process
    PROVE  InHand' = InHand /\ poller'.age = poller.age /\ UNCHANGED <<rows, resets>>
<1>1. ControlOK /\ UNCHANGED <<rows, resets>>
  BY DEF IInv, Process, Find, FindGroup, CreateVoucher, BeforeAppend, PostLine, Verify, Probe, queue
<1>2. ASSUME NEW result \in {"success", "error"}, Concludes(result), job.pc # "free"
      PROVE  UNCHANGED <<poller.batch, poller.cur, poller.age>>
  BY <1>1, <1>2, CallConcludes
<1>3. \/ UNCHANGED poller
      \/ \E result \in {"success", "error"} : Concludes(result) /\ job.pc # "free"
  BY DEF Process, Find, FindGroup, CreateVoucher, BeforeAppend, PostLine, Verify, Probe, Goes, Throws
<1>4. UNCHANGED <<poller.batch, poller.cur, poller.age>>
  BY <1>2, <1>3
<1> QED
  BY <1>1, <1>4 DEF InHand

(* The poller lets go of events it held. *)
LEMMA LettingGo ==
    ASSUME InHand' \subseteq InHand, poller'.age = poller.age \/ InHand' = {}
    PROVE  Held' = [Held EXCEPT ![Worker] =
                       [e \in Events |-> IF e \in InHand \ InHand' THEN Lease + 2
                                                                  ELSE Held[Worker][e]]]
<1>1. \A e \in Events : Held'[Worker][e] = IF e \in InHand \ InHand' THEN Lease + 2
                                                                    ELSE Held[Worker][e]
  BY HeldIs
<1> QED
  BY <1>1, HeldIs

LEMMA QueueInit == Init => Queue!Init
<1> SUFFICES ASSUME Init
             PROVE  Queue!Init
  OBVIOUS
<1>1. InHand = {}
  BY AsleepIsIdle DEF Init, InHand
<1> QED
  BY <1>1, HeldIs DEF Init, Queue!Init, Queue!NotHeld

LEMMA ForgetStep ==
    ASSUME InHand' \subseteq InHand, poller'.age = poller.age \/ InHand' = {},
           UNCHANGED <<rows, resets>>
    PROVE  Queue!Forget(Worker)
BY LettingGo DEF Queue!Forget, Queue!NotHeld, InHand

LEMMA ClaimStep == ASSUME IInv, Claim PROVE Queue!Claim(Worker)
<1>1. /\ rows \in Tables /\ poller.pc = "asleep" /\ rows' = Queue!Claimed(rows)
      /\ ControlOK /\ UNCHANGED resets
  BY DEF IInv, Claim, PollerIs
<1>2. InHand = {}
  BY <1>1 DEF ControlOK, InHand
<1>3. poller'.batch = Queue!Claimable(rows) /\ poller'.age = 0 /\ poller'.cur = NoEvent
  BY DEF Claim, Polls, Asleep
<1>4. InHand' = Queue!Claimable(rows)
  BY <1>1, <1>3, ClaimAndAge DEF InHand
<1>5. Held' = [Held EXCEPT ![Worker] =
                  [e \in Events |-> IF e \in Queue!Claimable(rows) THEN 0 ELSE Held[Worker][e]]]
  <2>1. \A e \in Events : Held'[Worker][e] = IF e \in Queue!Claimable(rows) THEN 0
                                                                           ELSE Held[Worker][e]
    BY <1>2, <1>3, <1>4, HeldIs
  <2> QED
    BY <2>1, HeldIs
<1> QED
  BY <1>1, <1>5 DEF Queue!Claim

LEMMA TickStep == ASSUME IInv, Tick PROVE Queue!Tick
<1>1. /\ poller \in Poller /\ rows' = Queue!Aged(rows) /\ UNCHANGED resets
      /\ poller' = [poller EXCEPT !.age = Queue!Older(@)]
  BY DEF IInv, ControlOK, Tick
<1>2. InHand' = InHand /\ poller'.age = Queue!Older(poller.age)
  BY <1>1 DEF InHand, Poller
<1>3. Queue!Older(Lease + 2) = Lease + 2
  BY DEF Queue!Older
<1>4. \A e \in Events : Held'[Worker][e] = Queue!Older(Held[Worker][e])
  BY <1>2, <1>3, HeldIs
<1>5. Held' = [c \in {Worker} |-> [e \in Events |-> Queue!Older(Held[c][e])]]
  BY <1>4, HeldIs
<1> QED
  BY <1>1, <1>5 DEF Queue!Tick

(* The poller's hand after a report. *)
LEMMA HandAfterReport ==
    ASSUME IInv, poller.pc = "report", NEW pc \in {"loop", "failed"}, Reported(pc), UNCHANGED job
    PROVE  /\ poller.cur \in Events /\ poller.age \in 0..(Lease + 1)
           /\ poller.cur \in InHand
           /\ InHand' = InHand \ {poller.cur} /\ poller'.age = poller.age
<1>1. /\ poller.cur \in Events /\ poller.cur \notin poller.batch
      /\ poller.age \in 0..(Lease + 1)
  BY DEF IInv, ControlOK, Poller
<1>2. poller'.cur = NoEvent /\ poller'.batch = poller.batch /\ poller'.age = poller.age
  BY ReportedFacts DEF IInv
<1> QED
  BY <1>1, <1>2 DEF InHand

LEMMA ReportStep ==
    ASSUME IInv, Report
    PROVE  \E e \in Events, result \in {"success", "error"} : Queue!Report(Worker, e, result)
<1>1. /\ poller.pc = "report" /\ UNCHANGED <<resets, job>>
      /\ rows' = Queue!UpdateResult(rows, poller.cur, poller.result)
      /\ poller.result \in {"success", "error"}
  BY DEF Report, PollerIs, IInv, ControlOK, Poller, Results
<1>2. PICK pc \in {"loop", "failed"} : Reported(pc)
  BY DEF Report
<1> DEFINE e == poller.cur
<1>3. e \in Events /\ e \in InHand /\ InHand' = InHand \ {e} /\ poller'.age = poller.age
      /\ poller.age \in 0..(Lease + 1)
  BY <1>1, <1>2, HandAfterReport
<1> HIDE DEF e
<1>4. Held[Worker][e] # Lease + 2
  BY <1>3, HeldIs
<1>5. Held' = [Held EXCEPT ![Worker][e] = Lease + 2]
  <2>1. \A d \in Events : Held'[Worker][d] = IF d = e THEN Lease + 2 ELSE Held[Worker][d]
    BY <1>3, HeldIs
  <2> QED
    BY <2>1, HeldIs
<1>6. Queue!Report(Worker, e, poller.result)
  BY <1>1, <1>4, <1>5 DEF Queue!Report, Queue!NotHeld, e
<1> QED
  BY <1>1, <1>3, <1>6

LEMMA QueueNext ==
    ASSUME IInv, [Next]_vars
    PROVE  [Queue!Next]_(Queue!queueVars)
<1>1. ASSUME InHand' = InHand, poller'.age = poller.age, UNCHANGED <<rows, resets>>
      PROVE  UNCHANGED Queue!queueVars
  BY <1>1, SameHands DEF Queue!queueVars
<1>2. ASSUME NEW e \in Events, Export(e)
      PROVE  Queue!Export(e)
  <2>1. UNCHANGED <<poller, resets>>
    BY <1>2 DEF Export
  <2>2. Held' = Held
    BY <2>1, SameHands DEF InHand
  <2> QED
    BY <1>2, <2>1, <2>2 DEF Export, Queue!Export
<1>3. ASSUME NEW e \in Events, AdminReset(e)
      PROVE  Queue!AdminReset(e)
  <2>1. Held' = Held
    BY <1>3, SameHands DEF InHand, AdminReset
  <2> QED
    BY <1>3, <2>1 DEF AdminReset, Queue!AdminReset
<1>4. CASE Take
  <2>1. PICK e \in poller.batch :
           poller' = [poller EXCEPT !.pc = "busy", !.batch = @ \ {e}, !.cur = e]
    BY <1>4 DEF Take, Polls
  <2>2. poller.cur = NoEvent /\ poller \in Poller
    BY <1>4 DEF Take, PollerIs, IInv, ControlOK
  <2>3. poller'.batch = poller.batch \ {e} /\ poller'.cur = e /\ poller'.age = poller.age
    BY <2>1, <2>2 DEF Poller
  <2>4. InHand' = InHand
    BY <2>2, <2>3 DEF InHand
  <2> QED
    BY <1>1, <1>4, <2>3, <2>4 DEF Take, queue
<1>5. CASE ReportLost
  <2>1. /\ poller.pc = "report" /\ Reported("failed") /\ UNCHANGED <<rows, resets, job>>
    BY <1>5 DEF ReportLost, PollerIs, queue
  <2>2. Queue!Forget(Worker)
    BY <2>1, HandAfterReport, ForgetStep
  <2> QED
    BY <2>2 DEF Queue!Next
<1>6. CASE CycleEnds \/ Crash
  <2>1. poller' = Asleep /\ UNCHANGED <<rows, resets>>
    BY <1>6 DEF CycleEnds, Crash, Polls, queue
  <2>2. InHand' = {}
    BY <2>1, AsleepIsIdle DEF InHand
  <2>3. Queue!Forget(Worker)
    BY <2>1, <2>2, ForgetStep
  <2> QED
    BY <2>3 DEF Queue!Next
<1>7. ASSUME NEW e \in Events, Direct(e)
      PROVE  UNCHANGED Queue!queueVars
  BY <1>1, <1>7 DEF Direct, InHand, queue
<1>8. ASSUME NEW v \in DOMAIN vouchers, UserAddsLine(v)
      PROVE  UNCHANGED Queue!queueVars
  BY <1>1, <1>8 DEF UserAddsLine, InHand, queue
<1>9. CASE UNCHANGED vars
  BY <1>1, <1>9 DEF vars, InHand, queue
<1>10. CASE Process
  BY <1>1, <1>10, CallsKeepHands
<1>11. CASE Report
  BY <1>11, ReportStep DEF Queue!Next
<1>12. CASE Claim
  BY <1>12, ClaimStep DEF Queue!Next
<1>13. CASE Tick
  BY <1>13, TickStep DEF Queue!Next
<1> QED
  BY <1>2, <1>3, <1>4, <1>5, <1>6, <1>7, <1>8, <1>9, <1>10, <1>11, <1>12, <1>13
     DEF Next, Queue!Next

(* Every step of the worker, and of the gateway it works for, is a step of  *)
(* the export queue or none: nothing that ExportQueue allows any client is  *)
(* exceeded by this one (PaymentGatewayPoller.cs).                          *)
THEOREM WorkerFollowsQueue == Spec => FollowsQueue
<1>1. Init => Queue!Init
  BY QueueInit
<1>2. IInv /\ [Next]_vars => [Queue!Next]_(Queue!queueVars)
  BY QueueNext
<1> QED
  BY <1>1, <1>2, TigerInductive, PTL DEF Spec, Queue!Spec, FollowsQueue

-----------------------------------------------------------------------------
(* Queue and worker implement Delivery when events come from the queue      *)
(* alone and every query is answered.                                       *)

OneWayOnly == Manual = {} /\ MaxMisses = 0

(* What the poller has in hand stays leased: a lease is given up at the next *)
(* claim, which is its own.                                                  *)
HandLeased == \A e \in InHand : rows[e].st = "processing"

Promised == [Promise!Next]_<<Outcome, Booked>>

(* The store calls, by the status of the row they write. *)
OnlyRow(rs, new, e, s) == new[e].st = s /\ \A d \in Events \ {e} : new[d] = rs[d]

LEMMA Statuses ==
    ASSUME NEW rs \in Tables, NEW e \in Events
    PROVE  /\ \A valid \in BOOLEAN :
                 rs[e].st = "absent" =>
                    OnlyRow(rs, Queue!Upsert(rs, e, valid), e, IF valid THEN "pending" ELSE "error")
           /\ rs[e].st = "pending" => OnlyRow(rs, Queue!Upsert(rs, e, FALSE), e, "error")
           /\ \A valid \in BOOLEAN :
                 rs[e].st # "absent" /\ (valid \/ rs[e].st # "pending") =>
                    Queue!Upsert(rs, e, valid) = rs
           /\ rs[e].st = "error" => OnlyRow(rs, Queue!ResetRow(rs, e), e, "pending")
           /\ rs[e].st # "error" => Queue!ResetRow(rs, e) = rs
           /\ \A result \in {"success", "error"} :
                 rs[e].st \in {"pending", "processing"} =>
                    OnlyRow(rs, Queue!UpdateResult(rs, e, result), e, result)
           /\ \A result :
                 rs[e].st \notin {"pending", "processing"} => Queue!UpdateResult(rs, e, result) = rs
<1>1. \A s \in {"pending", "success", "error"} : OnlyRow(rs, QP!SetStatus(rs, e, s), e, s)
  <2>1. rs \in QP!Tables
    BY SameQueue
  <2>2. ASSUME NEW s \in QP!Written
        PROVE  QP!SetStatus(rs, e, s)[e].st = s
    BY <2>1, QueueAssumed, QP!SetStatusRow
  <2>3. ASSUME NEW s \in QP!Written, NEW d \in Events \ {e}
        PROVE  QP!SetStatus(rs, e, s)[d] = rs[d]
    BY <2>1, QueueAssumed, QP!SetStatusRow
  <2> QED
    BY <2>2, <2>3 DEF OnlyRow, QP!Written
<1>2. ASSUME NEW valid \in BOOLEAN, rs[e].st = "absent"
      PROVE  OnlyRow(rs, QP!Upsert(rs, e, valid), e, IF valid THEN "pending" ELSE "error")
  <2> DEFINE row == [st |-> IF valid THEN "pending" ELSE "error",
                     id |-> QP!Cardinality(QP!Saved(rs)) + 1, age |-> 0]
  <2>1. QP!Upsert(rs, e, valid) = [rs EXCEPT ![e] = row]
    BY <1>2 DEF QP!Upsert
  <2>2. row.st = IF valid THEN "pending" ELSE "error"
    OBVIOUS
  <2> HIDE DEF row
  <2> QED
    BY <2>1, <2>2 DEF OnlyRow, Tables
<1>3. rs[e].st = "pending" => QP!Upsert(rs, e, FALSE) = QP!SetStatus(rs, e, "error")
  BY DEF QP!Upsert
<1>4. \A valid \in BOOLEAN :
         rs[e].st # "absent" /\ (valid \/ rs[e].st # "pending") => QP!Upsert(rs, e, valid) = rs
  BY DEF QP!Upsert
<1> QED
  BY <1>1, <1>2, <1>3, <1>4, SameQueue DEF QP!ResetRow, QP!UpdateResult

(* A claim moves rows between pending and processing only. *)
LEMMA ClaimStatuses ==
    ASSUME NEW rs \in Tables
    PROVE  /\ \A e \in Queue!Claimable(rs) : Queue!Claimed(rs)[e].st = "processing"
           /\ \A e \in Events : \/ Queue!Claimed(rs)[e].st = rs[e].st
                                \/ /\ rs[e].st \in {"pending", "processing"}
                                   /\ Queue!Claimed(rs)[e].st \in {"pending", "processing"}
           /\ \A e \in Events : Queue!Aged(rs)[e].st = rs[e].st
<1>1. rs \in QP!Tables
  BY SameQueue
<1>2. /\ \A e \in QP!Claimable(rs) : /\ QP!Claimed(rs)[e].st = "processing"
                                     /\ rs[e].st \in {"pending", "processing"}
      /\ \A e \in Events \ QP!Claimable(rs) : QP!Claimed(rs)[e] = QP!Expired(rs)[e]
  BY <1>1, QueueAssumed, QP!ClaimedRows
<1>3. \A e \in Events : \/ QP!Expired(rs)[e] = rs[e]
                        \/ rs[e].st = "processing" /\ QP!Expired(rs)[e].st = "pending"
  BY <1>1, QueueAssumed, QP!ExpiredRows
<1>4. \A e \in Events : QP!Aged(rs)[e].st = rs[e].st
  BY <1>1, QueueAssumed, QP!AgedRows
<1>5. \A e \in Events : \/ QP!Claimed(rs)[e].st = rs[e].st
                        \/ /\ rs[e].st \in {"pending", "processing"}
                           /\ QP!Claimed(rs)[e].st \in {"pending", "processing"}
  BY <1>2, <1>3
<1> QED
  BY <1>2, <1>4, <1>5, SameQueue

(* What the gateway calls an outcome, by the status of the row. *)
Named(st) ==
    CASE st = "absent" -> "none"
      [] st \in {"pending", "processing"} -> "open"
      [] st = "success" -> "done"
      [] st = "error" -> "failed"

LEMMA OutcomeIs ==
    ASSUME NEW e \in Events, rows \in Tables, rows' \in Tables
    PROVE  /\ rows[e].st = "absent" => Outcome[e] = "none"
           /\ rows[e].st \in {"pending", "processing"} => Outcome[e] = "open"
           /\ rows[e].st = "success" => Outcome[e] = "done"
           /\ rows[e].st = "error" => Outcome[e] = "failed"
           /\ rows'[e].st \in {"pending", "processing"} => Outcome'[e] = "open"
           /\ rows'[e].st = "success" => Outcome'[e] = "done"
           /\ rows'[e].st = "error" => Outcome'[e] = "failed"
           /\ rows'[e].st = rows[e].st => Outcome'[e] = Outcome[e]
           /\ Outcome = [d \in Events |-> Outcome[d]]
           /\ Outcome' = [d \in Events |-> Outcome'[d]]
<1>1. /\ Outcome = [d \in Events |-> Named(rows[d].st)]
      /\ Outcome' = [d \in Events |-> Named(rows'[d].st)]
  BY Zenon DEF Outcome, Named
<1>2. /\ Named("absent") = "none" /\ Named("success") = "done" /\ Named("error") = "failed"
      /\ Named("pending") = "open" /\ Named("processing") = "open"
  BY DEF Named
<1> QED
  BY <1>1, <1>2

LEMMA OutcomeUnchanged ==
    ASSUME rows \in Tables, rows' \in Tables,
           \A e \in Events : \/ rows'[e].st = rows[e].st
                             \/ /\ rows[e].st \in {"pending", "processing"}
                                /\ rows'[e].st \in {"pending", "processing"}
    PROVE  Outcome' = Outcome
<1>1. \A e \in Events : Outcome'[e] = Outcome[e]
  BY OutcomeIs
<1> QED
  BY <1>1 DEF Outcome

LEMMA OutcomeMoves ==
    ASSUME rows \in Tables, rows' \in Tables, NEW e \in Events, NEW s,
           OnlyRow(rows, rows', e, s)
    PROVE  Promise!Move(e, Outcome[e], Outcome'[e])
<1>1. \A d \in Events \ {e} : Outcome'[d] = Outcome[d]
  BY OutcomeIs DEF OnlyRow
<1>2. Outcome' = [Outcome EXCEPT ![e] = Outcome'[e]]
  BY <1>1, OutcomeIs
<1> QED
  BY <1>2 DEF Promise!Move

(* The lines of an invoice are counted by whether there is one. *)
LEMMA BookedIs ==
    IInv /\ misses = 0 => Booked = [e \in Events |-> IF HasLine(e) THEN 1 ELSE 0]
<1> SUFFICES ASSUME IInv, misses = 0
             PROVE  Booked = [e \in Events |-> IF HasLine(e) THEN 1 ELSE 0]
  OBVIOUS
<1>1. ASSUME NEW e \in Events
      PROVE  Booked[e] = IF HasLine(e) THEN 1 ELSE 0
  <2> DEFINE S == {i \in DOMAIN lines : lines[i].ev = e}
  <2>1. Booked[e] = Cardinality(S)
    BY DEF Booked
  <2>2. CASE HasLine(e)
    <3>1. PICK i \in DOMAIN lines : lines[i].ev = e
      BY <2>2 DEF HasLine
    <3>2. S = {i}
      BY <3>1 DEF IInv, OneLineWhileAnswered, AtMostOneLine
    <3> HIDE DEF S
    <3> QED
      BY <2>1, <2>2, <3>2, FS_Singleton
  <2>3. CASE ~HasLine(e)
    <3>1. S = {}
      BY <2>3 DEF HasLine
    <3> HIDE DEF S
    <3> QED
      BY <2>1, <2>3, <3>1, FS_EmptySet
  <2> QED
    BY <2>2, <2>3
<1> QED
  BY <1>1 DEF Booked

SInv == IInv /\ HandLeased

Silent == UNCHANGED <<Outcome, Booked>>

LEMMA SilentPromised == Silent => Promised
BY DEF Silent, Promised

(* A row that changes its outcome. *)
LEMMA RowMoves ==
    ASSUME rows \in Tables, rows' \in Tables, NEW e \in Events, NEW s,
           OnlyRow(rows, rows', e, s), Booked' = Booked,
           \/ rows[e].st = "absent" /\ s \in {"pending", "error"}
           \/ rows[e].st \in {"pending", "processing"} /\ s = "error"
           \/ rows[e].st \in {"pending", "processing"} /\ s = "success" /\ Booked[e] = 1
           \/ rows[e].st = "error" /\ s = "pending"
    PROVE  Promised
<1>0. rows'[e].st = s /\ Promise!Move(e, Outcome[e], Outcome'[e])
  BY OutcomeMoves DEF OnlyRow
<1>1. CASE rows[e].st = "absent" /\ s = "pending"
  BY <1>0, <1>1, OutcomeIs DEF Promised, Promise!Next, Promise!Offer
<1>2. CASE rows[e].st = "absent" /\ s = "error"
  BY <1>0, <1>2, OutcomeIs DEF Promised, Promise!Next, Promise!Reject
<1>3. CASE rows[e].st \in {"pending", "processing"} /\ s = "error"
  BY <1>0, <1>3, OutcomeIs DEF Promised, Promise!Next, Promise!Fail
<1>4. CASE rows[e].st \in {"pending", "processing"} /\ s = "success" /\ Booked[e] = 1
  BY <1>0, <1>4, OutcomeIs DEF Promised, Promise!Next, Promise!Confirm
<1>5. CASE rows[e].st = "error" /\ s = "pending"
  BY <1>0, <1>5, OutcomeIs DEF Promised, Promise!Next, Promise!Retry
<1> QED
  BY <1>1, <1>2, <1>3, <1>4, <1>5

LEMMA GatewayPromised ==
    ASSUME SInv, IInv', NEW e \in Events, Export(e) \/ AdminReset(e)
    PROVE  HandLeased' /\ Promised
<1>1. /\ rows \in Tables /\ rows' \in Tables
      /\ UNCHANGED <<lines, poller>> /\ HandLeased
  BY DEF SInv, IInv, Export, AdminReset, tiger
<1>2. Booked' = Booked /\ InHand' = InHand
  BY <1>1 DEF Booked, InHand
<1>3. PICK valid \in BOOLEAN :
         \/ rows' = Queue!Upsert(rows, e, valid)
         \/ rows' = Queue!ResetRow(rows, e)
  BY DEF Export, AdminReset
<1>4. \/ rows' = rows
      \/ \E s \in {"pending", "error"} :
            /\ OnlyRow(rows, rows', e, s)
            /\ \/ rows[e].st = "absent"
               \/ rows[e].st = "pending" /\ s = "error"
               \/ rows[e].st = "error" /\ s = "pending"
  <2>1. CASE rows' = Queue!ResetRow(rows, e)
    BY <1>1, <2>1, Statuses
  <2>2. CASE rows' = Queue!Upsert(rows, e, valid) /\ rows[e].st = "absent"
    <3>1. OnlyRow(rows, rows', e, IF valid THEN "pending" ELSE "error")
      BY <1>1, <2>2, Statuses
    <3>2. CASE valid
      BY <2>2, <3>1, <3>2
    <3>3. CASE ~valid
      BY <2>2, <3>1, <3>3
    <3> QED
      BY <3>2, <3>3
  <2>3. CASE rows' = Queue!Upsert(rows, e, valid) /\ rows[e].st = "pending" /\ ~valid
    <3>1. rows' = Queue!Upsert(rows, e, FALSE)
      BY <2>3
    <3> QED
      BY <1>1, <2>3, <3>1, Statuses
  <2>4. CASE rows' = Queue!Upsert(rows, e, valid) /\ rows[e].st # "absent"
             /\ (valid \/ rows[e].st # "pending")
    BY <1>1, <2>4, Statuses
  <2> QED
    BY <1>3, <2>1, <2>2, <2>3, <2>4
<1>5. CASE rows' = rows
  BY <1>1, <1>2, <1>5, SilentPromised DEF Silent, Outcome, HandLeased
<1>6. ASSUME NEW s \in {"pending", "error"}, OnlyRow(rows, rows', e, s),
             \/ rows[e].st = "absent"
             \/ rows[e].st = "pending" /\ s = "error"
             \/ rows[e].st = "error" /\ s = "pending"
      PROVE  HandLeased' /\ Promised
  <2>1. Promised
    BY <1>1, <1>2, <1>6, RowMoves
  <2>2. HandLeased'
    BY <1>1, <1>2, <1>6 DEF HandLeased, OnlyRow, InHand
  <2> QED
    BY <2>1, <2>2
<1> QED
  BY <1>4, <1>5, <1>6

(* A step that moves no row between outcomes and adds no line of an invoice. *)
LEMMA ClaimPromised ==
    ASSUME SInv, IInv', Claim
    PROVE  HandLeased' /\ Promised
<1>1. /\ rows \in Tables /\ rows' \in Tables /\ rows' = Queue!Claimed(rows)
      /\ UNCHANGED lines
  BY DEF SInv, IInv, Claim, tiger
<1>2. poller'.batch = Queue!Claimable(rows) /\ poller'.cur = NoEvent
  BY DEF Claim, Polls, Asleep
<1>3. HandLeased'
  <2>1. InHand' = Queue!Claimable(rows)
    BY <1>1, <1>2, ClaimAndAge DEF InHand
  <2> QED
    BY <1>1, <2>1, ClaimStatuses DEF HandLeased
<1>4. Outcome' = Outcome
  BY <1>1, ClaimStatuses, OutcomeUnchanged
<1> QED
  BY <1>1, <1>3, <1>4, SilentPromised DEF Silent, Booked

LEMMA TickPromised ==
    ASSUME SInv, IInv', Tick
    PROVE  HandLeased' /\ Promised
<1>1. /\ rows \in Tables /\ rows' \in Tables /\ rows' = Queue!Aged(rows) /\ HandLeased
      /\ poller \in Poller /\ poller' = [poller EXCEPT !.age = Queue!Older(@)]
      /\ UNCHANGED lines
  BY DEF SInv, IInv, ControlOK, Tick, tiger
<1>2. InHand' = InHand
  BY <1>1 DEF InHand, Poller
<1>3. \A e \in Events : rows'[e].st = rows[e].st
  BY <1>1, ClaimStatuses
<1>4. Outcome' = Outcome
  BY <1>1, <1>3, OutcomeUnchanged
<1>5. HandLeased'
  BY <1>1, <1>2, <1>3 DEF HandLeased, InHand
<1> QED
  BY <1>1, <1>4, <1>5, SilentPromised DEF Silent, Booked

(* The poller lets go of events, or takes one of its batch. *)
LEMMA HandsPromised ==
    ASSUME SInv, UNCHANGED <<rows, lines>>, InHand' \subseteq InHand
    PROVE  HandLeased' /\ Promised
BY SilentPromised DEF SInv, HandLeased, Silent, Outcome, Booked

LEMMA ReportPromised ==
    ASSUME SInv, IInv', misses = 0, Report
    PROVE  HandLeased' /\ Promised
<1>1. /\ rows \in Tables /\ rows' \in Tables /\ HandLeased /\ IInv
      /\ poller.pc = "report" /\ poller.result \in {"success", "error"}
      /\ rows' = Queue!UpdateResult(rows, poller.cur, poller.result)
      /\ UNCHANGED <<lines, job>>
  BY DEF SInv, IInv, Report, PollerIs, tiger, ControlOK, Poller, Results
<1>2. PICK pc \in {"loop", "failed"} : Reported(pc)
  BY DEF Report
<1> DEFINE e == poller.cur
<1>3. e \in Events /\ e \in InHand /\ InHand' = InHand \ {e}
  BY <1>1, <1>2, HandAfterReport
<1>4. rows[e].st = "processing"
  BY <1>1, <1>3 DEF HandLeased
<1>5. OnlyRow(rows, rows', e, poller.result)
  BY <1>1, <1>3, <1>4, Statuses
<1>6. poller.result = "success" => Booked[e] = 1
  BY <1>1, <1>3, BookedIs DEF IInv, ResultsTrue
<1>7. Booked' = Booked
  BY <1>1 DEF Booked
<1> HIDE DEF e
<1>8. Promised
  BY <1>1, <1>3, <1>4, <1>5, <1>6, <1>7, RowMoves
<1>9. HandLeased'
  BY <1>1, <1>3, <1>5 DEF HandLeased, OnlyRow, InHand
<1> QED
  BY <1>8, <1>9

LEMMA BookedIsNext ==
    (IInv /\ misses = 0)' => (Booked = [e \in Events |-> IF HasLine(e) THEN 1 ELSE 0])'
BY BookedIs, PTL

(* The line of an invoice in hand is recorded, the first one. *)
LEMMA RecordPromised ==
    ASSUME SInv, IInv', misses = 0, misses' = 0, UNCHANGED <<rows, poller>>,
           NEW e \in InHand, NEW v \in Nat, ~HasLine(e), AddLine(e, v)
    PROVE  HandLeased' /\ Promised
<1>1. IInv /\ BooksOK /\ rows \in Tables /\ e \in Events /\ rows[e].st = "processing"
  BY DEF SInv, IInv, HandLeased, InHand
<1>2. HandLeased'
  BY DEF SInv, HandLeased, InHand
<1>3. Booked = [d \in Events |-> IF HasLine(d) THEN 1 ELSE 0]
  BY <1>1, BookedIs
<1>4. Booked' = [d \in Events |-> IF HasLine(d)' THEN 1 ELSE 0]
  BY BookedIsNext
<1>5. \A d : HasLine(d)' <=> HasLine(d) \/ d = e
  BY <1>1, LinesOf
<1>6. Booked[e] = 0 /\ Booked' = [Booked EXCEPT ![e] = 1]
  BY <1>1, <1>3, <1>4, <1>5
<1>7. Outcome[e] = "open" /\ Outcome' = Outcome
  BY <1>1, OutcomeIs DEF Outcome
<1>8. Promise!Record(e)
  BY <1>6, <1>7 DEF Promise!Record
<1> QED
  BY <1>1, <1>2, <1>8 DEF Promised, Promise!Next

LEMMA ProcessPromised ==
    ASSUME OneWayOnly, SInv, IInv', Process
    PROVE  HandLeased' /\ Promised
<1>1. /\ IInv /\ misses = 0 /\ misses' = 0 /\ UNCHANGED rows /\ InHand' = InHand
      /\ BooksOK /\ CountersOK /\ ControlOK
  BY CallsKeepHands DEF SInv, IInv, CountersOK, OneWayOnly
<1>2. job.pc # "free" => job.ev \in InHand
  BY <1>1 DEF ControlOK, Job, OneWayOnly, InHand
<1>3. CASE UNCHANGED lines
  BY <1>1, <1>3, HandsPromised
<1>4. CASE CreateVoucher /\ lines' # lines
  <2>1. /\ job.pc = "create" /\ AddLine(job.ev, Len(vouchers) + 1)
        /\ Goes("verifyNew") \/ Goes("probe")
    BY <1>4 DEF CreateVoucher, tiger
  <2>2. ~HasLine(job.ev)
    BY <1>1, <2>1 DEF IInv, CallKnows
  <2>3. Len(vouchers) + 1 \in Nat
    BY <1>1 DEF BooksOK
  <2>4. UNCHANGED poller
    BY <2>1 DEF Goes
  <2> QED
    BY <1>1, <1>2, <2>1, <2>2, <2>3, <2>4, RecordPromised
<1>5. CASE PostLine /\ lines' # lines
  <2>1. /\ job.pc = "post" /\ NotSeen(job.ev) /\ AddLine(job.ev, job.ref)
        /\ Goes("verifyLine") \/ Goes("probe")
    BY <1>5 DEF PostLine
  <2>2. ~HasLine(job.ev)
    BY <1>1, <2>1, Queries
  <2>3. job.ref \in Nat
    BY <1>1 DEF ControlOK, Job
  <2>4. UNCHANGED poller
    BY <2>1 DEF Goes
  <2> QED
    BY <1>1, <1>2, <2>1, <2>2, <2>3, <2>4, RecordPromised
<1>6. (CreateVoucher /\ lines' # lines) \/ (PostLine /\ lines' # lines) \/ UNCHANGED lines
  BY DEF Process, Find, FindGroup, BeforeAppend, Verify, Probe, tiger
<1> QED
  BY <1>3, <1>4, <1>5, <1>6

(* The lines of users are no invoice's. *)
LEMMA UserPromised ==
    ASSUME OneWayOnly, SInv, IInv', NEW v \in DOMAIN vouchers, UserAddsLine(v)
    PROVE  HandLeased' /\ Promised
<1>1. /\ IInv /\ misses = 0 /\ misses' = 0 /\ BooksOK /\ UNCHANGED <<rows, poller>>
      /\ AddLine(NoEvent, v) /\ v \in Nat
  BY DEF SInv, IInv, CountersOK, OneWayOnly, UserAddsLine, queue, BooksOK
<1>2. \A d \in Events : HasLine(d)' <=> HasLine(d)
  BY <1>1, LinesOf
<1>3. Booked' = Booked
  BY <1>1, <1>2, BookedIs, BookedIsNext
<1>4. HandLeased'
  BY <1>1 DEF SInv, HandLeased, InHand
<1> QED
  BY <1>1, <1>3, <1>4, SilentPromised DEF Silent, Outcome

LEMMA PromiseInit == Init => SInv /\ Promise!Init
<1> SUFFICES ASSUME Init
             PROVE  SInv /\ Promise!Init
  OBVIOUS
<1>1. IInv
  BY InitIInv
<1>2. HandLeased
  BY AsleepIsIdle DEF Init, HandLeased, InHand
<1>3. \A e \in Events : ~HasLine(e)
  BY DEF Init, HasLine
<1>4. Booked = [e \in Events |-> 0]
  BY <1>1, <1>3, BookedIs DEF Init
<1>5. \A e \in Events : rows[e].st = "absent"
  BY DEF Init, Queue!Absent
<1>6. Outcome = [e \in Events |-> "none"]
  BY <1>5 DEF Outcome
<1> QED
  BY <1>1, <1>2, <1>4, <1>6 DEF SInv, Promise!Init

LEMMA PromiseNext ==
    ASSUME OneWayOnly, SInv, [Next]_vars
    PROVE  SInv' /\ Promised
<1>1. IInv' /\ IInv
  BY NextKeepsIInv DEF SInv
<1>2. misses = 0
  BY <1>1 DEF IInv, CountersOK, OneWayOnly
<1>3. CASE Take
  <2>1. PICK e \in poller.batch :
           poller' = [poller EXCEPT !.pc = "busy", !.batch = @ \ {e}, !.cur = e]
    BY <1>3 DEF Take, Polls
  <2>2. poller'.batch = poller.batch \ {e} /\ poller'.cur = e
    BY <1>1, <2>1 DEF IInv, ControlOK, Poller
  <2>3. InHand' \subseteq InHand
    BY <2>2 DEF InHand
  <2> QED
    BY <1>1, <1>3, <2>3, HandsPromised DEF SInv, Take, queue, tiger
<1>4. CASE ReportLost
  <2>1. /\ poller.pc = "report" /\ Reported("failed") /\ UNCHANGED <<rows, lines, job>>
    BY <1>4 DEF ReportLost, PollerIs, queue, tiger
  <2>2. InHand' \subseteq InHand
    BY <1>1, <2>1, HandAfterReport
  <2> QED
    BY <1>1, <2>1, <2>2, HandsPromised DEF SInv
<1>5. CASE CycleEnds \/ Crash
  <2>1. poller' = Asleep /\ UNCHANGED <<rows, lines>>
    BY <1>5 DEF CycleEnds, Crash, Polls, queue, tiger
  <2>2. InHand' \subseteq InHand
    BY <2>1, AsleepIsIdle DEF InHand
  <2> QED
    BY <1>1, <2>1, <2>2, HandsPromised DEF SInv
<1>6. ASSUME NEW e \in Events, Direct(e)
      PROVE  SInv' /\ Promised
  BY <1>6 DEF Direct, OneWayOnly
<1>7. CASE UNCHANGED vars
  <2>1. UNCHANGED <<rows, lines, poller>>
    BY <1>7 DEF vars, queue, tiger
  <2>2. InHand' \subseteq InHand
    BY <2>1 DEF InHand
  <2> QED
    BY <1>1, <2>1, <2>2, HandsPromised DEF SInv
<1> QED
  BY <1>1, <1>2, <1>3, <1>4, <1>5, <1>6, <1>7, GatewayPromised, UserPromised, ProcessPromised,
     ClaimPromised, ReportPromised, TickPromised DEF Next, SInv

(* When events come from the queue alone and every query is answered, queue *)
(* and worker keep the promise of Delivery: an invoice is offered, booked   *)
(* once, and confirmed only when it is booked; what failed is tried again   *)
(* only on request.                                                         *)
THEOREM WorkerDelivers == ASSUME OneWayOnly PROVE Spec => Delivers
<1>1. Init => SInv /\ Promise!Init
  BY PromiseInit
<1>2. SInv /\ [Next]_vars => SInv' /\ [Promise!Next]_<<Outcome, Booked>>
  BY OneWayOnly, PromiseNext DEF Promised
<1> QED
  BY <1>1, <1>2, PTL DEF Spec, Delivers, Promise!Spec

-----------------------------------------------------------------------------
(* What ExportQueueProofs says of every client of the queue holds of the   *)
(* worker.                                                                 *)

LEMMA SameSteps == [Queue!Next]_(Queue!queueVars) => [QP!Next]_(QP!queueVars)
<1>1. ASSUME NEW e \in Events, Queue!Export(e) \/ Queue!AdminReset(e)
      PROVE  QP!Export(e) \/ QP!AdminReset(e)
  BY <1>1, SameQueue DEF Queue!Export, QP!Export, Queue!AdminReset, QP!AdminReset
<1>2. ASSUME NEW r \in {Worker}, Queue!Claim(r) \/ Queue!Forget(r)
      PROVE  QP!Claim(r) \/ QP!Forget(r)
  <2>1. CASE Queue!Claim(r)
    BY Zenon, <2>1, SameQueue DEF Queue!Claim, QP!Claim
  <2>2. CASE Queue!Forget(r)
    BY Zenon, <2>2 DEF Queue!Forget, QP!Forget, Queue!NotHeld, QP!NotHeld
  <2> QED
    BY <1>2, <2>1, <2>2
<1>3. ASSUME NEW r \in {Worker}, NEW e \in Events, NEW s \in {"success", "error"},
             Queue!Report(r, e, s)
      PROVE  QP!Report(r, e, s)
  BY Zenon, <1>3, SameQueue DEF Queue!Report, QP!Report, Queue!NotHeld, QP!NotHeld
<1>4. Queue!Tick => QP!Tick
  BY Zenon, SameQueue DEF Queue!Tick, QP!Tick, Queue!Older, QP!Older
<1>5. UNCHANGED Queue!queueVars => UNCHANGED QP!queueVars
  BY DEF Queue!queueVars, QP!queueVars
<1> QED
  BY <1>1, <1>2, <1>3, <1>4, <1>5 DEF Queue!Next, QP!Next

LEMMA SameQueueSpec == FollowsQueue => QP!Spec
<1>1. Queue!Init => QP!Init
  BY Zenon DEF Queue!Init, QP!Init, Queue!Absent, QP!Absent, Queue!NotHeld, QP!NotHeld
<1> QED
  BY <1>1, SameSteps, PTL DEF FollowsQueue, Queue!Spec, QP!Spec

(* Neither the worker nor a direct call, a reset or a crash takes an       *)
(* exported event back, and only a reset takes one out of error.           *)
THEOREM WorkerKeepsResults == Spec => Queue!SuccessFinal /\ Queue!ErrorNeedsReset
<1>1. QP!Spec => QP!SuccessFinal /\ QP!ErrorNeedsReset
  BY QueueAssumed, QP!ConfirmedForGood, QP!FailedUntilReset
<1>2. QP!SuccessFinal => Queue!SuccessFinal
  BY DEF QP!SuccessFinal, Queue!SuccessFinal, QP!queueVars, Queue!queueVars
<1>3. QP!ErrorNeedsReset => Queue!ErrorNeedsReset
  BY DEF QP!ErrorNeedsReset, Queue!ErrorNeedsReset, QP!queueVars, Queue!queueVars
<1> QED
  BY <1>1, <1>2, <1>3, WorkerFollowsQueue, SameQueueSpec, PTL

=============================================================================
