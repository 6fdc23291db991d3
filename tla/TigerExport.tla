----------------------------- MODULE TigerExport -----------------------------
(***************************************************************************)
(* The Tiger worker (TigerIntegrationWorker) on the Tiger export queue.    *)
(*                                                                         *)
(* PaymentGatewayPoller claims a batch, hands its events one by one to     *)
(* LogoObjectsClient.ProcessInvoicePaid and reports each result; any       *)
(* exception, an answer that is not a success included, ends the cycle.    *)
(* ProcessInvoicePaid books one line for an invoice, in the voucher of the *)
(* invoice's account and day, which the first line of the day creates.  It *)
(* is also an endpoint of the worker (direct), and runs under a lock: job  *)
(* is the only call in progress.                                           *)
(*                                                                         *)
(* Tiger is external: a Post that answers true, or fails after writing,    *)
(* adds the line and keeps the others, any other Post writes nothing, and  *)
(* nobody cancels a line.  Its users add lines of their own.  The worker   *)
(* is not in dry-run mode.                                                 *)
(*                                                                         *)
(* A definition commented as a mutant is no part of the specification: it  *)
(* is a plausible bug that some property must catch.                       *)
(***************************************************************************)
EXTENDS Naturals, Sequences, FiniteSets

CONSTANTS
    Events, Lease, Limit, Validity, MaxResets,  \* see ExportQueue
    Groups,       \* group markers: bank account and document date
    Manual,       \* invoices that are also sent to the worker's endpoint
    MaxMisses,    \* bound on the queries for a marker that fail (OpenDirect false)
    MaxEdits,     \* bound on the lines that users of Tiger add
    MaxCrashes,   \* bound on the crashes of the worker
    NoEvent, Worker

ASSUME TigerAssumption ==
    /\ IsFiniteSet(Events)
    /\ NoEvent \notin Events
    /\ Lease \in Nat
    /\ Limit \in Nat \ {0}
    /\ Validity \subseteq BOOLEAN /\ TRUE \in Validity
    /\ {MaxResets, MaxMisses, MaxEdits, MaxCrashes} \subseteq Nat
    /\ Manual \subseteq Events
    /\ Groups # {}

VARIABLES
    rows, resets,  \* the queue, see ExportQueue
    vouchers,      \* group marker of each voucher, by LOGICALREF
    lines,         \* lines in the order of their posting
    job,           \* the call of ProcessInvoicePaid that holds the lock
    poller,        \* the state of the polling loop
    misses, edits, crashes

queue == <<rows, resets>>
tiger == <<vouchers, lines>>
faults == <<edits, crashes>>
vars == <<queue, tiger, job, poller, misses, faults>>

Line == [ev : Events \cup {NoEvent}, ref : Nat]

Job == [pc : {"free", "find", "group", "create", "append", "post", "verifyNew",
              "verifyLine", "probe"},
        by : {"poller", "direct"},
        ev : Events \cup {NoEvent},
        group : Groups,
        ref : Nat,       \* the voucher, once it is known
        before : Nat]    \* its lines before the append

Results == {"none", "success", "error"}

Poller == [pc : {"asleep", "loop", "busy", "report", "failed"},
           batch : SUBSET Events,      \* claimed and not taken yet
           age : 0..(Lease + 1),       \* age of the claim
           cur : Events \cup {NoEvent},
           result : Results]

Asleep == [pc |-> "asleep", batch |-> {}, age |-> 0, cur |-> NoEvent, result |-> "none"]

Called(by, e, g) ==
    [pc |-> "find", by |-> by, ev |-> e, group |-> g, ref |-> 0, before |-> 0]

Free == [Called("direct", NoEvent, CHOOSE g \in Groups : TRUE) EXCEPT !.pc = "free"]

Held ==
    [c \in {Worker} |->
        [e \in Events |-> IF e \in poller.batch \/ e = poller.cur THEN poller.age
                                                                   ELSE Lease + 2]]

Queue == INSTANCE ExportQueue WITH Clients <- {Worker}, held <- Held

TypeOK ==
    /\ rows \in [Events -> Queue!Row]
    /\ resets \in 0..MaxResets
    /\ vouchers \in Seq(Groups)
    /\ lines \in Seq(Line)
    /\ \A i \in DOMAIN lines : lines[i].ref \in DOMAIN vouchers
    /\ job \in Job
    /\ poller \in Poller
    /\ misses \in 0..MaxMisses /\ edits \in 0..MaxEdits /\ crashes \in 0..MaxCrashes
    /\ poller.pc \in {"busy", "report"} <=> poller.cur # NoEvent
    /\ poller.pc = "report" <=> poller.result # "none"
    /\ job.pc # "free" /\ job.by = "poller" <=> poller.pc = "busy"

Init ==
    /\ rows = [e \in Events |-> Queue!Absent]
    /\ resets = 0
    /\ vouchers = <<>>
    /\ lines = <<>>
    /\ job = Free
    /\ poller = Asleep
    /\ misses = 0 /\ edits = 0 /\ crashes = 0

-----------------------------------------------------------------------------
(* The gateway. *)

Export(e) ==
    /\ \E valid \in Validity : rows' = Queue!Upsert(rows, e, valid)
    /\ UNCHANGED <<resets, tiger, job, poller, misses, faults>>

AdminReset(e) ==
    /\ resets < MaxResets
    /\ resets' = resets + 1
    /\ rows[e].st # "absent"
    /\ \E valid \in Validity :
          rows' = IF valid THEN Queue!ResetRow(rows, e) ELSE Queue!Upsert(rows, e, FALSE)
    /\ UNCHANGED <<tiger, job, poller, misses, faults>>

Tick ==
    /\ rows' = Queue!Aged(rows)
    /\ poller' = [poller EXCEPT !.age = Queue!Older(@)]
    /\ UNCHANGED <<resets, tiger, job, misses, faults>>

-----------------------------------------------------------------------------
(* Tiger and what the worker asks of it. *)

(* Mutant: only the note of the voucher is searched, not its lines. *)
NoLine(e) == FALSE

HasLine(e) == \E i \in DOMAIN lines : lines[i].ev = e

Missed == misses < MaxMisses /\ misses' = misses + 1

(* A query that fails is taken for one that finds nothing. *)
Seen(e) == HasLine(e) /\ UNCHANGED misses
NotSeen(e) == IF HasLine(e) THEN Missed ELSE UNCHANGED misses

(* The latest voucher of a group, if any. *)
VoucherOf(g) ==
    {v \in DOMAIN vouchers :
        vouchers[v] = g /\ \A w \in DOMAIN vouchers : vouchers[w] = g => w <= v}

LineCount(v) == Cardinality({i \in DOMAIN lines : lines[i].ref = v})

AddLine(e, v) == lines' = Append(lines, [ev |-> e, ref |-> v])

UserAddsLine(v) ==
    /\ edits < MaxEdits
    /\ edits' = edits + 1
    /\ AddLine(NoEvent, v)
    /\ UNCHANGED <<queue, vouchers, job, poller, misses, crashes>>

-----------------------------------------------------------------------------
(* ProcessInvoicePaid. *)

Goes(pc) == job' = [job EXCEPT !.pc = pc] /\ UNCHANGED poller

Throws == Goes("probe") /\ UNCHANGED misses

(* Mutant: the result of an event is left for the next one. *)
ConcludesTwice(result) ==
    /\ job' = Free
    /\ poller' = IF job.by = "poller" THEN [poller EXCEPT !.result = result] ELSE poller

Concludes(result) ==
    /\ job' = Free
    /\ poller' = IF job.by = "poller" THEN [poller EXCEPT !.pc = "report", !.result = result]
                                      ELSE poller

Begins(by, e) == \E g \in Groups : job' = Called(by, e, g)

Direct(e) ==
    /\ e \in Manual /\ job.pc = "free"
    /\ Begins("direct", e)
    /\ UNCHANGED <<queue, tiger, poller, misses, faults>>

(* Validation, login, and the first look for the line.  An exception goes   *)
(* to the probe after a failure, here and below.                            *)
Find ==
    /\ job.pc = "find"
    /\ \/ Seen(job.ev) /\ Concludes("success")
       \/ NotSeen(job.ev) /\ Goes("group")
       \/ Throws
       \/ Concludes("error") /\ UNCHANGED misses
    /\ UNCHANGED <<queue, tiger, faults>>

(* Mutant: the voucher of the day is not looked for. *)
EachLineItsVoucher ==
    /\ job.pc = "group"
    /\ (Goes("create") /\ UNCHANGED misses) \/ Throws
    /\ UNCHANGED <<queue, tiger, faults>>

FindGroup ==
    /\ job.pc = "group"
    /\ \/ \E v \in VoucherOf(job.group) :
             /\ job' = [job EXCEPT !.pc = "append", !.ref = v]
             /\ UNCHANGED <<poller, misses>>
       \/ VoucherOf(job.group) = {} /\ Goes("create") /\ UNCHANGED misses
       \/ VoucherOf(job.group) # {} /\ Goes("create") /\ Missed
       \/ Throws
    /\ UNCHANGED <<queue, tiger, faults>>

CreateVoucher ==
    /\ job.pc = "create"
    /\ \/ /\ vouchers' = Append(vouchers, job.group)
          /\ AddLine(job.ev, Len(vouchers) + 1)
          /\ Goes("verifyNew") \/ Goes("probe")
       \/ (Concludes("error") \/ Goes("probe")) /\ UNCHANGED tiger
    /\ UNCHANGED <<queue, misses, faults>>

BeforeAppend ==
    /\ job.pc = "append"
    /\ \/ Seen(job.ev) /\ Concludes("success")
       \/ /\ NotSeen(job.ev)
          /\ job' = [job EXCEPT !.pc = "post", !.before = LineCount(job.ref)]
          /\ UNCHANGED poller
       \/ Throws
    /\ UNCHANGED <<queue, tiger, faults>>

(* The line is added only if the voucher has not changed since its export. *)
PostLine ==
    /\ job.pc = "post"
    /\ \/ Seen(job.ev) /\ Concludes("success") /\ UNCHANGED lines
       \/ /\ NotSeen(job.ev) /\ LineCount(job.ref) = job.before
          /\ AddLine(job.ev, job.ref)
          /\ Goes("verifyLine") \/ Goes("probe")
       \/ Throws /\ UNCHANGED lines
    /\ UNCHANGED <<queue, vouchers, faults>>

Verify ==
    /\ \/ /\ job.pc = "verifyNew"
          /\ Seen(job.ev) /\ Concludes("success")
       \/ /\ job.pc = "verifyLine" /\ LineCount(job.ref) = job.before + 1
          /\ Seen(job.ev) /\ Concludes("success")
       \/ job.pc \in {"verifyNew", "verifyLine"} /\ Throws
    /\ UNCHANGED <<queue, tiger, faults>>

(* Mutant: a Post that failed is believed to have worked. *)
ProbeBelieves ==
    /\ job.pc = "probe"
    /\ Concludes("success") \/ Concludes("error")
    /\ UNCHANGED <<queue, tiger, misses, faults>>

(* After an exception the line is looked for once more; that it is there    *)
(* is a success, whatever the exception was.                                *)
Probe ==
    /\ job.pc = "probe"
    /\ \/ Seen(job.ev) /\ Concludes("success")
       \/ Concludes("error") /\ UNCHANGED misses
    /\ UNCHANGED <<queue, tiger, faults>>

Process ==
    Find \/ FindGroup \/ CreateVoucher \/ BeforeAppend \/ PostLine \/ Verify \/ Probe

-----------------------------------------------------------------------------
(* The polling loop. *)

PollerIs(pc) == poller.pc = pc
Polls(state) == poller' = state

(* The batch is claimed whether or not the answer arrives. *)
Claim ==
    /\ PollerIs("asleep")
    /\ rows' = Queue!Claimed(rows)
    /\ \E pc \in {"loop", "failed"} :
          Polls([Asleep EXCEPT !.pc = pc, !.batch = Queue!Claimable(rows)])
    /\ UNCHANGED <<resets, tiger, job, misses, faults>>

(* Mutant: an event stays in the batch while it is processed. *)
TakeKeeps ==
    /\ PollerIs("loop") /\ job.pc = "free"
    /\ \E e \in poller.batch :
          /\ Begins("poller", e)
          /\ Polls([poller EXCEPT !.pc = "busy", !.cur = e])
    /\ UNCHANGED <<queue, tiger, misses, faults>>

Take ==
    /\ PollerIs("loop") /\ job.pc = "free"
    /\ \E e \in poller.batch :
          /\ \A d \in poller.batch : rows[e].id <= rows[d].id
          /\ Begins("poller", e)
          /\ Polls([poller EXCEPT !.pc = "busy", !.batch = @ \ {e}, !.cur = e])
    /\ UNCHANGED <<queue, tiger, misses, faults>>

Reported(pc) == Polls([poller EXCEPT !.pc = pc, !.cur = NoEvent, !.result = "none"])

(* A result that is refused (409), like one whose answer is lost, ends the  *)
(* cycle.                                                                   *)
Report ==
    /\ PollerIs("report")
    /\ rows' = Queue!UpdateResult(rows, poller.cur, poller.result)
    /\ \/ rows[poller.cur].st \in {"pending", "processing"} /\ Reported("loop")
       \/ Reported("failed")
    /\ UNCHANGED <<resets, tiger, job, misses, faults>>

ReportLost ==
    /\ PollerIs("report")
    /\ Reported("failed")
    /\ UNCHANGED <<queue, tiger, job, misses, faults>>

(* The rest of a batch is dropped and stays leased. *)
CycleEnds ==
    /\ PollerIs("failed") \/ (PollerIs("loop") /\ poller.batch = {})
    /\ Polls(Asleep)
    /\ UNCHANGED <<queue, tiger, job, misses, faults>>

Crash ==
    /\ crashes < MaxCrashes
    /\ crashes' = crashes + 1
    /\ job' = Free
    /\ poller' = Asleep
    /\ UNCHANGED <<queue, tiger, misses, edits>>

-----------------------------------------------------------------------------

Next ==
    \/ \E e \in Events : Export(e) \/ AdminReset(e) \/ Direct(e)
    \/ \E v \in DOMAIN vouchers : UserAddsLine(v)
    \/ Process
    \/ Claim \/ Take \/ Report \/ ReportLost \/ CycleEnds
    \/ Crash
    \/ Tick

Spec == Init /\ [][Next]_vars

(* The poller wakes up again and again, time passes, the lock is passed on, *)
(* and neither every claim nor every report is lost.  Crashes are bounded.  *)
Fairness ==
    /\ WF_vars(Tick) /\ WF_vars(Process) /\ WF_vars(CycleEnds)
    /\ SF_vars(Claim /\ poller'.pc = "loop" /\ poller'.batch # {})
    /\ SF_vars(Take) /\ SF_vars(Report)

FairSpec == Spec /\ Fairness

-----------------------------------------------------------------------------
(* Properties. *)

(* An invoice is booked at most once, however the worker is interrupted and *)
(* whoever sends it (docs/TIGER_INTEGRATION_PLAN.md:280-283, "invoiceId is  *)
(* the business idempotency key for Tiger export"; TigerIntegrationWorker/  *)
(* README.md:36-38, the marker "is checked before each write and again      *)
(* after export to avoid duplicate lines after retries").                   *)
AtMostOneLine ==
    \A i, j \in DOMAIN lines :
        lines[i].ev = lines[j].ev /\ lines[i].ev # NoEvent => i = j

(* It is, as long as every query for a marker is answered.                  *)
OneLineWhileAnswered == misses = 0 => AtMostOneLine

(* An account and day have one voucher (TIGER_PROGRESS_LOG.md, the daily    *)
(* grouping by bank account and date), under the same condition.            *)
OneVoucherPerGroup ==
    misses = 0 =>
        \A v, w \in DOMAIN vouchers : vouchers[v] = vouchers[w] => v = w

(* The gateway calls an invoice exported only when Tiger has its line.      *)
ConfirmedHasLine ==
    \A e \in Events :
        rows[e].st = "success" => \E i \in DOMAIN lines : lines[i].ev = e

(* Every queued event gets a result: a cycle that ends early holds the rest *)
(* of its batch no longer than the lease.                                   *)
EventSettles ==
    \A e \in Events :
        rows[e].st \in {"pending", "processing"} ~> rows[e].st \in {"success", "error"}

(* The worker is a client of the export queue. *)
FollowsQueue == Queue!Spec

(* When events come from the queue alone, and no query fails, queue and     *)
(* worker implement the promise of Delivery.                                *)
Outcome ==
    [e \in Events |->
        CASE rows[e].st = "absent" -> "none"
          [] rows[e].st \in {"pending", "processing"} -> "open"
          [] rows[e].st = "success" -> "done"
          [] rows[e].st = "error" -> "failed"]

Booked == [e \in Events |-> Cardinality({i \in DOMAIN lines : lines[i].ev = e})]

Promise == INSTANCE Delivery WITH Payments <- Events, outcome <- Outcome, docs <- Booked

Delivers == Promise!Spec

=============================================================================
