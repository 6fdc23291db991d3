----------------------------- MODULE OneCImport -----------------------------
(***************************************************************************)
(* The payment importer of 1C (integrations/1c,                            *)
(* ОбщийМодуль.PayQR_ЗагрузкаОплат) on the 1C export queue.                *)
(*                                                                         *)
(* A run of PayQR_ЗагрузитьУспешныеОплаты, started by the scheduled job or *)
(* by the button, claims batches until one brings nothing new.  For each   *)
(* event it looks for the payment's document, creates it if there is none, *)
(* and reports.  An exception outside the processing of one event ends the *)
(* run: a lost connection, at any of its HTTP calls.  Runs is the set of   *)
(* runs that may be in progress at the same time.                          *)
(*                                                                         *)
(* A definition commented as a mutant is no part of the specification: it  *)
(* is a plausible bug that some property must catch.                       *)
(***************************************************************************)
EXTENDS Naturals, FiniteSets

CONSTANTS Events, Runs, Lease, Limit, MaxResets, NoEvent

ASSUME ImportAssumption ==
    /\ IsFiniteSet(Events)
    /\ NoEvent \notin Events
    /\ Lease \in Nat
    /\ Limit \in Nat \ {0}
    /\ MaxResets \in Nat

VARIABLES
    rows, resets,  \* the queue, see ExportQueue
    docs,          \* documents in 1C by paymentId, not marked for deletion
    run            \* the local state of each run

vars == <<rows, resets, docs, run>>

RunState ==
    [pc : {"idle", "fetch", "next", "find", "create", "report"},
     batch : SUBSET Events,         \* claimed and not looked at yet
     age : 0..(Lease + 1),          \* age of the claim of the batch
     seen : SUBSET Events,          \* ОбработанныеСобытия
     fresh : BOOLEAN,               \* КоличествоНовыхСобытий > 0
     cur : Events \cup {NoEvent},
     result : {"none", "success", "error"}]

Stopped == [pc |-> "idle", batch |-> {}, age |-> 0, seen |-> {}, fresh |-> FALSE,
            cur |-> NoEvent, result |-> "none"]

Holds(r, e) == e \in run[r].batch \/ e = run[r].cur

Held == [r \in Runs |-> [e \in Events |-> IF Holds(r, e) THEN run[r].age ELSE Lease + 2]]

Queue == INSTANCE ExportQueue WITH Clients <- Runs, Validity <- {TRUE}, held <- Held

TypeOK ==
    /\ rows \in [Events -> Queue!Row]
    /\ resets \in 0..MaxResets
    /\ docs \in [Events -> Nat]
    /\ run \in [Runs -> RunState]
    /\ \A r \in Runs : /\ run[r].pc \in {"find", "create", "report"} <=> run[r].cur # NoEvent
                       /\ run[r].pc = "report" <=> run[r].result # "none"

Init ==
    /\ rows = [e \in Events |-> Queue!Absent]
    /\ resets = 0
    /\ docs = [e \in Events |-> 0]
    /\ run = [r \in Runs |-> Stopped]

-----------------------------------------------------------------------------
(* The gateway. *)

Export(e) ==
    /\ rows' = Queue!Upsert(rows, e, TRUE)
    /\ UNCHANGED <<resets, docs, run>>

AdminReset(e) ==
    /\ resets < MaxResets
    /\ resets' = resets + 1
    /\ rows[e].st # "absent"
    /\ rows' = Queue!ResetRow(rows, e)
    /\ UNCHANGED <<docs, run>>

Tick ==
    /\ rows' = Queue!Aged(rows)
    /\ run' = [r \in Runs |-> [run[r] EXCEPT !.age = Queue!Older(@)]]
    /\ UNCHANGED <<resets, docs>>

-----------------------------------------------------------------------------
(* A run. *)

At(r, pc) == run[r].pc = pc
Goes(r, state) == run' = [run EXCEPT ![r] = state]

Start(r) ==
    /\ At(r, "idle")
    /\ Goes(r, [Stopped EXCEPT !.pc = "fetch"])
    /\ UNCHANGED <<rows, resets, docs>>

Fetch(r) ==
    /\ At(r, "fetch")
    /\ rows' = Queue!Claimed(rows)
    /\ LET events == Queue!Claimable(rows) IN
       Goes(r, IF events = {} THEN Stopped
               ELSE [run[r] EXCEPT !.pc = "next", !.batch = events, !.age = 0, !.fresh = FALSE])
    /\ UNCHANGED <<resets, docs>>

Oldest(S) == {e \in S : \A d \in S : rows[e].id <= rows[d].id}

(* Mutant: an event stays in the batch while it is processed. *)
NextEventKeeps(r) ==
    /\ At(r, "next")
    /\ LET me == run[r] IN
       \/ /\ me.batch \subseteq me.seen
          /\ Goes(r, IF me.fresh THEN [me EXCEPT !.pc = "fetch"] ELSE Stopped)
       \/ \E e \in Oldest(me.batch \ me.seen) :
             Goes(r, [me EXCEPT !.pc = "find", !.seen = @ \cup {e}, !.fresh = TRUE, !.cur = e])
    /\ UNCHANGED <<rows, resets, docs>>

(* An event that this run has already processed is dropped without a report.*)
NextEvent(r) ==
    /\ At(r, "next")
    /\ LET me == run[r] IN
       \/ /\ me.batch = {}
          /\ Goes(r, IF me.fresh THEN [me EXCEPT !.pc = "fetch"] ELSE Stopped)
       \/ \E e \in Oldest(me.batch) :
             /\ e \in me.seen
             /\ Goes(r, [me EXCEPT !.batch = @ \ {e}])
       \/ \E e \in Oldest(me.batch) :
             /\ e \notin me.seen
             /\ Goes(r, [me EXCEPT !.pc = "find", !.batch = @ \ {e}, !.seen = @ \cup {e},
                                   !.fresh = TRUE, !.cur = e])
    /\ UNCHANGED <<rows, resets, docs>>

Concludes(r, result) == Goes(r, [run[r] EXCEPT !.pc = "report", !.result = result])

(* Mutant: the document of the payment is not looked for. *)
CreatesAnyway(r) ==
    /\ At(r, "find")
    /\ Goes(r, [run[r] EXCEPT !.pc = "create"]) \/ Concludes(r, "error")
    /\ UNCHANGED <<rows, resets, docs>>

(* PayQR_ОбработатьСобытиеОплаты up to the decision to create a document;   *)
(* any check, or an exception, makes it an error.                           *)
Find(r) ==
    /\ At(r, "find")
    /\ \/ docs[run[r].cur] > 0 /\ Concludes(r, "success")
       \/ docs[run[r].cur] = 0 /\ Goes(r, [run[r] EXCEPT !.pc = "create"])
       \/ Concludes(r, "error")
    /\ UNCHANGED <<rows, resets, docs>>

(* Mutant: an exception while the document is posted goes unnoticed. *)
CreateSwallows(r) ==
    /\ At(r, "create")
    /\ docs' = [docs EXCEPT ![run[r].cur] = @ + 1] \/ UNCHANGED docs
    /\ Concludes(r, "success")
    /\ UNCHANGED <<rows, resets>>

Create(r) ==
    /\ At(r, "create")
    /\ \/ docs' = [docs EXCEPT ![run[r].cur] = @ + 1] /\ Concludes(r, "success")
       \/ Concludes(r, "error") /\ UNCHANGED docs
    /\ UNCHANGED <<rows, resets>>

(* Mutant: the result of an event is left for the next one. *)
ResultLeft(r) == Goes(r, [run[r] EXCEPT !.pc = "next", !.cur = NoEvent])

Reported(r) == Goes(r, [run[r] EXCEPT !.pc = "next", !.cur = NoEvent, !.result = "none"])

(* The answer of the gateway is only shown, a 409 as any other. *)
Report(r) ==
    /\ At(r, "report")
    /\ rows' = Queue!UpdateResult(rows, run[r].cur, run[r].result)
    /\ Reported(r)
    /\ UNCHANGED <<resets, docs>>

(* The gateway fails to store the result and says so. *)
ReportFails(r) ==
    /\ At(r, "report")
    /\ Reported(r)
    /\ UNCHANGED <<rows, resets, docs>>

(* A lost connection or a killed session. *)
Abort(r) ==
    /\ ~At(r, "idle")
    /\ Goes(r, Stopped)
    /\ UNCHANGED <<rows, resets, docs>>

-----------------------------------------------------------------------------

Process(r) == Fetch(r) \/ NextEvent(r) \/ Find(r) \/ Create(r) \/ Report(r)

Next ==
    \/ \E e \in Events : Export(e) \/ AdminReset(e)
    \/ \E r \in Runs : Start(r) \/ Process(r) \/ ReportFails(r) \/ Abort(r)
    \/ Tick

Spec == Init /\ [][Next]_vars

(* The scheduled job starts again and again, time passes, and neither       *)
(* crashes nor lost connections hit one step of a run every time.           *)
Fairness ==
    /\ WF_vars(Tick)
    /\ \A r \in Runs :
        /\ SF_vars(Start(r)) /\ SF_vars(Fetch(r)) /\ SF_vars(NextEvent(r))
        /\ SF_vars(Find(r)) /\ SF_vars(Create(r))
        /\ \A e \in Events : SF_vars(run[r].cur = e /\ Report(r))

FairSpec == Spec /\ Fairness

-----------------------------------------------------------------------------
(* Properties. *)

(* However it is interrupted, the importer never makes two documents of one *)
(* payment (docs/1C_PAYMENT_SYNC.md, a document that is found is confirmed, *)
(* not duplicated).                                                         *)
AtMostOneDocument == \A e \in Events : docs[e] <= 1

(* The gateway calls a payment delivered only when 1C has its document.     *)
ConfirmedHasDocument == \A e \in Events : rows[e].st = "success" => docs[e] > 0

(* Every event that was queued is confirmed or shown as an error: a run     *)
(* that dies with a batch in hand holds it no longer than its lease.        *)
EventSettles ==
    \A e \in Events :
        rows[e].st \in {"pending", "processing"} ~> rows[e].st \in {"success", "error"}

(* The importer is a client of the export queue. *)
FollowsQueue == Queue!Spec

(* One run at a time implements the promise of Delivery. *)
Outcome ==
    [e \in Events |->
        CASE rows[e].st = "absent" -> "none"
          [] rows[e].st \in {"pending", "processing"} -> "open"
          [] rows[e].st = "success" -> "done"
          [] rows[e].st = "error" -> "failed"]

Promise == INSTANCE Delivery WITH Payments <- Events, outcome <- Outcome

Delivers == Promise!Spec

=============================================================================
