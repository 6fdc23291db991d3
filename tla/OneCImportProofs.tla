-------------------------- MODULE OneCImportProofs --------------------------
(* Proofs about OneCImport, for every set of payments, lease, limit and      *)
(* number of resets: what holds for any number of overlapping runs, also as  *)
(* clients of the export queue, and what a single run at a time adds, the    *)
(* refinement of Delivery.                                                   *)
EXTENDS OneCImport, FiniteSetTheorems, TLAPS

Tables == [Events -> Queue!Row]

Open == {"pending", "processing"}

(* The statuses a store call writes.                                         *)
Written == {"pending", "processing", "success", "error"}

-----------------------------------------------------------------------------
(* The store calls, by what they do to the status of a row. *)

(* The status of a row is written together with a new age.                   *)
LEMMA RowUpdate ==
    ASSUME NEW row \in Queue!Row, NEW s \in Written
    PROVE  /\ [row EXCEPT !.st = s, !.age = 0] \in Queue!Row
           /\ [row EXCEPT !.st = s, !.age = 0].st = s
<1>1. 0 \in 0..(Lease + 1)
  BY ImportAssumption DEF ImportAssumption
<1> DEFINE r1 == [row EXCEPT !.st = s]
<1>2. r1 \in Queue!Row /\ r1.st = s
  BY DEF Queue!Row, Written
<1>3. [r1 EXCEPT !.age = 0] \in Queue!Row /\ [r1 EXCEPT !.age = 0].st = s
  <2> HIDE DEF r1
  <2> QED BY <1>1, <1>2 DEF Queue!Row
<1>4. [row EXCEPT !.st = s, !.age = 0] = [r1 EXCEPT !.age = 0]
  OBVIOUS
<1> QED BY <1>3, <1>4

(* Queue!SetStatus writes one row.                                           *)
LEMMA SetStatusRow ==
    ASSUME NEW rs \in Tables, NEW e \in Events,
           NEW s \in Written
    PROVE  /\ Queue!SetStatus(rs, e, s) \in Tables
           /\ Queue!SetStatus(rs, e, s)[e].st = s
           /\ \A d \in Events \ {e} : Queue!SetStatus(rs, e, s)[d] = rs[d]
<1>1. rs[e] \in Queue!Row
  BY DEF Tables
<1> DEFINE row == [rs[e] EXCEPT !.st = s, !.age = 0]
<1>2. row \in Queue!Row /\ row.st = s
  BY <1>1, RowUpdate
<1>3. Queue!SetStatus(rs, e, s) = [rs EXCEPT ![e] = row]
  BY DEF Queue!SetStatus, Tables
<1> HIDE DEF row
<1> QED BY <1>2, <1>3 DEF Tables

(* The instance of ExportQueue counts with the Cardinality of FiniteSets.    *)
LEMMA QueueCardinality == \A S : Queue!Cardinality(S) = Cardinality(S)
BY Zenon DEF Queue!Cardinality, Cardinality

(* Exporting a payment adds its row, once.                                   *)
LEMMA UpsertRows ==
    ASSUME NEW rs \in Tables, NEW e \in Events
    PROVE  /\ Queue!Upsert(rs, e, TRUE) \in Tables
           /\ \A d \in Events \ {e} : Queue!Upsert(rs, e, TRUE)[d] = rs[d]
           /\ Queue!Upsert(rs, e, TRUE)[e].st =
                 IF rs[e].st = "absent" THEN "pending" ELSE rs[e].st
<1>1. CASE rs[e].st = "absent"
  <2>1. IsFiniteSet(Queue!Saved(rs))
    BY ImportAssumption, FS_Subset DEF ImportAssumption, Queue!Saved
  <2>2. Cardinality(Queue!Saved(rs)) + 1 \in Nat
    BY <2>1, FS_CardinalityType
  <2> DEFINE new(v) == [st |-> IF v THEN "pending" ELSE "error",
                        id |-> Cardinality(Queue!Saved(rs)) + 1, age |-> 0]
  <2>3. new(TRUE) \in Queue!Row /\ new(TRUE).st = "pending"
    BY <2>2, ImportAssumption DEF Queue!Row, ImportAssumption
  <2>4. \A v \in BOOLEAN : Queue!Upsert(rs, e, v) = [rs EXCEPT ![e] = new(v)]
    BY <1>1, QueueCardinality DEF Queue!Upsert
  <2> HIDE DEF new
  <2>5. Queue!Upsert(rs, e, TRUE) = [rs EXCEPT ![e] = new(TRUE)]
    BY <2>4
  <2> QED BY <1>1, <2>3, <2>5 DEF Tables
<1>2. CASE rs[e].st # "absent"
  <2>1. Queue!Upsert(rs, e, TRUE) = rs
    BY <1>2 DEF Queue!Upsert
  <2> QED BY <1>2, <2>1
<1> QED BY <1>1, <1>2

(* A claim moves rows between pending and processing, and takes open rows.   *)
LEMMA ClaimedRows ==
    ASSUME NEW rs \in Tables
    PROVE  /\ Queue!Claimed(rs) \in Tables
           /\ Queue!Claimable(rs) \subseteq Events
           /\ \A e \in Queue!Claimable(rs) : rs[e].st \in Open
           /\ \A e \in Events : \/ Queue!Claimed(rs)[e].st = rs[e].st
                                \/ rs[e].st \in Open /\ Queue!Claimed(rs)[e].st \in Open
<1>0. {"pending", "processing"} \subseteq Written
  BY DEF Written
<1> DEFINE up(e, s) == [rs[e] EXCEPT !.st = s, !.age = 0]
           old == Queue!Expired(rs)
           new == Queue!Claimed(rs)
<1>1. \A e \in Events : rs[e] \in Queue!Row
  BY DEF Tables
<1>2. \A e \in Events : /\ up(e, "pending") \in Queue!Row /\ up(e, "pending").st = "pending"
                        /\ up(e, "processing") \in Queue!Row
                        /\ up(e, "processing").st = "processing"
  BY <1>0, <1>1, RowUpdate
<1>3. /\ \A e \in Events : \/ old[e] = rs[e]
                           \/ rs[e].st = "processing" /\ old[e] = up(e, "pending")
      /\ \A e \in Queue!Claimable(rs) : e \in Events /\ old[e].st = "pending"
      /\ \A e \in Events : new[e] = IF e \in Queue!Claimable(rs) THEN up(e, "processing")
                                                                 ELSE old[e]
      /\ new = [e \in Events |-> new[e]]
  BY DEF Queue!Expired, Queue!Claimable, Queue!InStatus, Queue!Claimed
<1> HIDE DEF up, old, new
<1>4. \A e \in Queue!Claimable(rs) : e \in Events /\ rs[e].st \in Open
  BY <1>2, <1>3 DEF Open
<1>5. \A e \in Events : new[e] \in Queue!Row
  BY <1>1, <1>2, <1>3
<1>6. \A e \in Events : \/ new[e].st = rs[e].st
                        \/ rs[e].st \in Open /\ new[e].st \in Open
  BY <1>2, <1>3, <1>4 DEF Open
<1> QED BY <1>3, <1>4, <1>5, <1>6 DEF new, Tables

(* A reported result is stored on an open row only.                          *)
LEMMA UpdateResultRows ==
    ASSUME NEW rs \in Tables, NEW e \in Events, NEW result \in {"success", "error"}
    PROVE  /\ Queue!UpdateResult(rs, e, result) \in Tables
           /\ \A d \in Events \ {e} : Queue!UpdateResult(rs, e, result)[d] = rs[d]
           /\ Queue!UpdateResult(rs, e, result)[e].st =
                 IF rs[e].st \in Open THEN result ELSE rs[e].st
<1>1. CASE rs[e].st \in Open
  <2>1. Queue!UpdateResult(rs, e, result) = Queue!SetStatus(rs, e, result)
    BY <1>1 DEF Queue!UpdateResult, Open
  <2>2. result \in Written
    BY DEF Written
  <2> QED BY <1>1, <2>1, <2>2, SetStatusRow
<1>2. CASE rs[e].st \notin Open
  <2>1. Queue!UpdateResult(rs, e, result) = rs
    BY <1>2 DEF Queue!UpdateResult, Open
  <2> QED BY <1>2, <2>1
<1> QED BY <1>1, <1>2

(* A reset opens a row in error.                                             *)
LEMMA ResetRowRows ==
    ASSUME NEW rs \in Tables, NEW e \in Events
    PROVE  /\ Queue!ResetRow(rs, e) \in Tables
           /\ \A d \in Events \ {e} : Queue!ResetRow(rs, e)[d] = rs[d]
           /\ Queue!ResetRow(rs, e)[e].st =
                 IF rs[e].st = "error" THEN "pending" ELSE rs[e].st
<1>1. CASE rs[e].st = "error"
  <2>1. Queue!ResetRow(rs, e) = Queue!SetStatus(rs, e, "pending")
    BY <1>1 DEF Queue!ResetRow
  <2>2. "pending" \in Written
    BY DEF Written
  <2> QED BY <1>1, <2>1, <2>2, SetStatusRow
<1>2. CASE rs[e].st # "error"
  <2>1. Queue!ResetRow(rs, e) = rs
    BY <1>2 DEF Queue!ResetRow
  <2> QED BY <1>2, <2>1
<1> QED BY <1>1, <1>2

(* Time changes no status.                                                   *)
LEMMA AgedRows ==
    ASSUME NEW rs \in Tables
    PROVE  /\ Queue!Aged(rs) \in Tables
           /\ \A e \in Events : Queue!Aged(rs)[e].st = rs[e].st
<1>1. \A a \in 0..(Lease + 1) : Queue!Older(a) \in 0..(Lease + 1)
  BY ImportAssumption DEF Queue!Older, ImportAssumption
<1>2. ASSUME NEW e \in Events
      PROVE  /\ [rs[e] EXCEPT !.age = Queue!Older(rs[e].age)] \in Queue!Row
             /\ [rs[e] EXCEPT !.age = Queue!Older(rs[e].age)].st = rs[e].st
             /\ rs[e] \in Queue!Row
  <2>1. rs[e] \in Queue!Row
    BY DEF Tables
  <2>2. Queue!Older(rs[e].age) \in 0..(Lease + 1)
    BY <1>1, <2>1 DEF Queue!Row
  <2> QED BY <2>1, <2>2 DEF Queue!Row
<1> QED BY <1>2 DEF Queue!Aged, Tables

-----------------------------------------------------------------------------
(* Any number of overlapping runs. *)

(* What a run reports as a success has a document.                           *)
ReportsTrue == \A r \in Runs : run[r].result = "success" => docs[run[r].cur] > 0

IInv == TypeOK /\ ReportsTrue /\ ConfirmedHasDocument

RunOK(me) ==
    /\ me \in RunState
    /\ me.pc \in {"find", "create", "report"} <=> me.cur # NoEvent
    /\ me.pc = "report" <=> me.result # "none"

LEMMA RunsOK == ASSUME TypeOK PROVE \A r \in Runs : RunOK(run[r])
<1> SUFFICES ASSUME NEW r \in Runs PROVE RunOK(run[r])
  OBVIOUS
<1>1. run[r] \in RunState
  BY DEF TypeOK
<1>2. run[r].pc \in {"find", "create", "report"} <=> run[r].cur # NoEvent
  BY DEF TypeOK
<1>3. run[r].pc = "report" <=> run[r].result # "none"
  BY DEF TypeOK
<1> QED BY <1>1, <1>2, <1>3 DEF RunOK

(* A step that moves one run, leaves the documents alone, and marks as       *)
(* success only rows that have a document.                                   *)
LEMMA RunStep ==
    ASSUME IInv, NEW r \in Runs, NEW me, RunOK(me), Goes(r, me),
           rows' \in Tables, UNCHANGED <<resets, docs>>,
           me.result = "success" => docs[me.cur] > 0,
           \A e \in Events : rows'[e].st = "success" => docs[e] > 0
    PROVE  IInv'
<1>1. run' = [run EXCEPT ![r] = me] /\ run \in [Runs -> RunState]
  BY DEF Goes, IInv, TypeOK
<1>2. \A s \in Runs : run'[s] = IF s = r THEN me ELSE run[s]
  BY <1>1
<1>3. run' \in [Runs -> RunState]
  BY <1>1 DEF RunOK
<1>4. \A s \in Runs : RunOK(run'[s])
  BY <1>2, RunsOK DEF IInv
<1>5. TypeOK'
  BY <1>3, <1>4 DEF RunOK, IInv, TypeOK, Tables
<1>6. ReportsTrue' /\ ConfirmedHasDocument'
  BY <1>2 DEF IInv, ReportsTrue, ConfirmedHasDocument
<1> QED BY <1>5, <1>6 DEF IInv

(* A step of the gateway that marks no row as a success.                     *)
LEMMA RowStep ==
    ASSUME IInv, rows' \in Tables, resets' \in 0..MaxResets, UNCHANGED <<docs, run>>,
           \A e \in Events : rows'[e].st = "success" => rows[e].st = "success"
    PROVE  IInv'
BY DEF IInv, TypeOK, ReportsTrue, ConfirmedHasDocument, Tables

LEMMA StoppedOK == RunOK(Stopped)
BY ImportAssumption DEF RunOK, Stopped, RunState, ImportAssumption

LEMMA StoppedAt == Stopped.pc = "idle" /\ Stopped.cur = NoEvent /\ Stopped.result = "none"
BY DEF Stopped

LEMMA InitIInv == Init => IInv
<1> SUFFICES ASSUME Init PROVE IInv
  OBVIOUS
<1>1. rows \in Tables
  BY ImportAssumption DEF Init, Tables, Queue!Row, Queue!Absent, ImportAssumption
<1>2. TypeOK
  BY <1>1, StoppedOK, ImportAssumption DEF Init, Tables, TypeOK, RunOK, ImportAssumption
<1>3. \A e \in Events : rows[e].st = "absent"
  BY DEF Init, Queue!Absent
<1>4. \A r \in Runs : run[r].result = "none"
  BY DEF Init, Stopped
<1> QED BY <1>2, <1>3, <1>4 DEF IInv, ReportsTrue, ConfirmedHasDocument

LEMMA TickKeepsIInv == ASSUME IInv, Tick PROVE IInv'
<1>1. \A a \in 0..(Lease + 1) : Queue!Older(a) \in 0..(Lease + 1)
  BY ImportAssumption DEF Queue!Older, ImportAssumption
<1>2. rows \in Tables /\ rows' = Queue!Aged(rows)
  BY DEF IInv, TypeOK, Tables, Tick
<1>3. rows' \in Tables /\ \A e \in Events : rows'[e].st = rows[e].st
  BY <1>2, AgedRows
<1>4. \A r \in Runs : run'[r] = [run[r] EXCEPT !.age = Queue!Older(run[r].age)]
  BY DEF Tick
<1>5. ASSUME NEW r \in Runs
      PROVE  /\ run'[r] \in RunState
             /\ run'[r].pc = run[r].pc /\ run'[r].cur = run[r].cur
             /\ run'[r].result = run[r].result
  <2>1. run[r] \in RunState
    BY DEF IInv, TypeOK
  <2>2. Queue!Older(run[r].age) \in 0..(Lease + 1)
    BY <1>1, <2>1 DEF RunState
  <2> QED BY <1>4, <2>1, <2>2 DEF RunState
<1>6. run' \in [Runs -> RunState]
  BY <1>5 DEF Tick
<1> QED BY <1>3, <1>5, <1>6 DEF IInv, TypeOK, Tables, ReportsTrue, ConfirmedHasDocument, Tick

(* The run is about to report on the event it has in hand.                   *)
LEMMA ConcludesOK ==
    ASSUME NEW me, RunOK(me), me.pc \in {"find", "create"}, NEW result \in {"success", "error"}
    PROVE  /\ RunOK([me EXCEPT !.pc = "report", !.result = result])
           /\ [me EXCEPT !.pc = "report", !.result = result].cur = me.cur
           /\ [me EXCEPT !.pc = "report", !.result = result].result = result
BY DEF RunOK, RunState

LEMMA CreateKeepsIInv == ASSUME IInv, NEW r \in Runs, Create(r) PROVE IInv'
<1>0. /\ rows \in Tables /\ docs \in [Events -> Nat] /\ RunOK(run[r]) /\ run[r].pc = "create"
      /\ \A s \in Runs : RunOK(run[s])
      /\ UNCHANGED <<rows, resets>>
  BY RunsOK DEF IInv, TypeOK, Tables, Create, At
<1>1. CASE docs' = [docs EXCEPT ![run[r].cur] = @ + 1] /\ Concludes(r, "success")
  <2> DEFINE me == [run[r] EXCEPT !.pc = "report", !.result = "success"]
  <2>1. run[r].cur \in Events
    BY <1>0 DEF RunOK, RunState
  <2>2. /\ docs' \in [Events -> Nat] /\ docs'[run[r].cur] > 0
        /\ \A e \in Events : docs'[e] >= docs[e]
    BY <1>0, <1>1, <2>1
  <2>3. RunOK(me) /\ me.cur = run[r].cur
    BY <1>0, ConcludesOK
  <2>4. run' = [run EXCEPT ![r] = me]
    BY <1>1 DEF Concludes, Goes
  <2> HIDE DEF me
  <2>5. \A s \in Runs : run'[s] = IF s = r THEN me ELSE run[s]
    BY <2>4 DEF IInv, TypeOK
  <2>6. TypeOK'
    <3>1. run' \in [Runs -> RunState]
      BY <2>3, <2>4 DEF IInv, TypeOK, RunOK
    <3>2. \A s \in Runs : RunOK(run'[s])
      BY <1>0, <2>3, <2>5
    <3> QED BY <1>0, <2>2, <3>1, <3>2 DEF IInv, TypeOK, RunOK
  <2>7. ConfirmedHasDocument'
    <3> SUFFICES ASSUME NEW e \in Events, rows[e].st = "success" PROVE docs'[e] > 0
      BY <1>0 DEF ConfirmedHasDocument
    <3>1. docs[e] \in Nat /\ docs'[e] \in Nat /\ docs[e] > 0 /\ docs'[e] >= docs[e]
      BY <1>0, <2>2 DEF IInv, ConfirmedHasDocument
    <3> QED BY <3>1
  <2>8. ReportsTrue'
    <3> SUFFICES ASSUME NEW s \in Runs, run'[s].result = "success" PROVE docs'[run'[s].cur] > 0
      BY DEF ReportsTrue
    <3>1. CASE s = r
      BY <2>2, <2>3, <2>5, <3>1
    <3>2. CASE s # r
      <4>1. run[s].result = "success" /\ run'[s].cur = run[s].cur
        BY <2>5, <3>2
      <4>2. run[s].cur \in Events /\ docs[run[s].cur] > 0
        BY <1>0, <4>1 DEF IInv, ReportsTrue, RunOK, RunState
      <4>3. docs[run[s].cur] \in Nat /\ docs'[run[s].cur] \in Nat
        BY <1>0, <2>2, <4>2
      <4> QED BY <2>2, <4>1, <4>2, <4>3
    <3> QED BY <3>1, <3>2
  <2> QED BY <2>6, <2>7, <2>8 DEF IInv
<1>2. CASE Concludes(r, "error") /\ UNCHANGED docs
  <2>1. \A e \in Events : rows[e].st = "success" => docs[e] > 0
    BY DEF IInv, ConfirmedHasDocument
  <2> QED BY <1>0, <1>2, <2>1, ConcludesOK, RunStep DEF Concludes
<1> QED BY <1>1, <1>2 DEF Create

(* A report writes the result of the event in hand, and marks as success     *)
(* only what has a document.                                                 *)
LEMMA ReportRows ==
    ASSUME IInv, NEW r \in Runs, At(r, "report"),
           rows' = Queue!UpdateResult(rows, run[r].cur, run[r].result)
    PROVE  /\ run[r].cur \in Events /\ rows' \in Tables
           /\ \A e \in Events \ {run[r].cur} : rows'[e] = rows[e]
           /\ rows'[run[r].cur].st = IF rows[run[r].cur].st \in Open THEN run[r].result
                                     ELSE rows[run[r].cur].st
           /\ \A e \in Events : rows'[e].st = "success" => docs[e] > 0
<1>1. RunOK(run[r]) /\ run[r].pc = "report" /\ rows \in Tables
  BY RunsOK DEF IInv, TypeOK, Tables, At
<1>2. run[r].cur \in Events /\ run[r].result \in {"success", "error"}
  BY <1>1 DEF RunOK, RunState
<1>3. /\ rows' \in Tables
      /\ \A e \in Events \ {run[r].cur} : rows'[e] = rows[e]
      /\ rows'[run[r].cur].st = IF rows[run[r].cur].st \in Open THEN run[r].result
                                ELSE rows[run[r].cur].st
  BY <1>1, <1>2, UpdateResultRows
<1>4. ASSUME NEW e \in Events, rows'[e].st = "success" PROVE docs[e] > 0
  <2>1. CASE e = run[r].cur /\ rows[e].st \in Open
    BY <1>3, <1>4, <2>1 DEF IInv, ReportsTrue
  <2>2. CASE e # run[r].cur \/ rows[e].st \notin Open
    BY <1>3, <1>4, <2>2 DEF IInv, ConfirmedHasDocument
  <2> QED BY <2>1, <2>2
<1> QED BY <1>2, <1>3, <1>4

LEMMA NextKeepsIInv == ASSUME IInv, [Next]_vars PROVE IInv'
<1>0. rows \in Tables /\ resets \in 0..MaxResets /\ docs \in [Events -> Nat]
  BY DEF IInv, TypeOK, Tables
<1>r. \A r \in Runs : RunOK(run[r])
  BY RunsOK DEF IInv
<1>s. \A e \in Events : rows[e].st = "success" => docs[e] > 0
  BY DEF IInv, ConfirmedHasDocument
<1>1. ASSUME NEW e \in Events, Export(e) PROVE IInv'
  <2>1. rows' = Queue!Upsert(rows, e, TRUE) /\ UNCHANGED <<resets, docs, run>>
    BY <1>1 DEF Export
  <2>2. /\ rows' \in Tables /\ \A d \in Events \ {e} : rows'[d] = rows[d]
        /\ rows'[e].st = IF rows[e].st = "absent" THEN "pending" ELSE rows[e].st
    BY <1>0, <2>1, UpsertRows
  <2> QED BY <1>0, <2>1, <2>2, RowStep
<1>2. ASSUME NEW e \in Events, AdminReset(e) PROVE IInv'
  <2>1. resets' \in 0..MaxResets
    BY <1>0, <1>2, ImportAssumption DEF AdminReset, ImportAssumption
  <2> QED BY <1>0, <1>2, <2>1, ResetRowRows, RowStep DEF AdminReset
<1>3. ASSUME NEW r \in Runs, Start(r) PROVE IInv'
  <2> DEFINE me == [Stopped EXCEPT !.pc = "fetch"]
  <2>1. RunOK(me) /\ me.result = "none"
    BY StoppedOK, StoppedAt DEF RunOK, RunState
  <2>2. Goes(r, me) /\ UNCHANGED <<rows, resets, docs>>
    BY <1>3 DEF Start
  <2> HIDE DEF me
  <2> QED BY <1>0, <1>s, <2>1, <2>2, RunStep
<1>4. ASSUME NEW r \in Runs, Fetch(r) PROVE IInv'
  <2> DEFINE events == Queue!Claimable(rows)
             me == IF events = {} THEN Stopped
                   ELSE [run[r] EXCEPT !.pc = "next", !.batch = events, !.age = 0, !.fresh = FALSE]
  <2>1. RunOK(me) /\ me.result = "none"
    <3>1. events \in SUBSET Events /\ 0 \in 0..(Lease + 1)
      BY <1>0, ClaimedRows, ImportAssumption DEF ImportAssumption
    <3> HIDE DEF events
    <3> QED BY <1>4, <1>r, <3>1, StoppedOK DEF RunOK, RunState, Fetch, At, Stopped
  <2>2. rows' = Queue!Claimed(rows) /\ Goes(r, me) /\ UNCHANGED <<resets, docs>>
    BY <1>4 DEF Fetch
  <2> HIDE DEF me
  <2>3. /\ rows' \in Tables
        /\ \A e \in Events : rows'[e].st = "success" => rows[e].st = "success"
    BY <1>0, <2>2, ClaimedRows DEF Open
  <2> QED BY <1>s, <2>1, <2>2, <2>3, RunStep
<1>5. ASSUME NEW r \in Runs, NextEvent(r) PROVE IInv'
  <2>1. PICK me : /\ RunOK(me) /\ me.result = "none" /\ Goes(r, me)
    <3>1. RunOK(run[r]) /\ run[r].pc = "next" /\ run[r].batch \subseteq Events
      BY <1>5, <1>r DEF NextEvent, At, RunOK, RunState
    <3>2. CASE Goes(r, IF run[r].fresh THEN [run[r] EXCEPT !.pc = "fetch"] ELSE Stopped)
      <4>1. RunOK([run[r] EXCEPT !.pc = "fetch"]) /\ [run[r] EXCEPT !.pc = "fetch"].result = "none"
        BY <3>1 DEF RunOK, RunState
      <4>2. Stopped.result = "none"
        BY DEF Stopped
      <4> QED BY <3>2, <4>1, <4>2, StoppedOK
    <3>3. ASSUME NEW e \in run[r].batch, Goes(r, [run[r] EXCEPT !.batch = @ \ {e}])
          PROVE  \E me : RunOK(me) /\ me.result = "none" /\ Goes(r, me)
      <4>1. /\ RunOK([run[r] EXCEPT !.batch = @ \ {e}])
            /\ [run[r] EXCEPT !.batch = @ \ {e}].result = "none"
        BY <3>1 DEF RunOK, RunState
      <4> QED BY <3>3, <4>1
    <3>4. ASSUME NEW e \in run[r].batch,
                 Goes(r, [run[r] EXCEPT !.pc = "find", !.batch = @ \ {e}, !.seen = @ \cup {e},
                                        !.fresh = TRUE, !.cur = e])
          PROVE  \E me : RunOK(me) /\ me.result = "none" /\ Goes(r, me)
      <4> DEFINE me == [run[r] EXCEPT !.pc = "find", !.batch = @ \ {e}, !.seen = @ \cup {e},
                                      !.fresh = TRUE, !.cur = e]
      <4>1. RunOK(me) /\ me.result = "none"
        BY <3>1, ImportAssumption DEF RunOK, RunState, ImportAssumption
      <4>2. Goes(r, me)
        BY <3>4
      <4> HIDE DEF me
      <4> QED BY <4>1, <4>2
    <3> QED BY <1>5, <3>2, <3>3, <3>4 DEF NextEvent, Oldest
  <2>2. UNCHANGED <<rows, resets, docs>>
    BY <1>5 DEF NextEvent
  <2> QED BY <1>0, <1>s, <2>1, <2>2, RunStep
<1>6. ASSUME NEW r \in Runs, Find(r) PROVE IInv'
  <2>1. RunOK(run[r]) /\ At(r, "find") /\ UNCHANGED <<rows, resets, docs>>
    BY <1>6, <1>r DEF Find
  <2>2. ASSUME NEW result \in {"success", "error"}, Concludes(r, result),
               result = "success" => docs[run[r].cur] > 0
        PROVE  IInv'
    <3> DEFINE me == [run[r] EXCEPT !.pc = "report", !.result = result]
    <3>1. RunOK(me) /\ me.cur = run[r].cur /\ me.result = result
      BY <2>1, ConcludesOK DEF At
    <3>2. Goes(r, me)
      BY <2>2 DEF Concludes
    <3> HIDE DEF me
    <3> QED BY <1>0, <1>s, <2>1, <2>2, <3>1, <3>2, RunStep
  <2>3. CASE Concludes(r, "error")
    BY <2>2, <2>3
  <2>4. CASE Goes(r, [run[r] EXCEPT !.pc = "create"])
    <3> DEFINE me == [run[r] EXCEPT !.pc = "create"]
    <3>1. RunOK(me) /\ me.result = "none"
      BY <2>1 DEF RunOK, RunState, At
    <3> HIDE DEF me
    <3> QED BY <1>0, <1>s, <2>1, <2>4, <3>1, RunStep DEF me
  <2> QED BY <1>6, <2>2, <2>3, <2>4 DEF Find
<1>7. ASSUME NEW r \in Runs, Create(r) PROVE IInv'
  BY <1>7, CreateKeepsIInv
<1>8. ASSUME NEW r \in Runs, Reported(r), UNCHANGED <<resets, docs>>,
             rows' = rows \/ Report(r)
      PROVE  IInv'
  <2> DEFINE me == [run[r] EXCEPT !.pc = "next", !.cur = NoEvent, !.result = "none"]
  <2>1. RunOK(me) /\ me.result = "none"
    BY <1>r, ImportAssumption DEF RunOK, RunState, ImportAssumption
  <2>2. /\ rows' \in Tables
        /\ \A e \in Events : rows'[e].st = "success" => docs[e] > 0
    BY <1>0, <1>s, <1>8, ReportRows DEF Report
  <2>3. Goes(r, me)
    BY <1>8 DEF Reported
  <2> HIDE DEF me
  <2> QED BY <1>8, <2>1, <2>2, <2>3, RunStep
<1>9. ASSUME NEW r \in Runs, Report(r) \/ ReportFails(r) PROVE IInv'
  BY <1>8, <1>9 DEF Report, ReportFails
<1>10. ASSUME NEW r \in Runs, Abort(r) PROVE IInv'
  <2>1. Stopped.result = "none"
    BY DEF Stopped
  <2> QED BY <1>0, <1>s, <1>10, <2>1, StoppedOK, RunStep DEF Abort
<1>11. CASE Tick
  BY <1>11, TickKeepsIInv
<1>12. CASE UNCHANGED vars
  BY <1>12 DEF vars, IInv, TypeOK, ReportsTrue, ConfirmedHasDocument
<1> QED BY <1>1, <1>2, <1>3, <1>4, <1>5, <1>6, <1>7, <1>9, <1>10, <1>11, <1>12
        DEF Next, Process

(* The inductive invariant holds in every reachable state.                   *)
THEOREM ImportInductive == Spec => []IInv
BY InitIInv, NextKeepsIInv, PTL DEF Spec

(* Rows, documents and runs hold values of their types; a run has an event   *)
(* in hand exactly while it works on it.                                     *)
THEOREM ImportTypeCorrect == Spec => []TypeOK
BY ImportInductive, PTL DEF IInv

(* However many runs overlap, the gateway calls a payment delivered only     *)
(* when 1C has a document for it.                                            *)
THEOREM DeliveredIsDocumented == Spec => []ConfirmedHasDocument
BY ImportInductive, PTL DEF IInv

-----------------------------------------------------------------------------
(* One run at a time. *)

OneRun == \A r, s \in Runs : r = s

(* What a run has in hand is still open, and it creates only what is not     *)
(* there.                                                                    *)
HandOK(me, rs, ds) ==
    /\ \A e \in Events : e \in me.batch \/ e = me.cur => rs[e].st \in Open
    /\ me.cur \notin me.batch
    /\ me.pc = "create" => ds[me.cur] = 0

SInv == IInv /\ AtMostOneDocument /\ \A r \in Runs : HandOK(run[r], rows, docs)

(* A step of the gateway or the clock: no row that is open is closed.        *)
LEMMA GatewayKeepsSInv ==
    ASSUME SInv, IInv', UNCHANGED docs,
           \A r \in Runs : /\ run'[r].batch = run[r].batch /\ run'[r].cur = run[r].cur
                           /\ run'[r].pc = run[r].pc,
           \A e \in Events : rows[e].st \in Open => rows'[e].st \in Open
    PROVE  SInv'
<1>1. \A r \in Runs : HandOK(run'[r], rows', docs')
  BY DEF SInv, HandOK
<1> QED BY <1>1 DEF SInv, AtMostOneDocument

(* A step of the only run.                                                   *)
LEMMA RunKeepsSInv ==
    ASSUME OneRun, SInv, IInv', NEW r \in Runs, NEW me, Goes(r, me),
           HandOK(me, rows', docs'), AtMostOneDocument'
    PROVE  SInv'
<1>1. run \in [Runs -> RunState]
  BY DEF SInv, IInv, TypeOK
<1>2. run'[r] = me
  BY <1>1 DEF Goes
<1>3. \A s \in Runs : HandOK(run'[s], rows', docs')
  BY <1>2 DEF OneRun
<1> QED BY <1>3 DEF SInv

Class(st) == CASE st = "absent" -> "none"
               [] st \in Open -> "open"
               [] st = "success" -> "done"
               [] st = "error" -> "failed"

LEMMA OutcomeIs ==
    /\ Outcome = [e \in Events |-> Class(rows[e].st)]
    /\ Outcome' = [e \in Events |-> Class(rows'[e].st)]
BY DEF Outcome, Class, Open

(* A step that moves rows only between pending and processing stutters.      *)
LEMMA Stutters ==
    ASSUME UNCHANGED docs,
           \A e \in Events : \/ rows'[e].st = rows[e].st
                             \/ rows[e].st \in Open /\ rows'[e].st \in Open
    PROVE  UNCHANGED <<Outcome, docs>>
<1>1. \A e \in Events : Class(rows'[e].st) = Class(rows[e].st)
  BY DEF Class, Open
<1> QED BY <1>1, OutcomeIs

(* A step that moves one row moves the outcome of one payment.               *)
LEMMA Moves ==
    ASSUME NEW e \in Events, NEW from, NEW to,
           Class(rows[e].st) = from, Class(rows'[e].st) = to,
           \A d \in Events \ {e} : rows'[d] = rows[d]
    PROVE  Promise!Move(e, from, to)
<1>1. Outcome[e] = from
  BY OutcomeIs
<1>2. Outcome' = [Outcome EXCEPT ![e] = to]
  BY OutcomeIs
<1> QED BY <1>1, <1>2 DEF Promise!Move

Progresses == [Promise!Next]_<<Outcome, docs>>

LEMMA InitSInv == Init => SInv /\ Promise!Init
<1> SUFFICES ASSUME Init PROVE SInv /\ Promise!Init
  OBVIOUS
<1>1. \A e \in Events : rows[e].st = "absent" /\ docs[e] = 0
  BY DEF Init, Queue!Absent
<1>2. ASSUME NEW r \in Runs PROVE HandOK(run[r], rows, docs)
  <2>1. run[r] = Stopped
    BY DEF Init
  <2>2. Stopped.batch = {} /\ Stopped.cur = NoEvent /\ Stopped.pc = "idle"
    BY DEF Stopped
  <2>3. NoEvent \notin Events
    BY ImportAssumption DEF ImportAssumption
  <2> QED BY <2>1, <2>2, <2>3 DEF HandOK
<1>3. SInv
  BY <1>1, <1>2, InitIInv DEF SInv, AtMostOneDocument
<1>4. \A e \in Events : Class(rows[e].st) = "none"
  BY <1>1 DEF Class, Open
<1>5. Outcome = [e \in Events |-> "none"]
  BY <1>4, OutcomeIs
<1> QED BY <1>3, <1>5 DEF Promise!Init, Init

LEMMA NextKeepsSInv == ASSUME OneRun, SInv, [Next]_vars PROVE SInv' /\ Progresses
<1>0. IInv /\ IInv' /\ rows \in Tables /\ docs \in [Events -> Nat]
  BY NextKeepsIInv DEF SInv, IInv, TypeOK, Tables
<1>r. \A r \in Runs : RunOK(run[r]) /\ HandOK(run[r], rows, docs)
  BY <1>0, RunsOK DEF SInv, IInv
<1>1. ASSUME NEW e \in Events, Export(e) PROVE SInv' /\ Progresses
  <2>1. rows' = Queue!Upsert(rows, e, TRUE) /\ UNCHANGED <<docs, run>>
    BY <1>1 DEF Export
  <2>2. /\ \A d \in Events \ {e} : rows'[d] = rows[d]
        /\ rows'[e].st = IF rows[e].st = "absent" THEN "pending" ELSE rows[e].st
    BY <1>0, <2>1, UpsertRows
  <2>3. SInv'
    BY <1>0, <2>1, <2>2, GatewayKeepsSInv DEF Open
  <2>4. CASE rows[e].st = "absent"
    <3>1. Class(rows[e].st) = "none" /\ Class(rows'[e].st) = "open"
      BY <2>2, <2>4 DEF Class, Open
    <3>2. Promise!Offer(e)
      BY <2>1, <2>2, <3>1, Moves DEF Promise!Offer
    <3> QED BY <2>3, <3>2 DEF Progresses, Promise!Next
  <2>5. CASE rows[e].st # "absent"
    BY <2>1, <2>2, <2>3, <2>5, Stutters DEF Progresses
  <2> QED BY <2>4, <2>5
<1>2. ASSUME NEW e \in Events, AdminReset(e) PROVE SInv' /\ Progresses
  <2>1. rows' = Queue!ResetRow(rows, e) /\ UNCHANGED <<docs, run>>
    BY <1>2 DEF AdminReset
  <2>2. /\ \A d \in Events \ {e} : rows'[d] = rows[d]
        /\ rows'[e].st = IF rows[e].st = "error" THEN "pending" ELSE rows[e].st
    BY <1>0, <2>1, ResetRowRows
  <2>3. SInv'
    BY <1>0, <2>1, <2>2, GatewayKeepsSInv DEF Open
  <2>4. CASE rows[e].st = "error"
    <3>1. Class(rows[e].st) = "failed" /\ Class(rows'[e].st) = "open"
      BY <2>2, <2>4 DEF Class, Open
    <3>2. Promise!Retry(e)
      BY <2>1, <2>2, <3>1, Moves DEF Promise!Retry
    <3> QED BY <2>3, <3>2 DEF Progresses, Promise!Next
  <2>5. CASE rows[e].st # "error"
    BY <2>1, <2>2, <2>3, <2>5, Stutters DEF Progresses
  <2> QED BY <2>4, <2>5
<1>3. ASSUME NEW r \in Runs, NEW me, Goes(r, me), HandOK(me, rows, docs),
             UNCHANGED <<rows, docs>>
      PROVE  SInv' /\ Progresses
  <2>1. SInv'
    BY <1>0, <1>3, RunKeepsSInv DEF SInv, AtMostOneDocument
  <2> QED BY <1>3, <2>1, Stutters DEF Progresses
<1>4. \A pc \in {"idle", "fetch"} : HandOK([Stopped EXCEPT !.pc = pc], rows, docs)
  BY ImportAssumption DEF HandOK, Stopped, ImportAssumption
<1>5. HandOK(Stopped, rows, docs)
  BY ImportAssumption DEF HandOK, Stopped, ImportAssumption
<1>6. ASSUME NEW r \in Runs, Start(r) \/ Abort(r) PROVE SInv' /\ Progresses
  BY <1>3, <1>4, <1>5, <1>6 DEF Start, Abort
<1>7. ASSUME NEW r \in Runs, Fetch(r) PROVE SInv' /\ Progresses
  <2> DEFINE events == Queue!Claimable(rows)
             me == IF events = {} THEN Stopped
                   ELSE [run[r] EXCEPT !.pc = "next", !.batch = events, !.age = 0, !.fresh = FALSE]
  <2>1. Goes(r, me) /\ rows' = Queue!Claimed(rows) /\ UNCHANGED docs
    BY <1>7 DEF Fetch
  <2>2. /\ events \subseteq Events
        /\ \A e \in events : rows[e].st \in Open
        /\ \A e \in Events : \/ rows'[e].st = rows[e].st
                             \/ rows[e].st \in Open /\ rows'[e].st \in Open
    BY <1>0, <2>1, ClaimedRows
  <2>3. HandOK(me, rows', docs')
    <3>1. run[r] \in RunState /\ run[r].pc = "fetch" /\ run[r].cur = NoEvent /\ NoEvent \notin Events
      BY <1>7, <1>r, ImportAssumption DEF Fetch, At, RunOK, ImportAssumption
    <3>2. CASE events = {}
      BY <3>2, ImportAssumption DEF HandOK, Stopped, ImportAssumption
    <3>3. CASE events # {}
      <4>1. me.batch = events /\ me.cur = NoEvent /\ me.pc = "next"
        BY <3>1, <3>3 DEF RunState
      <4> HIDE DEF me, events
      <4> QED BY <2>2, <3>1, <4>1 DEF HandOK
    <3> QED BY <3>2, <3>3
  <2> HIDE DEF me
  <2>4. AtMostOneDocument'
    BY <2>1 DEF SInv, AtMostOneDocument
  <2>5. SInv'
    BY <1>0, <2>1, <2>3, <2>4, RunKeepsSInv
  <2> QED BY <2>1, <2>2, <2>5, Stutters DEF Progresses
<1>8. ASSUME NEW r \in Runs, NextEvent(r) PROVE SInv' /\ Progresses
  <2>1. /\ run[r] \in RunState /\ run[r].pc = "next" /\ run[r].cur = NoEvent
        /\ HandOK(run[r], rows, docs) /\ NoEvent \notin Events /\ UNCHANGED <<rows, docs>>
    BY <1>8, <1>r, ImportAssumption DEF NextEvent, At, RunOK, ImportAssumption
  <2>2. HandOK([run[r] EXCEPT !.pc = "fetch"], rows, docs)
    BY <2>1 DEF RunState, HandOK
  <2>3. ASSUME NEW e \in run[r].batch
        PROVE  /\ HandOK([run[r] EXCEPT !.batch = @ \ {e}], rows, docs)
               /\ HandOK([run[r] EXCEPT !.pc = "find", !.batch = @ \ {e}, !.seen = @ \cup {e},
                                        !.fresh = TRUE, !.cur = e], rows, docs)
    <3>1. HandOK([run[r] EXCEPT !.batch = @ \ {e}], rows, docs)
      BY <2>1 DEF RunState, HandOK
    <3> DEFINE me == [run[r] EXCEPT !.pc = "find", !.batch = @ \ {e}, !.seen = @ \cup {e},
                                    !.fresh = TRUE, !.cur = e]
    <3>2. me.batch = run[r].batch \ {e} /\ me.cur = e /\ me.pc = "find"
      BY <2>1 DEF RunState
    <3> HIDE DEF me
    <3>3. HandOK(me, rows, docs)
      BY <2>1, <3>2 DEF HandOK
    <3> QED BY <3>1, <3>3 DEF me
  <2>4. CASE Goes(r, IF run[r].fresh THEN [run[r] EXCEPT !.pc = "fetch"] ELSE Stopped)
    BY <1>3, <1>5, <2>1, <2>2, <2>4
  <2>5. ASSUME NEW e \in run[r].batch,
               \/ Goes(r, [run[r] EXCEPT !.batch = @ \ {e}])
               \/ Goes(r, [run[r] EXCEPT !.pc = "find", !.batch = @ \ {e}, !.seen = @ \cup {e},
                                         !.fresh = TRUE, !.cur = e])
        PROVE  SInv' /\ Progresses
    BY <1>3, <2>1, <2>3, <2>5
  <2> QED BY <1>8, <2>4, <2>5 DEF NextEvent, Oldest
<1>9. ASSUME NEW r \in Runs, NEW result \in {"success", "error"}, run[r].pc \in {"find", "create"}
      PROVE  /\ [run[r] EXCEPT !.pc = "report", !.result = result].batch = run[r].batch
             /\ [run[r] EXCEPT !.pc = "report", !.result = result].cur = run[r].cur
             /\ [run[r] EXCEPT !.pc = "report", !.result = result].pc = "report"
  BY <1>r DEF RunOK, RunState
<1>10. ASSUME NEW r \in Runs, NEW result \in {"success", "error"}, run[r].pc \in {"find", "create"},
              Concludes(r, result), UNCHANGED <<rows, docs>>
       PROVE  SInv' /\ Progresses
  <2> DEFINE me == [run[r] EXCEPT !.pc = "report", !.result = result]
  <2>1. me.batch = run[r].batch /\ me.cur = run[r].cur /\ me.pc = "report"
    BY <1>9, <1>10
  <2>2. Goes(r, me)
    BY <1>10 DEF Concludes
  <2> HIDE DEF me
  <2>3. HandOK(me, rows, docs)
    BY <1>r, <2>1 DEF HandOK
  <2> QED BY <1>3, <1>10, <2>2, <2>3
<1>11. ASSUME NEW r \in Runs, Find(r) PROVE SInv' /\ Progresses
  <2>1. run[r].pc = "find" /\ UNCHANGED <<rows, docs>>
    BY <1>11 DEF Find, At
  <2>2. CASE Concludes(r, "success") \/ Concludes(r, "error")
    BY <1>10, <2>1, <2>2
  <2>3. CASE docs[run[r].cur] = 0 /\ Goes(r, [run[r] EXCEPT !.pc = "create"])
    <3> DEFINE me == [run[r] EXCEPT !.pc = "create"]
    <3>1. me.batch = run[r].batch /\ me.cur = run[r].cur
      BY <1>r DEF RunOK, RunState
    <3>2. Goes(r, me)
      BY <2>3
    <3> HIDE DEF me
    <3>3. HandOK(me, rows, docs)
      BY <1>r, <2>3, <3>1 DEF HandOK
    <3> QED BY <1>3, <2>1, <3>2, <3>3
  <2> QED BY <1>11, <2>2, <2>3 DEF Find
<1>12. ASSUME NEW r \in Runs, Create(r) PROVE SInv' /\ Progresses
  <2>1. run[r].pc = "create" /\ UNCHANGED rows
    BY <1>12 DEF Create, At
  <2>2. CASE docs' = [docs EXCEPT ![run[r].cur] = @ + 1] /\ Concludes(r, "success")
    <3> DEFINE e == run[r].cur
               me == [run[r] EXCEPT !.pc = "report", !.result = "success"]
    <3>1. e \in Events /\ docs[e] = 0 /\ rows[e].st \in Open
      BY <1>r, <2>1 DEF RunOK, RunState, HandOK
    <3>2. docs' = [docs EXCEPT ![e] = 1]
      BY <1>0, <2>2, <3>1
    <3>3. AtMostOneDocument'
      BY <1>0, <3>1, <3>2 DEF SInv, AtMostOneDocument
    <3>4. me.batch = run[r].batch /\ me.cur = e /\ me.pc = "report"
      BY <1>9, <2>1
    <3>5. Goes(r, me)
      BY <2>2 DEF Concludes
    <3> HIDE DEF me
    <3>6. HandOK(me, rows', docs')
      BY <1>r, <2>1, <3>4 DEF HandOK
    <3>7. SInv'
      BY <1>0, <3>3, <3>5, <3>6, RunKeepsSInv
    <3>8. Outcome[e] = "open" /\ UNCHANGED Outcome
      BY <2>1, <3>1, OutcomeIs DEF Class, Open
    <3>9. Promise!Record(e)
      BY <3>1, <3>2, <3>8 DEF Promise!Record
    <3> QED BY <3>1, <3>7, <3>9 DEF Progresses, Promise!Next
  <2>3. CASE Concludes(r, "error") /\ UNCHANGED docs
    BY <1>10, <2>1, <2>3
  <2> QED BY <1>12, <2>2, <2>3 DEF Create
<1>13. ASSUME NEW r \in Runs
       PROVE  LET me == [run[r] EXCEPT !.pc = "next", !.cur = NoEvent, !.result = "none"]
              IN me.batch = run[r].batch /\ me.cur = NoEvent /\ me.pc = "next"
  BY <1>r DEF RunOK, RunState
<1>14. ASSUME NEW r \in Runs, ReportFails(r) PROVE SInv' /\ Progresses
  <2> DEFINE me == [run[r] EXCEPT !.pc = "next", !.cur = NoEvent, !.result = "none"]
  <2>1. me.batch = run[r].batch /\ me.cur = NoEvent /\ me.pc = "next"
    BY <1>13
  <2>2. Goes(r, me) /\ UNCHANGED <<rows, docs>>
    BY <1>14 DEF ReportFails, Reported
  <2>3. run[r].batch \subseteq Events /\ NoEvent \notin Events
    BY <1>r, ImportAssumption DEF RunOK, RunState, ImportAssumption
  <2> HIDE DEF me
  <2>4. HandOK(me, rows, docs)
    BY <1>r, <2>1, <2>3 DEF HandOK
  <2> QED BY <1>3, <2>2, <2>4
<1>15. ASSUME NEW r \in Runs, Report(r) PROVE SInv' /\ Progresses
  <2> DEFINE e == run[r].cur
             me == [run[r] EXCEPT !.pc = "next", !.cur = NoEvent, !.result = "none"]
  <2>1. me.batch = run[r].batch /\ me.cur = NoEvent /\ me.pc = "next"
    BY <1>13
  <2>2. Goes(r, me) /\ UNCHANGED docs /\ At(r, "report")
    BY <1>15 DEF Report, Reported
  <2>3. /\ run[r].batch \subseteq Events /\ NoEvent \notin Events
        /\ run[r].result \in {"success", "error"}
    BY <1>r, <2>2, ImportAssumption DEF RunOK, RunState, At, ImportAssumption
  <2> HIDE DEF me
  <2>4. /\ e \in Events
        /\ \A d \in Events \ {e} : rows'[d] = rows[d]
        /\ rows'[e].st = IF rows[e].st \in Open THEN run[r].result ELSE rows[e].st
    BY <1>0, <1>15, <2>2, ReportRows DEF Report
  <2>5. rows[e].st \in Open /\ e \notin run[r].batch
    BY <1>r, <2>4 DEF HandOK
  <2>6. HandOK(me, rows', docs')
    BY <1>r, <2>1, <2>3, <2>4, <2>5 DEF HandOK
  <2>7. AtMostOneDocument'
    BY <2>2 DEF SInv, AtMostOneDocument
  <2>8. SInv'
    BY <1>0, <2>2, <2>6, <2>7, RunKeepsSInv
  <2>9. Class(rows[e].st) = "open" /\ rows'[e].st = run[r].result
    BY <2>4, <2>5 DEF Class, Open
  <2>10. CASE run[r].result = "success"
    <3>1. docs[e] = 1
      <4>1. docs[e] \in Nat /\ docs[e] > 0 /\ docs[e] <= 1
        BY <1>0, <2>4, <2>10 DEF SInv, IInv, ReportsTrue, AtMostOneDocument
      <4> QED BY <4>1
    <3>2. Class(rows'[e].st) = "done"
      BY <2>9, <2>10 DEF Class, Open
    <3>3. Promise!Confirm(e)
      BY <2>2, <2>4, <2>9, <3>1, <3>2, Moves DEF Promise!Confirm
    <3> QED BY <2>4, <2>8, <3>3 DEF Progresses, Promise!Next
  <2>11. CASE run[r].result = "error"
    <3>1. Class(rows'[e].st) = "failed"
      BY <2>9, <2>11 DEF Class, Open
    <3>2. Promise!Fail(e)
      BY <2>2, <2>4, <2>9, <3>1, Moves DEF Promise!Fail
    <3> QED BY <2>4, <2>8, <3>2 DEF Progresses, Promise!Next
  <2> QED BY <2>3, <2>10, <2>11
<1>16. CASE Tick
  <2>1. rows' = Queue!Aged(rows) /\ UNCHANGED docs
    BY <1>16 DEF Tick
  <2>2. \A e \in Events : rows'[e].st = rows[e].st
    BY <1>0, <2>1, AgedRows
  <2>3. \A r \in Runs : /\ run'[r].batch = run[r].batch /\ run'[r].cur = run[r].cur
                        /\ run'[r].pc = run[r].pc
    BY <1>16, <1>r DEF Tick, RunOK, RunState
  <2>4. SInv'
    BY <1>0, <2>1, <2>2, <2>3, GatewayKeepsSInv
  <2> QED BY <2>1, <2>2, <2>4, Stutters DEF Progresses
<1>17. CASE UNCHANGED vars
  <2>1. UNCHANGED <<rows, docs, run>>
    BY <1>17 DEF vars
  <2>2. SInv'
    BY <1>0, <2>1 DEF SInv, AtMostOneDocument, HandOK
  <2> QED BY <2>1, <2>2, Stutters DEF Progresses
<1> QED BY <1>1, <1>2, <1>6, <1>7, <1>8, <1>11, <1>12, <1>14, <1>15, <1>16, <1>17
        DEF Next, Process

(* One run at a time never makes a second document of a payment, however it  *)
(* is interrupted and whatever reports are lost.                             *)
THEOREM OneDocumentPerPayment == ASSUME OneRun PROVE Spec => []AtMostOneDocument
<1>1. Init => SInv
  BY InitSInv
<1>2. SInv /\ [Next]_vars => SInv'
  BY OneRun, NextKeepsSInv
<1>3. SInv => AtMostOneDocument
  BY DEF SInv
<1> QED BY <1>1, <1>2, <1>3, PTL DEF Spec

(* One run at a time implements the promise of Delivery.                     *)
THEOREM ImportDelivers == ASSUME OneRun PROVE Spec => Delivers
<1>1. Init => SInv /\ Promise!Init
  BY InitSInv
<1>2. SInv /\ [Next]_vars => SInv' /\ [Promise!Next]_<<Outcome, docs>>
  BY OneRun, NextKeepsSInv DEF Progresses
<1> QED BY <1>1, <1>2, PTL DEF Spec, Delivers, Promise!Spec

-----------------------------------------------------------------------------
(* Any number of overlapping runs are clients of the export queue: what a    *)
(* run holds are the event in hand and the rest of its batch.                *)

Hand(me) == {e \in Events : e \in me.batch \/ e = me.cur}

(* What a run holds of each event, as ExportQueue counts it.                 *)
Claims(me) == [e \in Events |-> IF e \in Hand(me) THEN me.age ELSE Lease + 2]

(* A run claims only when its batch is used up, and works on an event that   *)
(* is no longer in it.                                                       *)
Tidy(me) == (me.pc \in {"idle", "fetch"} => me.batch = {}) /\ me.cur \notin me.batch

QInv == IInv /\ \A r \in Runs : Tidy(run[r])

LEMMA HeldIs ==
    /\ Held = [r \in Runs |-> Claims(run[r])]
    /\ Held' = [r \in Runs |-> Claims(run'[r])]
BY DEF Held, Holds, Claims, Hand

(* A step of one run changes what that run holds, and nothing else.          *)
LEMMA RunHolds ==
    ASSUME IInv, NEW r \in Runs, NEW me, Goes(r, me)
    PROVE  /\ Held' = [Held EXCEPT ![r] = Claims(me)]
           /\ Tidy(me) /\ QInv => \A s \in Runs : Tidy(run'[s])
<1>1. \A s \in Runs : run'[s] = IF s = r THEN me ELSE run[s]
  BY DEF Goes, IInv, TypeOK
<1>2. \A s \in Runs : Held'[s] = IF s = r THEN Claims(me) ELSE Held[s]
  BY <1>1, HeldIs
<1>3. Held' = [Held EXCEPT ![r] = Claims(me)]
  BY <1>2, HeldIs
<1> QED
  BY <1>1, <1>3 DEF QInv

(* A run gives up some of what it holds.                                     *)
LEMMA HandForgets ==
    ASSUME IInv, NEW r \in Runs, NEW me, Goes(r, me), UNCHANGED <<rows, resets>>,
           Hand(me) \subseteq Hand(run[r]), me.age = run[r].age \/ Hand(me) = {}
    PROVE  Queue!Forget(r)
<1> DEFINE S == Hand(run[r]) \ Hand(me)
<1>1. S \subseteq Events
  BY DEF Hand
<1>2. \A e \in Events : Claims(me)[e] = IF e \in S THEN Lease + 2 ELSE Held[r][e]
  BY HeldIs DEF Claims
<1>3. Claims(me) = [e \in Events |-> IF e \in S THEN Lease + 2 ELSE Held[r][e]]
  BY <1>2 DEF Claims
<1> HIDE DEF S
<1> QED
  BY <1>1, <1>3, RunHolds DEF Queue!Forget, Queue!NotHeld

LEMMA StoppedTidy == Tidy(Stopped) /\ Hand(Stopped) = {}
BY ImportAssumption DEF Tidy, Hand, Stopped, ImportAssumption

LEMMA QueueInit == Init => Queue!Init /\ QInv
<1> SUFFICES ASSUME Init PROVE Queue!Init /\ QInv
  OBVIOUS
<1>1. Held = [r \in Runs |-> [e \in Events |-> Lease + 2]]
  BY StoppedTidy, HeldIs DEF Init, Claims
<1>2. QInv
  BY InitIInv, StoppedTidy DEF Init, QInv
<1> QED
  BY <1>1, <1>2 DEF Init, Queue!Init, Queue!NotHeld

LEMMA FetchStep ==
    ASSUME QInv, NEW r \in Runs, Fetch(r)
    PROVE  Queue!Claim(r) /\ \A s \in Runs : Tidy(run'[s])
<1> DEFINE events == Queue!Claimable(rows)
           next == [run[r] EXCEPT !.pc = "next", !.batch = events, !.age = 0, !.fresh = FALSE]
<1>1. /\ run[r].pc = "fetch" /\ rows' = Queue!Claimed(rows) /\ UNCHANGED resets
      /\ Goes(r, IF events = {} THEN Stopped ELSE next)
  BY DEF Fetch, At
<1>2. /\ RunOK(run[r]) /\ Tidy(run[r])
  BY RunsOK DEF QInv, IInv
<1>3. run[r].batch = {} /\ run[r].cur = NoEvent /\ Hand(run[r]) = {}
  BY <1>1, <1>2, ImportAssumption DEF RunOK, Tidy, Hand, ImportAssumption
<1>4. events \subseteq Events
  BY DEF Queue!Claimable, Queue!InStatus
<1>5. next.batch = events /\ next.cur = NoEvent /\ next.age = 0 /\ next.pc = "next"
  BY <1>2, <1>3 DEF RunOK, RunState
<1> HIDE DEF events, next
<1>6. Hand(next) = events /\ Tidy(next)
  BY <1>4, <1>5, ImportAssumption DEF Hand, Tidy, ImportAssumption
<1>7. \A e \in Events : Held[r][e] = Lease + 2
  BY <1>3, HeldIs DEF Claims
<1>8. CASE events = {}
  <2>1. Goes(r, Stopped)
    BY <1>1, <1>8
  <2>2. Claims(Stopped) = [e \in Events |-> IF e \in events THEN 0 ELSE Held[r][e]]
    BY <1>7, <1>8, StoppedTidy DEF Claims
  <2>3. Held' = [Held EXCEPT ![r] = Claims(Stopped)] /\ \A s \in Runs : Tidy(run'[s])
    BY <2>1, StoppedTidy, RunHolds DEF QInv
  <2> QED
    BY <1>1, <2>2, <2>3 DEF Queue!Claim, events
<1>9. CASE events # {}
  <2>1. Goes(r, next)
    BY <1>1, <1>9
  <2>2. Claims(next) = [e \in Events |-> IF e \in events THEN 0 ELSE Held[r][e]]
    BY <1>5, <1>6, <1>7 DEF Claims
  <2>3. Held' = [Held EXCEPT ![r] = Claims(next)] /\ \A s \in Runs : Tidy(run'[s])
    BY <1>6, <2>1, RunHolds DEF QInv
  <2> QED
    BY <1>1, <2>2, <2>3 DEF Queue!Claim, events
<1> QED
  BY <1>8, <1>9

(* What is left in hand after the event in hand has been given up.           *)
LEMMA HandReported ==
    ASSUME QInv, NEW r \in Runs, run[r].pc = "report", Reported(r)
    PROVE  /\ run[r].cur \in Hand(run[r]) /\ run[r].cur \in Events
           /\ run[r].age \in 0..(Lease + 1)
           /\ \A s \in Runs : Tidy(run'[s])
           /\ \E me : /\ Goes(r, me) /\ Hand(me) = Hand(run[r]) \ {run[r].cur}
                      /\ me.age = run[r].age
<1> DEFINE me == [run[r] EXCEPT !.pc = "next", !.cur = NoEvent, !.result = "none"]
<1>1. RunOK(run[r]) /\ Tidy(run[r]) /\ Goes(r, me)
  BY RunsOK DEF QInv, IInv, Reported
<1>2. run[r].cur \in Events /\ run[r].age \in 0..(Lease + 1)
  BY <1>1 DEF RunOK, RunState
<1>3. me.pc = "next" /\ me.cur = NoEvent /\ me.batch = run[r].batch /\ me.age = run[r].age
  BY <1>1 DEF RunOK, RunState
<1> HIDE DEF me
<1>4. NoEvent \notin run[r].batch /\ NoEvent \notin Events
  BY <1>1, ImportAssumption DEF RunOK, RunState, ImportAssumption
<1>5. Tidy(me) /\ Hand(me) = Hand(run[r]) \ {run[r].cur}
  BY <1>1, <1>3, <1>4 DEF Tidy, Hand
<1> QED
  BY <1>1, <1>2, <1>3, <1>5, RunHolds DEF Hand, QInv

LEMMA ReportStep ==
    ASSUME QInv, NEW r \in Runs, Report(r)
    PROVE  /\ \E e \in Events, result \in {"success", "error"} : Queue!Report(r, e, result)
           /\ \A s \in Runs : Tidy(run'[s])
<1>1. /\ run[r].pc = "report" /\ Reported(r) /\ UNCHANGED resets
      /\ rows' = Queue!UpdateResult(rows, run[r].cur, run[r].result)
  BY DEF Report, At
<1>2. PICK e : e = run[r].cur
  OBVIOUS
<1>3. PICK me : Goes(r, me) /\ Hand(me) = Hand(run[r]) \ {e} /\ me.age = run[r].age
  BY <1>1, <1>2, HandReported
<1>4. /\ e \in Hand(run[r]) /\ e \in Events /\ run[r].age \in 0..(Lease + 1)
      /\ \A s \in Runs : Tidy(run'[s])
  BY <1>1, <1>2, HandReported
<1>5. Held[r][e] # Lease + 2
  BY <1>4, HeldIs, ImportAssumption DEF Claims, ImportAssumption
<1>6. Held' = [Held EXCEPT ![r][e] = Lease + 2]
  <2>1. \A d \in Events : Claims(me)[d] = IF d = e THEN Lease + 2 ELSE Held[r][d]
    BY <1>3, HeldIs DEF Claims
  <2>2. Claims(me) = [Held[r] EXCEPT ![e] = Lease + 2]
    BY <1>4, <2>1, HeldIs DEF Claims
  <2> QED
    BY <1>3, <2>2, RunHolds DEF QInv
<1>7. run[r].result \in {"success", "error"}
  BY <1>1, RunsOK DEF QInv, IInv, RunOK, RunState
<1>8. Queue!Report(r, e, run[r].result)
  BY <1>1, <1>2, <1>5, <1>6 DEF Queue!Report, Queue!NotHeld
<1> QED
  BY <1>4, <1>7, <1>8

(* The store calls, and the passing of time, for every run.                  *)
LEMMA TickStep == ASSUME QInv, Tick PROVE Queue!Tick /\ \A r \in Runs : Tidy(run'[r])
<1>1. /\ rows' = Queue!Aged(rows) /\ UNCHANGED resets
      /\ run' = [r \in Runs |-> [run[r] EXCEPT !.age = Queue!Older(run[r].age)]]
  BY DEF Tick
<1>2. ASSUME NEW r \in Runs
      PROVE  /\ run'[r].pc = run[r].pc /\ run'[r].batch = run[r].batch
             /\ run'[r].cur = run[r].cur /\ run'[r].age = Queue!Older(run[r].age)
  BY <1>1, RunsOK DEF QInv, IInv, RunOK, RunState
<1>3. \A r \in Runs : Tidy(run'[r]) /\ Hand(run'[r]) = Hand(run[r])
  BY <1>2 DEF QInv, Tidy, Hand
<1>4. Queue!Older(Lease + 2) = Lease + 2
  BY ImportAssumption DEF Queue!Older, ImportAssumption
<1>5. \A r \in Runs : Claims(run'[r]) = [e \in Events |-> Queue!Older(Held[r][e])]
  BY <1>2, <1>3, <1>4, HeldIs DEF Claims
<1>6. Held' = [r \in Runs |-> [e \in Events |-> Queue!Older(Held[r][e])]]
  BY <1>5, HeldIs
<1> QED
  BY <1>1, <1>3, <1>6 DEF Queue!Tick

(* Working on the event in hand, and taking the next one, gives up nothing   *)
(* but an event this run has already processed.                              *)
LEMMA WorkStep ==
    ASSUME QInv, NEW r \in Runs, Start(r) \/ NextEvent(r) \/ Find(r) \/ Create(r)
    PROVE  /\ Queue!Forget(r) \/ UNCHANGED Queue!queueVars
           /\ \A s \in Runs : Tidy(run'[s])
<1>1. UNCHANGED <<rows, resets>> /\ RunOK(run[r]) /\ Tidy(run[r]) /\ IInv
  BY RunsOK DEF QInv, IInv, Start, NextEvent, Find, Create
<1>2. ASSUME NEW me, Goes(r, me), Tidy(me), Hand(me) \subseteq Hand(run[r]),
             me.age = run[r].age \/ Hand(me) = {}
      PROVE  /\ Queue!Forget(r) \/ UNCHANGED Queue!queueVars
             /\ \A s \in Runs : Tidy(run'[s])
  BY <1>1, <1>2, HandForgets, RunHolds
<1>3. CASE Start(r)
  <2> DEFINE me == [Stopped EXCEPT !.pc = "fetch"]
  <2>1. Goes(r, me) /\ me.batch = {} /\ me.cur = NoEvent
    BY <1>3 DEF Start, Stopped
  <2> HIDE DEF me
  <2>2. Tidy(me) /\ Hand(me) = {}
    BY <2>1, ImportAssumption DEF Tidy, Hand, ImportAssumption
  <2> QED
    BY <1>2, <2>1, <2>2
<1>4. ASSUME NEW pc \in {"create", "report"},
             NEW result \in {"none", "success", "error"}, run[r].pc \in {"find", "create"},
             Goes(r, [run[r] EXCEPT !.pc = pc, !.result = result])
      PROVE  /\ Queue!Forget(r) \/ UNCHANGED Queue!queueVars
             /\ \A s \in Runs : Tidy(run'[s])
  <2> DEFINE me == [run[r] EXCEPT !.pc = pc, !.result = result]
  <2>1. /\ Goes(r, me) /\ me.pc = pc /\ me.batch = run[r].batch /\ me.cur = run[r].cur
        /\ me.age = run[r].age
    BY <1>1, <1>4 DEF RunOK, RunState
  <2> HIDE DEF me
  <2>2. Tidy(me) /\ Hand(me) = Hand(run[r])
    BY <1>1, <2>1 DEF Tidy, Hand
  <2> QED
    BY <1>2, <2>1, <2>2
<1>5. CASE Find(r) \/ Create(r)
  <2>1. run[r].pc \in {"find", "create"}
    BY <1>5 DEF Find, Create, At
  <2>2. /\ run[r].result \in {"none", "success", "error"}
        /\ [run[r] EXCEPT !.pc = "create"] =
              [run[r] EXCEPT !.pc = "create", !.result = run[r].result]
    BY <1>1 DEF RunOK, RunState
  <2>3. PICK pc \in {"create", "report"}, result \in {"none", "success", "error"} :
           Goes(r, [run[r] EXCEPT !.pc = pc, !.result = result])
    BY <1>5, <2>2 DEF Find, Create, Concludes
  <2> QED
    BY <1>4, <2>1, <2>3
<1>6. CASE NextEvent(r)
  <2>1. run[r].pc = "next" /\ run[r].cur = NoEvent
    BY <1>1, <1>6 DEF NextEvent, At, RunOK
  <2>2. ASSUME run[r].batch = {},
               Goes(r, IF run[r].fresh THEN [run[r] EXCEPT !.pc = "fetch"] ELSE Stopped)
        PROVE  \E me : Goes(r, me) /\ Tidy(me) /\ Hand(me) = {}
    <3> DEFINE me == [run[r] EXCEPT !.pc = "fetch"]
    <3>1. me.batch = {} /\ me.cur = NoEvent
      BY <1>1, <2>1, <2>2 DEF RunOK, RunState
    <3> HIDE DEF me
    <3>2. Tidy(me) /\ Hand(me) = {}
      BY <3>1, ImportAssumption DEF Tidy, Hand, ImportAssumption
    <3> QED
      BY <2>2, <3>2, StoppedTidy DEF me
  <2>3. ASSUME NEW e \in run[r].batch, Goes(r, [run[r] EXCEPT !.batch = @ \ {e}])
        PROVE  \E me : /\ Goes(r, me) /\ Tidy(me) /\ Hand(me) \subseteq Hand(run[r])
                       /\ me.age = run[r].age
    <3> DEFINE me == [run[r] EXCEPT !.batch = @ \ {e}]
    <3>1. /\ Goes(r, me) /\ me.pc = "next" /\ me.batch = run[r].batch \ {e}
          /\ me.cur = NoEvent /\ me.age = run[r].age
      BY <1>1, <2>1, <2>3 DEF RunOK, RunState
    <3> HIDE DEF me
    <3> QED
      BY <1>1, <2>1, <3>1 DEF Tidy, Hand
  <2>4. ASSUME NEW e \in run[r].batch,
               Goes(r, [run[r] EXCEPT !.pc = "find", !.batch = @ \ {e}, !.seen = @ \cup {e},
                                      !.fresh = TRUE, !.cur = e])
        PROVE  \E me : /\ Goes(r, me) /\ Tidy(me) /\ Hand(me) \subseteq Hand(run[r])
                       /\ me.age = run[r].age
    <3> DEFINE me == [run[r] EXCEPT !.pc = "find", !.batch = @ \ {e}, !.seen = @ \cup {e},
                                    !.fresh = TRUE, !.cur = e]
    <3>1. /\ Goes(r, me) /\ me.pc = "find" /\ me.batch = run[r].batch \ {e}
          /\ me.cur = e /\ me.age = run[r].age
      BY <1>1, <2>4 DEF RunOK, RunState
    <3> HIDE DEF me
    <3> QED
      BY <3>1 DEF Tidy, Hand
  <2>5. PICK me : /\ Goes(r, me) /\ Tidy(me) /\ Hand(me) \subseteq Hand(run[r])
                  /\ me.age = run[r].age \/ Hand(me) = {}
    BY <1>6, <2>2, <2>3, <2>4 DEF NextEvent, Oldest
  <2> QED
    BY <1>2, <2>5
<1> QED
  BY <1>2, <1>3, <1>5, <1>6

(* A lost report and a killed run give up what they hold.                    *)
LEMMA LossStep ==
    ASSUME QInv, NEW r \in Runs, ReportFails(r) \/ Abort(r)
    PROVE  Queue!Forget(r) /\ \A s \in Runs : Tidy(run'[s])
<1>1. UNCHANGED <<rows, resets>> /\ IInv
  BY DEF QInv, ReportFails, Abort
<1>2. CASE ReportFails(r)
  <2>1. run[r].pc = "report" /\ Reported(r)
    BY <1>2 DEF ReportFails, At
  <2>2. PICK me : /\ Goes(r, me) /\ Hand(me) = Hand(run[r]) \ {run[r].cur}
                  /\ me.age = run[r].age
    BY <2>1, HandReported
  <2> QED
    BY <1>1, <2>1, <2>2, HandReported, HandForgets
<1>3. CASE Abort(r)
  BY <1>1, <1>3, StoppedTidy, HandForgets, RunHolds DEF Abort
<1> QED
  BY <1>2, <1>3

LEMMA QueueNext ==
    ASSUME QInv, [Next]_vars
    PROVE  QInv' /\ [Queue!Next]_(Queue!queueVars)
<1>1. IInv'
  BY NextKeepsIInv DEF QInv
<1>2. ASSUME NEW e \in Events, Export(e) \/ AdminReset(e)
      PROVE  QInv' /\ (Queue!Export(e) \/ Queue!AdminReset(e))
  <2>1. UNCHANGED run
    BY <1>2 DEF Export, AdminReset
  <2>2. Held' = Held
    BY <2>1, HeldIs
  <2> QED
    BY <1>1, <1>2, <2>1, <2>2 DEF QInv, Export, AdminReset, Queue!Export, Queue!AdminReset
<1>3. CASE UNCHANGED vars
  <2>1. UNCHANGED <<rows, resets, run>>
    BY <1>3 DEF vars
  <2> QED
    BY <1>1, <2>1, HeldIs DEF QInv, Queue!queueVars
<1>4. ASSUME NEW r \in Runs, Start(r) \/ Process(r) \/ ReportFails(r) \/ Abort(r)
      PROVE  QInv' /\ [Queue!Next]_(Queue!queueVars)
  <2>1. CASE Fetch(r)
    BY <1>1, <2>1, FetchStep DEF QInv, Queue!Next
  <2>2. CASE Report(r)
    BY <1>1, <2>2, ReportStep DEF QInv, Queue!Next
  <2>3. CASE ReportFails(r) \/ Abort(r)
    BY <1>1, <2>3, LossStep DEF QInv, Queue!Next
  <2>4. CASE Start(r) \/ NextEvent(r) \/ Find(r) \/ Create(r)
    BY <1>1, <2>4, WorkStep DEF QInv, Queue!Next
  <2> QED
    BY <1>4, <2>1, <2>2, <2>3, <2>4 DEF Process
<1>5. CASE Tick
  BY <1>1, <1>5, TickStep DEF QInv, Queue!Next
<1> QED
  BY <1>2, <1>3, <1>4, <1>5 DEF Next, Queue!Next

(* However many runs overlap, and whatever they lose, importer and gateway   *)
(* take only steps that the export queue allows its clients.                 *)
THEOREM ImportFollowsQueue == Spec => FollowsQueue
<1>1. Init => Queue!Init /\ QInv
  BY QueueInit
<1>2. QInv /\ [Next]_vars => QInv' /\ [Queue!Next]_(Queue!queueVars)
  BY QueueNext
<1> QED
  BY <1>1, <1>2, PTL DEF Spec, Queue!Spec, FollowsQueue

-----------------------------------------------------------------------------
(* What ExportQueueProofs says of every client of the queue holds of the     *)
(* importer.                                                                 *)

QP == INSTANCE ExportQueueProofs WITH Clients <- Runs, Validity <- {TRUE}, held <- Held

LEMMA SameFiniteSets ==
    \A S : /\ QP!IsFiniteSet(S) = IsFiniteSet(S)
           /\ Queue!Cardinality(S) = QP!Cardinality(S)
BY Zenon DEF QP!IsFiniteSet, IsFiniteSet, QP!Cardinality, Queue!Cardinality

LEMMA QueueAssumed == QP!QueueAssumption
BY SameFiniteSets, ImportAssumption DEF QP!QueueAssumption, ImportAssumption

(* The two instances of the queue have the same store calls.                 *)
LEMMA SameQueue ==
    /\ \A rs, e, v : Queue!Upsert(rs, e, v) = QP!Upsert(rs, e, v)
    /\ \A rs : Queue!Claimable(rs) = QP!Claimable(rs)
    /\ \A rs : Queue!Claimed(rs) = QP!Claimed(rs)
    /\ \A rs, e, s : Queue!UpdateResult(rs, e, s) = QP!UpdateResult(rs, e, s)
    /\ \A rs, e : Queue!ResetRow(rs, e) = QP!ResetRow(rs, e)
    /\ \A rs : Queue!Aged(rs) = QP!Aged(rs)
<1>1. \A rs, e, v : Queue!Upsert(rs, e, v) = QP!Upsert(rs, e, v)
  <2>1. \A rs : Queue!Saved(rs) = QP!Saved(rs)
    BY Zenon DEF Queue!Saved, QP!Saved
  <2>2. \A rs, e, s : Queue!SetStatus(rs, e, s) = QP!SetStatus(rs, e, s)
    BY Zenon DEF Queue!SetStatus, QP!SetStatus
  <2> QED
    BY <2>1, <2>2, SameFiniteSets DEF Queue!Upsert, QP!Upsert
<1>2. \A rs : Queue!Claimable(rs) = QP!Claimable(rs)
  BY Zenon, SameFiniteSets
     DEF Queue!Claimable, QP!Claimable, Queue!InStatus, QP!InStatus, Queue!Expired, QP!Expired
<1>3. \A rs : Queue!Claimed(rs) = QP!Claimed(rs)
  BY Zenon, <1>2 DEF Queue!Claimed, QP!Claimed, Queue!Expired, QP!Expired
<1>4. \A rs, e, s : Queue!UpdateResult(rs, e, s) = QP!UpdateResult(rs, e, s)
  BY Zenon DEF Queue!SetStatus, QP!SetStatus, Queue!UpdateResult, QP!UpdateResult
<1>5. \A rs, e : Queue!ResetRow(rs, e) = QP!ResetRow(rs, e)
  BY Zenon DEF Queue!SetStatus, QP!SetStatus, Queue!ResetRow, QP!ResetRow
<1>6. \A rs : Queue!Aged(rs) = QP!Aged(rs)
  BY Zenon DEF Queue!Aged, QP!Aged, Queue!Older, QP!Older
<1> QED
  BY <1>1, <1>2, <1>3, <1>4, <1>5, <1>6

LEMMA SameSteps == [Queue!Next]_(Queue!queueVars) => [QP!Next]_(QP!queueVars)
<1>1. ASSUME NEW e \in Events, Queue!Export(e) \/ Queue!AdminReset(e)
      PROVE  QP!Export(e) \/ QP!AdminReset(e)
  BY <1>1, SameQueue DEF Queue!Export, QP!Export, Queue!AdminReset, QP!AdminReset
<1>2. ASSUME NEW r \in Runs, Queue!Claim(r) \/ Queue!Forget(r)
      PROVE  QP!Claim(r) \/ QP!Forget(r)
  <2>1. CASE Queue!Claim(r)
    BY Zenon, <2>1, SameQueue DEF Queue!Claim, QP!Claim
  <2>2. CASE Queue!Forget(r)
    BY Zenon, <2>2 DEF Queue!Forget, QP!Forget, Queue!NotHeld, QP!NotHeld
  <2> QED
    BY <1>2, <2>1, <2>2
<1>3. ASSUME NEW r \in Runs, NEW e \in Events, NEW s \in {"success", "error"},
             Queue!Report(r, e, s)
      PROVE  QP!Report(r, e, s)
  BY Zenon, <1>3, SameQueue DEF Queue!Report, QP!Report, Queue!NotHeld, QP!NotHeld
<1>4. Queue!Tick => QP!Tick
  BY Zenon, SameQueue DEF Queue!Tick, QP!Tick, Queue!Older, QP!Older
<1>5. UNCHANGED Queue!queueVars => UNCHANGED QP!queueVars
  BY DEF Queue!queueVars, QP!queueVars
<1> QED
  BY <1>1, <1>2, <1>3, <1>4, <1>5 DEF Queue!Next, QP!Next

LEMMA SameQueueSpec == FollowsQueue => QP!Spec
<1>1. Queue!Init => QP!Init
  BY Zenon DEF Queue!Init, QP!Init, Queue!Absent, QP!Absent, Queue!NotHeld, QP!NotHeld
<1> QED
  BY <1>1, SameSteps, PTL DEF FollowsQueue, Queue!Spec, QP!Spec

(* Two runs never hold live leases on one event before an administrator has  *)
(* reset an event, however they overlap and whatever they lose.              *)
THEOREM RunsShareNoLease == Spec => []Queue!LeaseExclusiveUntilReset
<1>1. QP!Spec => []QP!LeaseExclusiveUntilReset
  BY QueueAssumed, QP!LeasesExclusive
<1>2. QP!LeaseExclusiveUntilReset => Queue!LeaseExclusiveUntilReset
  BY DEF QP!LeaseExclusiveUntilReset, Queue!LeaseExclusiveUntilReset
<1> QED
  BY <1>1, <1>2, ImportFollowsQueue, SameQueueSpec, PTL

(* No run takes an event out of success, and none out of error: a late       *)
(* report of an overlapping run changes no result.                           *)
THEOREM ImportKeepsResults == Spec => Queue!SuccessFinal /\ Queue!ErrorNeedsReset
<1>1. QP!Spec => QP!SuccessFinal /\ QP!ErrorNeedsReset
  BY QueueAssumed, QP!ConfirmedForGood, QP!FailedUntilReset
<1>2. QP!SuccessFinal => Queue!SuccessFinal
  BY DEF QP!SuccessFinal, Queue!SuccessFinal, QP!queueVars, Queue!queueVars
<1>3. QP!ErrorNeedsReset => Queue!ErrorNeedsReset
  BY DEF QP!ErrorNeedsReset, Queue!ErrorNeedsReset, QP!queueVars, Queue!queueVars
<1> QED
  BY <1>1, <1>2, <1>3, ImportFollowsQueue, SameQueueSpec, PTL

=============================================================================
