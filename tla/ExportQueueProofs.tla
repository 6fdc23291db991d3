------------------------- MODULE ExportQueueProofs -------------------------
(* Proofs about ExportQueue, for every number of events and clients, every   *)
(* lease, limit and number of resets: the types, the two action properties   *)
(* and the exclusiveness of leases until the first reset.                    *)
EXTENDS ExportQueue, FiniteSetTheorems, TLAPS

-----------------------------------------------------------------------------
(* The inductive invariant.  A live lease is known to the table: its row is  *)
(* still leased, at the age the client counts, or has its result.            *)

Tables == [Events -> Row]
Leases == [Clients -> [Events -> 0..NotHeld]]

(* The statuses a store call writes.                                         *)
Written == {"pending", "processing", "success", "error"}

LeaseKnown(rs, h) ==
    \A c \in Clients, e \in Events :
        h[c][e] <= Lease => \/ rs[e].st = "processing" /\ rs[e].age = h[c][e]
                            \/ rs[e].st \in {"success", "error"}

Exclusive(h) ==
    \A c, d \in Clients, e \in Events : h[c][e] <= Lease /\ h[d][e] <= Lease => c = d

IInv ==
    /\ TypeOK
    /\ resets = 0 => LeaseKnown(rows, held) /\ Exclusive(held)

(* What no store call but a reset does: it leaves results alone.             *)
ResultsKept(rs, new) ==
    \A e \in Events : rs[e].st \in {"success", "error"} => new[e].st = rs[e].st

-----------------------------------------------------------------------------
(* The store calls. *)

(* A change of status starts the age again.                                  *)
LEMMA RowUpdate ==
    ASSUME NEW row \in Row, NEW s \in Written
    PROVE  /\ [row EXCEPT !.st = s, !.age = 0] \in Row
           /\ [row EXCEPT !.st = s, !.age = 0].st = s
           /\ [row EXCEPT !.st = s, !.age = 0].age = 0
<1>1. 0 \in 0..(Lease + 1)
  BY QueueAssumption DEF QueueAssumption
<1>2. [row EXCEPT !.st = s] \in Row /\ [row EXCEPT !.st = s].st = s
  BY DEF Row, Written
<1> DEFINE r1 == [row EXCEPT !.st = s]
<1>3. [r1 EXCEPT !.age = 0] \in Row /\ [r1 EXCEPT !.age = 0].st = s /\ [r1 EXCEPT !.age = 0].age = 0
  <2> HIDE DEF r1
  <2>1. r1 \in Row /\ r1.st = s
    BY <1>2 DEF r1
  <2> QED BY <1>1, <2>1 DEF Row
<1>4. [row EXCEPT !.st = s, !.age = 0] = [r1 EXCEPT !.age = 0]
  OBVIOUS
<1> QED BY <1>3, <1>4

(* SetStatus writes one row.                                                 *)
LEMMA SetStatusRow ==
    ASSUME NEW rs \in Tables, NEW e \in Events,
           NEW s \in Written
    PROVE  /\ SetStatus(rs, e, s) \in Tables
           /\ SetStatus(rs, e, s)[e].st = s
           /\ \A d \in Events \ {e} : SetStatus(rs, e, s)[d] = rs[d]
<1>1. rs[e] \in Row
  BY DEF Tables
<1> DEFINE row == [rs[e] EXCEPT !.st = s, !.age = 0]
<1>2. row \in Row /\ row.st = s
  BY <1>1, RowUpdate
<1>3. SetStatus(rs, e, s) = [rs EXCEPT ![e] = row]
  BY DEF SetStatus, Tables
<1> HIDE DEF row
<1> QED BY <1>2, <1>3 DEF Tables

(* Exporting an event keeps every result and every leased row.               *)
LEMMA UpsertKeeps ==
    ASSUME NEW rs \in Tables, NEW e \in Events, NEW valid \in BOOLEAN
    PROVE  /\ Upsert(rs, e, valid) \in Tables
           /\ ResultsKept(rs, Upsert(rs, e, valid))
           /\ \A d \in Events :
                 rs[d].st \in {"processing", "success", "error"} =>
                     Upsert(rs, e, valid)[d] = rs[d]
<1>1. CASE rs[e].st = "absent"
  <2>1. IsFiniteSet(Saved(rs))
    BY QueueAssumption, FS_Subset DEF QueueAssumption, Saved
  <2>2. Cardinality(Saved(rs)) + 1 \in Nat
    BY <2>1, FS_CardinalityType
  <2> DEFINE new == [st |-> IF valid THEN "pending" ELSE "error",
                     id |-> Cardinality(Saved(rs)) + 1,
                     age |-> 0]
  <2>3. new \in Row
    BY <2>2, QueueAssumption DEF Row, QueueAssumption
  <2>4. Upsert(rs, e, valid) = [rs EXCEPT ![e] = new]
    BY <1>1 DEF Upsert
  <2> QED BY <1>1, <2>3, <2>4 DEF Tables, ResultsKept
<1>2. CASE rs[e].st = "pending" /\ ~valid
  <2>1. Upsert(rs, e, valid) = SetStatus(rs, e, "error")
    BY <1>2 DEF Upsert
  <2> DEFINE new == Upsert(rs, e, valid)
  <2>2. /\ new \in Tables /\ new[e].st = "error"
        /\ \A d \in Events \ {e} : new[d] = rs[d]
    <3>1. "error" \in Written
      BY DEF Written
    <3> QED BY <2>1, <3>1, SetStatusRow
  <2> HIDE DEF new
  <2>3. \A d \in Events : rs[d].st \in {"processing", "success", "error"} => new[d] = rs[d]
    BY <1>2, <2>2
  <2> QED BY <2>2, <2>3 DEF new, ResultsKept
<1>3. CASE rs[e].st # "absent" /\ ~(rs[e].st = "pending" /\ ~valid)
  <2>1. Upsert(rs, e, valid) = rs
    BY <1>3 DEF Upsert
  <2> QED BY <2>1 DEF ResultsKept
<1> QED BY <1>1, <1>2, <1>3

(* An expired lease is given up, every other row is left alone.              *)
LEMMA ExpiredRows ==
    ASSUME NEW rs \in Tables
    PROVE  /\ Expired(rs) \in Tables
           /\ \A e \in Events :
                 \/ Expired(rs)[e] = rs[e]
                 \/ /\ rs[e].st = "processing" /\ rs[e].age > Lease
                    /\ Expired(rs)[e].st = "pending"
<1>0. {"pending", "processing"} \subseteq Written
  BY DEF Written
<1>1. \A e \in Events : rs[e] \in Row
  BY DEF Tables
<1>2. \A e \in Events : /\ [rs[e] EXCEPT !.st = "pending", !.age = 0] \in Row
                        /\ [rs[e] EXCEPT !.st = "pending", !.age = 0].st = "pending"
  BY <1>1, <1>0, RowUpdate
<1> QED BY <1>1, <1>2 DEF Expired, Tables

(* A claim takes pending rows and rows with an expired lease, no other.      *)
LEMMA ClaimedRows ==
    ASSUME NEW rs \in Tables
    PROVE  /\ Claimed(rs) \in Tables
           /\ \A e \in Claimable(rs) :
                 /\ Claimed(rs)[e].st = "processing" /\ Claimed(rs)[e].age = 0
                 /\ \/ rs[e].st = "pending"
                    \/ rs[e].st = "processing" /\ rs[e].age > Lease
           /\ \A e \in Events \ Claimable(rs) : Claimed(rs)[e] = Expired(rs)[e]
<1>0. {"pending", "processing"} \subseteq Written
  BY DEF Written
<1>1. \A e \in Events : rs[e] \in Row
  BY DEF Tables
<1>2. \A e \in Events : /\ [rs[e] EXCEPT !.st = "processing", !.age = 0] \in Row
                        /\ [rs[e] EXCEPT !.st = "processing", !.age = 0].st = "processing"
                        /\ [rs[e] EXCEPT !.st = "processing", !.age = 0].age = 0
  BY <1>1, <1>0, RowUpdate
<1>3. Claimable(rs) \subseteq Events
  BY DEF Claimable, InStatus
<1>4. \A e \in Claimable(rs) : Expired(rs)[e].st = "pending"
  BY DEF Claimable, InStatus
<1>5. Claimed(rs) \in Tables
  <2>1. \A e \in Events : Expired(rs)[e] \in Row
    BY ExpiredRows DEF Tables
  <2>2. \A e \in Events : (IF e \in Claimable(rs)
                             THEN [rs[e] EXCEPT !.st = "processing", !.age = 0]
                             ELSE Expired(rs)[e]) \in Row
    BY <1>2, <2>1
  <2> QED BY <2>2 DEF Claimed, Tables
<1>6. \A e \in Claimable(rs) : Claimed(rs)[e].st = "processing" /\ Claimed(rs)[e].age = 0
  BY <1>2, <1>3 DEF Claimed
<1>7. \A e \in Claimable(rs) : \/ rs[e].st = "pending"
                               \/ rs[e].st = "processing" /\ rs[e].age > Lease
  BY <1>3, <1>4, ExpiredRows
<1>8. \A e \in Events \ Claimable(rs) : Claimed(rs)[e] = Expired(rs)[e]
  BY DEF Claimed
<1> QED BY <1>5, <1>6, <1>7, <1>8

(* A claim keeps every result.                                               *)
LEMMA ClaimedKeeps ==
    ASSUME NEW rs \in Tables
    PROVE  ResultsKept(rs, Claimed(rs))
<1>1. \A e \in Claimable(rs) : rs[e].st \notin {"success", "error"}
  BY ClaimedRows
<1>2. \A e \in Events \ Claimable(rs) :
         rs[e].st \in {"success", "error"} => Claimed(rs)[e].st = rs[e].st
  BY ClaimedRows, ExpiredRows
<1> QED BY <1>1, <1>2 DEF ResultsKept

(* A reported result is written once, over a row that has none.              *)
LEMMA UpdateResultRows ==
    ASSUME NEW rs \in Tables, NEW e \in Events, NEW result \in {"success", "error"}
    PROVE  /\ UpdateResult(rs, e, result) \in Tables
           /\ ResultsKept(rs, UpdateResult(rs, e, result))
           /\ \A d \in Events : \/ UpdateResult(rs, e, result)[d] = rs[d]
                                \/ UpdateResult(rs, e, result)[d].st \in {"success", "error"}
<1>1. CASE rs[e].st \in {"pending", "processing"}
  <2> DEFINE new == UpdateResult(rs, e, result)
  <2>1. new = SetStatus(rs, e, result)
    BY <1>1 DEF UpdateResult
  <2>2. /\ new \in Tables /\ new[e].st = result
        /\ \A d \in Events \ {e} : new[d] = rs[d]
    <3>1. result \in Written
      BY DEF Written
    <3> QED BY <2>1, <3>1, SetStatusRow
  <2> HIDE DEF new
  <2>3. \A d \in Events : new[d] = rs[d] \/ new[d].st \in {"success", "error"}
    BY <2>2
  <2>4. ResultsKept(rs, new)
    BY <1>1, <2>2 DEF ResultsKept
  <2> QED BY <2>2, <2>3, <2>4 DEF new
<1>2. CASE rs[e].st \notin {"pending", "processing"}
  <2>1. UpdateResult(rs, e, result) = rs
    BY <1>2 DEF UpdateResult
  <2> QED BY <2>1 DEF ResultsKept
<1> QED BY <1>1, <1>2

(* Time makes leases older and changes no status.                            *)
LEMMA AgedRows ==
    ASSUME NEW rs \in Tables
    PROVE  /\ Aged(rs) \in Tables
           /\ \A e \in Events :
                 /\ Aged(rs)[e].st = rs[e].st
                 /\ rs[e].st = "processing" => Aged(rs)[e].age = Older(rs[e].age)
<1>1. \A a \in 0..(Lease + 1) : Older(a) \in 0..(Lease + 1)
  BY QueueAssumption DEF Older, QueueAssumption
<1>2. ASSUME NEW e \in Events
      PROVE  /\ [rs[e] EXCEPT !.age = Older(rs[e].age)] \in Row
             /\ [rs[e] EXCEPT !.age = Older(rs[e].age)].st = rs[e].st
             /\ [rs[e] EXCEPT !.age = Older(rs[e].age)].age = Older(rs[e].age)
  <2>1. rs[e] \in Row
    BY DEF Tables
  <2>2. Older(rs[e].age) \in 0..(Lease + 1)
    BY <1>1, <2>1 DEF Row
  <2> QED BY <2>1, <2>2 DEF Row
<1> QED BY <1>2 DEF Aged, Tables

(* A row is confirmed by a reported result and by no other store call.       *)
ConfirmedRows(rs) == {e \in Events : rs[e].st = "success"}

LEMMA SetStatusConfirms ==
    ASSUME NEW rs \in Tables, NEW e \in Events, NEW s \in Written \ {"success"}
    PROVE  ConfirmedRows(SetStatus(rs, e, s)) \subseteq ConfirmedRows(rs)
BY SetStatusRow DEF ConfirmedRows

LEMMA OnlyReportsConfirm ==
    ASSUME NEW rs \in Tables, NEW e \in Events
    PROVE  /\ \A valid \in BOOLEAN : ConfirmedRows(Upsert(rs, e, valid)) \subseteq ConfirmedRows(rs)
           /\ ConfirmedRows(UpdateResult(rs, e, "error")) \subseteq ConfirmedRows(rs)
           /\ ConfirmedRows(UpdateResult(rs, e, "success")) \subseteq ConfirmedRows(rs) \cup {e}
           /\ ConfirmedRows(ResetRow(rs, e)) \subseteq ConfirmedRows(rs)
<1>0. {"pending", "error"} \subseteq Written \ {"success"} /\ "success" \in Written
  BY DEF Written
<1>1. ASSUME NEW valid \in BOOLEAN
      PROVE  ConfirmedRows(Upsert(rs, e, valid)) \subseteq ConfirmedRows(rs)
  <2>1. CASE rs[e].st = "absent"
    <3> DEFINE new == [st |-> IF valid THEN "pending" ELSE "error",
                       id |-> Cardinality(Saved(rs)) + 1, age |-> 0]
    <3>1. Upsert(rs, e, valid) = [rs EXCEPT ![e] = new] /\ new.st # "success"
      BY <2>1 DEF Upsert
    <3> HIDE DEF new
    <3> QED BY <3>1 DEF ConfirmedRows, Tables
  <2>2. CASE rs[e].st = "pending" /\ ~valid
    <3>1. Upsert(rs, e, valid) = SetStatus(rs, e, "error")
      BY <2>2 DEF Upsert
    <3> QED BY <1>0, <3>1, SetStatusConfirms
  <2>3. CASE rs[e].st # "absent" /\ ~(rs[e].st = "pending" /\ ~valid)
    <3>1. Upsert(rs, e, valid) = rs
      BY <2>3 DEF Upsert
    <3> QED BY <3>1
  <2> QED BY <2>1, <2>2, <2>3
<1>2. ConfirmedRows(UpdateResult(rs, e, "error")) \subseteq ConfirmedRows(rs)
  BY <1>0, SetStatusConfirms DEF UpdateResult
<1>3. ConfirmedRows(UpdateResult(rs, e, "success")) \subseteq ConfirmedRows(rs) \cup {e}
  <2>1. ASSUME NEW d \in Events \ {e}
        PROVE  UpdateResult(rs, e, "success")[d] = rs[d]
    BY <1>0, SetStatusRow DEF UpdateResult
  <2> QED BY <2>1 DEF ConfirmedRows
<1>4. ConfirmedRows(ResetRow(rs, e)) \subseteq ConfirmedRows(rs)
  BY <1>0, SetStatusConfirms DEF ResetRow
<1> QED BY <1>1, <1>2, <1>3, <1>4

LEMMA ClaimsConfirmNothing ==
    ASSUME NEW rs \in Tables
    PROVE  /\ ConfirmedRows(Claimed(rs)) \subseteq ConfirmedRows(rs)
           /\ ConfirmedRows(Aged(rs)) \subseteq ConfirmedRows(rs)
BY ClaimedRows, ExpiredRows, AgedRows DEF ConfirmedRows

-----------------------------------------------------------------------------
(* The steps. *)

LEMMA InitIInv == Init => IInv
<1> SUFFICES ASSUME Init PROVE IInv
  OBVIOUS
<1>1. TypeOK
  BY QueueAssumption DEF Init, TypeOK, Row, Absent, NotHeld, QueueAssumption
<1>2. \A c \in Clients, e \in Events : ~(held[c][e] <= Lease)
  BY QueueAssumption DEF Init, NotHeld, QueueAssumption
<1> QED BY <1>1, <1>2 DEF IInv, LeaseKnown, Exclusive

LEMMA ExportKeepsIInv ==
    ASSUME IInv, NEW e \in Events, Export(e)
    PROVE  IInv' /\ ResultsKept(rows, rows')
<1>1. PICK valid \in BOOLEAN : rows' = Upsert(rows, e, valid)
  BY QueueAssumption DEF Export, QueueAssumption
<1>2. rows \in Tables /\ UNCHANGED <<held, resets>>
  BY DEF IInv, TypeOK, Tables, Export
<1>3. TypeOK' /\ ResultsKept(rows, rows')
  BY <1>1, <1>2, UpsertKeeps DEF IInv, TypeOK, Tables
<1>4. LeaseKnown(rows, held) => LeaseKnown(rows', held)
  BY <1>1, <1>2, UpsertKeeps DEF LeaseKnown
<1> QED BY <1>2, <1>3, <1>4 DEF IInv

LEMMA ClaimKeepsIInv ==
    ASSUME IInv, NEW c \in Clients, Claim(c)
    PROVE  IInv' /\ ResultsKept(rows, rows')
<1> DEFINE S == Claimable(rows)
<1>1. rows \in Tables /\ held \in Leases
  BY DEF IInv, TypeOK, Tables, Leases
<1>2. rows' = Claimed(rows) /\ UNCHANGED resets
  BY DEF Claim
<1>3. held' = [held EXCEPT ![c] = [e \in Events |-> IF e \in S THEN 0 ELSE held[c][e]]]
  BY DEF Claim
<1>4. TypeOK'
  <2>1. [e \in Events |-> IF e \in S THEN 0 ELSE held[c][e]] \in [Events -> 0..NotHeld]
    BY <1>1, QueueAssumption DEF Leases, NotHeld, QueueAssumption
  <2>2. held' \in Leases
    BY <1>1, <1>3, <2>1 DEF Leases
  <2> QED BY <1>1, <1>2, <2>2, ClaimedRows DEF IInv, TypeOK, Tables, Leases
<1>5. ResultsKept(rows, rows')
  BY <1>1, <1>2, ClaimedKeeps
<1>6. \A d \in Clients, e \in Events :
         held'[d][e] = IF d = c /\ e \in S THEN 0 ELSE held[d][e]
  BY <1>1, <1>3 DEF Leases
<1>7. ASSUME resets = 0
      PROVE  LeaseKnown(rows', held') /\ Exclusive(held')
  <2>1. LeaseKnown(rows, held) /\ Exclusive(held)
    BY <1>7 DEF IInv
  <2>2. \A d \in Clients, e \in S : e \in Events /\ ~(held[d][e] <= Lease)
    <3>1. \A e \in S : e \in Events /\ rows[e] \in Row
      BY <1>1 DEF Claimable, InStatus, Tables
    <3>2. \A d \in Clients, e \in Events : held[d][e] \in 0..NotHeld
      BY <1>1 DEF Leases
    <3> QED BY <1>1, <2>1, <3>1, <3>2, ClaimedRows, QueueAssumption
            DEF LeaseKnown, Row, NotHeld, QueueAssumption
  <2>3. Exclusive(held')
    BY <1>6, <2>1, <2>2 DEF Exclusive
  <2>4. ASSUME NEW d \in Clients, NEW e \in Events, held'[d][e] <= Lease
        PROVE  \/ rows'[e].st = "processing" /\ rows'[e].age = held'[d][e]
               \/ rows'[e].st \in {"success", "error"}
    <3>1. CASE e \in S
      <4>1. d = c /\ held'[d][e] = 0
        BY <1>6, <2>2, <2>4, <3>1
      <4> QED BY <1>1, <1>2, <3>1, <4>1, ClaimedRows
    <3>2. CASE e \notin S
      <4>1. held'[d][e] = held[d][e] /\ held[d][e] \in 0..NotHeld
        BY <1>1, <1>6, <3>2 DEF Leases
      <4>2. rows'[e] = Expired(rows)[e]
        BY <1>1, <1>2, <3>2, ClaimedRows
      <4>3. ~(rows[e].st = "processing" /\ rows[e].age > Lease)
        BY <1>1, <2>1, <2>4, <4>1, QueueAssumption DEF LeaseKnown, NotHeld, QueueAssumption
      <4>4. rows'[e] = rows[e]
        BY <1>1, <4>2, <4>3, ExpiredRows
      <4> QED BY <2>1, <2>4, <4>1, <4>4 DEF LeaseKnown
    <3> QED BY <3>1, <3>2
  <2> QED BY <2>3, <2>4 DEF LeaseKnown
<1> QED BY <1>2, <1>4, <1>5, <1>7 DEF IInv

(* A client that lets go of leases disturbs nobody.                          *)
LEMMA FewerLeases ==
    ASSUME NEW rs, NEW h \in Leases, NEW g \in Leases,
           \A c \in Clients, e \in Events : g[c][e] \in {h[c][e], NotHeld},
           LeaseKnown(rs, h), Exclusive(h)
    PROVE  LeaseKnown(rs, g) /\ Exclusive(g)
<1>1. \A c \in Clients, e \in Events : g[c][e] <= Lease => g[c][e] = h[c][e]
  BY QueueAssumption DEF NotHeld, QueueAssumption
<1> QED BY <1>1 DEF LeaseKnown, Exclusive

LEMMA ReportKeepsIInv ==
    ASSUME IInv, NEW c \in Clients, NEW e \in Events, NEW result \in {"success", "error"},
           Report(c, e, result)
    PROVE  IInv' /\ ResultsKept(rows, rows')
<1>1. rows \in Tables /\ held \in Leases
  BY DEF IInv, TypeOK, Tables, Leases
<1>2. /\ rows' = UpdateResult(rows, e, result)
      /\ held' = [held EXCEPT ![c][e] = NotHeld]
      /\ UNCHANGED resets
  BY DEF Report
<1>3. held' \in Leases
  BY <1>1, <1>2, QueueAssumption DEF Leases, NotHeld, QueueAssumption
<1>4. TypeOK' /\ ResultsKept(rows, rows')
  BY <1>1, <1>2, <1>3, UpdateResultRows DEF IInv, TypeOK, Tables, Leases
<1>5. LeaseKnown(rows, held) => LeaseKnown(rows', held)
  BY <1>1, <1>2, UpdateResultRows DEF LeaseKnown
<1>6. \A d \in Clients, f \in Events : held'[d][f] \in {held[d][f], NotHeld}
  BY <1>1, <1>2 DEF Leases
<1>7. resets = 0 => LeaseKnown(rows', held') /\ Exclusive(held')
  <2> SUFFICES ASSUME resets = 0 PROVE LeaseKnown(rows', held') /\ Exclusive(held')
    OBVIOUS
  <2>1. LeaseKnown(rows', held) /\ Exclusive(held)
    BY <1>5 DEF IInv
  <2> QED BY <1>1, <1>3, <1>6, <2>1, FewerLeases
<1> QED BY <1>2, <1>4, <1>7 DEF IInv

LEMMA ForgetKeepsIInv ==
    ASSUME IInv, NEW c \in Clients, Forget(c)
    PROVE  IInv' /\ ResultsKept(rows, rows')
<1>1. rows \in Tables /\ held \in Leases
  BY DEF IInv, TypeOK, Tables, Leases
<1>2. UNCHANGED <<rows, resets>>
  BY DEF Forget
<1>3. PICK S \in SUBSET Events :
         held' = [held EXCEPT ![c] = [e \in Events |-> IF e \in S THEN NotHeld ELSE held[c][e]]]
  BY DEF Forget
<1>4. held' \in Leases
  <2>1. [e \in Events |-> IF e \in S THEN NotHeld ELSE held[c][e]] \in [Events -> 0..NotHeld]
    BY <1>1, QueueAssumption DEF Leases, NotHeld, QueueAssumption
  <2> QED BY <1>1, <1>3, <2>1 DEF Leases
<1>5. \A d \in Clients, f \in Events : held'[d][f] \in {held[d][f], NotHeld}
  BY <1>1, <1>3 DEF Leases
<1>6. TypeOK' /\ ResultsKept(rows, rows')
  BY <1>2, <1>4 DEF IInv, TypeOK, Leases, ResultsKept
<1> QED BY <1>1, <1>2, <1>4, <1>5, <1>6, FewerLeases DEF IInv

(* A reset brings back one event in error, and only that.                    *)
LEMMA AdminResetKeepsIInv ==
    ASSUME IInv, NEW e \in Events, AdminReset(e)
    PROVE  /\ IInv'
           /\ resets' = resets + 1
           /\ \A d \in Events :
                 /\ rows[d].st = "success" => rows'[d].st = "success"
                 /\ rows[d].st = "error" => rows'[d].st \in {"error", "pending"}
<1>1. rows \in Tables /\ resets \in 0..MaxResets
  BY DEF IInv, TypeOK, Tables
<1>2. resets' \in 0..MaxResets /\ resets' # 0 /\ resets' = resets + 1 /\ UNCHANGED held
  BY <1>1, QueueAssumption DEF AdminReset, QueueAssumption
<1>3. CASE rows' = ResetRow(rows, e)
  <2>1. CASE rows[e].st = "error"
    <3>1. rows' = SetStatus(rows, e, "pending")
      BY <1>3, <2>1 DEF ResetRow
    <3>2. /\ rows' \in Tables /\ rows'[e].st = "pending"
          /\ \A d \in Events \ {e} : rows'[d] = rows[d]
      <4>1. "pending" \in Written
        BY DEF Written
      <4> QED BY <1>1, <3>1, <4>1, SetStatusRow
    <3>3. IInv'
      BY <1>2, <3>2 DEF IInv, TypeOK, Tables
    <3> QED BY <1>2, <2>1, <3>2, <3>3
  <2>2. CASE rows[e].st # "error"
    <3>1. rows' = rows
      BY <1>3, <2>2 DEF ResetRow
    <3> QED BY <1>2, <3>1 DEF IInv, TypeOK
  <2> QED BY <2>1, <2>2
<1>4. CASE rows' = Upsert(rows, e, FALSE)
  BY <1>1, <1>2, <1>4, UpsertKeeps DEF ResultsKept, IInv, TypeOK, Tables
<1> QED BY <1>3, <1>4 DEF AdminReset

LEMMA TickKeepsIInv ==
    ASSUME IInv, Tick
    PROVE  IInv' /\ ResultsKept(rows, rows')
<1>1. rows \in Tables /\ held \in Leases
  BY DEF IInv, TypeOK, Tables, Leases
<1>2. /\ rows' = Aged(rows)
      /\ held' = [c \in Clients |-> [e \in Events |-> Older(held[c][e])]]
      /\ UNCHANGED resets
  BY DEF Tick
<1>3. \A a \in 0..NotHeld : /\ Older(a) \in 0..NotHeld
                            /\ Older(a) <= Lease => a <= Lease
  BY QueueAssumption DEF Older, NotHeld, QueueAssumption
<1>4. \A c \in Clients, e \in Events : /\ held[c][e] \in 0..NotHeld
                                       /\ held'[c][e] = Older(held[c][e])
  BY <1>1, <1>2 DEF Leases
<1>5. held' \in Leases
  BY <1>2, <1>3, <1>4 DEF Leases
<1>6. TypeOK' /\ ResultsKept(rows, rows')
  BY <1>1, <1>2, <1>5, AgedRows DEF IInv, TypeOK, Tables, Leases, ResultsKept
<1>7. \A c \in Clients, e \in Events : held'[c][e] <= Lease => held[c][e] <= Lease
  BY <1>3, <1>4
<1>8. LeaseKnown(rows, held) => LeaseKnown(rows', held')
  BY <1>1, <1>2, <1>4, <1>7, AgedRows DEF LeaseKnown
<1>9. Exclusive(held) => Exclusive(held')
  BY <1>7 DEF Exclusive
<1> QED BY <1>2, <1>6, <1>8, <1>9 DEF IInv

(* What every step does to results: a reset, and nothing else, takes an      *)
(* event out of error.                                                       *)
ResultStep ==
    /\ \A e \in Events : rows[e].st = "success" => rows'[e].st = "success"
    /\ \A e \in Events : rows[e].st = "error" /\ rows'[e].st # "error" =>
          rows'[e].st = "pending" /\ resets' = resets + 1

LEMMA NextKeepsIInv ==
    ASSUME IInv, [Next]_queueVars
    PROVE  IInv' /\ ResultStep
<1>0. ResultsKept(rows, rows') => ResultStep
  BY DEF ResultsKept, ResultStep
<1>1. ASSUME NEW e \in Events, Export(e)
      PROVE  IInv' /\ ResultStep
  BY <1>0, <1>1, ExportKeepsIInv
<1>2. ASSUME NEW e \in Events, AdminReset(e)
      PROVE  IInv' /\ ResultStep
  BY <1>2, AdminResetKeepsIInv DEF ResultStep
<1>3. ASSUME NEW c \in Clients, Claim(c)
      PROVE  IInv' /\ ResultStep
  BY <1>0, <1>3, ClaimKeepsIInv
<1>4. ASSUME NEW c \in Clients, Forget(c)
      PROVE  IInv' /\ ResultStep
  BY <1>0, <1>4, ForgetKeepsIInv
<1>5. ASSUME NEW c \in Clients, NEW e \in Events, NEW result \in {"success", "error"},
             Report(c, e, result)
      PROVE  IInv' /\ ResultStep
  BY <1>0, <1>5, ReportKeepsIInv
<1>6. CASE Tick
  BY <1>0, <1>6, TickKeepsIInv
<1>7. CASE UNCHANGED queueVars
  BY <1>7 DEF queueVars, ResultStep, IInv, TypeOK, LeaseKnown, Exclusive
<1> QED BY <1>1, <1>2, <1>3, <1>4, <1>5, <1>6, <1>7 DEF Next

(* The inductive invariant holds in every reachable state.                   *)
THEOREM QueueInductive == Spec => []IInv
BY InitIInv, NextKeepsIInv, PTL DEF Spec

(* Rows, leases and the reset counter hold values of their types.            *)
THEOREM QueueTypeCorrect == Spec => []TypeOK
BY QueueInductive, PTL DEF IInv

(* Until an administrator resets an event, store.claim_*_exports never gives *)
(* two clients a live lease on one event, however late they report.          *)
THEOREM LeasesExclusive == Spec => []LeaseExclusiveUntilReset
<1>1. IInv => LeaseExclusiveUntilReset
  BY DEF IInv, Exclusive, LeaseExclusiveUntilReset
<1> QED BY <1>1, QueueInductive, PTL

(* A confirmed event stays confirmed.                                        *)
THEOREM ConfirmedForGood == Spec => SuccessFinal
<1>1. IInv /\ [Next]_queueVars =>
         [\A e \in Events : rows[e].st = "success" => rows'[e].st = "success"]_queueVars
  BY NextKeepsIInv DEF ResultStep
<1> QED BY <1>1, QueueInductive, PTL DEF Spec, SuccessFinal

(* Only an administrator's reset takes an event out of error.                *)
THEOREM FailedUntilReset == Spec => ErrorNeedsReset
<1>1. IInv /\ [Next]_queueVars =>
         [\A e \in Events : rows[e].st = "error" /\ rows'[e].st # "error" =>
             rows'[e].st = "pending" /\ resets' = resets + 1]_queueVars
  BY NextKeepsIInv DEF ResultStep
<1> QED BY <1>1, QueueInductive, PTL DEF Spec, ErrorNeedsReset

=============================================================================
