---------------------------- MODULE ExportQueue ----------------------------
(***************************************************************************)
(* An export queue of PaymentStore (src/src/payment_gateway/store.py) and  *)
(* the endpoints of api.py over it.  tiger_invoice_exports and             *)
(* one_c_payment_exports have the same states and leases; Validity tells   *)
(* them apart: only Tiger events are validated when they are built.        *)
(*                                                                         *)
(* The clients are any programs that claim events and report results: they *)
(* may report late, only some of what they claimed, or nothing.  What the  *)
(* module says of the queue holds for every consumer.                      *)
(*                                                                         *)
(* Time is the age of a lease.  A lease is compared with Lease only, so    *)
(* ages stop at Lease + 1, which stands for every expired age.             *)
(*                                                                         *)
(* A definition commented as a mutant is no part of the specification: it  *)
(* is a plausible bug that some property must catch.                       *)
(***************************************************************************)
EXTENDS Naturals, FiniteSets

CONSTANTS
    Events,     \* payments (1C) or invoices (Tiger) that may be exported
    Clients,    \* programs that consume the queue
    Lease,      \* export_queue_lease_seconds
    Limit,      \* the limit of a claim
    Validity,   \* {TRUE} for 1C; BOOLEAN for Tiger, whose events may be invalid
    MaxResets   \* bound on the resets of an administrator

ASSUME QueueAssumption ==
    /\ IsFiniteSet(Events)
    /\ Lease \in Nat
    /\ Limit \in Nat \ {0}
    /\ Validity \subseteq BOOLEAN /\ TRUE \in Validity
    /\ MaxResets \in Nat

VARIABLES
    rows,       \* the table: status, id, and age of last_attempt_at
    held,       \* held[c][e]: age of c's claim on e, or NotHeld
    resets      \* resets so far

queueVars == <<rows, held, resets>>

NotHeld == Lease + 2

Row == [st : {"absent", "pending", "processing", "success", "error"},
        id : Nat,
        age : 0..(Lease + 1)]

Absent == [st |-> "absent", id |-> 0, age |-> 0]

TypeOK ==
    /\ rows \in [Events -> Row]
    /\ held \in [Clients -> [Events -> 0..NotHeld]]
    /\ resets \in 0..MaxResets

Init ==
    /\ rows = [e \in Events |-> Absent]
    /\ held = [c \in Clients |-> [e \in Events |-> NotHeld]]
    /\ resets = 0

-----------------------------------------------------------------------------
(* The store calls, each one transaction, as functions of the table. *)

InStatus(rs, S) == {e \in Events : rs[e].st \in S}

Saved(rs) == {e \in Events : rs[e].st # "absent"}

SetStatus(rs, e, s) == [rs EXCEPT ![e].st = s, ![e].age = 0]

(* Mutant: exporting a payment again puts its event back in the queue. *)
UpsertRequeues(rs, e, valid) ==
    CASE rs[e].st = "absent" ->
            [rs EXCEPT ![e] = [st |-> IF valid THEN "pending" ELSE "error",
                               id |-> Cardinality(Saved(rs)) + 1,
                               age |-> 0]]
      [] rs[e].st \in {"pending", "error"} ->
            SetStatus(rs, e, IF valid THEN "pending" ELSE "error")
      [] OTHER -> rs

(* A new row is pending, or in error when its event is invalid.  On an old  *)
(* row a valid event changes no status and an invalid one stops a pending.  *)
Upsert(rs, e, valid) ==
    CASE rs[e].st = "absent" ->
            [rs EXCEPT ![e] = [st |-> IF valid THEN "pending" ELSE "error",
                               id |-> Cardinality(Saved(rs)) + 1,
                               age |-> 0]]
      [] rs[e].st = "pending" /\ ~valid -> SetStatus(rs, e, "error")
      [] OTHER -> rs

(* Mutant: a lease is given up in its last moment, not after it. *)
ExpiredTooSoon(rs) ==
    [e \in Events |-> IF rs[e].st = "processing" /\ rs[e].age >= Lease
                        THEN [rs[e] EXCEPT !.st = "pending", !.age = 0] ELSE rs[e]]

(* Mutant: an expired lease is not given up. *)
NeverExpired(rs) == rs

(* Expired leases are given up before anything is claimed. *)
Expired(rs) ==
    [e \in Events |-> IF rs[e].st = "processing" /\ rs[e].age > Lease
                        THEN [rs[e] EXCEPT !.st = "pending", !.age = 0] ELSE rs[e]]

(* The oldest pending rows. *)
Claimable(rs) ==
    LET pending == InStatus(Expired(rs), {"pending"})
    IN {e \in pending : Cardinality({d \in pending : rs[d].id < rs[e].id}) < Limit}

Claimed(rs) ==
    [e \in Events |-> IF e \in Claimable(rs)
                        THEN [rs[e] EXCEPT !.st = "processing", !.age = 0]
                        ELSE Expired(rs)[e]]

UpdateResult(rs, e, result) ==
    IF rs[e].st \in {"pending", "processing"} THEN SetStatus(rs, e, result) ELSE rs

(* Mutant: a reset as docs/1C_PAYMENT_SYNC.md:253 and README.md:206-208     *)
(* describe it.                                                             *)
ResetAsDocumented(rs, e) ==
    IF rs[e].st \in {"error", "success"} THEN SetStatus(rs, e, "pending") ELSE rs

(* Only an event in error is reset; a success is answered 409. *)
ResetRow(rs, e) == IF rs[e].st = "error" THEN SetStatus(rs, e, "pending") ELSE rs

Older(age) == IF age <= Lease THEN age + 1 ELSE age

(* Mutant: the age of a row counts on. *)
AgedForever(rs) == [e \in Events |-> [rs[e] EXCEPT !.age = rs[e].age + 1]]

Aged(rs) ==
    [e \in Events |-> IF rs[e].st = "processing"
                        THEN [rs[e] EXCEPT !.age = Older(rs[e].age)] ELSE rs[e]]

-----------------------------------------------------------------------------
(* The operations. *)

(* A payment is exported, for the first time or again. *)
Export(e) ==
    /\ \E valid \in Validity : rows' = Upsert(rows, e, valid)
    /\ UNCHANGED <<held, resets>>

Claim(c) ==
    /\ rows' = Claimed(rows)
    /\ held' = [held EXCEPT ![c] =
                   [e \in Events |-> IF e \in Claimable(rows) THEN 0 ELSE held[c][e]]]
    /\ UNCHANGED resets

(* The result endpoint does not ask whose lease it is.  A refused report is *)
(* answered 409 and changes nothing.                                        *)
Report(c, e, result) ==
    /\ held[c][e] # NotHeld
    /\ rows' = UpdateResult(rows, e, result)
    /\ held' = [held EXCEPT ![c][e] = NotHeld]
    /\ UNCHANGED resets

(* A client gives up some of what it holds, or crashes. *)
Forget(c) ==
    /\ \E S \in SUBSET Events :
          held' = [held EXCEPT ![c] = [e \in Events |-> IF e \in S THEN NotHeld ELSE held[c][e]]]
    /\ UNCHANGED <<rows, resets>>

(* The reset of a Tiger event rebuilds and validates it first; an event     *)
(* that is still invalid is saved and not reset.                            *)
AdminReset(e) ==
    /\ resets < MaxResets
    /\ resets' = resets + 1
    /\ rows[e].st # "absent"
    /\ \E valid \in Validity :
          rows' = IF valid THEN ResetRow(rows, e) ELSE Upsert(rows, e, FALSE)
    /\ UNCHANGED held

Tick ==
    /\ rows' = Aged(rows)
    /\ held' = [c \in Clients |-> [e \in Events |-> Older(held[c][e])]]
    /\ UNCHANGED resets

Next ==
    \/ \E e \in Events : Export(e) \/ AdminReset(e)
    \/ \E c \in Clients : Claim(c) \/ Forget(c)
    \/ \E c \in Clients, e \in Events, result \in {"success", "error"} : Report(c, e, result)
    \/ Tick

Spec == Init /\ [][Next]_queueVars

-----------------------------------------------------------------------------
(* Properties. *)

(* A confirmed event is never delivered or failed again, whatever late       *)
(* reports, repeated exports and resets do.  The documents disagree: a       *)
(* successful event cannot be reset (docs/1C_PAYMENT_SYNC.md:111-112), and   *)
(* it can, to be delivered again (:253 there; README.md:206-208 for Tiger).  *)
(* The code is on the first side: the update of a reset takes rows in error  *)
(* only (store.py:858, 1061), and a success is answered 409                  *)
(* (tests/test_api.py:1778, 2015).                                           *)
SuccessFinal ==
    [][\A e \in Events : rows[e].st = "success" => rows'[e].st = "success"]_queueVars

(* A failed event goes back to the queue by an administrator's reset only    *)
(* (api.py:966, "Error events stay out of this list until an admin resets    *)
(* them"), never by a repeated export, a late report or a claim.             *)
ErrorNeedsReset ==
    [][\A e \in Events :
          rows[e].st = "error" /\ rows'[e].st # "error" =>
              rows'[e].st = "pending" /\ resets' = resets + 1]_queueVars

(* Two clients never hold live leases on one event                           *)
(* (docs/TIGER_INTEGRATION_PLAN.md:251, "Another worker cannot receive the   *)
(* same active lease"), as long as nobody resets an event: a result is       *)
(* stored whoever holds the lease, and after a late error and a reset the    *)
(* event is claimed again under a live lease.                                *)
LeaseExclusiveUntilReset ==
    resets = 0 =>
        \A c, d \in Clients, e \in Events : held[c][e] <= Lease /\ held[d][e] <= Lease => c = d

=============================================================================
