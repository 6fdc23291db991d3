------------------------------ MODULE Delivery ------------------------------
(***************************************************************************)
(* What the gateway and a consumer of its queue (the 1C importer, the      *)
(* Tiger worker) together promise an accountant: every accepted payment is *)
(* offered to the consumer, gets at most one document there, and is done   *)
(* only when it has one.  A payment that failed is tried again only on     *)
(* request, whether or not it has a document by then.                      *)
(***************************************************************************)
EXTENDS Naturals

CONSTANT Payments

VARIABLES
    outcome,    \* what the gateway knows of the delivery
    docs        \* its documents at the consumer

Init ==
    /\ outcome = [p \in Payments |-> "none"]
    /\ docs = [p \in Payments |-> 0]

Move(p, from, to) == outcome[p] = from /\ outcome' = [outcome EXCEPT ![p] = to]

Offer(p) == Move(p, "none", "open") /\ UNCHANGED docs

(* The event of a payment is invalid when it is built. *)
Reject(p) == Move(p, "none", "failed") /\ UNCHANGED docs

Record(p) ==
    /\ outcome[p] = "open" /\ docs[p] = 0
    /\ docs' = [docs EXCEPT ![p] = 1]
    /\ UNCHANGED outcome

Confirm(p) == docs[p] = 1 /\ Move(p, "open", "done") /\ UNCHANGED docs

Fail(p) == Move(p, "open", "failed") /\ UNCHANGED docs

Retry(p) == Move(p, "failed", "open") /\ UNCHANGED docs

Next ==
    \E p \in Payments :
        Offer(p) \/ Reject(p) \/ Record(p) \/ Confirm(p) \/ Fail(p) \/ Retry(p)

Spec == Init /\ [][Next]_<<outcome, docs>>

=============================================================================
