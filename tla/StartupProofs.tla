---------------------------- MODULE StartupProofs ----------------------------
(***************************************************************************)
(* Proofs about Startup, for any number of invoices and QRs, and for       *)
(* starts, stops, upgrades, downgrades, payments and exports in whatever   *)
(* order.                                                                  *)
(***************************************************************************)
EXTENDS Startup, WellFoundedInduction, TLAPS

USE StartupAssumption

-----------------------------------------------------------------------------
(* The choice of a winner. *)

(* A nonempty set of numbers has a least element. *)
LEMMA LeastNumber ==
    ASSUME NEW S \in SUBSET Nat, S # {}
    PROVE  \E n \in S : \A k \in S : n <= k
<1>1. PICK n \in S : \A k \in S : <<k, n>> \notin OpToRel(<, Nat)
  BY NatLessThanWellFounded, WFMin
<1>2. \A k \in S : ~ (k < n)
  BY <1>1 DEF OpToRel
<1> QED
  BY <1>2

(* What First chooses exists: the least by rank, and among equals by id. *)
LEMMA LeastByRank ==
    ASSUME NEW rank \in [Tx -> Nat], NEW S \in SUBSET Tx, S # {}
    PROVE  \E t \in S : \A u \in S : rank[t] < rank[u] \/ (rank[t] = rank[u] /\ t <= u)
<1>1. {rank[t] : t \in S} \in SUBSET Nat /\ {rank[t] : t \in S} # {}
  <2>1. \A t \in S : rank[t] \in Nat
    OBVIOUS
  <2>2. PICK t \in S : TRUE
    OBVIOUS
  <2>3. rank[t] \in {rank[u] : u \in S}
    BY <2>2
  <2> QED
    BY <2>1, <2>3
<1>2. PICK m \in {rank[t] : t \in S} : \A k \in {rank[t] : t \in S} : m <= k
  BY <1>1, LeastNumber
<1>3. {t \in S : rank[t] = m} \in SUBSET Nat /\ {t \in S : rank[t] = m} # {}
  BY <1>2
<1>4. PICK t \in {u \in S : rank[u] = m} : \A u \in {v \in S : rank[v] = m} : t <= u
  BY <1>3, LeastNumber
<1>5. ASSUME NEW u \in S
      PROVE  rank[t] < rank[u] \/ (rank[t] = rank[u] /\ t <= u)
  <2>1. m <= rank[u] /\ m \in Nat /\ rank[u] \in Nat /\ rank[t] = m
    BY <1>1, <1>2, <1>4
  <2>2. CASE rank[u] = m
    BY <1>4, <2>1, <2>2
  <2>3. CASE rank[u] # m
    BY <2>1, <2>3
  <2> QED
    BY <2>2, <2>3
<1> QED
  BY <1>4, <1>5

(* First chooses an element of its set, and none of a lesser rank is left. *)
LEMMA FirstChooses ==
    ASSUME NEW rank \in [Tx -> Nat], NEW S \in SUBSET Tx, S # {}
    PROVE  /\ First(S, rank) \in S
           /\ \A u \in S : rank[First(S, rank)] <= rank[u]
<1>1. /\ First(S, rank) \in S
      /\ \A u \in S : rank[First(S, rank)] < rank[u] \/ rank[First(S, rank)] = rank[u]
  BY LeastByRank DEF First
<1>2. \A u \in S : rank[u] \in Nat
  OBVIOUS
<1>3. ASSUME NEW u \in S
      PROVE  rank[First(S, rank)] <= rank[u]
  <2> DEFINE f == First(S, rank)
  <2>1. f \in S /\ (rank[f] < rank[u] \/ rank[f] = rank[u])
    BY <1>1
  <2>2. rank[f] \in Nat /\ rank[u] \in Nat
    BY <1>2, <2>1
  <2> HIDE DEF f
  <2>3. rank[f] <= rank[u]
    BY <2>1, <2>2
  <2> QED
    BY <2>3 DEF f
<1> QED
  BY <1>1, <1>3

LEMMA ProgressType == Progress \in [Tx -> Nat]
BY DEF Progress, Priority

(* The payment that stays paid is one of the invoice's paid rows. *)
LEMMA WinnerIsPaid ==
    ASSUME NEW i \in Invoices, PaidOf(i) # {}
    PROVE  Winner(i) \in PaidOf(i)
<1>1. PaidOf(i) \in SUBSET Tx
  BY DEF PaidOf
<1>2. {t \in PaidOf(i) : oneC[t] # "absent"} # {} =>
        First({t \in PaidOf(i) : oneC[t] # "absent"}, Progress) \in PaidOf(i)
  BY <1>1, FirstChooses, ProgressType
<1>3. First(PaidOf(i), PaidAt) \in PaidOf(i)
  BY <1>1, FirstChooses
<1> QED
  BY <1>2, <1>3 DEF Winner

(* One row of each invoice is kept, so the index can be created. *)
LEMMA KeptAreUnique == UniquePaid(Deduplicated)
<1> SUFFICES ASSUME NEW t \in Tx, NEW u \in Tx,
                    Deduplicated[t] = "paid", Deduplicated[u] = "paid",
                    InvoiceOf[t] = InvoiceOf[u], InvoiceOf[t] # NoInvoice
             PROVE  t = u
  BY DEF UniquePaid
<1>1. t = Winner(InvoiceOf[t])
  BY DEF Deduplicated, SetAside
<1>2. u = Winner(InvoiceOf[u])
  BY DEF Deduplicated, SetAside
<1> QED
  BY <1>1, <1>2

LEMMA DeduplicatedType ==
    ASSUME TypeOK
    PROVE  /\ Deduplicated \in [Tx -> {"waiting", "paid", "duplicate"}]
           /\ \A t \in Tx : Deduplicated[t] = "paid" <=> status[t] = "paid" /\ ~ SetAside(t)
BY DEF TypeOK, Deduplicated, SetAside

-----------------------------------------------------------------------------
(* The inductive invariant. *)

(* A row of the export tables, and an export under way, name an accepted    *)
(* payment; the index holds while it exists; only the running gateway       *)
(* exports.                                                                 *)
ExportOK ==
    /\ export.tx \in Tx <=> export.to # "none"
    /\ export.to # "none" => /\ InvoiceOf[export.tx] \in Invoices
                             /\ status[export.tx] = "paid"
    /\ process # "up" => export = NoExport

TigerOK ==
    \A i \in Invoices : tiger[i] # NoTx => InvoiceOf[tiger[i]] = i /\ status[tiger[i]] = "paid"

IInv ==
    /\ TypeOK
    /\ indexed => UniquePaid(status)
    /\ ExportOK
    /\ TigerOK
    /\ IndexIsCreatable

LEMMA InitIInv == Init => IInv
BY DEF Init, IInv, TypeOK, UniquePaid, ExportOK, TigerOK, IndexIsCreatable, NoExport

(* Setting duplicates aside: what Tiger was told of wins. *)
LEMMA CreateIndexIInv ==
    ASSUME IInv, process = "down",
           NEW done \in {"starting", "down"}, CreateIndex(done, "failed")
    PROVE  IInv'
<1>1. /\ status' = Deduplicated /\ indexed' = TRUE /\ process' = done
      /\ UNCHANGED <<oneC, tiger, export>>
  BY KeptAreUnique DEF CreateIndex
<1>2. TypeOK'
  BY <1>1, DeduplicatedType DEF IInv, TypeOK
<1>3. UniquePaid(status)'
  BY <1>1, KeptAreUnique DEF UniquePaid
<1>4. ExportOK'
  BY <1>1 DEF IInv, ExportOK, NoExport
<1>5. TigerOK'
  <2> SUFFICES ASSUME NEW i \in Invoices, tiger[i] # NoTx
               PROVE  InvoiceOf[tiger[i]] = i /\ Deduplicated[tiger[i]] = "paid"
    BY <1>1 DEF TigerOK
  <2>1. tiger[i] \in Tx /\ InvoiceOf[tiger[i]] = i /\ status[tiger[i]] = "paid"
    BY DEF IInv, TigerOK, TypeOK
  <2>2. Winner(i) = tiger[i]
    BY <2>1 DEF Winner, PaidOf
  <2>3. ~ SetAside(tiger[i])
    BY <2>1, <2>2 DEF SetAside
  <2> QED
    BY <2>1, <2>3, DeduplicatedType DEF IInv
<1>6. IndexIsCreatable'
  BY <1>1 DEF IndexIsCreatable
<1> QED
  BY <1>1, <1>2, <1>3, <1>4, <1>5, <1>6 DEF IInv

(* An accepted payment stays accepted when another notification comes. *)
LEMMA FallbackKeeps ==
    ASSUME IInv, NEW t \in Tx
    PROVE  /\ WithPaidFallback(t) \in [Tx -> {"waiting", "paid", "duplicate"}]
           /\ \A u \in Tx : status[u] = "paid" => WithPaidFallback(t)[u] = "paid"
           /\ indexed => UniquePaid(WithPaidFallback(t))
<1> USE DEF IInv, TypeOK
<1>1. WithPaidFallback(t) \in [Tx -> {"waiting", "paid", "duplicate"}]
  BY DEF WithPaidFallback
<1>2. ASSUME NEW u \in Tx, status[u] = "paid"
      PROVE  WithPaidFallback(t)[u] = "paid"
  <2>1. CASE u = t /\ indexed /\ InvoiceOf[t] # NoInvoice
    <3>1. PaidOf(InvoiceOf[t]) \ {t} = {}
      BY <1>2, <2>1 DEF PaidOf, UniquePaid
    <3> QED
      BY <2>1, <3>1 DEF WithPaidFallback
  <2> QED
    BY <1>2, <2>1 DEF WithPaidFallback
<1>3. ASSUME indexed, NEW u \in Tx, NEW v \in Tx,
             WithPaidFallback(t)[u] = "paid", WithPaidFallback(t)[v] = "paid",
             InvoiceOf[u] = InvoiceOf[v], InvoiceOf[u] # NoInvoice
      PROVE  u = v
  <2>1. \A w \in Tx : w # t => WithPaidFallback(t)[w] = status[w]
    BY DEF WithPaidFallback
  <2>2. CASE u # t /\ v # t
    BY <1>3, <2>1, <2>2 DEF UniquePaid
  <2>3. ASSUME NEW w \in Tx, w # t, status[w] = "paid", InvoiceOf[w] = InvoiceOf[t],
               InvoiceOf[t] # NoInvoice
        PROVE  WithPaidFallback(t)[t] # "paid"
    BY <1>3, <2>3 DEF WithPaidFallback, PaidOf
  <2> QED
    BY <1>3, <2>1, <2>2, <2>3
<1> QED
  BY <1>1, <1>2, <1>3 DEF UniquePaid

LEMMA StepIInv == IInv /\ [Next]_vars => IInv'
<1> SUFFICES ASSUME IInv, [Next]_vars
             PROVE  IInv'
  OBVIOUS
<1> USE DEF IInv
<1>1. CASE MigrateLegacySqlite
  BY <1>1, CreateIndexIInv DEF MigrateLegacySqlite
<1>2. CASE Upgrade
  BY <1>2, CreateIndexIInv DEF Upgrade
<1>3. ASSUME FinishInitialize \/ StartAsIs \/ Downgrade \/ Stop
      PROVE  IInv'
  <2>1. UNCHANGED <<status, oneC, tiger>> /\ indexed' \in {indexed, FALSE} /\ process' # "failed"
    BY <1>3 DEF FinishInitialize, StartAsIs, Downgrade, Stop, rows, IndexIsCreatable
  <2>2. export' \in {export, NoExport} /\ (process' # "up" => export' = NoExport)
    BY <1>3 DEF FinishInitialize, StartAsIs, Downgrade, Stop, ExportOK
  <2>3. process' \in {"down", "starting", "up", "failed"}
    BY <1>3 DEF FinishInitialize, StartAsIs, Downgrade, Stop, TypeOK
  <2>4. TypeOK'
    <3>1. NoExport \in [tx : Tx \cup {NoTx}, to : {"none", "oneC", "tiger"}]
      BY DEF NoExport
    <3>2. export' \in [tx : Tx \cup {NoTx}, to : {"none", "oneC", "tiger"}]
      BY <2>2, <3>1 DEF TypeOK
    <3>3. indexed' \in BOOLEAN
      BY <2>1 DEF TypeOK
    <3> QED
      BY <2>1, <2>3, <3>2, <3>3 DEF TypeOK
  <2>5. ExportOK'
    BY <2>1, <2>2 DEF ExportOK, NoExport
  <2>6. (indexed => UniquePaid(status))'
    BY <2>1 DEF UniquePaid, TypeOK
  <2> QED
    BY <2>1, <2>4, <2>5, <2>6 DEF TigerOK, IndexIsCreatable
<1>4. ASSUME NEW t \in Tx, PaidWebhook(t)
      PROVE  IInv'
  <2>1. /\ process = "up" /\ export = NoExport /\ status' = WithPaidFallback(t)
        /\ UNCHANGED <<oneC, tiger, indexed, process>>
    BY <1>4 DEF PaidWebhook
  <2>2. export' = NoExport \/ /\ export' = [tx |-> t, to |-> "oneC"]
                              /\ status'[t] = "paid" /\ InvoiceOf[t] \in Invoices
    BY <1>4 DEF PaidWebhook
  <2>3. TypeOK'
    BY <2>1, <2>2, FallbackKeeps DEF TypeOK, NoExport
  <2>4. ExportOK'
    BY <2>1, <2>2 DEF ExportOK, NoExport
  <2>5. (indexed => UniquePaid(status))'
    BY <2>1, FallbackKeeps DEF UniquePaid
  <2>6. TigerOK'
    <3> SUFFICES ASSUME NEW i \in Invoices, tiger[i] # NoTx
                 PROVE  InvoiceOf[tiger[i]] = i /\ WithPaidFallback(t)[tiger[i]] = "paid"
      BY <2>1 DEF TigerOK
    <3>1. tiger[i] \in Tx /\ InvoiceOf[tiger[i]] = i /\ status[tiger[i]] = "paid"
      BY DEF TigerOK, TypeOK
    <3> QED
      BY <3>1, FallbackKeeps
  <2> QED
    BY <2>1, <2>3, <2>4, <2>5, <2>6 DEF IndexIsCreatable
<1>5. CASE ExportToOneC
  <2>1. /\ process = "up" /\ export.to = "oneC"
        /\ oneC' = [oneC EXCEPT ![export.tx] = IF @ = "absent" THEN "pending" ELSE @]
        /\ export' = [export EXCEPT !.to = "tiger"]
        /\ UNCHANGED <<status, tiger, indexed, process>>
    BY <1>5 DEF ExportToOneC
  <2>2. TypeOK'
    BY <2>1 DEF TypeOK
  <2>3. ExportOK'
    BY <2>1 DEF ExportOK, TypeOK
  <2> QED
    BY <2>1, <2>2, <2>3 DEF TigerOK, IndexIsCreatable, UniquePaid
<1>6. CASE ExportToTiger
  <2>1. /\ process = "up" /\ export.to = "tiger" /\ export' = NoExport
        /\ tiger' = [tiger EXCEPT ![InvoiceOf[export.tx]] = IF @ = NoTx THEN export.tx ELSE @]
        /\ UNCHANGED <<status, oneC, indexed, process>>
    BY <1>6 DEF ExportToTiger
  <2>2. export.tx \in Tx /\ InvoiceOf[export.tx] \in Invoices /\ status[export.tx] = "paid"
    BY <2>1 DEF ExportOK
  <2>3. TypeOK'
    BY <2>1, <2>2 DEF TypeOK, NoExport
  <2>4. TigerOK'
    BY <2>1, <2>2 DEF TigerOK, TypeOK
  <2>5. ExportOK'
    BY <2>1 DEF ExportOK, NoExport
  <2> QED
    BY <2>1, <2>3, <2>4, <2>5 DEF IndexIsCreatable, UniquePaid
<1>7. ASSUME NEW t \in Tx, OneCQueue(t)
      PROVE  IInv'
  <2>1. /\ UNCHANGED <<status, tiger, indexed, process, export>>
        /\ \E s \in {"pending", "processing", "success", "error"} : oneC' = [oneC EXCEPT ![t] = s]
    <3>1. DOMAIN QueueMoves = {"pending", "processing", "error"}
      BY DEF QueueMoves
    <3>2. /\ QueueMoves["pending"] \subseteq {"pending", "processing", "success", "error"}
          /\ QueueMoves["processing"] \subseteq {"pending", "processing", "success", "error"}
          /\ QueueMoves["error"] \subseteq {"pending", "processing", "success", "error"}
      BY DEF QueueMoves
    <3> QED
      BY <1>7, <3>1, <3>2 DEF OneCQueue
  <2>2. TypeOK'
    BY <2>1 DEF TypeOK
  <2> QED
    BY <2>1, <2>2 DEF ExportOK, TigerOK, IndexIsCreatable, UniquePaid
<1>8. CASE UNCHANGED vars
  BY <1>8 DEF vars, rows, TypeOK, ExportOK, TigerOK, IndexIsCreatable, UniquePaid
<1> QED
  BY <1>1, <1>2, <1>3, <1>4, <1>5, <1>6, <1>7, <1>8 DEF Next

LEMMA Invariance == Spec => []IInv
<1>1. Init => IInv
  BY InitIInv
<1>2. IInv /\ [Next]_vars => IInv'
  BY StepIInv
<1> QED
  BY <1>1, <1>2, PTL DEF Spec

-----------------------------------------------------------------------------
(* The theorems. *)

(* Every column, and the export under way, hold values of their types. *)
THEOREM StartupTypeCorrect == Spec => []TypeOK
<1>1. IInv => TypeOK
  BY DEF IInv
<1> QED
  BY <1>1, Invariance, PTL

(* The gateway never fails to start, and no upgrade fails, for want of an   *)
(* index over what it accepted before (store.py:1181-1187).                 *)
THEOREM IndexAlwaysCreatable == Spec => []IndexIsCreatable
<1>1. IInv => IndexIsCreatable
  BY DEF IInv
<1> QED
  BY <1>1, Invariance, PTL

(* The payment Tiger's row names is an accepted one, through any number of  *)
(* migrations (store.py:1306-1333).                                         *)
THEOREM ToldPaymentAccepted == Spec => []TigerRowAccepted
<1>1. IInv => TigerRowAccepted
  BY DEF IInv, TigerOK, TigerRowAccepted
<1> QED
  BY <1>1, Invariance, PTL

(* Only the removal of duplicates takes back an acceptance. *)
LEMMA OnlyDeduplicationTakesBack ==
    ASSUME IInv, [Next]_vars, NEW t \in Tx, status[t] = "paid", status'[t] # "paid"
    PROVE  status' = Deduplicated /\ SetAside(t)
<1>1. CASE \E done \in {"starting", "down"} : CreateIndex(done, "failed")
  <2>1. status' = Deduplicated
    BY <1>1, KeptAreUnique DEF CreateIndex
  <2> QED
    BY <2>1, DeduplicatedType DEF IInv
<1>2. CASE \E u \in Tx : PaidWebhook(u)
  BY <1>2, FallbackKeeps DEF PaidWebhook
<1>3. CASE UNCHANGED status
  BY <1>3
<1>4. \/ \E done \in {"starting", "down"} : CreateIndex(done, "failed")
      \/ \E u \in Tx : PaidWebhook(u)
      \/ UNCHANGED status
  BY DEF Next, MigrateLegacySqlite, FinishInitialize, StartAsIs, Upgrade, Downgrade, Stop,
         ExportToOneC, ExportToTiger, OneCQueue, rows, vars
<1> QED
  BY <1>1, <1>2, <1>3, <1>4

(* With the index in place, no start and no payment changes which payment   *)
(* of an invoice is accepted (store.py:1327-1329, a single row is skipped). *)
THEOREM AcceptedForGoodWithIndex == Spec => AcceptedSurvivesRestart
<1>1. ASSUME IInv, [Next]_vars, indexed, NEW t \in Tx, status[t] = "paid"
      PROVE  status'[t] = "paid"
  <2> SUFFICES ASSUME SetAside(t)
               PROVE  FALSE
    BY <1>1, OnlyDeduplicationTakesBack
  <2>1. InvoiceOf[t] \in Invoices /\ t # Winner(InvoiceOf[t])
    BY DEF SetAside
  <2>2. t \in PaidOf(InvoiceOf[t])
    BY <1>1 DEF PaidOf
  <2>3. Winner(InvoiceOf[t]) \in PaidOf(InvoiceOf[t])
    BY <2>1, <2>2, WinnerIsPaid
  <2>4. \A u \in PaidOf(InvoiceOf[t]) : u = t
    BY <1>1, <2>1, <2>2 DEF IInv, UniquePaid, PaidOf
  <2> QED
    BY <2>1, <2>3, <2>4
<1>2. IInv /\ [Next]_vars => [indexed => \A t \in Tx : status[t] = "paid" => status'[t] = "paid"]_vars
  BY <1>1
<1> QED
  BY <1>2, Invariance, PTL DEF Spec, AcceptedSurvivesRestart

(* A paid invoice keeps an accepted payment: whoever wins was paid          *)
(* (store.py:1331-1338).                                                    *)
THEOREM InvoicesStayPaid == Spec => PaidInvoiceStaysPaid
<1>1. ASSUME IInv, [Next]_vars, NEW i \in Invoices, NEW t \in Tx,
             InvoiceOf[t] = i, status[t] = "paid"
      PROVE  \E u \in Tx : InvoiceOf[u] = i /\ status'[u] = "paid"
  <2>1. CASE status'[t] = "paid"
    BY <1>1, <2>1
  <2>2. CASE status'[t] # "paid"
    <3>1. status' = Deduplicated
      BY <1>1, <2>2, OnlyDeduplicationTakesBack
    <3>2. Winner(i) \in PaidOf(i)
      BY <1>1, WinnerIsPaid DEF PaidOf
    <3>3. Winner(i) \in Tx /\ InvoiceOf[Winner(i)] = i /\ status[Winner(i)] = "paid"
      BY <3>2 DEF PaidOf
    <3>4. ~ SetAside(Winner(i))
      BY <3>3 DEF SetAside
    <3> QED
      BY <1>1, <3>1, <3>3, <3>4, DeduplicatedType DEF IInv
  <2> QED
    BY <2>1, <2>2
<1>2. IInv /\ [Next]_vars =>
        [\A i \in Invoices :
            (\E t \in Tx : InvoiceOf[t] = i /\ status[t] = "paid") =>
                \E t \in Tx : InvoiceOf[t] = i /\ status'[t] = "paid"]_vars
  BY <1>1
<1> QED
  BY <1>2, Invariance, PTL DEF Spec, PaidInvoiceStaysPaid

(* What 1C has booked is set aside only for a payment that Tiger was told   *)
(* of or 1C has booked as well (store.py:1320, 1331-1338).                  *)
THEOREM BookedPaymentsKept == Spec => BookedIsKept
<1>1. ASSUME IInv, [Next]_vars, NEW t \in Tx,
             status[t] = "paid", status'[t] # "paid", oneC[t] = "success"
      PROVE  \E u \in Tx : /\ InvoiceOf[u] = InvoiceOf[t] /\ status'[u] = "paid"
                           /\ oneC[u] = "success" \/ tiger[InvoiceOf[u]] = u
  <2> DEFINE i == InvoiceOf[t]
             told == {v \in PaidOf(i) : oneC[v] # "absent"}
             u == Winner(i)
  <2>1. status' = Deduplicated /\ i \in Invoices
    BY <1>1, OnlyDeduplicationTakesBack DEF SetAside
  <2>2. t \in told /\ told \in SUBSET Tx
    BY <1>1 DEF PaidOf
  <2>3. u \in Tx /\ InvoiceOf[u] = i /\ status[u] = "paid"
    BY <2>1, <2>2, WinnerIsPaid DEF PaidOf
  <2>4. status'[u] = "paid"
    <3>1. ~ SetAside(u)
      BY <2>3 DEF SetAside
    <3> QED
      BY <1>1, <2>1, <2>3, <3>1, DeduplicatedType DEF IInv
  <2>5. CASE tiger[i] \in PaidOf(i)
    BY <2>3, <2>4, <2>5 DEF Winner
  <2>6. CASE tiger[i] \notin PaidOf(i)
    <3>1. u = First(told, Progress)
      BY <2>2, <2>6 DEF Winner
    <3>2. Progress[u] <= Progress[t]
      BY <2>2, <3>1, FirstChooses, ProgressType
    <3>3. Progress[t] = 0 /\ Progress[u] \in Nat
      BY <1>1, <2>3, ProgressType DEF Progress, Priority
    <3>4. Progress[u] = 0
      BY <3>2, <3>3
    <3>5. oneC[u] = "success"
      BY <2>3, <3>4 DEF Progress, Priority
    <3> QED
      BY <2>3, <2>4, <3>5
  <2> QED
    BY <2>5, <2>6
<1>2. IInv /\ [Next]_vars =>
        [\A t \in Tx :
            status[t] = "paid" /\ status'[t] # "paid" /\ oneC[t] = "success" =>
                \E u \in Tx : /\ InvoiceOf[u] = InvoiceOf[t] /\ status'[u] = "paid"
                              /\ oneC[u] = "success" \/ tiger[InvoiceOf[u]] = u]_vars
  BY <1>1
<1> QED
  BY <1>2, Invariance, PTL DEF Spec, BookedIsKept

=============================================================================
