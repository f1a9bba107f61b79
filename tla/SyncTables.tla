----------------------------- MODULE SyncTables -----------------------------
(***************************************************************************)
(* The PostgreSQL tables every part of the service shares (sync_jobs and   *)
(* products) and the WooCommerce shop they are synchronised with, with the *)
(* statements the repositories run on them.  A statement is atomic: each   *)
(* is one SQL command.                                                     *)
(*                                                                         *)
(* A product's content (title, price, stock) is a version number: two      *)
(* versions are equal exactly when their fingerprints are.  Version 0 is   *)
(* "no row" and "no item in the shop".  Time is the flag `due' of a job    *)
(* row: the instant its state waits for has passed.  For a PENDING row     *)
(* that is scheduled_at <= NOW(); for a RUNNING row it is                  *)
(* started_at < NOW() - 15 minutes.                                        *)
(***************************************************************************)
EXTENDS Naturals, Sequences, FiniteSets

CONSTANTS
    Products,     \* source ids (the SKUs of the shop)
    NoProduct,    \* the product of an unused job id
    MaxVersion,   \* bound: contents of a product are 1..MaxVersion
    ZeroStock,    \* the versions whose stock is 0
    MaxJobs,      \* bound: rows ever inserted into sync_jobs
    MaxRetries,   \* EngineConfig.MaxRetries
    MaxFaults,    \* bound: statements and calls that fail
    MaxCrashes    \* bound: process deaths and restarts

ASSUME TablesAssumption ==
    /\ NoProduct \notin Products
    /\ MaxVersion \in Nat \ {0}
    /\ ZeroStock \subseteq 1..MaxVersion
    /\ MaxJobs \in Nat
    /\ MaxRetries \in Nat \ {0}
    /\ MaxFaults \in Nat
    /\ MaxCrashes \in Nat

VARIABLES
    jobs,       \* sync_jobs
    products,   \* products, keyed by source_id
    woo,        \* the shop's items, keyed by SKU
    faults,     \* failures so far
    crashes     \* restarts so far

tables == <<jobs, products, woo, faults, crashes>>

JobIds   == 1..MaxJobs
JobTypes == {"create", "update"}
States   == {"PENDING", "RUNNING", "SUCCESS", "FAILED", "DEAD_LETTER"}
Versions == 0..MaxVersion

JobRow ==
    [product : Products \cup {NoProduct}, type : JobTypes,
     state : States \cup {"ABSENT"}, retries : Nat, due : BOOLEAN]

\* fp: the fingerprint; woo: woo_id # 0; fetched: detail_fetched_at is set;
\* detail: full_description, attributes and gallery_images are filled.
ProductRow == [fp : Versions, woo : BOOLEAN, fetched : BOOLEAN, detail : BOOLEAN]

ShopItem == [price : Versions, stock : Versions]

TablesTypeOK ==
    /\ jobs \in [JobIds -> JobRow]
    /\ products \in [Products -> ProductRow]
    /\ woo \in [Products -> ShopItem]
    /\ faults \in 0..MaxFaults
    /\ crashes \in 0..MaxCrashes

NoJob  == [product |-> NoProduct, type |-> "create", state |-> "ABSENT",
           retries |-> 0, due |-> FALSE]
NoRow  == [fp |-> 0, woo |-> FALSE, fetched |-> FALSE, detail |-> FALSE]
NoItem == [price |-> 0, stock |-> 0]

TablesInit ==
    /\ jobs = [j \in JobIds |-> NoJob]
    /\ products = [p \in Products |-> NoRow]
    /\ woo = [p \in Products |-> NoItem]
    /\ faults = 0
    /\ crashes = 0

Fault == faults < MaxFaults /\ faults' = faults + 1

-----------------------------------------------------------------------------
(* domain/state.go: a state with no further transitions.                   *)

IsTerminal(s) == s \in {"SUCCESS", "DEAD_LETTER"}

-----------------------------------------------------------------------------
(* The statements of repository/sync_job_repo.go, as functions of the      *)
(* sync_jobs table.                                                        *)

\* Job ids number the rows in the order in which they are inserted (created_at;
\* the ids of the table are UUIDs).
Room(tab) == \E j \in JobIds : tab[j].state = "ABSENT"
NextId(tab) ==
    CHOOSE j \in JobIds : /\ tab[j].state = "ABSENT"
                          /\ \A k \in 1..(j - 1) : tab[k].state # "ABSENT"

CreateJob(tab, p, type) ==
    [tab EXCEPT ![NextId(tab)] =
        [product |-> p, type |-> type, state |-> "PENDING",
         retries |-> 0, due |-> TRUE]]

\* Mutant: the claim forgets scheduled_at <= NOW().
ClaimableEarly(tab, type) ==
    {j \in JobIds : tab[j].state = "PENDING" /\ tab[j].type = type}

Claimable(tab, type) ==
    {j \in JobIds : tab[j].state = "PENDING" /\ tab[j].due /\ tab[j].type = type}

ClaimPendingJobs(tab, S) ==
    [j \in JobIds |->
        IF j \in S THEN [tab[j] EXCEPT !.state = "RUNNING", !.due = FALSE]
                   ELSE tab[j]]

\* None of the three statements below looks at the row's state.
UpdateJobStatus(tab, j, state, retries) ==
    [tab EXCEPT ![j].state = state, ![j].retries = retries, ![j].due = FALSE]

ScheduleRetry(tab, j) ==
    [tab EXCEPT ![j].state = "PENDING", ![j].retries = @ + 1, ![j].due = FALSE]

\* Mutant: a state name that is not one of SyncState's.
MarkAsDead(tab, j) ==
    [tab EXCEPT ![j].state = "DEAD", ![j].due = FALSE]

MarkAsDeadLetter(tab, j) ==
    [tab EXCEPT ![j].state = "DEAD_LETTER", ![j].due = FALSE]

\* Mutant: only jobs that were retried are recovered.
StaleRetried(tab) ==
    {j \in JobIds : tab[j].state = "RUNNING" /\ tab[j].due /\ tab[j].retries > 0}

Stale(tab) == {j \in JobIds : tab[j].state = "RUNNING" /\ tab[j].due}

RecoverStaleJobs(tab) ==
    [j \in JobIds |->
        IF j \in Stale(tab) THEN [tab[j] EXCEPT !.state = "PENDING", !.due = FALSE]
                            ELSE tab[j]]

-----------------------------------------------------------------------------
(* The statements of repository/product_repo.go.                           *)

Known(tab, p) == tab[p].fp # 0

\* INSERT ... ON CONFLICT (source_id) DO UPDATE: woo_id is kept, and
\* detail_fetched_at is kept when the new value is NULL, but the detail
\* columns are overwritten by whatever the scrape brought.
UpsertProduct(tab, p, version, fetched, detail) ==
    [tab EXCEPT ![p] =
        [fp |-> version, woo |-> tab[p].woo,
         fetched |-> fetched \/ tab[p].fetched, detail |-> detail]]

UpdateWooID(tab, p) == [tab EXCEPT ![p].woo = TRUE]

-----------------------------------------------------------------------------
(* What an item of a batch carries.  MapToCreate and MapToUpdate both send *)
(* the price and the stock, but stock_quantity is declared omitempty: a 0  *)
(* is left out.  An item the shop creates without a stock has none, one it *)
(* updates without a stock keeps what it had.                              *)

SetsStock(type, version) == type = "create" \/ version \notin ZeroStock

-----------------------------------------------------------------------------
Live(j) == jobs[j].state \in {"PENDING", "RUNNING"}

(***************************************************************************)
(* The passage of time for one row.  When the clock is prompt the instant  *)
(* a state waits for never passes while some worker still holds the job:   *)
(* a batch is over within 15 minutes of its claim, and a retry is not due  *)
(* before the batch that scheduled it has ended.                           *)
(***************************************************************************)
Elapse(j, held, prompt) ==
    /\ Live(j) /\ ~jobs[j].due
    /\ prompt => ~held
    /\ jobs' = [jobs EXCEPT ![j].due = TRUE]
    /\ UNCHANGED <<products, woo, faults, crashes>>
=============================================================================
