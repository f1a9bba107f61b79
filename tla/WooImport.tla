----------------------------- MODULE WooImport ------------------------------
(***************************************************************************)
(* sync_from_woo.go, a program of its own that is run by hand beside the   *)
(* service: it reads the shop's products page by page and pours them into  *)
(* the products table, with a price of 0 and a fingerprint to match, so    *)
(* that the next scrape of the product finds a difference.                 *)
(***************************************************************************)
EXTENDS Naturals, Sequences

CONSTANTS
    Products, Zero, MaxFaults,
    NoSku,          \* a product of the shop without SKU
    ShopPages,      \* the pages of the shop's catalogue
    FirstPage,      \* the page the source names: 219
    Attempts        \* 3 in the code

VARIABLES
    rows,       \* products, as far as their prices go
    faults,
    import      \* the program

\* page, attempt: the loop variables; todo: the rows left of the page read;
\* handled: history, the products whose upsert was tried.
Import == [pc : {"request", "rows", "stopped", "ended"}, page : Nat,
           attempt : 1..Attempts, todo : Seq(Products \cup {NoSku}),
           handled : SUBSET Products]

ImportTypeOK == import \in Import

ImportInit ==
    import = [pc |-> "request", page |-> FirstPage, attempt |-> 1, todo |-> <<>>,
              handled |-> {}]

ShopPage(n) == IF n \in DOMAIN ShopPages THEN ShopPages[n] ELSE <<>>

\* An empty page ends the import.
PageArrives ==
    /\ import.pc = "request"
    /\ import' = IF ShopPage(import.page) = <<>> THEN [import EXCEPT !.pc = "ended"]
                 ELSE [import EXCEPT !.pc = "rows", !.todo = ShopPage(import.page),
                                     !.attempt = 1]
    /\ UNCHANGED <<rows, faults>>

\* Mutant: the page that could not be read counts as done.
StopAfter(i) == [i EXCEPT !.pc = "stopped", !.page = @ + 1]

\* The program names the page it stopped at, to be resumed from there.
StopAt(i) == [i EXCEPT !.pc = "stopped"]

\* An answer that is no JSON is not asked for again.
PageFails ==
    /\ import.pc = "request"
    /\ \/ import.attempt < Attempts /\ import' = [import EXCEPT !.attempt = @ + 1]
       \/ import' = StopAt(import)
    /\ UNCHANGED <<rows, faults>>

\* The next row of the page, or the next page.
NextRow(i) ==
    IF Len(i.todo) > 1 THEN [i EXCEPT !.todo = Tail(@)]
    ELSE [i EXCEPT !.pc = "request", !.todo = <<>>, !.page = @ + 1]

SkipRow ==
    /\ import.pc = "rows" /\ Head(import.todo) = NoSku
    /\ import' = NextRow(import)
    /\ UNCHANGED <<rows, faults>>

\* Mutant: the fingerprint of the last scrape is kept.
UpsertPriceOnly(tab, p) == [tab EXCEPT ![p].price = Zero]

Upsert(tab, p) == [tab EXCEPT ![p] = [price |-> Zero, fp |-> Zero]]

\* A failed upsert is logged and passed over.
UpsertRow ==
    LET p == Head(import.todo) IN
    /\ import.pc = "rows" /\ p # NoSku
    /\ \/ rows' = Upsert(rows, p) /\ UNCHANGED faults
       \/ UNCHANGED rows /\ faults < MaxFaults /\ faults' = faults + 1
    /\ import' = [NextRow(import) EXCEPT !.handled = @ \cup {p}]

ImportStep == PageArrives \/ PageFails \/ SkipRow \/ UpsertRow

-----------------------------------------------------------------------------
\* The page the program names when it stops is one it can be resumed from:
\* every product with a SKU on the pages before it has been through an upsert,
\* whatever failed on the way and however often a page was asked for.
ResumeLosesNothing ==
    \A n \in FirstPage..(import.page - 1) : \A i \in DOMAIN ShopPage(n) :
        ShopPage(n)[i] \in import.handled \cup {NoSku}
=============================================================================
