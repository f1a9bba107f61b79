--------------------------- MODULE CatalogueScan ----------------------------
(***************************************************************************)
(* FetchProducts of internal/scraper/client.go, between two requests.  The *)
(* categories are read one after the other.  A category is a row of main   *)
(* pages, a main page a row of lazy parts, and each part is one request.   *)
(* The list of categories the loop runs over is fixed when it starts.      *)
(***************************************************************************)
EXTENDS Naturals, Sequences

CONSTANTS
    Products,       \* source ids
    Categories,     \* EwaysCatIDs
    Shelf,          \* what the supplier lists: main pages of parts, sets of products
    Priceless,      \* the products listed with a price of 0
    LastMainPage,   \* 60 in the code
    LastLazyPart,   \* 5 in the code
    Coefficients    \* what a product may have been given as its coefficient

\* No empty part hides a later one, no empty page a later page, and a category
\* has no more pages than the loops ask for.
ASSUME ScanAssumption ==
    /\ LastMainPage \in Nat /\ LastLazyPart \in Nat
    /\ Priceless \subseteq Products
    /\ Shelf \in [Categories -> Seq(Seq(SUBSET Products))]
    /\ \A c \in Categories :
         /\ Len(Shelf[c]) <= LastMainPage + 1
         /\ \A m \in DOMAIN Shelf[c] :
              /\ Len(Shelf[c][m]) \in 1..(LastLazyPart + 1)
              /\ \A l \in DOMAIN Shelf[c][m] : Shelf[c][m][l] # {}

Item == [product : Products, coeff : Coefficients]

\* list: the categories left, the first of them in progress; found:
\* foundOnThisMainPage; missed: history, some request failed.
Scan == [list : Seq(Categories), main : 0..LastMainPage, lazy : 0..LastLazyPart,
         found : BOOLEAN, got : SUBSET Item, missed : BOOLEAN]

StartScan(list) ==
    [list |-> list, main |-> 0, lazy |-> 0, found |-> FALSE,
     got |-> {}, missed |-> FALSE]

NoScan == StartScan(<<>>)
Done(scan) == scan.list = <<>>
Category(scan) == Head(scan.list)

\* The answer to the scan's next request: the products of that part.
Part(scan) ==
    LET pages == Shelf[Category(scan)] IN
    IF scan.main + 1 \in DOMAIN pages /\ scan.lazy + 1 \in DOMAIN pages[scan.main + 1]
    THEN pages[scan.main + 1][scan.lazy + 1] ELSE {}

\* fetchPage: a product without a price is left out, and the others get the
\* coefficient their category has at this moment.
Kept(part, coeff) == {[product |-> p, coeff |-> coeff] : p \in part \ Priceless}

\* A main page on which nothing was found is the last one of its category.
NextMainPage(scan) ==
    IF scan.found /\ scan.main < LastMainPage
    THEN [scan EXCEPT !.main = @ + 1, !.lazy = 0, !.found = FALSE]
    ELSE [scan EXCEPT !.list = Tail(@), !.main = 0, !.lazy = 0, !.found = FALSE]

\* Mutant: the loop over the lazy parts goes one too far.
NextPartTooFar(scan) ==
    IF scan.lazy <= LastLazyPart THEN [scan EXCEPT !.lazy = @ + 1] ELSE NextMainPage(scan)

NextPart(scan) ==
    IF scan.lazy < LastLazyPart THEN [scan EXCEPT !.lazy = @ + 1] ELSE NextMainPage(scan)

\* A failed request is passed over like an answered one: there is no retry.
PartFailed(scan) == NextPart([scan EXCEPT !.missed = TRUE])

\* Mutant: a part is empty when no product of it is kept.
PartKept(scan, coeff) ==
    IF Kept(Part(scan), coeff) = {} THEN NextMainPage(scan)
    ELSE NextPart([scan EXCEPT !.found = TRUE, !.got = @ \cup Kept(Part(scan), coeff)])

\* An empty part ends its main page.
PartAnswered(scan, coeff) ==
    IF Part(scan) = {} THEN NextMainPage(scan)
    ELSE NextPart([scan EXCEPT !.found = TRUE, !.got = @ \cup Kept(Part(scan), coeff)])

\* The products on the shelves of these categories that have a price.
OnSale(list) ==
    {p \in Products \ Priceless :
        \E i \in DOMAIN list : \E m \in DOMAIN Shelf[list[i]] :
        \E l \in DOMAIN Shelf[list[i]][m] : p \in Shelf[list[i]][m][l]}
=============================================================================
