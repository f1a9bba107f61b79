------------------------ MODULE ScrapeServiceScans --------------------------
(***************************************************************************)
(* A scan misses nothing it could have had, and the import names a page it *)
(* can be resumed from.                                                    *)
(***************************************************************************)
EXTENDS ScrapeServiceProofs

-----------------------------------------------------------------------------
(* The shelf of a category up to a place of the two loops.                 *)

OnShelf(c) ==
    {p \in Products \ Priceless :
        \E m \in DOMAIN Shelf[c] : \E l \in DOMAIN Shelf[c][m] : p \in Shelf[c][m][l]}

\* All pages before this one, and the parts before this one.
OnShelfTo(c, main, lazy) ==
    {p \in Products \ Priceless :
        \E m \in DOMAIN Shelf[c] : \E l \in DOMAIN Shelf[c][m] :
            /\ m <= main \/ (m = main + 1 /\ l <= lazy)
            /\ p \in Shelf[c][m][l]}

\* What ScanAssumption says of one category.
LEMMA ShelfType ==
  ASSUME NEW c \in Categories
  PROVE  /\ DOMAIN Shelf[c] = 1..Len(Shelf[c]) /\ Len(Shelf[c]) \in 0..(LastMainPage + 1)
         /\ \A m \in DOMAIN Shelf[c] :
              /\ DOMAIN Shelf[c][m] = 1..Len(Shelf[c][m])
              /\ Len(Shelf[c][m]) \in 1..(LastLazyPart + 1)
              /\ \A l \in DOMAIN Shelf[c][m] : Shelf[c][m][l] # {}
<1>1. Shelf[c] \in Seq(Seq(SUBSET Products))
  BY ScanAssumption
<1>2. \A m \in DOMAIN Shelf[c] : Shelf[c][m] \in Seq(SUBSET Products)
  BY <1>1
<1>3. Len(Shelf[c]) \in Nat /\ DOMAIN Shelf[c] = 1..Len(Shelf[c])
  BY <1>1
<1>4. Len(Shelf[c]) \in 0..(LastMainPage + 1)
  BY <1>3, ScanAssumption
<1> QED BY <1>2, <1>3, <1>4, ScanAssumption

\* A category begins with nothing.
LEMMA ShelfBegins == ASSUME NEW c \in Categories PROVE OnShelfTo(c, 0, 0) = {}
  BY ShelfType DEF OnShelfTo

\* A part is what lies between two places.
LEMMA ShelfGrows ==
  ASSUME NEW scan \in Scan, ~Done(scan)
  PROVE  OnShelfTo(Category(scan), scan.main, scan.lazy + 1) =
           OnShelfTo(Category(scan), scan.main, scan.lazy) \cup (Part(scan) \ Priceless)
<1> DEFINE c == Category(scan)
           main == scan.main
           lazy == scan.lazy
<1>1. c \in Categories /\ main \in Nat /\ lazy \in Nat
  BY ScanAssumption DEF Scan, Done, Category
<1>2. Part(scan) = IF main + 1 \in DOMAIN Shelf[c] /\ lazy + 1 \in DOMAIN Shelf[c][main + 1]
                   THEN Shelf[c][main + 1][lazy + 1] ELSE {}
  BY DEF Part
<1>3. Part(scan) \subseteq Products
  BY PartType
<1> HIDE DEF c, main, lazy
<1>4. OnShelfTo(c, main, lazy + 1) \subseteq OnShelfTo(c, main, lazy) \cup (Part(scan) \ Priceless)
  <2> SUFFICES ASSUME NEW p \in Products \ Priceless, NEW m \in DOMAIN Shelf[c],
                      NEW l \in DOMAIN Shelf[c][m], p \in Shelf[c][m][l],
                      m <= main \/ (m = main + 1 /\ l <= lazy + 1),
                      ~(m <= main \/ (m = main + 1 /\ l <= lazy))
               PROVE  p \in Part(scan)
    BY DEF OnShelfTo
  <2>1. l \in Nat
    BY <1>1, ShelfType
  <2>2. m = main + 1 /\ l = lazy + 1
    BY <1>1, <2>1
  <2> QED BY <1>2, <2>2
<1>5. OnShelfTo(c, main, lazy) \subseteq OnShelfTo(c, main, lazy + 1)
  <2>1. \A m \in DOMAIN Shelf[c] : \A l \in DOMAIN Shelf[c][m] : l <= lazy => l <= lazy + 1
    BY <1>1, ShelfType
  <2> QED BY <2>1 DEF OnShelfTo
<1>6. Part(scan) \ Priceless \subseteq OnShelfTo(c, main, lazy + 1)
  <2>1. lazy + 1 <= lazy + 1
    BY <1>1
  <2> QED BY <1>2, <1>3, <2>1 DEF OnShelfTo
<1> QED BY <1>4, <1>5, <1>6 DEF c, main, lazy

\* A page that has no part at this place, and more than its last part, is behind.
LEMMA PageBehind ==
  ASSUME NEW c \in Categories, NEW main \in Nat, NEW lazy \in Nat,
         main + 1 \in DOMAIN Shelf[c] => Len(Shelf[c][main + 1]) <= lazy
  PROVE  OnShelfTo(c, main, lazy) = OnShelfTo(c, main + 1, 0)
<1>1. ASSUME NEW m \in DOMAIN Shelf[c], NEW l \in DOMAIN Shelf[c][m]
      PROVE  (m <= main \/ (m = main + 1 /\ l <= lazy))
               <=> (m <= main + 1 \/ (m = main + 1 + 1 /\ l <= 0))
  <2>1. m \in Nat /\ l \in Nat \ {0} /\ l <= Len(Shelf[c][m]) /\ Len(Shelf[c][m]) \in Nat
    BY ShelfType, ScanAssumption
  <2>2. m = main + 1 => l <= lazy
    BY <2>1
  <2> QED BY <2>1, <2>2
<1> QED BY <1>1 DEF OnShelfTo

\* A category whose pages are all behind is behind.
LEMMA CategoryBehind ==
  ASSUME NEW c \in Categories, NEW main \in Nat, Len(Shelf[c]) <= main
  PROVE  OnShelfTo(c, main, 0) = OnShelf(c)
<1>1. ASSUME NEW m \in DOMAIN Shelf[c]
      PROVE  m <= main
  BY ShelfType, ScanAssumption
<1> QED BY <1>1 DEF OnShelfTo, OnShelf

-----------------------------------------------------------------------------
(* An answered request moves the place over the part it brought.           *)

Found(scan) == {item.product : item \in scan.got}

\* Without a failed request, the flag says that this page is not empty.
FlagRight(scan) == ~scan.missed /\ (scan.found <=> scan.lazy > 0)

\* The category goes on behind these products, or ends with them.
MovesOver(scan, next, products) ==
    /\ FlagRight(next)
    /\ \/ /\ next.list = scan.list
          /\ OnShelfTo(Category(scan), next.main, next.lazy) = products
       \/ /\ next.list = Tail(scan.list) /\ next.main = 0 /\ next.lazy = 0
          /\ OnShelf(Category(scan)) = products

LEMMA PageMoves ==
  ASSUME NEW scan \in Scan, ~Done(scan), ~scan.missed,
         scan.found \/ Len(Shelf[Category(scan)]) <= scan.main + 1
  PROVE  MovesOver(scan, NextMainPage(scan), OnShelfTo(Category(scan), scan.main + 1, 0))
<1> DEFINE c == Category(scan)
           rest == Tail(scan.list)
<1>1. c \in Categories /\ scan.main \in 0..LastMainPage /\ LastMainPage \in Nat
  BY ScanAssumption DEF Scan, Done, Category
<1>2. CASE scan.found /\ scan.main < LastMainPage
  <2>1. NextMainPage(scan) = [scan EXCEPT !.main = @ + 1, !.lazy = 0, !.found = FALSE]
    BY <1>2 DEF NextMainPage
  <2>2. /\ NextMainPage(scan).list = scan.list /\ NextMainPage(scan).missed = scan.missed
        /\ NextMainPage(scan).main = scan.main + 1 /\ NextMainPage(scan).lazy = 0
        /\ NextMainPage(scan).found = FALSE
    BY <2>1 DEF Scan
  <2> QED BY <2>2 DEF MovesOver, FlagRight
<1>3. CASE ~(scan.found /\ scan.main < LastMainPage)
  <2>1. NextMainPage(scan) = [scan EXCEPT !.list = rest, !.main = 0, !.lazy = 0, !.found = FALSE]
    BY <1>3 DEF NextMainPage
  <2> HIDE DEF rest
  <2>2. /\ NextMainPage(scan).list = rest /\ NextMainPage(scan).missed = scan.missed
        /\ NextMainPage(scan).main = 0 /\ NextMainPage(scan).lazy = 0
        /\ NextMainPage(scan).found = FALSE
    BY <2>1 DEF Scan
  <2>3. Len(Shelf[c]) <= scan.main + 1
    <3>1. CASE scan.found
      <4>1. scan.main = LastMainPage
        BY <1>1, <1>3, <3>1
      <4> QED BY <1>1, <4>1, ScanAssumption
    <3> QED BY <3>1
  <2>4. OnShelf(c) = OnShelfTo(c, scan.main + 1, 0)
    <3>1. scan.main + 1 \in Nat
      BY <1>1
    <3> QED BY <1>1, <2>3, <3>1, CategoryBehind
  <2> QED BY <2>2, <2>4 DEF MovesOver, FlagRight, rest
<1> QED BY <1>2, <1>3

LEMMA PartMoves ==
  ASSUME NEW scan \in Scan, ~Done(scan), FlagRight(scan), NEW coeff \in Coefficients
  PROVE  MovesOver(scan, PartAnswered(scan, coeff),
           OnShelfTo(Category(scan), scan.main, scan.lazy) \cup (Part(scan) \ Priceless))
<1> DEFINE c == Category(scan)
           next == [scan EXCEPT !.found = TRUE, !.got = @ \cup Kept(Part(scan), coeff)]
           pages == Shelf[c]
<1>1. /\ c \in Categories /\ scan.main \in Nat /\ LastLazyPart \in Nat
      /\ scan.lazy \in 0..LastLazyPart
  BY ScanAssumption DEF Scan, Done, Category
<1>2. CASE Part(scan) = {}
  <2>1. PartAnswered(scan, coeff) = NextMainPage(scan)
    BY <1>2 DEF PartAnswered
  <2>2. scan.main + 1 \in DOMAIN pages => Len(pages[scan.main + 1]) <= scan.lazy
    <3>1. ASSUME scan.main + 1 \in DOMAIN pages PROVE scan.lazy + 1 \notin DOMAIN pages[scan.main + 1]
      BY <1>1, <1>2, <3>1, ShelfType DEF Part
    <3> QED BY <1>1, <3>1, ShelfType, ScanAssumption
  <2>3. OnShelfTo(c, scan.main, scan.lazy) = OnShelfTo(c, scan.main + 1, 0)
    BY <1>1, <2>2, PageBehind
  <2>4. ~scan.found => Len(pages) <= scan.main + 1
    <3> SUFFICES ASSUME scan.lazy = 0 PROVE Len(pages) <= scan.main + 1
      BY <1>1 DEF FlagRight
    <3>1. scan.main + 1 \notin DOMAIN pages
      BY <1>1, <2>2, ShelfType
    <3> QED BY <1>1, <3>1, ShelfType, ScanAssumption
  <2>5. MovesOver(scan, NextMainPage(scan), OnShelfTo(c, scan.main + 1, 0))
    BY <2>4, PageMoves DEF FlagRight
  <2> QED BY <1>2, <2>1, <2>3, <2>5
<1>3. CASE Part(scan) # {}
  <2>1. PartAnswered(scan, coeff) = NextPart(next)
    BY <1>3 DEF PartAnswered
  <2>2. Kept(Part(scan), coeff) \in SUBSET Item
    BY PartType DEF Kept, Item
  <2>3. /\ next \in Scan /\ next.found = TRUE /\ next.missed = scan.missed
        /\ next.list = scan.list /\ next.main = scan.main /\ next.lazy = scan.lazy
    BY <2>2 DEF Scan
  <2> HIDE DEF next
  <2>4. Category(next) = c /\ ~Done(next) /\ ~next.missed
    BY <2>3 DEF Category, Done, FlagRight
  <2>5. OnShelfTo(c, scan.main, scan.lazy + 1) =
          OnShelfTo(c, scan.main, scan.lazy) \cup (Part(scan) \ Priceless)
    BY ShelfGrows
  <2>6. CASE scan.lazy < LastLazyPart
    <3>1. NextPart(next) = [next EXCEPT !.lazy = @ + 1]
      BY <2>3, <2>6 DEF NextPart
    <3>2. /\ NextPart(next).list = scan.list /\ NextPart(next).main = scan.main
          /\ NextPart(next).lazy = scan.lazy + 1 /\ NextPart(next).found = TRUE
          /\ ~NextPart(next).missed
      BY <2>3, <2>4, <3>1 DEF Scan
    <3>3. FlagRight(NextPart(next))
      BY <1>1, <3>2 DEF FlagRight
    <3> QED BY <2>1, <2>5, <3>2, <3>3 DEF MovesOver
  <2>7. CASE ~(scan.lazy < LastLazyPart)
    <3>1. NextPart(next) = NextMainPage(next)
      BY <2>3, <2>7 DEF NextPart
    <3>2. MovesOver(next, NextMainPage(next), OnShelfTo(c, scan.main + 1, 0))
      BY <2>3, <2>4, PageMoves
    <3>3. scan.lazy + 1 \in Nat
          /\ (scan.main + 1 \in DOMAIN pages => Len(pages[scan.main + 1]) <= scan.lazy + 1)
      BY <1>1, <2>7, ShelfType
    <3>4. OnShelfTo(c, scan.main, scan.lazy + 1) = OnShelfTo(c, scan.main + 1, 0)
      BY <1>1, <3>3, PageBehind
    <3> QED BY <2>1, <2>3, <2>4, <2>5, <3>1, <3>2, <3>4 DEF MovesOver
  <2> QED BY <2>6, <2>7
<1> QED BY <1>2, <1>3

\* A failure is never forgotten.
LEMMA MissedStays ==
  ASSUME NEW scan \in Scan, ~Done(scan)
  PROVE  NextPart(scan).missed = scan.missed /\ NextMainPage(scan).missed = scan.missed
<1> DEFINE rest == Tail(scan.list)
<1>1. NextMainPage(scan) \in
        {[scan EXCEPT !.main = @ + 1, !.lazy = 0, !.found = FALSE],
         [scan EXCEPT !.list = rest, !.main = 0, !.lazy = 0, !.found = FALSE]}
  BY DEF NextMainPage
<1>2. NextPart(scan) \in {[scan EXCEPT !.lazy = @ + 1], NextMainPage(scan)}
  BY DEF NextPart
<1> HIDE DEF rest
<1>3. NextMainPage(scan).missed = scan.missed
  BY <1>1 DEF Scan
<1>4. [scan EXCEPT !.lazy = @ + 1].missed = scan.missed
  BY DEF Scan
<1> QED BY <1>2, <1>3, <1>4

\* A request that is answered finds exactly the priced products of its part.
LEMMA PartFinds ==
  ASSUME NEW scan \in Scan, ~Done(scan), NEW coeff \in Coefficients
  PROVE  Found(PartAnswered(scan, coeff)) = Found(scan) \cup (Part(scan) \ Priceless)
<1> DEFINE kept == Kept(Part(scan), coeff)
           next == [scan EXCEPT !.found = TRUE, !.got = @ \cup kept]
<1>1. kept \in SUBSET Item
  BY PartType DEF Kept, Item
<1>2. {item.product : item \in kept} = Part(scan) \ Priceless
  <2>1. \A p : p \in Part(scan) \ Priceless
               => [product |-> p, coeff |-> coeff] \in kept
    BY DEF Kept
  <2>2. \A item \in kept : item.product \in Part(scan) \ Priceless
    BY DEF Kept
  <2> HIDE DEF kept
  <2>3. \A p : [product |-> p, coeff |-> coeff].product = p
    OBVIOUS
  <2> QED BY <2>1, <2>2, <2>3
<1> HIDE DEF kept
<1>3. next \in Scan /\ ~Done(next) /\ next.got = scan.got \cup kept
  BY <1>1 DEF Scan, Done
<1> HIDE DEF next
<1>4. PartAnswered(scan, coeff) = IF Part(scan) = {} THEN NextMainPage(scan) ELSE NextPart(next)
  BY DEF PartAnswered, next, kept
<1>5. PartAnswered(scan, coeff).got = IF Part(scan) = {} THEN scan.got ELSE scan.got \cup kept
  BY <1>3, <1>4, NextPartKeeps
<1> QED BY <1>2, <1>5 DEF Found

-----------------------------------------------------------------------------
(* A scan over a list of categories: what it has found are the categories  *)
(* it is through with and the shelf of the current one up to its place.    *)

Through(list, scan) == Len(list) - Len(scan.list)

Behind(list, n) == UNION {OnShelf(list[i]) : i \in 1..n}

\* The scan is at the n-th category and has found what lies before its place.
Covers(list, scan) ==
    LET n == Through(list, scan) IN
    /\ n \in 0..Len(list)
    /\ \A i \in DOMAIN scan.list : scan.list[i] = list[n + i]
    /\ ~scan.missed =>
         /\ FlagRight(scan)
         /\ Found(scan) = Behind(list, n) \cup
              IF Done(scan) THEN {} ELSE OnShelfTo(Category(scan), scan.main, scan.lazy)

LEMMA CoversStart ==
  ASSUME NEW list \in Seq(Categories)
  PROVE  Covers(list, StartScan(list))
<1> DEFINE scan == StartScan(list)
<1>1. /\ scan.list = list /\ scan.main = 0 /\ scan.lazy = 0 /\ scan.found = FALSE
      /\ scan.got = {} /\ scan.missed = FALSE
  BY DEF StartScan
<1> HIDE DEF scan
<1>2. Len(list) \in Nat /\ DOMAIN list = 1..Len(list)
  OBVIOUS
<1>3. Through(list, scan) = 0 /\ FlagRight(scan)
  BY <1>1, <1>2 DEF Through, FlagRight
<1>4. Behind(list, 0) = {} /\ Found(scan) = {}
  BY <1>1 DEF Behind, Found
<1>5. ~Done(scan) => OnShelfTo(Category(scan), scan.main, scan.lazy) = {}
  <2> SUFFICES ASSUME ~Done(scan) PROVE OnShelfTo(Category(scan), 0, 0) = {}
    BY <1>1
  <2>1. Category(scan) \in Categories
    BY <1>1 DEF Done, Category
  <2> QED BY <2>1, ShelfBegins
<1> QED BY <1>1, <1>2, <1>3, <1>4, <1>5 DEF Covers, scan

\* The list of the scan is kept, or has lost its first category.
LEMMA ListMoves ==
  ASSUME NEW list \in Seq(Categories), NEW scan \in Scan, ~Done(scan), Covers(list, scan),
         NEW next \in Scan, next.list \in {scan.list, Tail(scan.list)}
  PROVE  LET n == Through(list, scan)
             k == Through(list, next) IN
         /\ k = IF next.list = scan.list THEN n ELSE n + 1
         /\ k \in 0..Len(list)
         /\ \A i \in DOMAIN next.list : next.list[i] = list[k + i]
         /\ list[n + 1] = Category(scan) /\ n + 1 \in 1..Len(list)
         /\ next.list = Tail(scan.list) => next.list # scan.list
<1> DEFINE n == Through(list, scan)
           left == scan.list
<1>1. /\ left \in Seq(Categories) /\ left # <<>> /\ Len(list) \in Nat
      /\ n = Len(list) - Len(left) /\ n \in 0..Len(list)
      /\ \A i \in DOMAIN left : left[i] = list[n + i]
  BY DEF Scan, Done, Covers, Through
<1>2. Category(scan) = Head(left)
  BY DEF Category
<1>3. next.list \in {left, Tail(left)} /\ Through(list, next) = Len(list) - Len(next.list)
  BY DEF Through
<1> HIDE DEF n, left
<1>4. Len(left) \in Nat /\ Len(left) > 0 /\ DOMAIN left = 1..Len(left) /\ Head(left) = left[1]
  BY <1>1, EmptySeq
<1>5. /\ Tail(left) \in Seq(Categories) /\ Len(Tail(left)) = Len(left) - 1
      /\ \A i \in 1..Len(Tail(left)) : Tail(left)[i] = left[i + 1]
  BY <1>1, HeadTailProperties
<1>6. list[n + 1] = Category(scan) /\ n + 1 \in 1..Len(list)
  <2>1. 1 \in DOMAIN left
    BY <1>4
  <2> QED BY <1>1, <1>2, <1>4, <2>1
<1>7. Tail(left) # left
  <2> DEFINE k == Len(left)
             rest == Len(Tail(left))
  <2>1. k \in Nat /\ rest = k - 1 /\ (Tail(left) = left => rest = k)
    BY <1>4, <1>5
  <2> HIDE DEF k, rest
  <2> QED BY <2>1
<1>8. CASE next.list = left
  BY <1>1, <1>3, <1>6, <1>7, <1>8 DEF n, left
<1>9. CASE next.list = Tail(left)
  <2>1. Through(list, next) = n + 1
    BY <1>1, <1>3, <1>4, <1>5, <1>9
  <2>2. ASSUME NEW i \in DOMAIN Tail(left) PROVE Tail(left)[i] = list[n + 1 + i]
    <3>1. i \in 1..Len(Tail(left)) /\ i + 1 \in DOMAIN left
      BY <1>4, <1>5, <2>2
    <3>2. Tail(left)[i] = left[i + 1] /\ left[i + 1] = list[n + (i + 1)]
      BY <1>1, <1>5, <3>1
    <3>3. n + (i + 1) = n + 1 + i
      BY <1>1, <3>1
    <3> QED BY <3>2, <3>3
  <2>3. n + 1 \in 0..Len(list)
    BY <1>1, <1>6
  <2> QED BY <1>6, <1>7, <1>9, <2>1, <2>2, <2>3 DEF n, left
<1> QED BY <1>3, <1>8, <1>9

LEMMA CoversNext ==
  ASSUME NEW list \in Seq(Categories), NEW scan \in Scan, ~Done(scan), Covers(list, scan),
         NEW coeff \in Coefficients
  PROVE  Covers(list, PartAnswered(scan, coeff))
<1> DEFINE next == PartAnswered(scan, coeff)
           n == Through(list, scan)
           c == Category(scan)
           products == OnShelfTo(c, scan.main, scan.lazy) \cup (Part(scan) \ Priceless)
<1>1. next \in Scan /\ next.list \in {scan.list, Tail(scan.list)}
  BY PartAnsweredType, PartAnsweredKeeps
<1>2. next.missed = scan.missed
  <2> DEFINE kept == Kept(Part(scan), coeff)
             more == [scan EXCEPT !.found = TRUE, !.got = @ \cup kept]
  <2>1. kept \in SUBSET Item
    BY PartType DEF Kept, Item
  <2> HIDE DEF kept
  <2>2. more \in Scan /\ more.missed = scan.missed /\ ~Done(more)
    BY <2>1 DEF Scan, Done
  <2> HIDE DEF more
  <2>3. next = NextMainPage(scan) \/ next = NextPart(more)
    BY DEF PartAnswered, more, kept
  <2> HIDE DEF next
  <2> QED BY <2>2, <2>3, MissedStays
<1>3. Found(next) = Found(scan) \cup (Part(scan) \ Priceless)
  BY PartFinds
<1>4. FlagRight(scan) => MovesOver(scan, next, products)
  BY PartMoves
<1> HIDE DEF next
<1>5. /\ Through(list, next) = IF next.list = scan.list THEN n ELSE n + 1
      /\ Through(list, next) \in 0..Len(list)
      /\ \A i \in DOMAIN next.list : next.list[i] = list[Through(list, next) + i]
      /\ list[n + 1] = c /\ n + 1 \in 1..Len(list)
      /\ next.list = Tail(scan.list) => next.list # scan.list
  BY <1>1, ListMoves
<1>6. ASSUME ~next.missed
      PROVE  /\ FlagRight(next)
             /\ Found(next) = Behind(list, Through(list, next)) \cup
                  IF Done(next) THEN {} ELSE OnShelfTo(Category(next), next.main, next.lazy)
  <2>1. FlagRight(scan) /\ Found(scan) = Behind(list, n) \cup OnShelfTo(c, scan.main, scan.lazy)
    BY <1>2, <1>6 DEF Covers
  <2>2. Found(next) = Behind(list, n) \cup products
    BY <1>3, <2>1
  <2>3. MovesOver(scan, next, products)
    BY <1>4, <2>1
  <2> HIDE DEF products
  <2>4. CASE /\ next.list = scan.list
             /\ OnShelfTo(c, next.main, next.lazy) = products
    <3>1. Through(list, next) = n /\ ~Done(next) /\ Category(next) = c
      BY <1>5, <2>4 DEF Done, Category
    <3> QED BY <2>2, <2>3, <2>4, <3>1 DEF MovesOver
  <2>5. CASE /\ next.list = Tail(scan.list) /\ next.main = 0 /\ next.lazy = 0
             /\ OnShelf(c) = products
    <3>1. Through(list, next) = n + 1 /\ n \in Nat
      BY <1>5, <2>5 DEF Covers
    <3>2. Behind(list, n + 1) = Behind(list, n) \cup OnShelf(c)
      <4>1. 1..(n + 1) = 1..n \cup {n + 1}
        BY <3>1
      <4> QED BY <1>5, <4>1 DEF Behind
    <3>3. ~Done(next) => OnShelfTo(Category(next), 0, 0) = {}
      <4> SUFFICES ASSUME ~Done(next) PROVE Category(next) \in Categories
        BY ShelfBegins
      <4> QED BY <1>1 DEF Scan, Done, Category
    <3> QED BY <2>2, <2>3, <2>5, <3>1, <3>2, <3>3 DEF MovesOver
  <2> QED BY <2>3, <2>4, <2>5 DEF MovesOver
<1> QED BY <1>5, <1>6 DEF Covers, next

\* After a failed request nothing is said of what was found.
LEMMA CoversFailed ==
  ASSUME NEW list \in Seq(Categories), NEW scan \in Scan, ~Done(scan), Covers(list, scan)
  PROVE  Covers(list, PartFailed(scan)) /\ PartFailed(scan).missed
<1> DEFINE next == PartFailed(scan)
           more == [scan EXCEPT !.missed = TRUE]
<1>1. next \in Scan /\ next.list \in {scan.list, Tail(scan.list)}
  BY PartFailedType, PartFailedKeeps
<1>2. next.missed
  <2>1. more \in Scan /\ more.missed /\ ~Done(more)
    BY DEF Scan, Done
  <2>2. next = NextPart(more)
    BY DEF PartFailed
  <2> HIDE DEF more, next
  <2> QED BY <2>1, <2>2, MissedStays
<1> HIDE DEF next
<1> QED BY <1>1, <1>2, ListMoves DEF Covers, next

\* At the end of the list the scan has it all.
LEMMA CoversAll ==
  ASSUME NEW list \in Seq(Categories), NEW scan \in Scan, Done(scan), Covers(list, scan),
         ~scan.missed
  PROVE  Found(scan) = OnSale(list)
<1>1. Len(list) \in Nat /\ DOMAIN list = 1..Len(list)
  OBVIOUS
<1>2. Through(list, scan) = Len(list)
  BY <1>1 DEF Done, Through
<1>3. Found(scan) = Behind(list, Len(list))
  BY <1>2 DEF Covers
<1>4. Behind(list, Len(list)) = OnSale(list)
  <2>1. \A p : p \in Behind(list, Len(list)) <=> \E i \in DOMAIN list : p \in OnShelf(list[i])
    BY <1>1 DEF Behind
  <2>2. \A p : p \in OnSale(list) <=> \E i \in DOMAIN list : p \in OnShelf(list[i])
    BY DEF OnSale, OnShelf
  <2> QED BY <2>1, <2>2
<1> QED BY <1>3, <1>4

-----------------------------------------------------------------------------
(* Scheduled scrapes.                                                      *)

ScanInv ==
    \A s \in Scheduled : scrape[s].pc = "fetch" =>
        Covers(scrape[s].conf.cats.list, scrape[s].scan)

\* What Complete says of a step.
CompleteStep ==
    \A s \in Scheduled :
        LET scan == scrape'[s].scan IN
        scrape[s].pc = "fetch" /\ scrape'[s].pc = "process" /\ ~scan.missed =>
            {item.product : item \in scan.got} = OnSale(scrape[s].conf.cats.list)

\* A step of one scrape leaves the scans of the others alone.
LEMMA StepScans ==
  ASSUME ControlInv, ScanInv, NEW s \in Scrapers, NEW state, Set(s, state),
         s \in Scheduled /\ state.pc = "fetch" => Covers(state.conf.cats.list, state.scan),
         s \in Scheduled /\ scrape[s].pc = "fetch" /\ state.pc = "process" /\ ~state.scan.missed
           => Found(state.scan) = OnSale(scrape[s].conf.cats.list)
  PROVE  ScanInv' /\ CompleteStep
<1>1. \A t \in Scheduled : scrape'[t] = IF t = s THEN state ELSE scrape[t]
  BY DEF Set, ControlInv, TypeOK, Scrapers
<1>2. ScanInv'
  <2> SUFFICES ASSUME NEW t \in Scheduled, scrape'[t].pc = "fetch"
               PROVE  Covers(scrape'[t].conf.cats.list, scrape'[t].scan)
    BY DEF ScanInv
  <2> QED BY <1>1 DEF ScanInv
<1>3. CompleteStep
  <2> SUFFICES ASSUME NEW t \in Scheduled, scrape[t].pc = "fetch", scrape'[t].pc = "process",
                      ~scrape'[t].scan.missed
               PROVE  Found(scrape'[t].scan) = OnSale(scrape[t].conf.cats.list)
    BY DEF CompleteStep, Found
  <2> QED BY <1>1
<1> QED BY <1>2, <1>3

LEMMA LoginScans ==
  ASSUME ControlInv, RunInv, ScanInv, NEW s \in Scrapers, Login(s)
  PROVE  ScanInv' /\ CompleteStep
<1>1. PICK seen \in Seen :
         Fetch(s, StartScan(seen.list), IF s \in Scheduled THEN inUse ELSE Idle.conf)
  BY DEF Login
<1> DEFINE scan == StartScan(seen.list)
           conf == IF s \in Scheduled THEN inUse ELSE Idle.conf
           state == [pc |-> IF Done(scan) THEN "process" ELSE "fetch", scan |-> scan,
                     conf |-> conf]
<1>2. s \in Scheduled => seen = inUse.cats /\ conf = inUse
  BY SeenWhole DEF Login
<1>3. seen.list \in Seq(Categories)
  BY SeenType DEF Catalogue
<1>4. s \in Scheduled => Covers(conf.cats.list, scan)
  BY <1>2, <1>3, CoversStart
<1>5. Set(s, state) /\ scrape[s].pc = "login"
  BY <1>1 DEF Fetch, Login
<1> HIDE DEF scan, conf
<1>6. state.conf = conf /\ state.scan = scan
  OBVIOUS
<1> HIDE DEF state
<1> QED BY <1>4, <1>5, <1>6, StepScans

LEMMA PageScans ==
  ASSUME ControlInv, ScanInv, NEW s \in Scrapers, PageArrives(s) \/ PageFails(s)
  PROVE  ScanInv' /\ CompleteStep
<1> DEFINE scan == scrape[s].scan
           conf == scrape[s].conf
           list == conf.cats.list
<1>1. /\ scan \in Scan /\ ~Done(scan) /\ scrape[s].pc = "fetch"
      /\ list \in Seq(Categories)
  BY DEF PageArrives, PageFails, ControlInv, ScrapeOK, Scrape, Settings, Catalogue
<1>2. s \in Scheduled => Covers(list, scan)
  BY <1>1 DEF ScanInv
<1>3. PICK next \in Scan : /\ Fetch(s, next, conf)
                           /\ s \in Scheduled => Covers(list, next)
  <2>1. CASE PageArrives(s)
    <3>1. PICK seen \in Seen :
            Fetch(s, PartAnswered(scan, CoefficientIn(seen, Category(scan))), conf)
      BY <2>1 DEF PageArrives
    <3> DEFINE coeff == CoefficientIn(seen, Category(scan))
    <3>2. coeff \in Coefficients
      BY SeenType, CoefficientInType
    <3> HIDE DEF coeff, scan, conf, list
    <3>3. PartAnswered(scan, coeff) \in Scan
      BY <1>1, <3>2, PartAnsweredType
    <3>4. s \in Scheduled => Covers(list, PartAnswered(scan, coeff))
      BY <1>1, <1>2, <3>2, CoversNext
    <3> QED BY <3>1, <3>3, <3>4 DEF coeff
  <2>2. CASE PageFails(s)
    <3>1. Fetch(s, PartFailed(scan), conf)
      BY <2>2 DEF PageFails
    <3> HIDE DEF scan, conf, list
    <3> QED BY <1>1, <1>2, <3>1, PartFailedType, CoversFailed
  <2> QED BY <2>1, <2>2
<1> DEFINE state == [pc |-> IF Done(next) THEN "process" ELSE "fetch", scan |-> next,
                     conf |-> conf]
<1>4. Set(s, state)
  BY <1>3 DEF Fetch
<1>5. /\ state.conf.cats.list = list /\ state.scan = next
      /\ state.pc = IF Done(next) THEN "process" ELSE "fetch"
  OBVIOUS
<1> HIDE DEF state, list, scan
<1>6. s \in Scheduled /\ state.pc = "process" /\ ~next.missed => Found(next) = OnSale(list)
  BY <1>1, <1>3, <1>5, CoversAll
<1> QED BY <1>3, <1>4, <1>5, <1>6, StepScans DEF list

\* Steps to a place outside the fetch, from one outside it or to the end.
LEMMA AwayScans ==
  ASSUME ControlInv, ScanInv, NEW s \in Scrapers, NEW state, Set(s, state),
         state.pc # "fetch", scrape[s].pc # "fetch" \/ state.pc # "process"
  PROVE  ScanInv' /\ CompleteStep
  BY StepScans

LEMMA ScrapeStepScans ==
  ASSUME ControlInv, RunInv, ScanInv, NEW s \in Scrapers, ScrapeStep(s)
  PROVE  ScanInv' /\ CompleteStep
<1>1. scrape[s] \in Scrape
  BY DEF ControlInv, ScrapeOK
<1>2. CASE ReadFixedCost(s) \/ ReadCategories(s) \/ UpdateCategories(s) \/ SetFixedCost(s)
           \/ RefreshSession(s) \/ EndProcess(s) \/ Abandon(s)
  <2>1. \/ Set(s, Idle)
        \/ \E pc \in {"cats", "useCats", "useFixed", "login"} :
             Set(s, [scrape[s] EXCEPT !.pc = pc])
    BY <1>2 DEF ReadFixedCost, ReadCategories, UpdateCategories, SetFixedCost, RefreshSession,
                EndProcess, Abandon, Release
  <2>2. ASSUME NEW pc \in {"cats", "useCats", "useFixed", "login"}
        PROVE  [scrape[s] EXCEPT !.pc = pc].pc = pc
    BY <1>1 DEF Scrape
  <2>3. Idle.pc = "idle"
    BY DEF Idle
  <2> QED BY <2>1, <2>2, <2>3, AwayScans
<1>3. CASE ProcessProduct(s)
  <2>1. PICK item : Set(s, [scrape[s] EXCEPT !.scan.got = @ \ {item}])
    BY <1>3 DEF ProcessProduct
  <2> DEFINE state == [scrape[s] EXCEPT !.scan.got = @ \ {item}]
  <2>2. state.pc = "process" /\ scrape[s].pc = "process"
    BY <1>1, <1>3 DEF ProcessProduct, Scrape
  <2> HIDE DEF state
  <2> QED BY <2>1, <2>2, AwayScans DEF state
<1> QED BY <1>2, <1>3, LoginScans, PageScans DEF ScrapeStep

LEMMA NextScans ==
  ControlInv /\ RunInv /\ ScanInv /\ [Next]_allvars => ScanInv' /\ CompleteStep
<1> SUFFICES ASSUME ControlInv, RunInv, ScanInv, [Next]_allvars PROVE ScanInv' /\ CompleteStep
  OBVIOUS
<1>1. CASE \E s \in Scrapers : ScrapeStep(s)
  BY <1>1, ScrapeStepScans
<1>2. ASSUME NEW s \in Scrapers, StartScheduled(s) \/ StartManual(s)
      PROVE  ScanInv' /\ CompleteStep
  <2>1. PICK pc \in {"fixed", "refresh"} : Set(s, [Idle EXCEPT !.pc = pc])
    BY <1>2 DEF StartScheduled, StartManual
  <2>2. [Idle EXCEPT !.pc = pc].pc = pc
    BY DEF Idle
  <2> QED BY <2>1, <2>2, AwayScans
<1>3. CASE Exit
  <2>1. \A s \in Scheduled : scrape'[s].pc = "idle"
    BY <1>3, Kinds DEF Exit, Idle
  <2> QED BY <2>1 DEF ScanInv, CompleteStep
<1>4. CASE \/ Boot \/ Shutdown \/ updateSettings \/ SessionExpires \/ UNCHANGED allvars
           \/ UNCHANGED <<settings, session, process, flags, scrape>>
  <2>1. UNCHANGED scrape
    BY <1>4 DEF Boot, Shutdown, updateSettings, SessionExpires, allvars, vars
  <2> QED BY <2>1 DEF ScanInv, CompleteStep
<1> QED BY <1>1, <1>2, <1>3, <1>4, Kinds DEF Next, ControlNext

LEMMA InitScans == ServiceInit => ScanInv
  BY Kinds DEF ServiceInit, Init, Idle, ScanInv

\* A scheduled scrape in which no request failed has every priced product of its
\* categories, for any catalogue within the page limits of fetchCategoryProducts.
THEOREM ScansComplete == Spec => Complete
<1>1. TypeInv => ControlInv
  BY DEF TypeInv
<1>2. CompleteStep => [CompleteStep]_vars
  OBVIOUS
<1>3. Complete <=> [][CompleteStep]_vars
  BY DEF Complete, CompleteStep
<1> QED BY <1>1, <1>2, <1>3, InitType, NextType, InitRuns, NextRuns, InitScans, NextScans, PTL
        DEF Spec

-----------------------------------------------------------------------------
(* The import.  On its page, the rows before those left have had an upsert *)
(* tried, or have no SKU.                                                  *)

Tried(i, n, k) ==
    \A j \in 1..k : Importer!ShopPage(n)[j] \in i.handled \cup {NoSku}

Resumes(i) ==
    /\ \A n \in FirstPage..(i.page - 1) : Tried(i, n, Len(Importer!ShopPage(n)))
    /\ i.pc = "rows" =>
         LET page == Importer!ShopPage(i.page)
             k == Len(page) - Len(i.todo) IN
         /\ k \in Nat
         /\ \A j \in DOMAIN i.todo : i.todo[j] = page[k + j]
         /\ Tried(i, i.page, k)

LEMMA PagesType ==
  ASSUME NEW n \in Nat
  PROVE  /\ Len(Importer!ShopPage(n)) \in Nat
         /\ DOMAIN Importer!ShopPage(n) = 1..Len(Importer!ShopPage(n))
<1> DEFINE page == Importer!ShopPage(n)
<1>1. page \in Seq(Products \cup {NoSku})
  BY ShopPageType
<1> HIDE DEF page
<1>2. Len(page) \in Nat /\ DOMAIN page = 1..Len(page)
  BY <1>1
<1> QED BY <1>2 DEF page

\* The place after a row that has been dealt with.
LEMMA RowResumes ==
  ASSUME NEW i \in Importer!Import, Resumes(i), i.pc = "rows", i.todo # <<>>,
         NEW next, next.handled = i.handled \/ next.handled = i.handled \cup {Head(i.todo)},
         Head(i.todo) \in next.handled \cup {NoSku},
         next.pc = Importer!NextRow(i).pc, next.page = Importer!NextRow(i).page,
         next.todo = Importer!NextRow(i).todo
  PROVE  Resumes(next)
<1> DEFINE todo == i.todo
           n == i.page
           page == Importer!ShopPage(n)
           k == Len(page) - Len(todo)
<1>1. todo \in Seq(Products \cup {NoSku}) /\ todo # <<>> /\ n \in Nat
  BY DEF Importer!Import
<1>2. /\ k \in Nat /\ \A j \in DOMAIN todo : todo[j] = page[k + j]
      /\ \A j \in 1..k : page[j] \in i.handled \cup {NoSku}
      /\ \A m \in FirstPage..(n - 1) : Tried(i, m, Len(Importer!ShopPage(m)))
  BY DEF Resumes, Tried
<1>3. Len(page) \in Nat
  BY <1>1, PagesType
<1>4. /\ Len(todo) > 1 => next.pc = "rows" /\ next.page = n /\ next.todo = Tail(todo)
      /\ ~(Len(todo) > 1) => next.pc = "request" /\ next.page = n + 1
  <2>1. Importer!NextRow(i) = IF Len(todo) > 1 THEN [i EXCEPT !.todo = Tail(todo)]
                              ELSE [i EXCEPT !.pc = "request", !.todo = <<>>, !.page = n + 1]
    BY DEF Importer!NextRow
  <2> DEFINE rest == Tail(todo)
  <2> HIDE DEF rest
  <2>2. /\ [i EXCEPT !.todo = rest].pc = i.pc /\ [i EXCEPT !.todo = rest].page = i.page
        /\ [i EXCEPT !.todo = rest].todo = rest
    BY DEF Importer!Import
  <2>3. /\ [i EXCEPT !.pc = "request", !.todo = <<>>, !.page = n + 1].pc = "request"
        /\ [i EXCEPT !.pc = "request", !.todo = <<>>, !.page = n + 1].page = n + 1
    BY DEF Importer!Import
  <2> QED BY <2>1, <2>2, <2>3 DEF rest
<1> HIDE DEF todo, page
<1>5. /\ Len(todo) \in Nat /\ Len(todo) > 0 /\ DOMAIN todo = 1..Len(todo)
      /\ Head(todo) = todo[1]
  BY <1>1, EmptySeq
<1>6. /\ Tail(todo) \in Seq(Products \cup {NoSku}) /\ Len(Tail(todo)) = Len(todo) - 1
      /\ \A j \in 1..Len(Tail(todo)) : Tail(todo)[j] = todo[j + 1]
  BY <1>1, HeadTailProperties
<1>7. \A j \in 1..(k + 1) : page[j] \in next.handled \cup {NoSku}
  <2>1. page[k + 1] \in next.handled \cup {NoSku}
    <3>1. 1 \in DOMAIN todo
      BY <1>5
    <3> QED BY <1>2, <1>5, <3>1 DEF todo
  <2>2. \A j \in 1..(k + 1) : j \in 1..k \/ j = k + 1
    BY <1>2
  <2> QED BY <1>2, <2>1, <2>2
<1>8. \A m \in FirstPage..(n - 1) : Tried(next, m, Len(Importer!ShopPage(m)))
  BY <1>2 DEF Tried
<1>9. CASE Len(todo) > 1
  <2>1. Len(page) - Len(next.todo) = k + 1 /\ k + 1 \in Nat
    <3> DEFINE a == Len(page)
               b == Len(todo)
               rest == Len(next.todo)
    <3>1. a \in Nat /\ b \in Nat /\ rest = b - 1 /\ k = a - b /\ k \in Nat
      BY <1>2, <1>3, <1>4, <1>5, <1>6, <1>9
    <3> HIDE DEF a, b, rest, k
    <3>2. a - rest = k + 1 /\ k + 1 \in Nat
      BY <3>1
    <3> QED BY <3>2 DEF a, rest
  <2>2. ASSUME NEW j \in DOMAIN next.todo PROVE next.todo[j] = page[k + 1 + j]
    <3>1. j \in 1..Len(Tail(todo)) /\ next.todo[j] = Tail(todo)[j]
      BY <1>4, <1>6, <1>9, <2>2
    <3>2. j + 1 \in DOMAIN todo /\ next.todo[j] = todo[j + 1]
      BY <1>5, <1>6, <3>1
    <3>3. k + (j + 1) = k + 1 + j
      BY <1>2, <1>6, <3>1
    <3> QED BY <1>2, <3>2, <3>3
  <2>3. next.page = n
    BY <1>4, <1>9
  <2>4. Tried(next, n, k + 1)
    BY <1>7 DEF Tried, page
  <2> HIDE DEF k, n
  <2> QED BY <1>8, <2>1, <2>2, <2>3, <2>4 DEF Resumes, page
<1>10. CASE ~(Len(todo) > 1)
  <2>1. k + 1 = Len(page)
    BY <1>2, <1>3, <1>5, <1>10
  <2>2. Tried(next, n, Len(page))
    BY <1>7, <2>1 DEF Tried, page
  <2>3. next.pc # "rows" /\ next.page = n + 1
    BY <1>4, <1>10
  <2>4. \A m \in FirstPage..(next.page - 1) : m \in FirstPage..(n - 1) \/ m = n
    BY <1>1, <2>3, ImportAssumption
  <2>5. \A m \in FirstPage..(next.page - 1) : Tried(next, m, Len(Importer!ShopPage(m)))
    BY <1>8, <2>2, <2>4 DEF page
  <2> QED BY <2>3, <2>5 DEF Resumes
<1> QED BY <1>9, <1>10

LEMMA ImportResumes ==
  ASSUME TypeInv, Resumes(import), Importer!ImportStep
  PROVE  Resumes(import')
<1>1. /\ import \in Importer!Import /\ import.page \in Nat
      /\ import.pc = "rows" => import.todo # <<>>
  BY DEF TypeInv, ImportInv, Importer!ImportTypeOK, Importer!Import
<1>2. CASE Importer!PageArrives
  <2> DEFINE page == Importer!ShopPage(import.page)
  <2>1. import' = IF page = <<>> THEN [import EXCEPT !.pc = "ended"]
                  ELSE [import EXCEPT !.pc = "rows", !.todo = page, !.attempt = 1]
    BY <1>2 DEF Importer!PageArrives
  <2>2. Len(page) \in Nat
    BY <1>1, PagesType
  <2> HIDE DEF page
  <2>3. /\ import'.page = import.page /\ import'.handled = import.handled
        /\ import'.pc = "rows" => import'.todo = page
    BY <1>1, <2>1 DEF Importer!Import
  <2>4. Len(page) - Len(page) = 0
    BY <2>2
  <2>5. ASSUME import'.pc = "rows"
        PROVE  LET k == Len(page) - Len(import'.todo) IN
               /\ k \in Nat
               /\ \A j \in DOMAIN import'.todo : import'.todo[j] = page[k + j]
               /\ Tried(import', import'.page, k)
    <3>1. page \in Seq(Products \cup {NoSku})
      BY <1>1, ShopPageType DEF page
    <3>2. \A j \in DOMAIN page : 0 + j = j
      BY <3>1
    <3> QED BY <2>3, <2>4, <2>5, <3>2 DEF Tried
  <2> QED BY <2>3, <2>5 DEF Resumes, Tried, page
<1>3. CASE Importer!PageFails
  <2>1. /\ import'.page = import.page /\ import'.handled = import.handled
        /\ import'.pc # "rows"
    BY <1>1, <1>3 DEF Importer!PageFails, Importer!StopAt, Importer!Import
  <2> QED BY <2>1 DEF Resumes, Tried
<1>4. CASE Importer!SkipRow
  <2>1. import' = Importer!NextRow(import) /\ import.pc = "rows" /\ Head(import.todo) = NoSku
    BY <1>4 DEF Importer!SkipRow
  <2>2. Importer!NextRow(import).handled = import.handled
    BY <1>1 DEF Importer!NextRow, Importer!Import
  <2> QED BY <1>1, <2>1, <2>2, RowResumes
<1>5. CASE Importer!UpsertRow
  <2> DEFINE p == Head(import.todo)
             next == Importer!NextRow(import)
  <2>1. import' = [next EXCEPT !.handled = @ \cup {p}] /\ import.pc = "rows"
    BY <1>5 DEF Importer!UpsertRow
  <2>2. next.handled = import.handled
    BY <1>1 DEF Importer!NextRow, Importer!Import
  <2>3. next \in Importer!Import
    BY <2>1, NextRowType DEF TypeInv
  <2> HIDE DEF p, next
  <2>4. /\ import'.handled = import.handled \cup {p} /\ import'.pc = next.pc
        /\ import'.page = next.page /\ import'.todo = next.todo
    BY <2>1, <2>2, <2>3 DEF Importer!Import
  <2> QED BY <1>1, <2>1, <2>4, RowResumes DEF p, next
<1> QED BY <1>2, <1>3, <1>4, <1>5 DEF Importer!ImportStep

LEMMA NextResumes == TypeInv /\ Resumes(import) /\ [Next]_allvars => Resumes(import)'
<1> SUFFICES ASSUME TypeInv, Resumes(import), [Next]_allvars PROVE Resumes(import')
  BY DEF Resumes, Tried, Importer!ShopPage
<1>1. CASE import' = import
  BY <1>1
<1>2. CASE Importer!ImportStep
  BY <1>2, ImportResumes
<1> QED BY <1>1, <1>2 DEF Next, allvars

LEMMA InitResumes == ServiceInit => Resumes(import)
<1> SUFFICES ASSUME ServiceInit PROVE Resumes(import)
  OBVIOUS
<1>1. import.pc = "request" /\ import.page = FirstPage
  BY DEF ServiceInit, Importer!ImportInit
<1>2. FirstPage..(FirstPage - 1) = {}
  BY ImportAssumption
<1> QED BY <1>1, <1>2 DEF Resumes

\* Whatever page the import stops at, every row of the pages before it has been
\* through an upsert or has no SKU, for any catalogue of the shop, any first page
\* and any number of attempts.
THEOREM ImportCanResume == Spec => []ResumeLosesNothing
<1>1. TypeInv /\ Resumes(import) => ResumeLosesNothing
  <2> SUFFICES ASSUME TypeInv, Resumes(import),
                      NEW n \in FirstPage..(import.page - 1),
                      NEW i \in DOMAIN Importer!ShopPage(n)
               PROVE  Importer!ShopPage(n)[i] \in import.handled \cup {NoSku}
    BY DEF ResumeLosesNothing, Importer!ResumeLosesNothing
  <2>1. n \in Nat
    BY ImportAssumption DEF TypeInv, ImportInv, Importer!ImportTypeOK, Importer!Import
  <2> QED BY <2>1, PagesType DEF Resumes, Tried
<1> QED BY <1>1, InitType, NextType, InitResumes, NextResumes, PTL DEF Spec
=============================================================================
