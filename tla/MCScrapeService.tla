-------------------------- MODULE MCScrapeService ---------------------------
(***************************************************************************)
(* One category with two products on one main page: p2 is listed without a *)
(* price and ahead of p1, in a lazy part of its own.                       *)
(***************************************************************************)
EXTENDS ScrapeService

CONSTANTS p1, p2, c1

MCShelf == [c \in {c1} |-> << << {p2}, {p1} >> >>]
MCLists == [v \in 0..(MaxSaves + 1) |-> <<c1>>]
MCCoefficients == 0..(MaxSaves + 2)
MCShopPages == << <<NoSku, p1>> >>
=============================================================================
