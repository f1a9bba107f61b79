--------------------------- MODULE ScrapeService ----------------------------
(***************************************************************************)
(* The scrapes of the service and the import program, over one products    *)
(* table and beside the panel that changes the settings.                   *)
(***************************************************************************)
EXTENDS ScrapeControl

CONSTANTS NoSku, ShopPages, FirstPage, Attempts     \* see WooImport

\* The shop's pages are full up to the last one.
ASSUME ImportAssumption ==
    /\ NoSku \notin Products
    /\ ShopPages \in Seq(Seq(Products \cup {NoSku}))
    /\ \A i \in DOMAIN ShopPages : ShopPages[i] # <<>>
    /\ FirstPage \in Nat \ {0} /\ Attempts \in Nat \ {0}

VARIABLE import

Importer == INSTANCE WooImport

allvars == <<vars, import>>

ServiceTypeOK == TypeOK /\ Importer!ImportTypeOK

ServiceInit == Init /\ Importer!ImportInit

Next ==
    \/ ControlNext /\ UNCHANGED import
    \/ Importer!ImportStep /\ UNCHANGED <<settings, session, process, flags, scrape>>

Spec == ServiceInit /\ [][Next]_allvars

\* The ticker fires for ever, a goroutine runs on, requests and statements end in
\* one way or the other, and a mutex goes to a goroutine that waits for it.
\* Nobody has to press the button of a manual scrape, to restart the process or
\* to go on with the import.
Fairness ==
    /\ WF_vars(\E s \in Scheduled : StartScheduled(s))
    /\ \A s \in Scrapers : WF_vars(ScrapeStep(s)) /\ SF_vars(TakesMutex(s))

FairSpec == Spec /\ Fairness

-----------------------------------------------------------------------------
(* Properties.                                                             *)

\* See WooImport.
ResumeLosesNothing == Importer!ResumeLosesNothing

\* Saved settings are in use at last, in the client and in the normalizer, however
\* a reload failed or was cut short, whatever a restart fell back to and however
\* often the mutex was held by a login (scrapeFunc, ReloadSettings).
SettingsArrive == <>[](phase = "up" => inUse = Loaded(stored))

Saved == [coeff |-> stored, fixed |-> stored]

\* As long as the supplier takes the session, every product on sale is again and
\* again at the price of the saved settings: no manual scrape with older settings
\* and no import with its price of 0 has the last word (Normalize and
\* GenerateFingerprint, against generateFingerprint of sync_from_woo.go).
PricesFollowSettings ==
    \A p \in Products \ Priceless :
        []<>(phase = "up" /\ session /\ p \in OnSale(Lists[stored]) => rows[p].price = Saved)
=============================================================================
