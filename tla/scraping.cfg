SPECIFICATION FairSpec
CONSTANTS
    p1 = p1
    p2 = p2
    c1 = c1
    Products = {p1, p2}
    Categories = {c1}
    Shelf <- MCShelf
    Priceless = {p2}
    LastMainPage = 1
    LastLazyPart = 1
    Coefficients <- MCCoefficients
    Starter = starter
    Ticker = ticker
    Manual = {button}
    Lists <- MCLists
    MaxSaves = 1
    MaxFaults = 1
    NoSku = NoSku
    ShopPages <- MCShopPages
    FirstPage = 1
    Attempts = 2
    Zero = Zero
    NoPrice = NoPrice
INVARIANTS
    ServiceTypeOK
    OneGuarded
    OneConfiguration
    ResumeLosesNothing
PROPERTIES
    Complete
    SettingsArrive
    PricesFollowSettings
