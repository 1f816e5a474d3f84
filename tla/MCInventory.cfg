SPECIFICATION StockSpec
CONSTANTS
    Ids = {1, 2, 3}
    OtherIds <- MCOtherIds
    Names <- MCNames
    Terms <- MCTerms
    Lower <- MCLower
    Prices = {1}
    MAX_PRICE = 2
    MinPrices = {1, 2, 3}
    Quantities = {0, 1}
    MAX_PRODUCTS = 2
    MAX_STOCK = 3
    Garbage = {1}
    MallocMayFail = TRUE
CHECK_DEADLOCK FALSE
PROPERTIES
    ImplementsCatalogue
    PriceSearchEnds
