------------------------------- MODULE Inventory -------------------------------
(* The inventory of src/dynamic_inventory_management_system.c: an array on the *)
(* heap that doubles when it is full, with the number of its cells in use.    *)
EXTENDS Integers, SequencesExt

CONSTANTS
    Ids,          \* product ids in range, what is asked for again left out
    OtherIds,     \* numbers a user may look for that are no such id; -1 is one
    Names,        \* non-empty names, as sequences of characters
    Terms,        \* what is searched for in them, <<>> included
    Lower,        \* tolower, a function on the characters
    Prices, MAX_PRICE,
    MinPrices,    \* minimum prices typed in, which have no upper limit
    Quantities,
    MAX_PRODUCTS, \* of the number asked for at the start
    MAX_STOCK,    \* bound: products at a time
    Garbage,      \* bound: what memory realloc adds may look like, as an id
    MallocMayFail

ASSUME InventoryAssumption ==
    /\ Ids \subseteq Nat \ {0} /\ OtherIds \subseteq Int \ Ids /\ -1 \in OtherIds
    /\ <<>> \notin Names /\ Names \cup Terms \subseteq Seq(DOMAIN Lower)
    /\ MAX_PRICE \in Nat /\ Prices \subseteq 0 .. MAX_PRICE /\ MinPrices \subseteq Nat
    /\ Quantities \subseteq Nat
    /\ MAX_PRODUCTS \in Nat \ {0} /\ MAX_STOCK \in Nat
    /\ Garbage \subseteq Int /\ Garbage # {}
    /\ MallocMayFail \in BOOLEAN

VARIABLES
    products,     \* Inventory: ProductCapacity cells, those not in use included
    ProductCount,
    doing,        \* "start", "loading", "menu", "maxPrice" or "exit"
    minPrice,     \* of the search by price under way
    shown         \* the products the last command displayed

stockVars == <<products, ProductCount, doing, minPrice, shown>>

Product(id, n, p, q) == [productId |-> id, name |-> n, price |-> p, quantity |-> q]
zeroes == Product(0, <<>>, 0, 0)

ProductCapacity == Len(products)
inUse == 1 .. ProductCount
productsInUse == SubSeq(products, 1, ProductCount)

StockInit ==
    /\ products = <<>> /\ ProductCount = 0
    /\ doing = "start"
    /\ minPrice = 0
    /\ shown = <<>>

cleanupMemory ==
    /\ products' = <<>> /\ ProductCount' = 0
    /\ doing' = "exit"

-----------------------------------------------------------------------------
\* main asks for a number of products and has room for them.
allocate(n) ==
    /\ doing = "start"
    /\ \/ products' = [i \in 1 .. n |-> zeroes] /\ doing' = "loading"
       \/ MallocMayFail /\ doing' = "exit" /\ UNCHANGED products
    /\ UNCHANGED <<ProductCount, minPrice, shown>>

loaded ==
    /\ doing = "loading" /\ ProductCount = ProductCapacity
    /\ doing' = "menu"
    /\ UNCHANGED <<products, ProductCount, minPrice, shown>>

adding == doing = "menu" \/ (doing = "loading" /\ ProductCount < ProductCapacity)

\* The first thing addProduct does is to make room: realloc keeps the cells and
\* leaves whatever was in the memory behind them.
withRoom ==
    IF ProductCount < ProductCapacity THEN {products}
    ELSE LET more == IF ProductCapacity = 0 THEN 1 ELSE ProductCapacity
         IN  {products \o [i \in 1 .. more |-> [zeroes EXCEPT !.productId = junk]] :
                junk \in Garbage}

isIdUnique(id) == \A i \in inUse : products[i].productId # id

addProduct(p) ==
    /\ adding /\ ProductCount < MAX_STOCK
    /\ isIdUnique(p.productId)
    /\ \E room \in withRoom : products' = [room EXCEPT ![ProductCount + 1] = p]
    /\ ProductCount' = ProductCount + 1
    /\ UNCHANGED <<doing, minPrice, shown>>

\* No memory, or an empty name or the end of the input after the array has
\* grown.  One of the first products missing ends the program.
addProductFails ==
    /\ adding
    /\ IF doing = "loading" THEN cleanupMemory
       ELSE /\ \/ products' \in withRoom /\ Len(products') <= 2 * MAX_STOCK
               \/ /\ ProductCount = ProductCapacity /\ MallocMayFail
                  /\ UNCHANGED products
            /\ UNCHANGED <<ProductCount, doing>>
    /\ UNCHANGED <<minPrice, shown>>

-----------------------------------------------------------------------------
\* -1 when there is none; the menu items stop for -1 and for 0 products.
\* Mutant: all cells of the array are looked at.
findIndexByIdAll(id) ==
    LET found == {i \in 1 .. ProductCapacity : products[i].productId = id}
    IN  IF found = {} THEN -1 ELSE Min(found)
findIndexById(id) ==
    LET found == {i \in inUse : products[i].productId = id}
    IN  IF found = {} THEN -1 ELSE Min(found)

command == doing = "menu" /\ UNCHANGED <<doing, minPrice>>

viewAllProducts ==
    /\ command
    /\ shown' = productsInUse
    /\ UNCHANGED <<products, ProductCount>>

updateQuantity(id, q) ==
    /\ command
    /\ ProductCount > 0 /\ findIndexById(id) # -1
    /\ products' = [products EXCEPT ![findIndexById(id)].quantity = q]
    /\ UNCHANGED <<ProductCount, shown>>

searchProductById(id) ==
    /\ command
    /\ ProductCount > 0
    /\ shown' = LET i == findIndexById(id) IN IF i = -1 THEN <<>> ELSE <<products[i]>>
    /\ UNCHANGED <<products, ProductCount>>

\* What a loop over the cells in use displays, those in D.
matches(D) ==
    LET kept[k \in 0 .. Len(productsInUse)] ==
            IF k = 0 THEN <<>>
            ELSE IF k \in D THEN Append(kept[k - 1], productsInUse[k]) ELSE kept[k - 1]
    IN  kept[Len(productsInUse)]

\* strstr on lower-case copies.
lowered(s) == [k \in DOMAIN s |-> Lower[s[k]]]
strstr(s, t) == \E k \in 0 .. Len(s) - Len(t) : SubSeq(s, k + 1, k + Len(t)) = t

searchProductByName(term) ==
    /\ command
    /\ ProductCount > 0 /\ term # <<>>
    /\ shown' = matches({k \in inUse : strstr(lowered(products[k].name), lowered(term))})
    /\ UNCHANGED <<products, ProductCount>>

\* The minimum is tested against 0 only, the maximum against both limits.
searchProductByPriceRange(low) ==
    /\ doing = "menu" /\ ProductCount > 0
    /\ minPrice' = low
    /\ doing' = "maxPrice"
    /\ UNCHANGED <<products, ProductCount, shown>>

\* Mutant: the maximum must be above the minimum.
maxAcceptedAbove(high) == high > minPrice /\ high <= MAX_PRICE
maxAccepted(high) == high >= minPrice /\ high <= MAX_PRICE

searchUpTo(high) ==
    /\ doing = "maxPrice" /\ maxAccepted(high)
    /\ shown' = matches({k \in inUse : products[k].price >= minPrice /\ products[k].price <= high})
    /\ doing' = "menu"
    /\ minPrice' = 0
    /\ UNCHANGED <<products, ProductCount>>

\* Everything else is asked for again.
askAgain(high) ==
    /\ doing = "maxPrice" /\ ~maxAccepted(high)
    /\ UNCHANGED stockVars

\* The products behind the deleted one move up; the last cell in use keeps its
\* content and is not in use any more.
shifted(i) ==
    [k \in DOMAIN products |->
        IF k \in i .. ProductCount - 1 THEN products[k + 1] ELSE products[k]]

deleteProduct(id) ==
    /\ command
    /\ ProductCount > 0 /\ findIndexById(id) # -1
    /\ products' = shifted(findIndexById(id))
    /\ ProductCount' = ProductCount - 1
    /\ UNCHANGED shown

exit == doing = "menu" /\ cleanupMemory /\ UNCHANGED <<minPrice, shown>>

StockNext ==
    \/ \E n \in 1 .. MAX_PRODUCTS : allocate(n)
    \/ loaded
    \/ \E id \in Ids, n \in Names, p \in Prices, q \in Quantities :
          addProduct(Product(id, n, p, q))
    \/ addProductFails
    \/ viewAllProducts
    \/ \E id \in Ids \cup OtherIds :
          \/ \E q \in Quantities : updateQuantity(id, q)
          \/ searchProductById(id)
          \/ deleteProduct(id)
    \/ \E term \in Terms : searchProductByName(term)
    \/ \E low \in MinPrices : searchProductByPriceRange(low)
    \/ \E high \in 0 .. MAX_PRICE : searchUpTo(high) \/ askAgain(high)
    \/ exit

\* A user who is asked for a maximum price in the end types one that is taken.
StockSpec == StockInit /\ [][StockNext]_stockVars
             /\ WF_stockVars(\E high \in 0 .. MAX_PRICE : searchUpTo(high))

-----------------------------------------------------------------------------
(* Properties.                                                               *)

\* Every character of the term is found in the name, one after the other, the
\* case of the letters apart.
Like(name, term) ==
    \E k \in 0 .. Len(name) - Len(term) : \A j \in DOMAIN term :
        Lower[name[k + j]] = Lower[term[j]]

Goods == {Product(id, n, p, q) :
            id \in Ids, n \in Names, p \in 0 .. MAX_PRICE, q \in Quantities}

Catalogue == INSTANCE InventorySpec WITH
    Products <- Goods,
    Numbers  <- Ids \cup OtherIds,
    stock    <- productsInUse

\* The array with its count behaves like a list of products with different ids:
\* doubling it, a failed allocation, a product given up half-way and cells that
\* are no longer or not yet in use never show.
ImplementsCatalogue == Catalogue!Spec

\* Whoever has typed a minimum price up to the greatest price gets a result in
\* the end; with a greater one no maximum is ever taken.
PriceSearchEnds ==
    /\ doing = "maxPrice" /\ minPrice <= MAX_PRICE ~> doing = "menu"
    /\ [](doing = "maxPrice" /\ minPrice > MAX_PRICE => [](doing = "maxPrice"))

=============================================================================
