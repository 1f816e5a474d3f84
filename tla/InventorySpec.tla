----------------------------- MODULE InventorySpec -----------------------------
(* What the inventory of src/dynamic_inventory_management_system.c promises: a *)
(* list of products with different ids, and searches that show what is in it. *)
EXTENDS Integers, Sequences

CONSTANTS
    Products,     \* [productId, name, price, quantity] records
    Numbers,      \* what is looked for as an id
    Terms,        \* what is looked for in names
    Like(_, _)    \* a name contains a term

VARIABLES
    stock,        \* the products, in the order they were added
    shown         \* the products last displayed

vars == <<stock, shown>>

Init == stock = <<>> /\ shown = <<>>

Add(p) ==
    /\ \A i \in DOMAIN stock : stock[i].productId # p.productId
    /\ stock' = Append(stock, p)
    /\ UNCHANGED shown

SetQuantity(p) ==
    /\ stock' = [i \in DOMAIN stock |->
                   IF stock[i].productId = p.productId
                   THEN [stock[i] EXCEPT !.quantity = p.quantity] ELSE stock[i]]
    /\ UNCHANGED shown

\* The products at the places in D, one after the other.
chosen(D) ==
    LET kept[k \in 0 .. Len(stock)] ==
            IF k = 0 THEN <<>>
            ELSE IF k \in D THEN Append(kept[k - 1], stock[k]) ELSE kept[k - 1]
    IN  kept[Len(stock)]

Delete(id) ==
    /\ stock' = chosen({k \in DOMAIN stock : stock[k].productId # id})
    /\ UNCHANGED shown

Show(wanted) == /\ shown' = chosen({k \in DOMAIN stock : stock[k] \in wanted})
                /\ UNCHANGED stock

Close == stock' = <<>> /\ UNCHANGED shown

Next ==
    \/ \E p \in Products : Add(p) \/ SetQuantity(p)
    \/ \E id \in Numbers : Delete(id) \/ Show({p \in Products : p.productId = id})
    \/ Show(Products)
    \/ \E t \in Terms : Show({p \in Products : Like(p.name, t)})
    \/ \E low, high \in Products :
          Show({p \in Products : p.price \in low.price .. high.price})
    \/ Close

Spec == Init /\ [][Next]_vars

=============================================================================
