----------------------------- MODULE MCInventory -----------------------------
(* A bounded instance of the inventory.                                      *)
EXTENDS Inventory

MCNames == {<<"t", "E", "a">>}
MCTerms == {<<>>, <<"e", "A">>, <<"a", "e">>}
MCLower == [ch \in {"t", "E", "e", "A", "a"} |->
              IF ch = "E" THEN "e" ELSE IF ch = "A" THEN "a" ELSE ch]
MCOtherIds == {-1, 0}

=============================================================================
