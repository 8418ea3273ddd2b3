------------------------- MODULE MCShopifyIngestion -------------------------
(* Small instances of ShopifyIngestion. *)
EXTENDS ShopifyIngestion, TLC

CONSTANTS a, b, p1, p2

Version(lines, active) == [lines |-> lines, zero |-> {}, active |-> active]

\* Lines come and go, one has a quantity of 0, and the order is cancelled.
Edited == {Version({a}, TRUE),
           [lines |-> {a, b}, zero |-> {b}, active |-> TRUE],
           Version({}, FALSE)}

Symmetry == Permutations(Process)

=============================================================================
