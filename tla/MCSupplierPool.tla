--------------------------- MODULE MCSupplierPool ---------------------------
(* Values of the constants of SupplierPool for TLC.                        *)
EXTENDS SupplierPool, TLC

\* Delistings and price changes at random moments, timeouts rarely.
MCRandom == [price_change |-> {0, 1}, supplier_delist |-> {1, 2}, supplier_timeout |-> {0, 2}]
=============================================================================
