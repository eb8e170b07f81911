-------------------------- MODULE MCStockCommands --------------------------
(***************************************************************************)
(* Small instances of StockCommands: two stores, one transfer between them *)
(* and single units, so that every command competes for the same stock.    *)
(***************************************************************************)
EXTENDS StockCommands, TLC

CONSTANTS shopA, shopB, trip

MCStores == {shopA, shopB}
MCBuckets == {"AVAILABLE", "DAMAGED"}
MCTransfers == {trip}
StoreSymmetry == Permutations(MCStores)
MCQuantities == {1, 2}
MCUnits == {1}
=============================================================================
