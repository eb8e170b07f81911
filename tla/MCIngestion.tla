---------------------------- MODULE MCIngestion ----------------------------
(***************************************************************************)
(* Small instances of Ingestion: one stock triple fed by a receipt of two  *)
(* and drained by two sales.  Two sales of two compete for two units; an   *)
(* edit brings an id back with another quantity.                           *)
(***************************************************************************)
EXTENDS Ingestion, TLC

CONSTANTS receive, sellA, sellB, key, shop, r1, r2, r3, r4

MCTxIds == {receive, sellA, sellB}
MCKeys == {key}
MCKeyOf == [t \in MCTxIds |-> key]
MCMasters == {shop}
MCMasterOf == [t \in MCTxIds |-> shop]
MCNoMasters == {}

PayloadOf(t, d, type, ref, at) == [tx |-> t, delta |-> d, type |-> type, ref |-> ref, at |-> at]
Receive2 == PayloadOf(receive, 2, "RECEIPT", FALSE, 1)
SellA == PayloadOf(sellA, -2, "SALE", TRUE, 2)
SellB == PayloadOf(sellB, -2, "SALE", TRUE, 3)

\* every device always sends the same quantity under one id
ImmutablePayloads == {Receive2, SellA, SellB}
ImmutableBatches == {{Receive2}, {SellA}, {Receive2, SellA}, {SellA, SellB}}

\* an id may come back with another quantity after an edit on the device, and
\* as the reversal a deletion enqueues, even in the batch that carries the edit
Receive1 == PayloadOf(receive, 1, "RECEIPT", FALSE, 1)
Receive3 == PayloadOf(receive, 3, "RECEIPT", FALSE, 1)
VoidReceive == PayloadOf(receive, -1, "SALE", FALSE, 4)
SellB1 == PayloadOf(sellB, -1, "SALE", TRUE, 3)
EditedPayloads == {Receive2, Receive1, Receive3, VoidReceive, SellA, SellB1}
EditedBatches == {{Receive2, SellA}, {Receive1, SellB1}, {Receive3}, {SellB1},
                  {Receive1, VoidReceive}}
RetriedEdit == {{Receive2}, {Receive1}}

MCRequests3 == {r1, r2, r3}
MCRequests4 == {r1, r2, r3, r4}
=============================================================================
