---------------------------- MODULE MCOutboxSync ----------------------------
(***************************************************************************)
(* Small instances of OutboxSync: a receipt of two, a sale of one and an   *)
(* empty count the server refuses, all on one triple; a background caller  *)
(* and a forced one ("Sync now").                                          *)
(***************************************************************************)
EXTENDS OutboxSync, TLC

CONSTANTS receive, sale, count, key, background, manual

MCKeys == {key}
Move(t, d) == [tx |-> t, delta |-> d]

\* a receipt, a sale that depends on it, and a count of no difference
AllTx == {receive, sale, count}
AllTxKey == [t \in AllTx |-> key]
AllMoves == {Move(receive, 2), Move(sale, -1), Move(count, 0)}

\* the receipt and the sale only
TwoTx == {receive, sale}
TwoTxKey == [t \in TwoTx |-> key]
TwoMoves == {Move(receive, 2), Move(sale, -1)}

OneTx == {receive}
OneTxKey == [t \in OneTx |-> key]
OneMove == {Move(receive, 2)}
ReceiptEdits == {Move(receive, 3)}
BothEdits == {Move(receive, 3), Move(sale, -2)}

None == {}
Counts == {count}
Background == {background}
Manual == {manual}
BothRuns == {background, manual}
=============================================================================
