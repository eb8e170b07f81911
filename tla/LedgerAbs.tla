----------------------------- MODULE LedgerAbs -----------------------------
(***************************************************************************)
(* What the central ledger promises, with no sessions, receipts or         *)
(* retries: a transaction is posted at most once, it is never removed, a   *)
(* later push of the same transaction may only restate its quantity, and   *)
(* the materialised balance moves by exactly what the ledger moves.        *)
(***************************************************************************)
EXTENDS Sums

CONSTANTS TxIds,     \* transaction_id, the idempotency key
          Keys,      \* (store_id, product_id, stock_bucket) triples
          KeyOf,     \* the triple a transaction moves
          Deltas     \* the quantities a push may carry

VARIABLES posted,    \* ids of the rows of inventory_transactions
          delta,     \* quantity_delta of each row, 0 where there is no row
          balance    \* quantity of each stock_balances row, 0 without a row

ledgerVars == <<posted, delta, balance>>

LedgerInit ==
    /\ posted = {}
    /\ delta = [t \in TxIds |-> 0]
    /\ balance = [k \in Keys |-> 0]

(* The first acceptance of a transaction. *)
PostOnce(t, d) ==
    /\ t \notin posted
    /\ posted' = posted \cup {t}
    /\ delta' = [delta EXCEPT ![t] = d]
    /\ balance' = [balance EXCEPT ![KeyOf[t]] = @ + d]

(* A later push restates the quantity; the balance moves by the difference. *)
Restate(t, d) ==
    /\ t \in posted
    /\ UNCHANGED posted
    /\ delta' = [delta EXCEPT ![t] = d]
    /\ balance' = [balance EXCEPT ![KeyOf[t]] = @ + d - delta[t]]

LedgerNext == \E t \in TxIds, d \in Deltas : PostOnce(t, d) \/ Restate(t, d)

LedgerSpec == LedgerInit /\ [][LedgerNext]_ledgerVars

(* SUM(quantity_delta) over the rows of one triple. *)
RowsOf(k) == {t \in posted : KeyOf[t] = k}
Projection(k) == SumOver(delta, RowsOf(k))
=============================================================================
