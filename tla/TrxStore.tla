------------------------------ MODULE TrxStore ------------------------------
(***************************************************************************)
(* What a user of adbl expects of a transaction, whatever connection it    *)
(* runs on: its statements are stored together or not at all, and one that *)
(* was reported as committed is stored.  Adbl.tla is shown to implement    *)
(* this module.                                                            *)
(***************************************************************************)
CONSTANTS Trxs,         \* the transactions
          Statements    \* the statements of each

VARIABLES store,        \* the pairs <<transaction, statement>> that are stored
          told          \* what the owner of each transaction was told

vars == <<store, told>>

StoreInit ==
  /\ store = {}
  /\ told = [t \in Trxs |-> "nothing"]

(* The server commits the transaction; the answer may still be lost. *)
Commit(t) ==
  /\ told[t] = "nothing"
  /\ store' = store \union ({t} \X Statements)
  /\ told' \in {[told EXCEPT ![t] = r] : r \in {"stored", "error"}}

(* The transaction is given up: nothing of it is stored. *)
GiveUp(t) ==
  /\ told[t] = "nothing"
  /\ told' \in {[told EXCEPT ![t] = r] : r \in {"error", "rolled back"}}
  /\ UNCHANGED store

StoreNext == \E t \in Trxs : Commit(t) \/ GiveUp(t)

StoreSpec == StoreInit /\ [][StoreNext]_vars
=============================================================================
