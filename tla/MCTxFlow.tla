------------------------------ MODULE MCTxFlow ------------------------------
(***************************************************************************)
(* TxFlow for one payment and for two, the second of which spends the      *)
(* change of the first, of an account that needs both of its keychains.    *)
(* The keychains are interchangeable if both are encrypted.                *)
(***************************************************************************)
EXTENDS TxFlow, TLC

CONSTANTS t1, t2

ChainInputs == (t1 :> {}) @@ (t2 :> {t1})
NoInputs    == [t \in Txs |-> {}]

KeychainSymmetry == Permutations(Keychains)

=============================================================================
