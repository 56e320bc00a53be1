---------------------------- MODULE MCWalletLedger ----------------------------
(***************************************************************************)
(* Instances of WalletLedger for TLC.                                      *)
(***************************************************************************)
EXTENDS WalletLedger, TLC

\* Everything but Null is interchangeable with its kind.
Symmetry == Permutations(Customers) \cup Permutations(Tickets)
              \cup Permutations(QRs) \cup Permutations(Txs)
=============================================================================
