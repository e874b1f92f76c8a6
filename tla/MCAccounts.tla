----------------------------- MODULE MCAccounts -----------------------------
(* Small instances of Accounts; names, passwords and threads are           *)
(* interchangeable.                                                        *)
EXTENDS Accounts, TLC

AccountSymmetry == Permutations(Threads) \cup Permutations(Names) \cup Permutations(Passwords)
=============================================================================
