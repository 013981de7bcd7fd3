----------------------------- MODULE MCAccounts -----------------------------
(* Accounts for TLC: browsers are interchangeable. *)
EXTENDS Accounts, TLC

BrowserSymmetry == Permutations(Browser)
TwoOwners == <<"owner", "ali">>

=============================================================================
