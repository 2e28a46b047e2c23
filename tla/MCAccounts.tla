----------------------------- MODULE MCAccounts -----------------------------
(* Instances of Accounts for TLC. *)
EXTENDS Accounts

\* Two apps of one person who is no seeded account: a form that is sent twice.
MCPersonOf == [a \in Apps |-> <<"driver", SeedSize + 1>>]
=============================================================================
