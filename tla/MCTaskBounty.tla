---------------------------- MODULE MCTaskBounty ---------------------------
(* Small instances of the bounty contract.                                  *)
EXTENDS TaskBounty, TLC

CONSTANTS stake, token

Coins(x, y) == (stake :> x) @@ (token :> y)

\* No coins, one of either denomination, and both.  3 does not divide evenly.
MCFunds == {Coins(0, 0), Coins(3, 0), Coins(0, 2), Coins(1, 2)}

MCSupply == Coins(3, 2)

\* The contract does not tell users apart before they act.
Users == Permutations(Account)
=============================================================================
