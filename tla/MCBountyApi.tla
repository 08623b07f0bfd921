---------------------------- MODULE MCBountyApi -----------------------------
(* A small instance of the deployed contract and the backend before it.     *)
EXTENDS BountyApi, TLC

CONSTANT stake

\* No coins, and an amount of which a fee of 10 % is rounded.
MCFunds == {stake :> 0, stake :> 15}

MCSupply == stake :> 15
=============================================================================
