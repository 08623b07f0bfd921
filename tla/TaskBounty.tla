---------------------------- MODULE TaskBounty -----------------------------
(***************************************************************************)
(* The task-bounty contract (contracts/task-bounty): funders lock coins    *)
(* under a task id, whoever claims first is paid, the admin sets a fee and *)
(* per-bounty multipliers.                                                 *)
(*                                                                         *)
(* The wasm module moves the coins a message carries to the contract       *)
(* before the contract runs, and executes the bank messages it returns     *)
(* afterwards.  If the contract or one of them fails everything is undone, *)
(* so a failing message is no step, and every check is a guard.            *)
(***************************************************************************)
EXTENDS Iteration, FiniteSetsExt
LOCAL INSTANCE SequencesExt

CONSTANTS
    Account,        \* user accounts
    Contract,       \* the contract's own account
    Denom,          \* coin denominations
    TaskId,         \* u64 task ids bounties are funded for
    Funds,          \* coins a message may carry: functions from Denom to Nat
    FeePct,         \* fee percentages callers may ask for
    MultiplierPct,  \* multipliers the admin may ask for
    Supply,         \* coins each user account starts with
    MaxUint128,     \* 2^128 - 1
    DefaultLimit,   \* DEFAULT_LIMIT of the listing
    MaxLimit        \* MAX_LIMIT of the listing

ASSUME ContractAssumption == Contract \notin Account
ASSUME CoinAssumption     == Funds \subseteq [Denom -> Nat] /\ Supply \in [Denom -> Nat]
ASSUME NumberAssumption   ==
    /\ TaskId \subseteq Nat /\ FeePct \subseteq Nat /\ MultiplierPct \subseteq Nat
    /\ MaxUint128 \in Nat
    /\ MaxLimit \in Nat \ {0} /\ DefaultLimit \in 1 .. MaxLimit

VARIABLES
    config,     \* CONFIG, NoConfig until the contract is instantiated
    bounties,   \* BOUNTIES: task id -> bounty
    balance     \* the bank's balances: account -> denom -> amount

vars == <<config, bounties, balance>>

NoConfig == <<>>

Config == [admin : Account, fee_collector : Account, fee_pct : Nat]

Bounty == [funder : Account, amount : Nat, denom : Denom, multiplier_pct : Nat,
           claimed : BOOLEAN, claimer : Account \cup {Contract}]

NoClaimer == Contract   \* Option::None: the contract never calls itself

-----------------------------------------------------------------------------
(* The bank.                                                                *)

Covers(b, who, coins) == \A d \in Denom : b[who][d] >= coins[d]

Send(b, from, to, coins) ==
    LET taken == [b EXCEPT ![from] = [d \in Denom |-> @[d] - coins[d]]]
    IN  [taken EXCEPT ![to] = [d \in Denom |-> @[d] + coins[d]]]

Coin(denom, n) == [d \in Denom |-> IF d = denom THEN n ELSE 0]

\* The bank refuses an empty coin list.
CanSend(b, from, coins) == Covers(b, from, coins) /\ \E d \in Denom : coins[d] > 0

-----------------------------------------------------------------------------
(* The payout: every multiplication is checked against Uint128.             *)

Gross(bounty) == (bounty.amount * bounty.multiplier_pct) \div 100

Fee(bounty) == (Gross(bounty) * config.fee_pct) \div 100

\* Mutant: the fee is paid on top of the gross amount.
NetIsGross(bounty) == Gross(bounty)

\* Mutant: the net amount is rounded by itself.
NetRounded(bounty) == (Gross(bounty) * (100 - config.fee_pct)) \div 100

Net(bounty) == Gross(bounty) - Fee(bounty)

NoOverflow(bounty) ==
    /\ bounty.amount * bounty.multiplier_pct <= MaxUint128
    /\ Gross(bounty) * config.fee_pct <= MaxUint128

\* Both bank messages of a claim go through, on the balances b.
CanPay(b, bounty) ==
    /\ NoOverflow(bounty)
    /\ CanSend(b, Contract, Coin(bounty.denom, Net(bounty)))
    /\ Covers(b, Contract, Coin(bounty.denom, Gross(bounty)))

Pay(b, bounty, claimer) ==
    Send(Send(b, Contract, claimer, Coin(bounty.denom, Net(bounty))),
         Contract, config.fee_collector, Coin(bounty.denom, Fee(bounty)))

-----------------------------------------------------------------------------
(* The entry points.                                                        *)

Instantiate(sender, collector, pct) ==
    /\ config = NoConfig
    /\ pct <= 100
    /\ config' = [admin |-> sender, fee_collector |-> collector, fee_pct |-> pct]
    /\ UNCHANGED <<bounties, balance>>

\* What every message to the contract shares: it exists and gets the coins.
Execute(sender, coins) ==
    /\ config # NoConfig
    /\ Covers(balance, sender, coins)

Attach(sender, coins) == Send(balance, sender, Contract, coins)

Denoms(coins) == {d \in Denom : coins[d] > 0}

\* Mutant: funding a task again replaces its bounty.
FundAgain(sender, coins, id) ==
    /\ Execute(sender, coins)
    /\ \E d \in Denoms(coins) :
           /\ Denoms(coins) = {d}
           /\ coins[d] <= MaxUint128
           /\ bounties' = [i \in DOMAIN bounties \cup {id} |->
                  IF i = id
                  THEN [funder |-> sender, amount |-> coins[d], denom |-> d,
                        multiplier_pct |-> 100, claimed |-> FALSE, claimer |-> NoClaimer]
                  ELSE bounties[i]]
    /\ balance' = Attach(sender, coins)
    /\ UNCHANGED config

FundBounty(sender, coins, id) ==
    /\ Execute(sender, coins)
    /\ id \notin DOMAIN bounties
    /\ \E d \in Denoms(coins) :
           /\ Denoms(coins) = {d}
           /\ coins[d] <= MaxUint128
           /\ bounties' = [i \in DOMAIN bounties \cup {id} |->
                  IF i = id
                  THEN [funder |-> sender, amount |-> coins[d], denom |-> d,
                        multiplier_pct |-> 100, claimed |-> FALSE, claimer |-> NoClaimer]
                  ELSE bounties[i]]
    /\ balance' = Attach(sender, coins)
    /\ UNCHANGED config

\* Mutant: a claimed bounty can be claimed again.
ClaimAgain(sender, coins, id) ==
    /\ Execute(sender, coins)
    /\ id \in DOMAIN bounties
    /\ CanPay(Attach(sender, coins), bounties[id])
    /\ bounties' = [bounties EXCEPT ![id].claimed = TRUE, ![id].claimer = sender]
    /\ balance' = Pay(Attach(sender, coins), bounties[id], sender)
    /\ UNCHANGED config

ClaimBounty(sender, coins, id) ==
    /\ Execute(sender, coins)
    /\ id \in DOMAIN bounties
    /\ ~bounties[id].claimed
    /\ CanPay(Attach(sender, coins), bounties[id])
    /\ bounties' = [bounties EXCEPT ![id].claimed = TRUE, ![id].claimer = sender]
    /\ balance' = Pay(Attach(sender, coins), bounties[id], sender)
    /\ UNCHANGED config

\* Mutant: the new fee is not checked.
UpdateAnyFee(sender, coins, pct) ==
    /\ Execute(sender, coins)
    /\ sender = config.admin
    /\ config' = [config EXCEPT !.fee_pct = pct]
    /\ balance' = Attach(sender, coins)
    /\ UNCHANGED bounties

UpdateFee(sender, coins, pct) ==
    /\ Execute(sender, coins)
    /\ sender = config.admin
    /\ pct <= 100
    /\ config' = [config EXCEPT !.fee_pct = pct]
    /\ balance' = Attach(sender, coins)
    /\ UNCHANGED bounties

\* Any multiplier, claimed or not.
AddBonus(sender, coins, id, pct) ==
    /\ Execute(sender, coins)
    /\ sender = config.admin
    /\ id \in DOMAIN bounties
    /\ bounties' = [bounties EXCEPT ![id].multiplier_pct = pct]
    /\ balance' = Attach(sender, coins)
    /\ UNCHANGED config

-----------------------------------------------------------------------------
(* QueryMsg::ListBounties: the task ids listed, None for an absent argument. *)

None == -1

\* Mutant: the page begins with the last entry of the page before.
ListInclusive(start, limit) ==
    LET after == Ascending({id \in DOMAIN bounties : id >= start})
        asked == IF limit = None THEN DefaultLimit ELSE limit
        size  == IF asked < MaxLimit THEN asked ELSE MaxLimit
    IN  IF Len(after) <= size THEN after ELSE SubSeq(after, 1, size)

ListBounties(start, limit) ==
    LET after == Ascending({id \in DOMAIN bounties : id > start})
        asked == IF limit = None THEN DefaultLimit ELSE limit
        size  == IF asked < MaxLimit THEN asked ELSE MaxLimit
    IN  IF Len(after) <= size THEN after ELSE SubSeq(after, 1, size)

-----------------------------------------------------------------------------
Init ==
    /\ config = NoConfig
    /\ bounties = <<>>
    /\ balance = [a \in Account \cup {Contract} |->
                      IF a = Contract THEN [d \in Denom |-> 0] ELSE Supply]

Next ==
    \E sender \in Account, coins \in Funds :
        \/ \E collector \in Account, pct \in FeePct : Instantiate(sender, collector, pct)
        \/ \E id \in TaskId : FundBounty(sender, coins, id)
        \/ \E id \in TaskId : ClaimBounty(sender, coins, id)
        \/ \E pct \in FeePct : UpdateFee(sender, coins, pct)
        \/ \E id \in TaskId, pct \in MultiplierPct : AddBonus(sender, coins, id, pct)

Spec == Init /\ [][Next]_vars

-----------------------------------------------------------------------------
(* Properties.                                                              *)

\* Every variable has its type.
TypeOK ==
    /\ config \in {NoConfig} \cup Config
    /\ config # NoConfig => config.fee_pct <= 100
    /\ DOMAIN bounties \subseteq TaskId
    /\ \A id \in DOMAIN bounties : bounties[id] \in Bounty
    /\ balance \in [Account \cup {Contract} -> [Denom -> Nat]]

Open == {id \in DOMAIN bounties : ~bounties[id].claimed}

Locked(d) ==
    LET amount == [id \in DOMAIN bounties |->
                      IF bounties[id].denom = d THEN bounties[id].amount ELSE 0]
    IN  SumFunctionOnSet(amount, Open)

\* What funders locked and nobody claimed is in the contract's account, whatever
\* was claimed, discounted or charged in between (contract.rs, execute_claim_bounty).
Solvent == \A d \in Denom : balance[Contract][d] >= Locked(d)

\* Every open bounty that leaves its claimer anything can be claimed: its payout
\* neither overflows nor is refused by the bank, whatever was paid for other
\* bounties from the same account.  A share of nothing (fee 100, or an amount
\* that the multiplier rounds to 0) is refused by the bank.
Claimable == \A id \in Open : Net(bounties[id]) > 0 => CanPay(balance, bounties[id])

Lost(d) == balance[Contract][d] - balance'[Contract][d]

\* The contract's coins leave it only when an open bounty is claimed, at most at
\* the bounty's gross amount and never for two bounties at once.
OnlyClaimsPay ==
    [][\A d \in Denom : Lost(d) > 0 =>
          \E id \in Open :
              /\ bounties'[id].claimed
              /\ bounties[id].denom = d
              /\ Lost(d) <= Gross(bounties[id])
              /\ \A i \in Open \ {id} : ~bounties'[i].claimed]_vars

\* Once claimed, a bounty stays claimed by the same claimer and can be neither
\* funded again nor removed: no task pays twice.
ClaimIsFinal ==
    [][\A id \in DOMAIN bounties :
          /\ id \in DOMAIN bounties'
          /\ bounties[id].claimed =>
                 /\ bounties'[id].claimed
                 /\ bounties'[id].claimer = bounties[id].claimer
          /\ bounties'[id].funder = bounties[id].funder
          /\ bounties'[id].amount = bounties[id].amount
          /\ bounties'[id].denom = bounties[id].denom]_vars

\* Following start_after from page to page lists every bounty once, in id order,
\* whatever limit the caller asks for, or none.
PagesCoverBounties ==
    \A limit \in {None} \cup 1 .. MaxLimit + 1 :
        LET start[n \in Nat] ==
                IF n = 0 THEN None
                ELSE LET page == ListBounties(start[n - 1], limit)
                     IN  IF page = <<>> THEN start[n - 1] ELSE page[Len(page)]
            pages == [n \in 1 .. Cardinality(DOMAIN bounties) |->
                         ListBounties(start[n - 1], limit)]
        IN  FlattenSeq(pages) = Ascending(DOMAIN bounties)
=============================================================================
