-------------------------- MODULE BountyApiProofs ---------------------------
(***************************************************************************)
(* Proofs about BountyApi: behind the API and the script the contract does *)
(* only what its own specification allows, its account holds exactly what  *)
(* open bounties lock, and the listing shows what it should.               *)
(***************************************************************************)
EXTENDS BountyApi, TaskBountyProofs

-----------------------------------------------------------------------------
(* The contract behind the API.                                             *)

Message ==
    [type : {"store", "instantiate"}] \cup [type : {"claim"}, id : TaskId]
        \cup [type : {"fund"}, id : TaskId, coins : Funds]

\* At most one message is pending.
PendingOK == \A i \in DOMAIN pending : pending[i] \in Message

\* The contract is there when the chain says so, and the backend's address is real.
DeployedOK ==
    /\ instances \in Nat /\ contractAddr \in {NoAddr, 1}
    /\ contractAddr # NoAddr => instances > 0
    /\ instances > 0 => config # NoConfig

\* What the account's transaction does to the contract.
ContractStep ==
    \/ Instantiate(Admin, Admin, DeployFee)
    \/ \E user \in Account, id \in TaskId :
           \/ \E coins \in Funds : FundBounty(user, coins, id)
           \/ ClaimBounty(user, NoCoins, id)
    \/ UNCHANGED vars

\* A block or a direct call is a step of the contract, and nothing else touches it.
LEMMA BackendIs ==
    ASSUME PendingOK, [BackendNext]_allVars
    PROVE  ContractStep
<1>1. CASE Block
    <2> DEFINE msg == Head(pending)
    <2>1. msg \in Message
        BY <1>1 DEF Block, PendingOK
    <2>2. CASE msg.type = "fund" /\ FundBounty(Admin, msg.coins, msg.id)
        <3>1. msg.coins \in Funds /\ msg.id \in TaskId
            BY <2>1, <2>2 DEF Message
        <3> QED BY <2>2, <3>1, AdminAssumption DEF ContractStep
    <2>3. CASE msg.type = "claim" /\ ClaimBounty(Admin, NoCoins, msg.id)
        <3>1. msg.id \in TaskId
            BY <2>1, <2>3 DEF Message
        <3> QED BY <2>3, <3>1, AdminAssumption DEF ContractStep
    <2>4. CASE Instantiate(Admin, Admin, DeployFee) \/ UNCHANGED vars
        BY <2>4 DEF ContractStep
    <2> HIDE DEF msg
    <2> QED BY <1>1, <2>2, <2>3, <2>4 DEF Block, ContractCall, msg
<1>2. CASE DirectCall
    BY <1>2 DEF DirectCall, ContractStep
<1>3. CASE UNCHANGED vars
    BY <1>3 DEF ContractStep
<1> QED BY <1>1, <1>2, <1>3
    DEF BackendNext, Main, StartBackend, WaitForChain, WaitForKVStore, waitForReady, Lookup,
        StopBackend, StartScript, DeployContracts, StoreCode, Submit, Wake,
        InstantiateContract, postFund, postClaim, chainVars, allVars

LEMMA ContractNext == ContractStep => [Next]_vars
<1>1. ASSUME Instantiate(Admin, Admin, DeployFee) PROVE Next
    BY <1>1, AdminAssumption, AskedAssumption DEF Next
<1>2. ASSUME NEW user \in Account, NEW id \in TaskId, NEW coins \in Funds,
             FundBounty(user, coins, id)
      PROVE  Next
    BY <1>2 DEF Next
<1>3. ASSUME NEW user \in Account, NEW id \in TaskId, ClaimBounty(user, NoCoins, id)
      PROVE  Next
    BY <1>3, AskedAssumption DEF Next
<1> QED BY <1>1, <1>2, <1>3 DEF ContractStep

\* Script and endpoints send messages the contract understands.
LEMMA PendingStep == PendingOK /\ [BackendNext]_allVars => PendingOK'
<1> SUFFICES ASSUME PendingOK, [BackendNext]_allVars PROVE PendingOK'
    OBVIOUS
<1>1. CASE UNCHANGED pending \/ pending' = <<>>
    BY <1>1 DEF PendingOK
<1>2. ASSUME NEW msg \in Message, pending' = <<msg>> PROVE PendingOK'
    BY <1>2 DEF PendingOK
<1>3. ASSUME NEW r \in Request, NEW id \in TaskId, NEW coins \in Funds \cup {NotACoin},
             postFund(r, id, coins)
      PROVE  PendingOK'
    <2>1. CASE coins \in Funds
        <3>1. [type |-> "fund", id |-> id, coins |-> coins] \in Message
            BY <2>1 DEF Message
        <3> QED BY <1>1, <1>2, <1>3, <3>1 DEF postFund, broadcastMsg
    <2>2. CASE coins = NotACoin
        BY <1>1, <1>3, <2>2 DEF postFund
    <2> QED BY <2>1, <2>2
<1>4. ASSUME NEW r \in Request, NEW id \in TaskId, postClaim(r, id)
      PROVE  PendingOK'
    <2>1. [type |-> "claim", id |-> id] \in Message
        BY DEF Message
    <2> QED BY <1>1, <1>2, <1>4, <2>1 DEF postClaim, broadcastMsg
<1>5. CASE DeployContracts
    <2>1. [type |-> "store"] \in Message /\ [type |-> "instantiate"] \in Message
        BY DEF Message
    <2> QED BY <1>1, <1>2, <1>5, <2>1
        DEF DeployContracts, StoreCode, InstantiateContract, Wake, Submit
<1> QED BY <1>1, <1>3, <1>4, <1>5
    DEF BackendNext, Main, StartBackend, WaitForChain, WaitForKVStore, waitForReady, Lookup,
        StopBackend, StartScript, Block, DirectCall, apiVars, allVars

LEMMA PendingInvariant == BackendSpec => []PendingOK
<1>1. BackendInit => PendingOK
    BY DEF BackendInit, PendingOK
<1> QED BY <1>1, PendingStep, PTL DEF BackendSpec

\* Deployed by the script, called by the backend and by other accounts, the contract
\* does only what its own specification allows: whatever holds of it holds behind the
\* API (ChainClient's bounty calls and deploy-contracts.sh).
THEOREM BackendImplementsContract == BackendSpec => Spec
<1>1. BackendInit => Init
    BY DEF BackendInit
<1>2. PendingOK /\ [BackendNext]_allVars => [Next]_vars
    BY BackendIs, ContractNext
<1> QED BY <1>1, <1>2, PendingInvariant, PTL DEF BackendSpec, Spec

\* The contract's types, behind the API.
LEMMA BackendTyped == BackendSpec => []TypeOK
  BY BackendImplementsContract, TypeCorrect, PTL

-----------------------------------------------------------------------------
(* No dust.                                                                 *)

\* ExactlyLocked is inductive with what it needs: no bonus was ever given.
ExactInv ==
    /\ IsFiniteSet(DOMAIN bounties)
    /\ \A id \in DOMAIN bounties : bounties[id].multiplier_pct = 100
    /\ ExactlyLocked

\* At 100 % the gross amount is the amount locked.
LEMMA GrossWhole ==
    ASSUME NEW bounty \in Bounty, bounty.multiplier_pct = 100
    PROVE  Gross(bounty) = bounty.amount /\ bounty.amount \in Nat
<1>1. bounty.amount \in Nat
    BY DEF Bounty
<1>2. \A n \in Nat : (n * 100) \div 100 = n
    OBVIOUS
<1> QED BY <1>1, <1>2 DEF Gross

\* Initially nothing is locked and the account is empty.
LEMMA ExactInit == Init => ExactInv
<1> SUFFICES ASSUME Init PROVE ExactInv
    OBVIOUS
<1>1. DOMAIN bounties = {} /\ IsFiniteSet(DOMAIN bounties)
    BY FS_EmptySet DEF Init
<1>2. Unclaimed(bounties) = {}
    BY <1>1 DEF Unclaimed
<1>3. \A d \in Denom : Locked(d) = 0
    <2> SUFFICES ASSUME NEW d \in Denom PROVE Total(bounties, d) = 0
        BY LockedIs
    <2>1. \A x \in {} : Amount(bounties, d)[x] \in Nat
        OBVIOUS
    <2> QED BY <1>2, <2>1, SumNat, FS_EmptySet DEF Total
<1>4. \A d \in Denom : balance[Contract][d] = 0
    BY DEF Init
<1> QED BY <1>1, <1>3, <1>4 DEF ExactInv, ExactlyLocked

\* Funding adds its coins to both sides, claiming takes the amount from both.
LEMMA ExactStep ==
    ASSUME TypeOK, ExactInv, ContractStep
    PROVE  ExactInv'
<1>1. AreBounties(bounties)
    BY DEF TypeOK, ExactInv, AreBounties
<1>2. \A d \in Denom : balance[Contract][d] = Locked(d) /\ Locked(d) \in Nat
    BY <1>1, LockedIs, TotalType DEF ExactInv, ExactlyLocked
<1>3. CASE bounties' = bounties /\ balance' = balance
    <2>1. \A d \in Denom : Locked(d)' = Locked(d)
        BY <1>3, LockedIs
    <2> QED BY <1>2, <1>3, <2>1 DEF ExactInv, ExactlyLocked
<1>4. ASSUME NEW user \in Account, NEW id \in TaskId, NEW coins \in Funds,
             FundBounty(user, coins, id)
      PROVE  ExactInv'
    <2>1. /\ AreBounties(bounties')
          /\ \A d \in Denom : /\ Locked(d)' = Locked(d) + coins[d]
                              /\ balance'[Contract][d] = balance[Contract][d] + coins[d]
        BY <1>1, <1>4, FundLocks
    <2>2. ExactlyLocked'
        BY <1>2, <2>1 DEF ExactlyLocked
    <2>3. bounties'[id].multiplier_pct = 100
        BY <1>4 DEF FundBounty
    <2>4. /\ DOMAIN bounties' = DOMAIN bounties \cup {id}
          /\ \A i \in DOMAIN bounties : bounties'[i] = bounties[i]
        BY <1>4, FundedIs
    <2>5. \A i \in DOMAIN bounties' : bounties'[i].multiplier_pct = 100
        BY <2>3, <2>4 DEF ExactInv
    <2> QED BY <2>1, <2>2, <2>5 DEF ExactInv, AreBounties
<1>5. ASSUME NEW user \in Account, NEW id \in TaskId, ClaimBounty(user, NoCoins, id)
      PROVE  ExactInv'
    <2> DEFINE b == bounties[id]
    <2>0. NoCoins \in Funds
        BY AskedAssumption
    <2>1. /\ id \in DOMAIN bounties /\ b \in Bounty
          /\ DOMAIN bounties' = DOMAIN bounties
          /\ bounties'[id] = [b EXCEPT !.claimed = TRUE, !.claimer = user]
          /\ \A i \in DOMAIN bounties \ {id} : bounties'[i] = bounties[i]
        BY <1>5, <2>0, ClaimedIs
    <2>2. /\ AreBounties(bounties')
          /\ \A d \in Denom : Locked(d) = Locked(d)' + IF b.denom = d THEN b.amount ELSE 0
        BY <1>1, <1>5, <2>0, ClaimUnlocks
    <2>3. \A d \in Denom : balance'[Contract][d] =
              balance[Contract][d] + NoCoins[d] - IF d = b.denom THEN Gross(b) ELSE 0
        BY <1>5, <2>0, ClaimPays
    <2>4. Gross(b) = b.amount /\ b.amount \in Nat
        BY <2>1, GrossWhole DEF ExactInv
    <2>5. \A d \in Denom : Locked(d)' \in Nat
        BY <2>2, LockedIs, TotalType
    <2> HIDE DEF b
    <2>6. ExactlyLocked'
        <3> SUFFICES ASSUME NEW d \in Denom PROVE balance'[Contract][d] = Locked(d)'
            BY DEF ExactlyLocked
        <3> DEFINE now == balance'[Contract][d]
                   had == balance[Contract][d]
                   out == IF d = b.denom THEN b.amount ELSE 0
                   left == Locked(d)'
        <3>1. now = had + 0 - out
            BY <2>3, <2>4 DEF NoCoins
        <3>2. had = left + out
            BY <1>2, <2>2
        <3>3. out \in Nat /\ left \in Nat
            BY <2>4, <2>5
        <3> HIDE DEF now, had, out, left
        <3>4. now = left
            BY <3>1, <3>2, <3>3
        <3> QED BY <3>4 DEF now, left
    <2>7. bounties'[id].multiplier_pct = 100
        BY <2>1 DEF Bounty, ExactInv, b
    <2>8. \A i \in DOMAIN bounties' : bounties'[i].multiplier_pct = 100
        <3>1. /\ DOMAIN bounties' = DOMAIN bounties
              /\ \A i \in DOMAIN bounties \ {id} : bounties'[i] = bounties[i]
            BY <2>1
        <3>2. \A i \in DOMAIN bounties : bounties[i].multiplier_pct = 100
            BY DEF ExactInv
        <3> QED BY <2>7, <3>1, <3>2
    <2> QED BY <2>2, <2>6, <2>8 DEF ExactInv, AreBounties
<1> QED BY <1>3, <1>4, <1>5 DEF ContractStep, Instantiate, vars

\* Whatever script, backend and other users ask of it, the contract's account holds
\* what the open bounties lock, to the coin (execute_claim_bounty behind ChainClient).
THEOREM AlwaysExactlyLocked == BackendSpec => []ExactlyLocked
<1>1. BackendInit => ExactInv
    BY ExactInit DEF BackendInit
<1>2. TypeOK /\ PendingOK /\ ExactInv /\ [BackendNext]_allVars => ExactInv'
    BY BackendIs, ExactStep
<1>3. ExactInv => ExactlyLocked
    BY DEF ExactInv
<1> QED BY <1>1, <1>2, <1>3, BackendTyped, PendingInvariant, PTL DEF BackendSpec

-----------------------------------------------------------------------------
(* The listing.                                                             *)

\* Once instantiated, the contract has a configuration.
LEMMA ConfigStays ==
    ASSUME TypeOK, ContractStep, config # NoConfig
    PROVE  config' = config
  BY DEF ContractStep, Instantiate, FundBounty, ClaimBounty, vars

\* The address is looked up after the contract is there, and contracts stay.
LEMMA DeployedStep ==
    ASSUME TypeOK, PendingOK, DeployedOK, [BackendNext]_allVars
    PROVE  DeployedOK'
<1>1. config # NoConfig => config' # NoConfig
    BY BackendIs, ConfigStays
<1>2. CASE UNCHANGED <<instances, contractAddr>>
    BY <1>1, <1>2 DEF DeployedOK
<1>3. CASE Block
    <2>1. contractAddr' = contractAddr
        BY <1>3 DEF Block
    <2>2. CASE instances' = instances
        BY <1>2, <2>1, <2>2
    <2>3. CASE instances' = instances + 1
               /\ IF instances = 0 THEN Instantiate(Admin, Admin, DeployFee)
                                   ELSE UNCHANGED vars
        <3>1. CASE instances = 0
            <4>1. config' # NoConfig
                BY <2>3, <3>1 DEF Instantiate, NoConfig
            <4> QED BY <2>1, <2>3, <4>1 DEF DeployedOK
        <3>2. CASE instances # 0
            BY <1>1, <2>1, <2>3, <3>2 DEF DeployedOK
        <3> QED BY <3>1, <3>2
    <2> QED BY <1>3, <2>2, <2>3 DEF Block
<1>4. CASE Lookup
    <2>1. instances' = instances
        BY <1>4 DEF Lookup, chainVars
    <2>2. CASE instances > 0 /\ contractAddr' = 1
        BY <1>1, <2>1, <2>2 DEF DeployedOK
    <2>3. CASE contractAddr' = contractAddr
        BY <1>2, <2>1, <2>3
    <2> QED BY <1>4, <2>2, <2>3 DEF Lookup, ResolveContractByCodeID, NotResolved
<1>5. CASE StopBackend
    BY <1>1, <1>5 DEF StopBackend, chainVars, DeployedOK, NoAddr
<1> QED BY <1>2, <1>3, <1>4, <1>5
    DEF BackendNext, Main, StartBackend, WaitForChain, WaitForKVStore, waitForReady,
        StartScript, DeployContracts, StoreCode, Submit, Wake, InstantiateContract,
        postFund, postClaim, DirectCall, apiVars, chainVars, allVars

\* What the listing shows, when there is an address.
LEMMA ListingShows ==
    ASSUME TypeOK, IsFiniteSet(DOMAIN bounties), DeployedOK, contractAddr # NoAddr
    PROVE  ListingComplete
<1> DEFINE page == ListBounties(None, None)
           all  == Ascending(DOMAIN bounties)
           n    == Cardinality(DOMAIN bounties)
           m    == Shown(None, None)
<1>1. DOMAIN bounties \subseteq Nat
    BY NumberAssumption DEF TypeOK
<1>2. After(None) = DOMAIN bounties
    BY <1>1 DEF After, None
<1>3. /\ n \in Nat /\ all \in [1 .. n -> DOMAIN bounties]
      /\ \A i, j \in 1 .. n : i < j => all[i] < all[j]
      /\ \A x \in DOMAIN bounties : \E i \in 1 .. n : all[i] = x
    BY <1>1, AscendingLists, Zenon
<1>4. None \in Int /\ None \in {None} \cup Nat
    BY DEF None
<1>5. /\ m \in Nat /\ m <= n /\ page \in Seq(DOMAIN bounties) /\ Len(page) = m
      /\ \A i \in 1 .. m : page[i] = all[i]
    BY <1>1, <1>2, <1>4, PageIs
<1>6. m = IF n <= DefaultLimit THEN n ELSE DefaultLimit
    BY <1>2, NumberAssumption DEF Shown, PageSize
<1>7. getBounties = page
    BY DEF getBounties, queryContract
<1>8. Served = {page[i] : i \in 1 .. m}
    BY <1>5, <1>7 DEF Served
<1> HIDE DEF page, all, n, m
<1>9. Served = {all[i] : i \in 1 .. m}
    BY <1>5, <1>8
<1>10. DefaultLimit \in Nat
    BY NumberAssumption
<1>11. \A i \in 1 .. m : i \in 1 .. n
    BY <1>3, <1>5
<1>12. getConfig # NoConfig
    BY DEF getConfig, queryContract, DeployedOK
<1>13. n <= DefaultLimit => Served = DOMAIN bounties
    BY <1>3, <1>6, <1>9
<1>14. ASSUME NEW id \in DOMAIN bounties \ Served
       PROVE  Cardinality(Served) = DefaultLimit /\ \A shown \in Served : shown < id
    <2>1. PICK j \in 1 .. n : all[j] = id
        BY <1>3
    <2>2. j \notin 1 .. m
        BY <1>9, <1>14, <2>1
    <2>3. m < j
        BY <1>3, <1>5, <2>2
    <2>4. \A shown \in Served : shown < id
        <3> SUFFICES ASSUME NEW i \in 1 .. m PROVE all[i] < id
            BY <1>9
        <3>1. i \in 1 .. n /\ i < j
            BY <1>3, <1>5, <1>11, <2>1, <2>3
        <3> QED BY <1>3, <2>1, <3>1
    <2>5. m = DefaultLimit
        BY <1>3, <1>5, <1>6, <1>10, <2>1, <2>3
    <2>6. Cardinality(Served) = m
        <3> DEFINE f == [i \in 1 .. m |-> all[i]]
        <3>1. f \in Bijection(1 .. m, Served)
            <4>1. \A i, j2 \in 1 .. m : f[i] = f[j2] => i = j2
                <5> SUFFICES ASSUME NEW i \in 1 .. m, NEW k \in 1 .. m, i < k
                             PROVE  all[i] # all[k]
                    BY <1>5
                <5>1. all[i] < all[k] /\ all[i] \in Nat /\ all[k] \in Nat
                    BY <1>1, <1>3, <1>11
                <5> QED BY <5>1
            <4>2. f \in [1 .. m -> Served] /\ \A t \in Served : \E i \in 1 .. m : f[i] = t
                BY <1>9
            <4> HIDE DEF f
            <4> QED BY <4>1, <4>2 DEF Bijection, Injection, Surjection, IsInjective
        <3>2. IsFiniteSet(1 .. m) /\ Cardinality(1 .. m) = m
            BY <1>5, FS_Interval
        <3> QED BY <3>1, <3>2, FS_Bijection DEF ExistsBijection
    <2> QED BY <2>4, <2>5, <2>6
<1>15. ASSUME NEW id \in DOMAIN bounties PROVE getBounty(id) # NoAnswer
    BY AnswerAssumption DEF getBounty, queryContract, TypeOK
<1> QED BY <1>12, <1>13, <1>14, <1>15 DEF ListingComplete, n

\* GET /api/bounties answers with every bounty, or with a full page of the lowest ids,
\* and what it leaves out can be asked for one by one (ListBounties and GetBounty of
\* chain.go), for any limits and any number of bounties.
THEOREM ListingsComplete == BackendSpec => []ListingComplete
<1>1. BackendInit => ExactInv /\ DeployedOK
    BY ExactInit DEF BackendInit, DeployedOK, NoAddr
<1>2. TypeOK /\ PendingOK /\ ExactInv /\ [BackendNext]_allVars => ExactInv'
    BY BackendIs, ExactStep
<1>3. TypeOK /\ PendingOK /\ DeployedOK /\ [BackendNext]_allVars => DeployedOK'
    BY DeployedStep
<1>4. TypeOK /\ ExactInv /\ DeployedOK => ListingComplete
    BY ListingShows DEF ListingComplete, ExactInv
<1> QED BY <1>1, <1>2, <1>3, <1>4, BackendTyped, PendingInvariant, PTL DEF BackendSpec
=============================================================================
