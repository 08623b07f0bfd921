----------------------------- MODULE BountyApi ------------------------------
(***************************************************************************)
(* The bounty contract as the API offers it: deploy-contracts.sh stores    *)
(* and instantiates the contract, the backend looks its address up while   *)
(* it starts and sends what its bounty endpoints are asked to, all with    *)
(* one account; other users call the contract directly.                    *)
(*                                                                         *)
(* Script and backend know nothing of each other.  Both sign with the      *)
(* account's committed sequence number, so one transaction of the account  *)
(* is pending at a time (OnePending, checked in ApiBackend) and a second   *)
(* is refused until the next block.  Every call to the node may fail; how  *)
(* often is a bound.                                                       *)
(***************************************************************************)
EXTENDS TaskBounty, Sequences

CONSTANTS
    Admin,          \* the account of the script and of the backend
    Request,        \* POST requests
    NotACoin,       \* an amount and a denomination that are no coin
    NoAnswer,       \* an error instead of the data asked for
    DeployFee,      \* the fee percentage the script instantiates with
    WaitTries,      \* maxRetries of waitForReady
    LookupTries,    \* how often the address is looked up
    MaxFailures,    \* bound: calls to the node that fail
    MaxSlow,        \* bound: commands of the script that come before the block
    MaxScripts,     \* bound: runs of the script
    MaxStarts       \* bound: starts of the backend

ASSUME AdminAssumption  == Admin \in Account /\ NotACoin \notin Funds
ASSUME DeployAssumption == DeployFee \in 0 .. 100 /\ {WaitTries, LookupTries} \subseteq Nat \ {0}
ASSUME AnswerAssumption == NoAnswer \notin Bounty

VARIABLES
    codes,          \* wasm codes stored on the chain: ids 1 .. codes
    instances,      \* contracts instantiated from code 1; the first is TaskBounty's
    pending,        \* the account's transaction in the mempool, if there is one
    script,         \* where deploy-contracts.sh is
    backend,        \* where main is
    tries,          \* the loop counter of main, or of waitForReady
    contractAddr,   \* which of the contracts the backend calls, NoAddr if none
    reply,          \* what each request was answered
    failures, slow, scripts, starts

apiVars   == <<pending, script, backend, tries, contractAddr, reply>>
chainVars == <<codes, instances, vars>>
bounds    == <<failures, slow, scripts, starts>>
allVars   == <<chainVars, apiVars, bounds>>

NoAddr  == 0
NoCoins == [d \in Denom |-> 0]

\* What the script and the claims ask of the contract is among what it may be asked.
ASSUME AskedAssumption == NoCoins \in Funds /\ DeployFee \in FeePct

\* A call to the node fails.
CallFails == failures < MaxFailures /\ failures' = failures + 1

CallWorks == UNCHANGED failures

-----------------------------------------------------------------------------
(* main.go                                                                  *)

StartBackend ==
    /\ backend = "down" /\ starts < MaxStarts
    /\ backend' = "chain" /\ tries' = 0 /\ starts' = starts + 1
    /\ UNCHANGED <<chainVars, pending, script, contractAddr, reply, failures, slow, scripts>>

\* The process ends, and with it what it knew.
StopBackend ==
    /\ backend # "down" /\ starts < MaxStarts
    /\ backend' = "down" /\ tries' = 0 /\ contractAddr' = NoAddr
    /\ UNCHANGED <<chainVars, pending, script, reply, bounds>>

\* Mutant: after the last try the waiting begins anew.
waitUntilReady(service, next) ==
    /\ backend = service
    /\ \/ backend' = next /\ tries' = 0
       \/ tries' = (tries + 1) % WaitTries /\ UNCHANGED backend
    /\ UNCHANGED <<chainVars, pending, script, contractAddr, reply, bounds>>

\* The service answers, or the last try is over and main goes on regardless; or
\* it does not answer, now or ever.
waitForReady(service, next) ==
    /\ backend = service
    /\ \/ backend' = next /\ tries' = 0
       \/ tries + 1 < WaitTries /\ tries' = tries + 1 /\ UNCHANGED backend
    /\ UNCHANGED <<chainVars, pending, script, contractAddr, reply, bounds>>

\* Contracts are listed in the order of their creation.
ResolveContractByCodeID == CallWorks /\ instances > 0 /\ contractAddr' = 1

NotResolved == (CallFails \/ (CallWorks /\ instances = 0)) /\ UNCHANGED contractAddr

\* Mutant: the first error ends the loop.
LookupOnce ==
    /\ backend = "resolve"
    /\ ResolveContractByCodeID \/ NotResolved
    /\ backend' = "serving" /\ tries' = 0
    /\ UNCHANGED <<chainVars, pending, script, reply, slow, scripts, starts>>

\* One round of main's loop; after the last one the bounty endpoints are served
\* without an address.
Lookup ==
    /\ backend = "resolve"
    /\ \/ ResolveContractByCodeID /\ backend' = "serving" /\ tries' = 0
       \/ NotResolved /\ tries + 1 = LookupTries /\ backend' = "serving" /\ tries' = 0
       \/ NotResolved /\ tries + 1 < LookupTries /\ tries' = tries + 1 /\ UNCHANGED backend
    /\ UNCHANGED <<chainVars, pending, script, reply, slow, scripts, starts>>

-----------------------------------------------------------------------------
(* The endpoints.                                                           *)

\* broadcastMsg: a message without a contract address does not pass CheckTx, nor
\* does one signed while another is pending.
Accepted == contractAddr # NoAddr /\ pending = <<>>

broadcastMsg(r, msg) ==
    \/ /\ Accepted
       /\ pending' = <<msg>>
       /\ \/ CallWorks /\ reply' = [reply EXCEPT ![r] = "ok"]
          \/ CallFails /\ reply' = [reply EXCEPT ![r] = "error"]
    \/ /\ (~Accepted /\ CallWorks) \/ CallFails
       /\ reply' = [reply EXCEPT ![r] = "error"]
       /\ UNCHANGED pending

Serving(r) == backend = "serving" /\ reply[r] = "none"

postFund(r, id, coins) ==
    /\ Serving(r)
    /\ IF coins = NotACoin
       THEN reply' = [reply EXCEPT ![r] = "error"] /\ UNCHANGED <<pending, failures>>
       ELSE broadcastMsg(r, [type |-> "fund", id |-> id, coins |-> coins])
    /\ UNCHANGED <<chainVars, script, backend, tries, contractAddr, slow, scripts, starts>>

postClaim(r, id) ==
    /\ Serving(r)
    /\ broadcastMsg(r, [type |-> "claim", id |-> id])
    /\ UNCHANGED <<chainVars, script, backend, tries, contractAddr, slow, scripts, starts>>

\* A query without an address fails.
queryContract(answer) == IF contractAddr = NoAddr THEN NoAnswer ELSE answer

getBounty(id) == queryContract(IF id \in DOMAIN bounties THEN bounties[id] ELSE NoAnswer)

\* Mutant: an absent start_after is sent as 0.
getBountiesFrom0 == queryContract(ListBounties(0, None))

\* Neither a limit nor a start is sent.
getBounties == queryContract(ListBounties(None, None))

getConfig == queryContract(config)

-----------------------------------------------------------------------------
(* deploy-contracts.sh: set -e ends it at the first command that fails.      *)

StartScript ==
    /\ script = "idle" /\ scripts < MaxScripts
    /\ script' = "store" /\ scripts' = scripts + 1
    /\ UNCHANGED <<chainVars, pending, backend, tries, contractAddr, reply, failures, slow, starts>>

\* A transaction of the script.  --gas auto simulates it first, and that fails
\* while another transaction of the account is pending.
Submit(msg, next) ==
    /\ \/ pending = <<>> /\ CallWorks /\ pending' = <<msg>> /\ script' = next /\ UNCHANGED slow
       \/ /\ pending # <<>> /\ slow < MaxSlow /\ slow' = slow + 1
          /\ CallWorks /\ script' = "idle" /\ UNCHANGED pending
       \/ CallFails /\ script' = "idle" /\ UNCHANGED <<pending, slow>>
    /\ UNCHANGED <<chainVars, backend, tries, contractAddr, reply, scripts, starts>>

\* Mutant: the script ends when the code is there already.
StoreOnce ==
    /\ script = "store"
    /\ \/ codes = 0 /\ Submit([type |-> "store"], "sleep")
       \/ /\ codes > 0 /\ script' = "idle"
          /\ UNCHANGED <<chainVars, pending, backend, tries, contractAddr, reply, bounds>>

StoreCode == script = "store" /\ Submit([type |-> "store"], "sleep")

\* The sleep is over, whether the block was there in time or not.
Wake ==
    /\ script = "sleep" /\ script' = "instantiate"
    /\ UNCHANGED <<chainVars, pending, backend, tries, contractAddr, reply, bounds>>

\* CODE_ID=1, whichever code this run stored.
InstantiateContract == script = "instantiate" /\ Submit([type |-> "instantiate"], "idle")

-----------------------------------------------------------------------------
(* The chain.                                                               *)

\* The pending transaction as a step of the contract.
ContractCall(msg) ==
    \/ msg.type = "fund"  /\ FundBounty(Admin, msg.coins, msg.id)
    \/ msg.type = "claim" /\ ClaimBounty(Admin, NoCoins, msg.id)

Block ==
    /\ pending # <<>>
    /\ LET msg == Head(pending)
       IN  \/ /\ msg.type = "store"
              /\ codes' = codes + 1
              /\ UNCHANGED <<instances, vars>>
           \/ /\ msg.type = "instantiate"
              /\ instances' = instances + 1
              /\ IF instances = 0 THEN Instantiate(Admin, Admin, DeployFee) ELSE UNCHANGED vars
              /\ UNCHANGED codes
           \/ /\ ContractCall(msg) \/ (~ENABLED ContractCall(msg) /\ UNCHANGED vars)
              /\ msg.type \in {"fund", "claim"}
              /\ UNCHANGED <<codes, instances>>
    /\ pending' = <<>>
    /\ UNCHANGED <<script, backend, tries, contractAddr, reply, bounds>>

\* Other accounts call the contract themselves.
DirectCall ==
    /\ \E user \in Account \ {Admin}, id \in TaskId :
           \/ \E coins \in Funds : FundBounty(user, coins, id)
           \/ ClaimBounty(user, NoCoins, id)
    /\ UNCHANGED <<codes, instances, apiVars, bounds>>

-----------------------------------------------------------------------------
BackendInit ==
    /\ Init
    /\ codes = 0 /\ instances = 0 /\ pending = <<>> /\ script = "idle"
    /\ backend = "down" /\ tries = 0 /\ contractAddr = NoAddr
    /\ reply = [r \in Request |-> "none"]
    /\ failures = 0 /\ slow = 0 /\ scripts = 0 /\ starts = 0

WaitForChain   == waitForReady("chain", "kvstore")
WaitForKVStore == waitForReady("kvstore", "resolve")

Main == StartBackend \/ WaitForChain \/ WaitForKVStore \/ Lookup

DeployContracts == StoreCode \/ Wake \/ InstantiateContract

BackendNext ==
    \/ Main \/ StopBackend
    \/ StartScript \/ DeployContracts
    \/ \E r \in Request, id \in TaskId :
           \/ \E coins \in Funds \cup {NotACoin} : postFund(r, id, coins)
           \/ postClaim(r, id)
    \/ Block \/ DirectCall

\* main and the script run on, blocks are made, and who deploys runs the script
\* again until there is a contract.
BackendSpec ==
    /\ BackendInit /\ [][BackendNext]_allVars
    /\ WF_allVars(Main) /\ WF_allVars(DeployContracts) /\ WF_allVars(Block)
    /\ WF_allVars(StartScript /\ instances = 0)

-----------------------------------------------------------------------------
(* Properties.                                                              *)

\* With the messages the API offers, which change neither fee nor multiplier, the
\* contract's account holds what open bounties lock to the coin: claims leave no
\* dust behind and take nothing of another bounty (execute_claim_bounty).
ExactlyLocked == \A d \in Denom : balance[Contract][d] = Locked(d)

Served == {getBounties[i] : i \in 1 .. Len(getBounties)}

\* GET /api/bounties shows every bounty as long as the contract's default page
\* holds them, and the lowest ids beyond that; what it leaves out can still be
\* asked for one by one (ListBounties and GetBounty of chain.go).
ListingComplete ==
    contractAddr # NoAddr =>
        /\ getConfig # NoConfig
        /\ Cardinality(DOMAIN bounties) <= DefaultLimit => Served = DOMAIN bounties
        /\ \A id \in DOMAIN bounties \ Served :
               /\ Cardinality(Served) = DefaultLimit
               /\ \A shown \in Served : shown < id
        /\ \A id \in DOMAIN bounties : getBounty(id) # NoAnswer

\* However many services fail to answer, main ends its waiting and serves, unless
\* it is stopped first (waitForReady and the lookup in main.go).
StartUpEnds == backend = "chain" ~> backend \in {"serving", "down"}

\* A backend that begins its lookup when the contract is there finds it, at this
\* start or a later one, though calls fail, fewer than the lookup has tries.
LookupFinds ==
    (backend = "resolve" /\ tries = 0 /\ instances > 0) ~> contractAddr # NoAddr

\* A script run cut short at any command does not spoil the next: run again more
\* often than it is disturbed, the script leaves a contract of code 1.
DeployConverges == <>(instances > 0)
=============================================================================
