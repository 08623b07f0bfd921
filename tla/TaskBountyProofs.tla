-------------------------- MODULE TaskBountyProofs --------------------------
(***************************************************************************)
(* The bounty contract for all accounts, coins and fees: types, finality   *)
(* of claims, the only way out for the contract's coins, solvency,         *)
(* claimability, and the pages of the listing.                             *)
(***************************************************************************)
EXTENDS TaskBounty, NatOrder, TLAPS
LOCAL INSTANCE SequencesExt

Holder   == Account \cup {Contract}
Coins    == [Denom -> Nat]
Balances == [Holder -> Coins]

-----------------------------------------------------------------------------
(* Numbers.                                                                 *)

\* Dividing by 100 rounds down.
LEMMA DivBounds ==
    ASSUME NEW x \in Nat
    PROVE  x \div 100 \in Nat /\ 100 * (x \div 100) <= x
  OBVIOUS

\* A share of at most 100 % is at most the whole.
LEMMA ShareBounds ==
    ASSUME NEW g \in Nat, NEW p \in Nat, p <= 100
    PROVE  (g * p) \div 100 \in 0 .. g
<1>1. g * p \in Nat /\ g * p <= g * 100
    OBVIOUS
<1>2. DEFINE q == (g * p) \div 100
<1>3. q \in Nat /\ 100 * q <= g * p
    BY <1>1, DivBounds
<1> HIDE DEF q
<1>4. 100 * q <= 100 * g
    BY <1>1, <1>3
<1>5. q <= g
    BY <1>3, <1>4
<1> QED BY <1>3, <1>5 DEF q

\* The gross amount of a bounty.
LEMMA GrossType ==
    ASSUME NEW bounty \in Bounty
    PROVE  Gross(bounty) \in Nat
<1>1. bounty.amount \in Nat /\ bounty.multiplier_pct \in Nat
    BY DEF Bounty
<1>2. bounty.amount * bounty.multiplier_pct \in Nat
    BY <1>1
<1> QED BY <1>2, DivBounds DEF Gross

\* Fee and net amount divide the gross amount.
LEMMA PayoutSplit ==
    ASSUME TypeOK, config # NoConfig, NEW bounty \in Bounty
    PROVE  /\ Fee(bounty) \in Nat /\ Net(bounty) \in Nat /\ Gross(bounty) \in Nat
           /\ Net(bounty) + Fee(bounty) = Gross(bounty)
<1>1. config.fee_pct \in Nat /\ config.fee_pct <= 100
    BY DEF TypeOK, Config
<1>2. Gross(bounty) \in Nat
    BY GrossType
<1>3. Fee(bounty) \in 0 .. Gross(bounty)
    BY <1>1, <1>2, ShareBounds DEF Fee
<1> QED BY <1>2, <1>3 DEF Net

-----------------------------------------------------------------------------
(* Sums over finite sets.                                                   *)

Picked(s) == CHOOSE x \in s : TRUE

\* g sums f over every subset of S, one picked element after the other.
Sums(g, f, S) ==
    g = [s \in SUBSET S |-> IF s = {} THEN 0 ELSE f[Picked(s)] + g[s \ {Picked(s)}]]

\* What holds of a set when it holds of the set without any one element holds of all.
LEMMA ElementSteps ==
    ASSUME NEW S, IsFiniteSet(S), NEW P,
           \A s \in SUBSET S : (\A x \in s : s \ {x} \in P) => s \in P
    PROVE  \A s \in SUBSET S : s \in P
<1> SUFFICES ASSUME NEW s0 \in SUBSET S, s0 \notin P PROVE FALSE
    OBVIOUS
<1> DEFINE Sizes == {Cardinality(s) : s \in (SUBSET S) \ P}
<1>1. \A s \in SUBSET S : IsFiniteSet(s) /\ Cardinality(s) \in Nat
    BY FS_Subset, FS_CardinalityType
<1>2. Sizes \subseteq Nat /\ Sizes # {}
    BY <1>1
<1>3. PICK n \in Sizes : \A m \in Sizes : n <= m
    <2> HIDE DEF Sizes
    <2> QED BY <1>2, NatMin
<1>4. PICK s \in (SUBSET S) \ P : Cardinality(s) = n
    OBVIOUS
<1>5. PICK x \in s : s \ {x} \notin P
    BY <1>4
<1>6. Cardinality(s \ {x}) = n - 1
    BY <1>1, <1>4, <1>5, FS_RemoveElement
<1>7. n - 1 \in Sizes
    BY <1>4, <1>5, <1>6
<1>8. n \in Nat /\ n <= n - 1
    <2> HIDE DEF Sizes
    <2> QED BY <1>2, <1>3, <1>7
<1> QED BY <1>8

\* A finite set's subsets have their sums.
LEMMA SumsExist ==
    ASSUME NEW S, IsFiniteSet(S), NEW f
    PROVE  \E g : Sums(g, f, S)
<1> DEFINE Body(g, s) == IF s = {} THEN 0 ELSE f[Picked(s)] + g[s \ {Picked(s)}]
           Upto(n, g) == \A s \in SUBSET S : Cardinality(s) <= n => g[s] = Body(g, s)
           Sizes == {n \in Nat : \E g : Upto(n, g)}
<1>1. \A s \in SUBSET S : IsFiniteSet(s) /\ Cardinality(s) \in Nat
    BY FS_Subset, FS_CardinalityType
<1>2. \A s \in SUBSET S : s # {} =>
          s \ {Picked(s)} \in SUBSET S /\ Cardinality(s \ {Picked(s)}) = Cardinality(s) - 1
    <2> SUFFICES ASSUME NEW s \in SUBSET S, s # {}
                 PROVE  s \ {Picked(s)} \in SUBSET S
                        /\ Cardinality(s \ {Picked(s)}) = Cardinality(s) - 1
        OBVIOUS
    <2>1. Picked(s) \in s
        BY DEF Picked
    <2> QED BY <1>1, <2>1, FS_RemoveElement
<1>3. 0 \in Sizes
    <2> DEFINE zero == [s \in SUBSET S |-> 0]
    <2>1. \A s \in SUBSET S : Cardinality(s) <= 0 => s = {}
        BY <1>1, FS_EmptySet
    <2>2. Upto(0, zero)
        BY <2>1
    <2> QED BY <2>2
<1>4. ASSUME NEW n \in Nat, n \in Sizes PROVE n + 1 \in Sizes
    <2>1. PICK g : Upto(n, g)
        BY <1>4
    <2> DEFINE h == [s \in SUBSET S |-> IF Cardinality(s) <= n THEN g[s] ELSE Body(g, s)]
    <2>2. ASSUME NEW s \in SUBSET S, Cardinality(s) <= n + 1 PROVE h[s] = Body(h, s)
        <3>1. h[s] = Body(g, s)
            BY <2>1
        <3>2. s # {} => h[s \ {Picked(s)}] = g[s \ {Picked(s)}]
            BY <1>1, <1>2, <2>2
        <3> QED BY <3>1, <3>2
    <2>3. Upto(n + 1, h)
        <3> HIDE DEF h
        <3> QED BY <2>2
    <2>4. \E e : Upto(n + 1, e)
        <3> HIDE DEF h, Upto
        <3> QED BY <2>3
    <2> HIDE DEF Upto
    <2> QED BY <2>4
<1>5. Cardinality(S) \in Sizes
    <2> HIDE DEF Sizes
    <2>1. Nat \subseteq Sizes
        BY <1>3, <1>4, NatSteps
    <2> QED BY <2>1, <1>1
<1>6. PICK g : Upto(Cardinality(S), g)
    BY <1>5
<1>7. \A s \in SUBSET S : g[s] = Body(g, s)
    BY <1>6, FS_Subset
<1> DEFINE h == [s \in SUBSET S |-> g[s]]
<1>8. ASSUME NEW s \in SUBSET S PROVE h[s] = Body(h, s)
    BY <1>2, <1>7
<1>9. h = [s \in SUBSET S |-> Body(h, s)]
    <2>1. h = [s \in SUBSET S |-> h[s]]
        OBVIOUS
    <2> HIDE DEF h
    <2> QED BY <1>8, <2>1
<1>10. Sums(h, f, S)
    <2> HIDE DEF h
    <2> QED BY <1>9 DEF Sums
<1> QED BY <1>10

\* Sums of numbers are numbers.
LEMMA SumsType ==
    ASSUME NEW S, IsFiniteSet(S), NEW f, \A x \in S : f[x] \in Int, NEW g, Sums(g, f, S)
    PROVE  \A s \in SUBSET S : g[s] \in Int
<1> DEFINE P == {s \in SUBSET S : g[s] \in Int}
<1>1. ASSUME NEW s \in SUBSET S, \A x \in s : s \ {x} \in P
      PROVE  g[s] \in Int
    <2>1. CASE s = {}
        BY <2>1 DEF Sums
    <2>2. CASE s # {}
        <3>1. Picked(s) \in s
            BY <2>2 DEF Picked
        <3>2. g[s] = f[Picked(s)] + g[s \ {Picked(s)}]
            BY <2>2 DEF Sums
        <3>3. g[s \ {Picked(s)}] \in Int
            BY <1>1, <3>1
        <3> QED BY <3>1, <3>2, <3>3
    <2> QED BY <2>1, <2>2
<1>2. \A s \in SUBSET S : (\A x \in s : s \ {x} \in P) => s \in P
    BY <1>1
<1>3. \A s \in SUBSET S : s \in P
    <2> HIDE DEF P
    <2> QED BY <1>2, ElementSteps
<1> QED BY <1>3

\* The order in which elements are picked does not matter.
LEMMA SumsTake ==
    ASSUME NEW S, IsFiniteSet(S), NEW f, \A x \in S : f[x] \in Int, NEW g, Sums(g, f, S)
    PROVE  \A s \in SUBSET S : \A x \in s : g[s] = f[x] + g[s \ {x}]
<1> DEFINE P == {s \in SUBSET S : \A x \in s : g[s] = f[x] + g[s \ {x}]}
<1>1. ASSUME NEW s \in SUBSET S, \A x \in s : s \ {x} \in P, NEW x \in s
      PROVE  g[s] = f[x] + g[s \ {x}]
    <2> DEFINE c == Picked(s)
    <2>1. c \in s
        BY DEF Picked
    <2>2. g[s] = f[c] + g[s \ {c}]
        BY DEF Sums
    <2> HIDE DEF c
    <2>3. CASE x = c
        BY <2>2, <2>3
    <2>4. CASE x # c
        <3>1. g[s \ {c}] = f[x] + g[(s \ {c}) \ {x}]
            BY <1>1, <2>1, <2>4
        <3>2. g[s \ {x}] = f[c] + g[(s \ {x}) \ {c}]
            BY <1>1, <2>1, <2>4
        <3>3. (s \ {c}) \ {x} = (s \ {x}) \ {c} /\ (s \ {x}) \ {c} \in SUBSET S
            OBVIOUS
        <3> DEFINE others == g[(s \ {x}) \ {c}]
        <3>4. others \in Int /\ f[x] \in Int /\ f[c] \in Int
            BY <2>1, <3>3, SumsType
        <3>5. g[s] = f[c] + (f[x] + others) /\ g[s \ {x}] = f[c] + others
            BY <2>2, <3>1, <3>2, <3>3
        <3> HIDE DEF others
        <3> QED BY <3>4, <3>5
    <2> QED BY <2>3, <2>4
<1>2. \A s \in SUBSET S : (\A x \in s : s \ {x} \in P) => s \in P
    BY <1>1
<1>3. \A s \in SUBSET S : s \in P
    <2> HIDE DEF P
    <2> QED BY <1>2, ElementSteps
<1> QED BY <1>3

\* Sums over two sets agree where their functions do.
LEMMA SumsAgree ==
    ASSUME NEW S, IsFiniteSet(S), NEW T, NEW f, NEW e, NEW g, NEW h,
           Sums(g, f, S), Sums(h, e, T)
    PROVE  \A s \in SUBSET S :
               s \subseteq T /\ (\A x \in s : f[x] = e[x]) => g[s] = h[s]
<1> DEFINE P == {s \in SUBSET S : s \subseteq T /\ (\A x \in s : f[x] = e[x]) => g[s] = h[s]}
<1>1. ASSUME NEW s \in SUBSET S, \A x \in s : s \ {x} \in P,
             s \subseteq T, \A x \in s : f[x] = e[x]
      PROVE  g[s] = h[s]
    <2>1. CASE s = {}
        BY <2>1 DEF Sums
    <2>2. CASE s # {}
        <3>1. Picked(s) \in s
            BY <2>2 DEF Picked
        <3>2. g[s \ {Picked(s)}] = h[s \ {Picked(s)}]
            BY <1>1, <3>1
        <3>3. /\ g[s] = f[Picked(s)] + g[s \ {Picked(s)}]
              /\ h[s] = e[Picked(s)] + h[s \ {Picked(s)}]
            BY <1>1, <2>2 DEF Sums
        <3> QED BY <1>1, <3>1, <3>2, <3>3
    <2> QED BY <2>1, <2>2
<1>2. \A s \in SUBSET S : (\A x \in s : s \ {x} \in P) => s \in P
    BY <1>1
<1>3. \A s \in SUBSET S : s \in P
    <2> HIDE DEF P
    <2> QED BY <1>2, ElementSteps
<1> QED BY <1>3

\* The library's sum is the one of its set.
LEMMA SumIs ==
    ASSUME NEW S, IsFiniteSet(S), NEW f
    PROVE  \E g : Sums(g, f, S) /\ SumFunctionOnSet(f, S) = g[S]
<1> DEFINE G == CHOOSE g : Sums(g, f, S)
<1>1. Sums(G, f, S)
    BY SumsExist
<1>2. SumFunctionOnSet(f, S) = G[S]
    BY Zenon DEF SumFunctionOnSet, FoldFunctionOnSet, MapThenFoldSet, Sums, Picked
<1> QED BY <1>1, <1>2

\* A sum is its value for one element and the sum of the others.
LEMMA SumTake ==
    ASSUME NEW S, IsFiniteSet(S), NEW f, \A y \in S : f[y] \in Int, NEW x \in S
    PROVE  /\ SumFunctionOnSet(f, S) = f[x] + SumFunctionOnSet(f, S \ {x})
           /\ SumFunctionOnSet(f, S \ {x}) \in Int
<1>1. PICK g : Sums(g, f, S) /\ SumFunctionOnSet(f, S) = g[S]
    BY SumIs
<1>2. IsFiniteSet(S \ {x})
    BY FS_RemoveElement
<1>3. PICK h : Sums(h, f, S \ {x}) /\ SumFunctionOnSet(f, S \ {x}) = h[S \ {x}]
    BY <1>2, SumIs
<1>4. h[S \ {x}] = g[S \ {x}]
    BY <1>1, <1>2, <1>3, SumsAgree
<1>5. S \in SUBSET S /\ S \ {x} \in SUBSET S
    OBVIOUS
<1>6. g[S] = f[x] + g[S \ {x}]
    BY <1>1, <1>5, SumsTake
<1>7. g[S \ {x}] \in Int
    BY <1>1, <1>5, SumsType
<1> QED BY <1>1, <1>3, <1>4, <1>6, <1>7

\* Functions that agree on a set have one sum over it.
LEMMA SumAgree ==
    ASSUME NEW S, IsFiniteSet(S), NEW f, NEW e, \A x \in S : f[x] = e[x]
    PROVE  SumFunctionOnSet(f, S) = SumFunctionOnSet(e, S)
<1>1. PICK g : Sums(g, f, S) /\ SumFunctionOnSet(f, S) = g[S]
    BY SumIs
<1>2. PICK h : Sums(h, e, S) /\ SumFunctionOnSet(e, S) = h[S]
    BY SumIs
<1> QED BY <1>1, <1>2, SumsAgree

\* Nothing sums to 0, and naturals to a natural no smaller than any of them.
LEMMA SumNat ==
    ASSUME NEW S, IsFiniteSet(S), NEW f, \A x \in S : f[x] \in Nat
    PROVE  /\ S = {} => SumFunctionOnSet(f, S) = 0
           /\ SumFunctionOnSet(f, S) \in Nat
           /\ \A x \in S : f[x] <= SumFunctionOnSet(f, S)
<1> DEFINE P == {s \in SUBSET S : SumFunctionOnSet(f, s) \in Nat}
<1>1. \A s \in SUBSET S : IsFiniteSet(s)
    BY FS_Subset
<1>2. SumFunctionOnSet(f, {}) = 0
    BY FS_EmptySet, SumIs DEF Sums
<1>3. ASSUME NEW s \in SUBSET S, \A x \in s : s \ {x} \in P
      PROVE  SumFunctionOnSet(f, s) \in Nat
    <2>1. CASE s = {}
        BY <1>2, <2>1
    <2>2. CASE s # {}
        <3>1. PICK x \in s : TRUE
            BY <2>2
        <3>2. SumFunctionOnSet(f, s) = f[x] + SumFunctionOnSet(f, s \ {x})
            BY <1>1, SumTake
        <3> QED BY <1>3, <3>2
    <2> QED BY <2>1, <2>2
<1>4. \A s \in SUBSET S : s \in P
    <2>1. \A s \in SUBSET S : (\A x \in s : s \ {x} \in P) => s \in P
        BY <1>3
    <2> HIDE DEF P
    <2> QED BY <2>1, ElementSteps
<1>5. ASSUME NEW x \in S PROVE f[x] <= SumFunctionOnSet(f, S)
    <2>1. SumFunctionOnSet(f, S) = f[x] + SumFunctionOnSet(f, S \ {x})
        BY SumTake
    <2>2. SumFunctionOnSet(f, S \ {x}) \in Nat
        BY <1>4
    <2> QED BY <2>1, <2>2
<1> QED BY <1>2, <1>4, <1>5

-----------------------------------------------------------------------------
(* The bank.                                                                *)

\* What a transfer between two accounts does to every balance.
LEMMA SendIs ==
    ASSUME NEW b \in Balances, NEW from \in Holder, NEW to \in Holder, from # to,
           NEW coins \in Coins, Covers(b, from, coins)
    PROVE  /\ Send(b, from, to, coins) \in Balances
           /\ \A d \in Denom :
                  /\ Send(b, from, to, coins)[from][d] = b[from][d] - coins[d]
                  /\ Send(b, from, to, coins)[to][d] = b[to][d] + coins[d]
           /\ \A who \in Holder \ {from, to} : Send(b, from, to, coins)[who] = b[who]
<1> DEFINE less == [d \in Denom |-> b[from][d] - coins[d]]
           more == [d \in Denom |-> b[to][d] + coins[d]]
<1>1. b[from] \in Coins /\ b[to] \in Coins /\ DOMAIN b = Holder
    BY DEF Balances
<1>2. less \in Coins /\ more \in Coins
    BY <1>1 DEF Coins, Covers
<1>3. Send(b, from, to, coins) = [[b EXCEPT ![from] = less] EXCEPT ![to] = more]
    BY <1>1 DEF Send
<1>4. /\ Send(b, from, to, coins)[from] = less
      /\ Send(b, from, to, coins)[to] = more
      /\ \A who \in Holder \ {from, to} : Send(b, from, to, coins)[who] = b[who]
      /\ DOMAIN Send(b, from, to, coins) = Holder
    <2> HIDE DEF less, more
    <2> QED BY <1>1, <1>3
<1>5. Send(b, from, to, coins) \in Balances
    <2>1. Send(b, from, to, coins) =
              [who \in Holder |-> Send(b, from, to, coins)[who]]
        BY <1>3, <1>1, <1>4
    <2>2. \A who \in Holder : Send(b, from, to, coins)[who] \in Coins
        BY <1>2, <1>4 DEF Balances
    <2> QED BY <2>1, <2>2 DEF Balances
<1> QED BY <1>4, <1>5

\* Coins of one denomination.
LEMMA CoinType ==
    ASSUME NEW denom \in Denom, NEW n \in Nat
    PROVE  Coin(denom, n) \in Coins
  BY DEF Coin, Coins

\* The coins a message carries are in the contract's account before it runs.
LEMMA AttachIs ==
    ASSUME TypeOK, NEW sender \in Account, NEW coins \in Funds, Execute(sender, coins)
    PROVE  /\ Attach(sender, coins) \in Balances
           /\ \A d \in Denom :
                  Attach(sender, coins)[Contract][d] = balance[Contract][d] + coins[d]
           /\ coins \in Coins
<1>1. balance \in Balances /\ coins \in Coins /\ Covers(balance, sender, coins)
    BY CoinAssumption DEF TypeOK, Balances, Coins, Holder, Execute
<1>2. sender \in Holder /\ Contract \in Holder /\ sender # Contract
    BY ContractAssumption DEF Holder
<1> QED BY <1>1, <1>2, SendIs DEF Attach

\* A payout takes the gross amount, and nothing of another denomination.
LEMMA PayIs ==
    ASSUME TypeOK, config # NoConfig, NEW b \in Balances, NEW bounty \in Bounty,
           NEW claimer \in Account, CanPay(b, bounty)
    PROVE  /\ Pay(b, bounty, claimer) \in Balances
           /\ \A d \in Denom :
                  Pay(b, bounty, claimer)[Contract][d] =
                      b[Contract][d] - IF d = bounty.denom THEN Gross(bounty) ELSE 0
<1> DEFINE net  == Coin(bounty.denom, Net(bounty))
           fee  == Coin(bounty.denom, Fee(bounty))
           paid == Send(b, Contract, claimer, net)
<1>1. /\ Fee(bounty) \in Nat /\ Net(bounty) \in Nat /\ Gross(bounty) \in Nat
      /\ Net(bounty) + Fee(bounty) = Gross(bounty)
    BY PayoutSplit
<1>2. bounty.denom \in Denom
    BY DEF Bounty
<1>3. config.fee_collector \in Account
    BY DEF TypeOK, Config
<1>4. /\ claimer \in Holder /\ Contract \in Holder /\ config.fee_collector \in Holder
      /\ claimer # Contract /\ config.fee_collector # Contract
    BY <1>3, ContractAssumption DEF Holder
<1>5. net \in Coins /\ fee \in Coins
    BY <1>1, <1>2, CoinType
<1>6. Covers(b, Contract, net)
    BY DEF CanPay, CanSend
<1>7. /\ paid \in Balances
      /\ \A d \in Denom : paid[Contract][d] = b[Contract][d] - net[d]
    BY <1>4, <1>5, <1>6, SendIs
<1>8. Covers(paid, Contract, fee)
    <2> SUFFICES ASSUME NEW d \in Denom PROVE paid[Contract][d] >= fee[d]
        BY DEF Covers
    <2>1. b[Contract][d] >= Coin(bounty.denom, Gross(bounty))[d]
        BY DEF CanPay, Covers
    <2>2. b[Contract][d] \in Nat
        BY <1>4 DEF Balances, Coins
    <2>3. paid[Contract][d] = b[Contract][d] - net[d]
        BY <1>7
    <2> QED BY <1>1, <2>1, <2>2, <2>3 DEF Coin
<1>9. /\ Pay(b, bounty, claimer) \in Balances
      /\ \A d \in Denom : Pay(b, bounty, claimer)[Contract][d] = paid[Contract][d] - fee[d]
    <2> HIDE DEF net, fee
    <2>1. Pay(b, bounty, claimer) = Send(paid, Contract, config.fee_collector, fee)
        BY DEF Pay, net, fee
    <2> HIDE DEF paid
    <2> QED BY <2>1, <1>4, <1>5, <1>7, <1>8, SendIs
<1>10. ASSUME NEW d \in Denom
       PROVE  Pay(b, bounty, claimer)[Contract][d] =
                  b[Contract][d] - IF d = bounty.denom THEN Gross(bounty) ELSE 0
    <2>1. b[Contract][d] \in Nat
        BY <1>4 DEF Balances, Coins
    <2>2. Pay(b, bounty, claimer)[Contract][d] = b[Contract][d] - net[d] - fee[d]
        BY <1>7, <1>9
    <2> QED BY <1>1, <2>1, <2>2 DEF Coin
<1> QED BY <1>9, <1>10

-----------------------------------------------------------------------------
(* Types.                                                                   *)

\* A funded bounty is one.
LEMMA FundedIs ==
    ASSUME TypeOK, NEW sender \in Account, NEW coins \in Funds, NEW id \in TaskId,
           FundBounty(sender, coins, id)
    PROVE  /\ DOMAIN bounties' = DOMAIN bounties \cup {id} /\ id \notin DOMAIN bounties
           /\ bounties'[id] \in Bounty
           /\ \A i \in DOMAIN bounties : bounties'[i] = bounties[i]
<1>1. PICK d \in Denoms(coins) :
          bounties' = [i \in DOMAIN bounties \cup {id} |->
              IF i = id
              THEN [funder |-> sender, amount |-> coins[d], denom |-> d,
                    multiplier_pct |-> 100, claimed |-> FALSE, claimer |-> NoClaimer]
              ELSE bounties[i]]
    BY DEF FundBounty
<1>2. id \notin DOMAIN bounties
    BY DEF FundBounty
<1>3. d \in Denom /\ coins[d] \in Nat
    BY CoinAssumption DEF Denoms
<1>4. [funder |-> sender, amount |-> coins[d], denom |-> d,
       multiplier_pct |-> 100, claimed |-> FALSE, claimer |-> NoClaimer] \in Bounty
    BY <1>3 DEF Bounty, NoClaimer
<1> QED BY <1>1, <1>2, <1>4

\* A claim pays an open bounty and marks it; nothing else happens to the bounties.
LEMMA ClaimedIs ==
    ASSUME TypeOK, NEW sender \in Account, NEW coins \in Funds, NEW id \in TaskId,
           ClaimBounty(sender, coins, id)
    PROVE  /\ id \in DOMAIN bounties /\ ~bounties[id].claimed
           /\ bounties[id] \in Bounty
           /\ DOMAIN bounties' = DOMAIN bounties
           /\ bounties'[id] = [bounties[id] EXCEPT !.claimed = TRUE, !.claimer = sender]
           /\ bounties'[id] \in Bounty
           /\ \A i \in DOMAIN bounties \ {id} : bounties'[i] = bounties[i]
<1>1. id \in DOMAIN bounties /\ ~bounties[id].claimed
    BY DEF ClaimBounty
<1>2. bounties[id] \in Bounty
    BY <1>1 DEF TypeOK
<1>3. bounties' = [bounties EXCEPT ![id].claimed = TRUE, ![id].claimer = sender]
    BY DEF ClaimBounty
<1>4. [bounties[id] EXCEPT !.claimed = TRUE, !.claimer = sender] \in Bounty
    BY <1>2 DEF Bounty
<1>5. /\ DOMAIN bounties' = DOMAIN bounties
      /\ \A i \in DOMAIN bounties \ {id} : bounties'[i] = bounties[i]
      /\ bounties'[id] = [bounties[id] EXCEPT !.claimed = TRUE, !.claimer = sender]
    BY <1>1, <1>3
<1> QED BY <1>1, <1>2, <1>4, <1>5

\* A bonus changes a multiplier and nothing else.
LEMMA BonusIs ==
    ASSUME TypeOK, NEW sender \in Account, NEW coins \in Funds, NEW id \in TaskId,
           NEW pct \in MultiplierPct, AddBonus(sender, coins, id, pct)
    PROVE  /\ id \in DOMAIN bounties /\ bounties[id] \in Bounty
           /\ DOMAIN bounties' = DOMAIN bounties
           /\ bounties'[id] = [bounties[id] EXCEPT !.multiplier_pct = pct]
           /\ bounties'[id] \in Bounty
           /\ \A i \in DOMAIN bounties \ {id} : bounties'[i] = bounties[i]
<1>1. id \in DOMAIN bounties /\ bounties' = [bounties EXCEPT ![id].multiplier_pct = pct]
    BY DEF AddBonus
<1>2. bounties[id] \in Bounty
    BY <1>1 DEF TypeOK
<1>3. [bounties[id] EXCEPT !.multiplier_pct = pct] \in Bounty
    BY <1>2, NumberAssumption DEF Bounty
<1> QED BY <1>1, <1>2, <1>3

\* What the balances are after a claim.
LEMMA ClaimPays ==
    ASSUME TypeOK, NEW sender \in Account, NEW coins \in Funds, NEW id \in TaskId,
           ClaimBounty(sender, coins, id)
    PROVE  /\ balance' \in Balances
           /\ \A d \in Denom :
                  balance'[Contract][d] = balance[Contract][d] + coins[d]
                      - IF d = bounties[id].denom THEN Gross(bounties[id]) ELSE 0
<1>1. bounties[id] \in Bounty
    BY ClaimedIs
<1>2. Execute(sender, coins) /\ config # NoConfig
    BY DEF ClaimBounty, Execute
<1>3. /\ Attach(sender, coins) \in Balances
      /\ \A d \in Denom :
             Attach(sender, coins)[Contract][d] = balance[Contract][d] + coins[d]
    BY <1>2, AttachIs
<1>4. /\ CanPay(Attach(sender, coins), bounties[id])
      /\ balance' = Pay(Attach(sender, coins), bounties[id], sender)
    BY DEF ClaimBounty
<1>5. /\ Pay(Attach(sender, coins), bounties[id], sender) \in Balances
      /\ \A d \in Denom :
             Pay(Attach(sender, coins), bounties[id], sender)[Contract][d] =
                 Attach(sender, coins)[Contract][d]
                     - IF d = bounties[id].denom THEN Gross(bounties[id]) ELSE 0
    BY <1>1, <1>2, <1>3, <1>4, PayIs
<1>6. balance' \in Balances
    BY <1>4, <1>5
<1>7. ASSUME NEW d \in Denom
      PROVE  balance'[Contract][d] = balance[Contract][d] + coins[d]
                 - IF d = bounties[id].denom THEN Gross(bounties[id]) ELSE 0
    <2> DEFINE attached == Attach(sender, coins)[Contract][d]
               paid     == IF d = bounties[id].denom THEN Gross(bounties[id]) ELSE 0
    <2>1. attached = balance[Contract][d] + coins[d]
        BY <1>3
    <2>2. balance'[Contract][d] = attached - paid
        BY <1>4, <1>5
    <2>3. /\ balance[Contract][d] \in Nat /\ coins[d] \in Nat
          /\ paid \in Nat
        BY <1>1, GrossType, CoinAssumption DEF TypeOK
    <2>4. balance'[Contract][d] = balance[Contract][d] + coins[d] - paid
        <3> HIDE DEF attached, paid
        <3> QED BY <2>1, <2>2, <2>3
    <2> QED BY <2>4
<1> QED BY <1>6, <1>7

\* TypeOK in parts.
LEMMA TypeParts ==
    TypeOK <=> /\ config \in {NoConfig} \cup Config
               /\ config # NoConfig => config.fee_pct <= 100
               /\ DOMAIN bounties \subseteq TaskId
               /\ \A id \in DOMAIN bounties : bounties[id] \in Bounty
               /\ balance \in Balances
  BY DEF TypeOK, Balances, Coins, Holder

\* TypeOK holds initially.
LEMMA TypeInit == Init => TypeOK
<1> SUFFICES ASSUME Init PROVE TypeOK
    OBVIOUS
<1>1. balance \in Balances
    BY CoinAssumption DEF Init, Balances, Coins, Holder
<1>2. DOMAIN bounties = {}
    BY DEF Init
<1> QED BY <1>1, <1>2, TypeParts DEF Init

\* Every message keeps TypeOK.
LEMMA TypeStep == TypeOK /\ [Next]_vars => TypeOK'
<1> SUFFICES ASSUME TypeOK, [Next]_vars PROVE TypeOK'
    OBVIOUS
<1> DEFINE ConfigOK == config \in {NoConfig} \cup Config
                       /\ (config # NoConfig => config.fee_pct <= 100)
           BountiesOK == DOMAIN bounties \subseteq TaskId
                         /\ (\A id \in DOMAIN bounties : bounties[id] \in Bounty)
           BalanceOK == balance \in Balances
<1>1. ConfigOK /\ BountiesOK /\ BalanceOK
    BY TypeParts
<1>2. CASE UNCHANGED vars
    BY <1>1, <1>2 DEF vars, TypeOK, Balances, Coins, Holder
<1>3. CASE Next
    <2> PICK sender \in Account, coins \in Funds :
            \/ \E collector \in Account, pct \in FeePct : Instantiate(sender, collector, pct)
            \/ \E id \in TaskId : FundBounty(sender, coins, id)
            \/ \E id \in TaskId : ClaimBounty(sender, coins, id)
            \/ \E pct \in FeePct : UpdateFee(sender, coins, pct)
            \/ \E id \in TaskId, pct \in MultiplierPct : AddBonus(sender, coins, id, pct)
        BY <1>3 DEF Next
    <2>1. ASSUME NEW collector \in Account, NEW pct \in FeePct,
                 Instantiate(sender, collector, pct)
          PROVE  ConfigOK' /\ BountiesOK' /\ BalanceOK'
        BY <1>1, <2>1, NumberAssumption DEF Instantiate, Config, Balances, Coins, Holder
    <2>2. ASSUME NEW id \in TaskId, FundBounty(sender, coins, id)
          PROVE  ConfigOK' /\ BountiesOK' /\ BalanceOK'
        <3>1. ConfigOK'
            BY <1>1, <2>2 DEF FundBounty, Config
        <3>2. BountiesOK'
            BY <1>1, <2>2, FundedIs DEF Bounty
        <3>3. balance' = Attach(sender, coins) /\ Execute(sender, coins)
            BY <2>2 DEF FundBounty
        <3>4. BalanceOK'
            BY <3>3, AttachIs DEF Balances, Coins, Holder
        <3> QED BY <3>1, <3>2, <3>4
    <2>3. ASSUME NEW id \in TaskId, ClaimBounty(sender, coins, id)
          PROVE  ConfigOK' /\ BountiesOK' /\ BalanceOK'
        <3>1. ConfigOK'
            BY <1>1, <2>3 DEF ClaimBounty, Config
        <3>2. BountiesOK'
            BY <1>1, <2>3, ClaimedIs DEF Bounty
        <3>3. BalanceOK'
            BY <2>3, ClaimPays DEF Balances, Coins, Holder
        <3> QED BY <3>1, <3>2, <3>3
    <2>4. ASSUME NEW pct \in FeePct, UpdateFee(sender, coins, pct)
          PROVE  ConfigOK' /\ BountiesOK' /\ BalanceOK'
        <3>1. config # NoConfig /\ config' = [config EXCEPT !.fee_pct = pct] /\ pct <= 100
            BY <2>4 DEF UpdateFee, Execute
        <3>2. config' \in Config /\ config'.fee_pct <= 100
            BY <1>1, <3>1, NumberAssumption DEF Config
        <3>3. balance' = Attach(sender, coins) /\ Execute(sender, coins)
            BY <2>4 DEF UpdateFee
        <3>4. BalanceOK'
            BY <3>3, AttachIs DEF Balances, Coins, Holder
        <3>5. BountiesOK'
            BY <1>1, <2>4 DEF UpdateFee, Bounty
        <3> QED BY <3>2, <3>4, <3>5 DEF Config
    <2>5. ASSUME NEW id \in TaskId, NEW pct \in MultiplierPct,
                 AddBonus(sender, coins, id, pct)
          PROVE  ConfigOK' /\ BountiesOK' /\ BalanceOK'
        <3>1. ConfigOK'
            BY <1>1, <2>5 DEF AddBonus, Config
        <3>2. BountiesOK'
            BY <1>1, <2>5, BonusIs DEF Bounty
        <3>3. balance' = Attach(sender, coins) /\ Execute(sender, coins)
            BY <2>5 DEF AddBonus
        <3>4. BalanceOK'
            BY <3>3, AttachIs DEF Balances, Coins, Holder
        <3> QED BY <3>1, <3>2, <3>4
    <2> QED BY <2>1, <2>2, <2>3, <2>4, <2>5 DEF TypeOK, Balances, Coins, Holder
<1> QED BY <1>2, <1>3

\* Types: no balance becomes negative, no fee exceeds 100 %, whatever is funded,
\* claimed, charged or boosted (contract.rs with the checks of the bank).
THEOREM TypeCorrect == Spec => []TypeOK
<1>1. Init => TypeOK
    BY TypeInit
<1>2. TypeOK /\ [Next]_vars => TypeOK'
    BY TypeStep
<1> QED BY <1>1, <1>2, PTL DEF Spec

-----------------------------------------------------------------------------
(* Steps.                                                                   *)

\* What ClaimIsFinal says of one step.
LEMMA FinalStep ==
    ASSUME TypeOK, [Next]_vars, NEW id \in DOMAIN bounties
    PROVE  /\ id \in DOMAIN bounties'
           /\ bounties[id].claimed =>
                  /\ bounties'[id].claimed
                  /\ bounties'[id].claimer = bounties[id].claimer
           /\ bounties'[id].funder = bounties[id].funder
           /\ bounties'[id].amount = bounties[id].amount
           /\ bounties'[id].denom = bounties[id].denom
<1> DEFINE Final == /\ id \in DOMAIN bounties'
                    /\ bounties[id].claimed =>
                           /\ bounties'[id].claimed
                           /\ bounties'[id].claimer = bounties[id].claimer
                    /\ bounties'[id].funder = bounties[id].funder
                    /\ bounties'[id].amount = bounties[id].amount
                    /\ bounties'[id].denom = bounties[id].denom
<1>1. CASE bounties' = bounties
    BY <1>1
<1>2. CASE Next
    <2> PICK sender \in Account, coins \in Funds :
            \/ \E collector \in Account, pct \in FeePct : Instantiate(sender, collector, pct)
            \/ \E i \in TaskId : FundBounty(sender, coins, i)
            \/ \E i \in TaskId : ClaimBounty(sender, coins, i)
            \/ \E pct \in FeePct : UpdateFee(sender, coins, pct)
            \/ \E i \in TaskId, pct \in MultiplierPct : AddBonus(sender, coins, i, pct)
        BY <1>2 DEF Next
    <2>1. ASSUME NEW collector \in Account, NEW pct \in FeePct,
                 Instantiate(sender, collector, pct)
          PROVE  Final
        BY <2>1, <1>1 DEF Instantiate
    <2>2. ASSUME NEW i \in TaskId, FundBounty(sender, coins, i)
          PROVE  Final
        BY <2>2, FundedIs
    <2>3. ASSUME NEW i \in TaskId, ClaimBounty(sender, coins, i)
          PROVE  Final
        <3>1. CASE i = id
            <4>1. /\ ~bounties[id].claimed /\ bounties[id] \in Bounty
                  /\ DOMAIN bounties' = DOMAIN bounties
                  /\ bounties'[id] = [bounties[id] EXCEPT !.claimed = TRUE, !.claimer = sender]
                BY <2>3, <3>1, ClaimedIs
            <4>2. /\ bounties'[id].funder = bounties[id].funder
                  /\ bounties'[id].amount = bounties[id].amount
                  /\ bounties'[id].denom = bounties[id].denom
                BY <4>1 DEF Bounty
            <4> QED BY <4>1, <4>2
        <3>2. CASE i # id
            BY <2>3, <3>2, ClaimedIs
        <3> QED BY <3>1, <3>2
    <2>4. ASSUME NEW pct \in FeePct, UpdateFee(sender, coins, pct)
          PROVE  Final
        BY <2>4, <1>1 DEF UpdateFee
    <2>5. ASSUME NEW i \in TaskId, NEW pct \in MultiplierPct,
                 AddBonus(sender, coins, i, pct)
          PROVE  Final
        <3>1. CASE i = id
            <4>1. /\ bounties[id] \in Bounty /\ DOMAIN bounties' = DOMAIN bounties
                  /\ bounties'[id] = [bounties[id] EXCEPT !.multiplier_pct = pct]
                BY <2>5, <3>1, BonusIs
            <4>2. /\ bounties'[id].funder = bounties[id].funder
                  /\ bounties'[id].amount = bounties[id].amount
                  /\ bounties'[id].denom = bounties[id].denom
                  /\ bounties'[id].claimer = bounties[id].claimer
                BY <4>1 DEF Bounty
            <4>3. bounties'[id].claimed = bounties[id].claimed
                BY <4>1 DEF Bounty
            <4>4. bounties[id].claimed =>
                      /\ bounties'[id].claimed
                      /\ bounties'[id].claimer = bounties[id].claimer
                BY <4>2, <4>3, Zenon
            <4>5. id \in DOMAIN bounties'
                BY <4>1
            <4> QED BY ONLY <4>2, <4>4, <4>5, Zenon
        <3>2. CASE i # id
            <4>1. id \in DOMAIN bounties' /\ bounties'[id] = bounties[id]
                BY <2>5, <3>2, BonusIs
            <4> QED BY ONLY <4>1, Zenon
        <3> QED BY <3>1, <3>2
    <2> QED BY <2>1, <2>2, <2>3, <2>4, <2>5
<1>3. CASE UNCHANGED vars
    BY <1>3, <1>1 DEF vars
<1> QED BY <1>2, <1>3

\* Once claimed, always claimed by the same account; what was funded is not
\* replaced (execute_fund_bounty, execute_claim_bounty, execute_add_bonus).
THEOREM ClaimsAreFinal == Spec => ClaimIsFinal
<1>1. TypeOK /\ [Next]_vars =>
          [\A id \in DOMAIN bounties :
              /\ id \in DOMAIN bounties'
              /\ bounties[id].claimed =>
                     /\ bounties'[id].claimed
                     /\ bounties'[id].claimer = bounties[id].claimer
              /\ bounties'[id].funder = bounties[id].funder
              /\ bounties'[id].amount = bounties[id].amount
              /\ bounties'[id].denom = bounties[id].denom]_vars
    BY FinalStep
<1> QED BY <1>1, TypeCorrect, PTL DEF Spec, ClaimIsFinal

\* A balance is a number, and the contract's account is no user's.
LEMMA ContractBalance ==
    ASSUME TypeOK, NEW d \in Denom, NEW coins \in Funds
    PROVE  balance[Contract][d] \in Nat /\ coins[d] \in Nat
  BY CoinAssumption DEF TypeOK

\* What OnlyClaimsPay says of one step.
LEMMA PayStep ==
    ASSUME TypeOK, Next, NEW d \in Denom, Lost(d) > 0
    PROVE  \E id \in Open :
               /\ bounties'[id].claimed
               /\ bounties[id].denom = d
               /\ Lost(d) <= Gross(bounties[id])
               /\ \A i \in Open \ {id} : ~bounties'[i].claimed
<1> PICK sender \in Account, coins \in Funds :
        \/ \E collector \in Account, pct \in FeePct : Instantiate(sender, collector, pct)
        \/ \E i \in TaskId : FundBounty(sender, coins, i)
        \/ \E i \in TaskId : ClaimBounty(sender, coins, i)
        \/ \E pct \in FeePct : UpdateFee(sender, coins, pct)
        \/ \E i \in TaskId, pct \in MultiplierPct : AddBonus(sender, coins, i, pct)
    BY DEF Next
<1>1. balance[Contract][d] \in Nat /\ coins[d] \in Nat
    BY ContractBalance
<1>2. balance' # balance
    BY <1>1 DEF Lost
<1>3. ASSUME balance' = Attach(sender, coins), Execute(sender, coins)
      PROVE  FALSE
    <2>1. balance'[Contract][d] = balance[Contract][d] + coins[d]
        BY <1>3, AttachIs
    <2> QED BY <2>1, <1>1 DEF Lost
<1>4. PICK id \in TaskId : ClaimBounty(sender, coins, id)
    BY <1>2, <1>3 DEF Instantiate, FundBounty, UpdateFee, AddBonus
<1>5. /\ id \in DOMAIN bounties /\ ~bounties[id].claimed /\ bounties[id] \in Bounty
      /\ bounties'[id] = [bounties[id] EXCEPT !.claimed = TRUE, !.claimer = sender]
      /\ \A i \in DOMAIN bounties \ {id} : bounties'[i] = bounties[i]
    BY <1>4, ClaimedIs
<1>6. balance'[Contract][d] = balance[Contract][d] + coins[d]
          - IF d = bounties[id].denom THEN Gross(bounties[id]) ELSE 0
    BY <1>4, ClaimPays
<1>7. Gross(bounties[id]) \in Nat
    BY <1>5, GrossType
<1>8. bounties[id].denom = d /\ Lost(d) <= Gross(bounties[id])
    BY <1>1, <1>6, <1>7 DEF Lost
<1>9. id \in Open /\ \A i \in Open \ {id} : ~bounties'[i].claimed
    BY <1>5 DEF Open
<1>10. bounties'[id].claimed
    BY <1>5 DEF Bounty
<1> QED BY <1>8, <1>9, <1>10

\* The contract's coins leave it only by the claim of one open bounty, at most at
\* its gross amount (the bank messages of execute_claim_bounty).
THEOREM OnlyClaimsTakeCoins == Spec => OnlyClaimsPay
<1>1. TypeOK /\ [Next]_vars =>
          [\A d \in Denom : Lost(d) > 0 =>
              \E id \in Open :
                  /\ bounties'[id].claimed
                  /\ bounties[id].denom = d
                  /\ Lost(d) <= Gross(bounties[id])
                  /\ \A i \in Open \ {id} : ~bounties'[i].claimed]_vars
    BY PayStep
<1> QED BY <1>1, TypeCorrect, PTL DEF Spec, OnlyClaimsPay

-----------------------------------------------------------------------------
(* What is locked.                                                          *)

Amount(b, d) == [id \in DOMAIN b |-> IF b[id].denom = d THEN b[id].amount ELSE 0]

Unclaimed(b) == {id \in DOMAIN b : ~b[id].claimed}

\* The open bounties of b in denomination d.
Total(b, d) == SumFunctionOnSet(Amount(b, d), Unclaimed(b))

AreBounties(b) == IsFiniteSet(DOMAIN b) /\ \A id \in DOMAIN b : b[id] \in Bounty

\* The sum's arguments have their types.
LEMMA TotalType ==
    ASSUME NEW b, AreBounties(b), NEW d
    PROVE  /\ IsFiniteSet(Unclaimed(b))
           /\ \A id \in DOMAIN b : Amount(b, d)[id] \in Nat
           /\ Total(b, d) \in Nat
           /\ \A id \in Unclaimed(b) : b[id].denom = d => b[id].amount <= Total(b, d)
<1>1. Unclaimed(b) \in SUBSET DOMAIN b
    BY DEF Unclaimed
<1>2. IsFiniteSet(Unclaimed(b))
    BY <1>1, FS_Subset DEF AreBounties
<1>3. \A id \in DOMAIN b : Amount(b, d)[id] \in Nat
    BY DEF Amount, AreBounties, Bounty
<1>4. \A id \in Unclaimed(b) : Amount(b, d)[id] \in Nat
    BY <1>1, <1>3
<1>5. /\ Total(b, d) \in Nat
      /\ \A id \in Unclaimed(b) : Amount(b, d)[id] <= Total(b, d)
    BY <1>2, <1>4, SumNat DEF Total
<1>6. \A id \in Unclaimed(b) : b[id].denom = d => b[id].amount <= Total(b, d)
    BY <1>1, <1>5 DEF Amount
<1> QED BY <1>2, <1>3, <1>5, <1>6

\* One more bounty adds its amount.
LEMMA TotalMore ==
    ASSUME NEW b, AreBounties(b), NEW c, AreBounties(c), NEW i \in Unclaimed(c), NEW d,
           Unclaimed(c) \ {i} = Unclaimed(b),
           \A j \in Unclaimed(b) : c[j].denom = b[j].denom /\ c[j].amount = b[j].amount
    PROVE  Total(c, d) = Total(b, d) + IF c[i].denom = d THEN c[i].amount ELSE 0
<1>1. /\ IsFiniteSet(Unclaimed(b)) /\ IsFiniteSet(Unclaimed(c))
      /\ Unclaimed(b) \subseteq DOMAIN b /\ Unclaimed(c) \subseteq DOMAIN c
    BY TotalType DEF Unclaimed
<1>2. \A j \in Unclaimed(c) : Amount(c, d)[j] \in Int
    BY <1>1, TotalType
<1>3. Total(c, d) = Amount(c, d)[i] + SumFunctionOnSet(Amount(c, d), Unclaimed(b))
    BY <1>1, <1>2, SumTake DEF Total
<1>4. \A j \in Unclaimed(b) : Amount(c, d)[j] = Amount(b, d)[j]
    BY <1>1 DEF Amount
<1>5. SumFunctionOnSet(Amount(c, d), Unclaimed(b)) = Total(b, d)
    BY <1>1, <1>4, SumAgree DEF Total
<1>6. Amount(c, d)[i] = IF c[i].denom = d THEN c[i].amount ELSE 0
    BY <1>1 DEF Amount
<1>7. Total(b, d) \in Nat /\ Amount(c, d)[i] \in Nat
    BY <1>1, TotalType
<1> QED BY <1>3, <1>5, <1>6, <1>7

\* Whatever else changes of the bounties does not change the total.
LEMMA TotalSame ==
    ASSUME NEW b, AreBounties(b), NEW c, AreBounties(c), NEW d,
           Unclaimed(c) = Unclaimed(b),
           \A j \in Unclaimed(b) : c[j].denom = b[j].denom /\ c[j].amount = b[j].amount
    PROVE  Total(c, d) = Total(b, d)
<1>1. IsFiniteSet(Unclaimed(b))
    BY TotalType
<1>2. \A j \in Unclaimed(b) : Amount(c, d)[j] = Amount(b, d)[j]
    BY DEF Amount, Unclaimed
<1> QED BY <1>1, <1>2, SumAgree DEF Total

\* Locked in these terms, before and after a step.
LEMMA LockedIs ==
    ASSUME NEW d
    PROVE  /\ Locked(d) = Total(bounties, d) /\ Open = Unclaimed(bounties)
           /\ Locked(d)' = Total(bounties', d)
  BY DEF Locked, Open, Total, Amount, Unclaimed

\* Funding adds the message's coins to what is locked.
LEMMA FundLocks ==
    ASSUME TypeOK, AreBounties(bounties), NEW sender \in Account, NEW coins \in Funds,
           NEW id \in TaskId, FundBounty(sender, coins, id)
    PROVE  /\ AreBounties(bounties')
           /\ \A d \in Denom : /\ Locked(d)' = Locked(d) + coins[d]
                               /\ balance'[Contract][d] = balance[Contract][d] + coins[d]
<1>1. PICK d0 \in Denoms(coins) :
          /\ Denoms(coins) = {d0}
          /\ bounties' = [i \in DOMAIN bounties \cup {id} |->
                 IF i = id
                 THEN [funder |-> sender, amount |-> coins[d0], denom |-> d0,
                       multiplier_pct |-> 100, claimed |-> FALSE, claimer |-> NoClaimer]
                 ELSE bounties[i]]
    BY DEF FundBounty
<1>2. /\ DOMAIN bounties' = DOMAIN bounties \cup {id} /\ id \notin DOMAIN bounties
      /\ bounties'[id] \in Bounty
      /\ \A i \in DOMAIN bounties : bounties'[i] = bounties[i]
    BY FundedIs
<1>3. AreBounties(bounties')
    BY <1>2, FS_AddElement DEF AreBounties
<1>4. /\ bounties'[id].denom = d0 /\ bounties'[id].amount = coins[d0]
      /\ ~bounties'[id].claimed
    BY <1>1
<1>5. id \in Unclaimed(bounties') /\ Unclaimed(bounties') \ {id} = Unclaimed(bounties)
    BY <1>2, <1>4 DEF Unclaimed
<1>6. \A j \in Unclaimed(bounties) : bounties'[j] = bounties[j]
    BY <1>2 DEF Unclaimed
<1>7. ASSUME NEW d \in Denom
      PROVE  /\ Locked(d)' = Locked(d) + coins[d]
             /\ balance'[Contract][d] = balance[Contract][d] + coins[d]
    <2>1. Locked(d)' = Locked(d) + IF d0 = d THEN coins[d0] ELSE 0
        BY <1>3, <1>4, <1>5, <1>6, TotalMore, LockedIs
    <2>2. d # d0 => coins[d] = 0
        BY <1>1, CoinAssumption DEF Denoms
    <2>3. Execute(sender, coins) /\ balance' = Attach(sender, coins)
        BY DEF FundBounty
    <2> QED BY <2>1, <2>2, <2>3, AttachIs
<1> QED BY <1>3, <1>7

\* A claim takes the bounty's amount from what is locked and its gross amount
\* from the contract.
LEMMA ClaimUnlocks ==
    ASSUME TypeOK, AreBounties(bounties), NEW sender \in Account, NEW coins \in Funds,
           NEW id \in TaskId, ClaimBounty(sender, coins, id)
    PROVE  /\ AreBounties(bounties')
           /\ \A d \in Denom :
                  Locked(d) = Locked(d)' +
                      IF bounties[id].denom = d THEN bounties[id].amount ELSE 0
<1>1. /\ id \in DOMAIN bounties /\ ~bounties[id].claimed
      /\ bounties[id] \in Bounty
      /\ DOMAIN bounties' = DOMAIN bounties
      /\ bounties'[id] = [bounties[id] EXCEPT !.claimed = TRUE, !.claimer = sender]
      /\ bounties'[id] \in Bounty
      /\ \A i \in DOMAIN bounties \ {id} : bounties'[i] = bounties[i]
    BY ClaimedIs
<1>2. AreBounties(bounties')
    BY <1>1 DEF AreBounties
<1>3. bounties'[id].claimed
    BY <1>1 DEF Bounty
<1>4. id \in Unclaimed(bounties) /\ Unclaimed(bounties) \ {id} = Unclaimed(bounties')
    BY <1>1, <1>3 DEF Unclaimed
<1>5. \A j \in Unclaimed(bounties') : bounties'[j] = bounties[j]
    BY <1>1, <1>3 DEF Unclaimed
<1> QED BY <1>2, <1>4, <1>5, TotalMore, LockedIs

\* A bonus changes neither amounts nor what is claimed.
LEMMA BonusLocks ==
    ASSUME TypeOK, AreBounties(bounties), NEW sender \in Account, NEW coins \in Funds,
           NEW id \in TaskId, NEW pct \in MultiplierPct, AddBonus(sender, coins, id, pct)
    PROVE  /\ AreBounties(bounties')
           /\ \A i \in DOMAIN bounties : bounties'[i].amount = bounties[i].amount
           /\ \A d \in Denom : Locked(d)' = Locked(d)
<1>1. /\ id \in DOMAIN bounties /\ bounties[id] \in Bounty
      /\ DOMAIN bounties' = DOMAIN bounties
      /\ bounties'[id] = [bounties[id] EXCEPT !.multiplier_pct = pct]
      /\ bounties'[id] \in Bounty
      /\ \A i \in DOMAIN bounties \ {id} : bounties'[i] = bounties[i]
    BY BonusIs
<1>2. AreBounties(bounties')
    BY <1>1 DEF AreBounties
<1>3. /\ bounties'[id].denom = bounties[id].denom
      /\ bounties'[id].amount = bounties[id].amount
    BY <1>1 DEF Bounty
<1>4. bounties'[id].claimed = bounties[id].claimed
    BY <1>1 DEF Bounty
<1>5. Unclaimed(bounties') = Unclaimed(bounties)
    BY <1>1, <1>4 DEF Unclaimed
<1>6. \A i \in DOMAIN bounties :
          /\ bounties'[i].denom = bounties[i].denom
          /\ bounties'[i].amount = bounties[i].amount
    BY <1>1, <1>3
<1>7. \A d \in Denom : Locked(d)' = Locked(d)
    BY <1>2, <1>5, <1>6, TotalSame, LockedIs DEF Unclaimed
<1> QED BY <1>2, <1>6, <1>7

-----------------------------------------------------------------------------
(* Solvency.                                                                *)

\* The admin gives discounts only: a multiplier above 100 pays one bounty with
\* the coins of others.
Discounts == \A pct \in MultiplierPct : pct <= 100

\* A percentage of what a message can carry does not overflow: no coin's supply
\* comes near 2^128.
SmallCoins == \A coins \in Funds, d \in Denom : coins[d] * 100 <= MaxUint128

\* Solvent alone is not inductive: a claim must not take more than its bounty locks.
SolvencyInv ==
    /\ TypeOK
    /\ config = NoConfig => bounties = <<>>
    /\ IsFiniteSet(DOMAIN bounties)
    /\ \A id \in DOMAIN bounties :
           bounties[id].multiplier_pct <= 100 /\ bounties[id].amount * 100 <= MaxUint128
    /\ Solvent

\* Without a bonus the gross amount is at most the amount locked, and does not overflow.
LEMMA GrossBounds ==
    ASSUME NEW bounty \in Bounty, bounty.multiplier_pct <= 100
    PROVE  Gross(bounty) \in 0 .. bounty.amount
  BY ShareBounds DEF Gross, Bounty

\* Nothing is locked before the first message.
LEMMA SolvencyInit == Init => SolvencyInv
<1> SUFFICES ASSUME Init PROVE SolvencyInv
    OBVIOUS
<1>1. TypeOK
    BY TypeInit
<1>2. DOMAIN bounties = {} /\ IsFiniteSet(DOMAIN bounties)
    BY FS_EmptySet DEF Init
<1>3. AreBounties(bounties) /\ Unclaimed(bounties) = {}
    BY <1>2 DEF AreBounties, Unclaimed
<1>4. \A d \in Denom : Locked(d) = 0
    <2> SUFFICES ASSUME NEW d \in Denom PROVE Total(bounties, d) = 0
        BY LockedIs
    <2>1. \A x \in {} : Amount(bounties, d)[x] \in Nat
        OBVIOUS
    <2> QED BY <1>3, <2>1, SumNat, FS_EmptySet DEF Total
<1>5. \A d \in Denom : balance[Contract][d] = 0
    BY DEF Init
<1>6. Solvent
    BY <1>4, <1>5 DEF Solvent
<1> QED BY <1>1, <1>2, <1>6 DEF SolvencyInv, Init

\* A message that only brings coins.
LEMMA AttachSolvent ==
    ASSUME SolvencyInv, NEW sender \in Account, NEW coins \in Funds,
           Execute(sender, coins), balance' = Attach(sender, coins),
           \A d \in Denom : Locked(d)' = Locked(d)
    PROVE  Solvent'
<1> SUFFICES ASSUME NEW d \in Denom PROVE balance'[Contract][d] >= Locked(d)'
    BY DEF Solvent
<1>1. AreBounties(bounties)
    BY DEF SolvencyInv, TypeOK, AreBounties
<1>2. Locked(d) \in Nat
    BY <1>1, LockedIs, TotalType
<1>3. balance[Contract][d] \in Nat /\ coins[d] \in Nat
    BY ContractBalance DEF SolvencyInv
<1>4. balance'[Contract][d] = balance[Contract][d] + coins[d]
    BY AttachIs DEF SolvencyInv
<1>5. balance[Contract][d] >= Locked(d)
    BY DEF SolvencyInv, Solvent
<1> QED BY <1>2, <1>3, <1>4, <1>5

\* Every message keeps the contract solvent.
LEMMA SolvencyStep ==
    ASSUME Discounts, SmallCoins, SolvencyInv, [Next]_vars
    PROVE  SolvencyInv'
<1> DEFINE Modest(b) == b.multiplier_pct <= 100 /\ b.amount * 100 <= MaxUint128
           Rest == /\ config = NoConfig => bounties = <<>>
                   /\ IsFiniteSet(DOMAIN bounties)
                   /\ \A id \in DOMAIN bounties : Modest(bounties[id])
                   /\ Solvent
<1>1. TypeOK /\ TypeOK' /\ AreBounties(bounties)
    BY TypeStep DEF SolvencyInv, TypeOK, AreBounties
<1>2. /\ \A id \in DOMAIN bounties : Modest(bounties[id]) /\ bounties[id] \in Bounty
      /\ IsFiniteSet(DOMAIN bounties)
    BY <1>1 DEF SolvencyInv, AreBounties
<1>3. \A d \in Denom : /\ balance[Contract][d] \in Nat /\ Locked(d) \in Nat
                       /\ balance[Contract][d] >= Locked(d)
    BY <1>1, LockedIs, TotalType DEF SolvencyInv, Solvent, TypeOK
<1>4. config = NoConfig => bounties = <<>>
    BY DEF SolvencyInv
<1>5. ASSUME NEW sender \in Account, NEW coins \in Funds, Execute(sender, coins),
             config' = config \/ \E pct \in FeePct : config' = [config EXCEPT !.fee_pct = pct]
      PROVE  config' # NoConfig
    BY <1>1, <1>5 DEF TypeOK, Execute, Config, NoConfig
<1>6. ASSUME bounties' = bounties PROVE \A d \in Denom : Locked(d)' = Locked(d)
    BY <1>6, LockedIs
<1>7. CASE UNCHANGED vars
    <2>1. Solvent'
        BY <1>3, <1>6, <1>7 DEF vars, Solvent
    <2> QED BY <1>1, <1>2, <1>7, <1>4, <2>1 DEF vars, SolvencyInv
<1>8. CASE Next
    <2> PICK sender \in Account, coins \in Funds :
            \/ \E collector \in Account, pct \in FeePct : Instantiate(sender, collector, pct)
            \/ \E id \in TaskId : FundBounty(sender, coins, id)
            \/ \E id \in TaskId : ClaimBounty(sender, coins, id)
            \/ \E pct \in FeePct : UpdateFee(sender, coins, pct)
            \/ \E id \in TaskId, pct \in MultiplierPct : AddBonus(sender, coins, id, pct)
        BY <1>8 DEF Next
    <2>1. ASSUME NEW collector \in Account, NEW pct \in FeePct,
                 Instantiate(sender, collector, pct)
          PROVE  Rest'
        <3>1. bounties' = bounties /\ balance' = balance
            BY <2>1 DEF Instantiate
        <3>2. Solvent'
            BY <1>3, <1>6, <3>1 DEF Solvent
        <3>3. config = NoConfig
            BY <2>1 DEF Instantiate
        <3>4. config' # NoConfig
            BY <2>1 DEF Instantiate, NoConfig
        <3> QED BY <1>2, <3>1, <3>2, <3>4
    <2>2. ASSUME NEW id \in TaskId, FundBounty(sender, coins, id)
          PROVE  Rest'
        <3>1. /\ AreBounties(bounties')
              /\ \A d \in Denom : /\ Locked(d)' = Locked(d) + coins[d]
                                  /\ balance'[Contract][d] = balance[Contract][d] + coins[d]
            BY <1>1, <2>2, FundLocks
        <3>2. Solvent'
            BY <1>1, <1>3, <3>1, ContractBalance DEF Solvent
        <3>3. PICK d \in Denom : bounties'[id].amount = coins[d]
                                 /\ bounties'[id].multiplier_pct = 100
            BY <2>2 DEF FundBounty, Denoms
        <3>4. Modest(bounties'[id])
            BY <3>3 DEF SmallCoins
        <3>5. /\ DOMAIN bounties' = DOMAIN bounties \cup {id}
              /\ \A i \in DOMAIN bounties : bounties'[i] = bounties[i]
            BY <1>1, <2>2, FundedIs
        <3>6. \A i \in DOMAIN bounties' : Modest(bounties'[i])
            BY <1>2, <3>4, <3>5
        <3>7. config' # NoConfig
            BY <1>5, <2>2 DEF FundBounty
        <3> QED BY <3>1, <3>2, <3>6, <3>7 DEF AreBounties
    <2>3. ASSUME NEW id \in TaskId, ClaimBounty(sender, coins, id)
          PROVE  Rest'
        <3>1. /\ id \in DOMAIN bounties /\ bounties[id] \in Bounty
              /\ DOMAIN bounties' = DOMAIN bounties
              /\ bounties'[id] = [bounties[id] EXCEPT !.claimed = TRUE, !.claimer = sender]
              /\ \A i \in DOMAIN bounties \ {id} : bounties'[i] = bounties[i]
            BY <1>1, <2>3, ClaimedIs
        <3>2. /\ AreBounties(bounties')
              /\ \A d \in Denom : Locked(d) = Locked(d)' +
                     IF bounties[id].denom = d THEN bounties[id].amount ELSE 0
            BY <1>1, <2>3, ClaimUnlocks
        <3>3. \A d \in Denom : Locked(d)' \in Nat
            BY <3>2, LockedIs, TotalType
        <3>4. Gross(bounties[id]) \in 0 .. bounties[id].amount
              /\ bounties[id].amount \in Nat
            BY <1>2, <3>1, GrossBounds DEF Bounty
        <3>5. \A d \in Denom : balance'[Contract][d] = balance[Contract][d] + coins[d]
                  - IF d = bounties[id].denom THEN Gross(bounties[id]) ELSE 0
            BY <1>1, <2>3, ClaimPays
        <3>6. Solvent'
            <4> SUFFICES ASSUME NEW d \in Denom PROVE balance'[Contract][d] >= Locked(d)'
                BY DEF Solvent
            <4>1. coins[d] \in Nat
                BY CoinAssumption
            <4>2. CASE d = bounties[id].denom
                <5> DEFINE had == balance[Contract][d]
                           now == balance'[Contract][d]
                           lockedNow == Locked(d)'
                <5>1. /\ Locked(d) = lockedNow + bounties[id].amount
                      /\ now = had + coins[d] - Gross(bounties[id])
                      /\ had >= Locked(d) /\ had \in Nat /\ lockedNow \in Nat
                    BY <1>3, <3>2, <3>3, <3>5, <4>2
                <5> HIDE DEF had, now, lockedNow
                <5>2. now >= lockedNow
                    BY <3>4, <4>1, <5>1
                <5> QED BY <5>2 DEF now, lockedNow
            <4>3. CASE d # bounties[id].denom
                <5>1. /\ Locked(d) = Locked(d)' + 0
                      /\ balance'[Contract][d] = balance[Contract][d] + coins[d] - 0
                    BY <3>2, <3>5, <4>3
                <5> QED BY <1>3, <3>3, <4>1, <5>1
            <4> QED BY <4>2, <4>3
        <3>7. /\ bounties'[id].amount = bounties[id].amount
              /\ bounties'[id].multiplier_pct = bounties[id].multiplier_pct
            BY <3>1 DEF Bounty
        <3>8. \A i \in DOMAIN bounties' : Modest(bounties'[i])
            BY <1>2, <3>1, <3>7
        <3>9. config' # NoConfig
            BY <1>5, <2>3 DEF ClaimBounty
        <3> QED BY <3>2, <3>6, <3>8, <3>9 DEF AreBounties
    <2>4. ASSUME NEW pct \in FeePct, UpdateFee(sender, coins, pct)
          PROVE  Rest'
        <3>1. /\ bounties' = bounties /\ Execute(sender, coins)
              /\ balance' = Attach(sender, coins)
            BY <2>4 DEF UpdateFee
        <3>2. Solvent'
            BY <1>6, <3>1, AttachSolvent
        <3>3. config' # NoConfig
            BY <1>5, <2>4 DEF UpdateFee
        <3> QED BY <1>2, <3>1, <3>2, <3>3
    <2>5. ASSUME NEW id \in TaskId, NEW pct \in MultiplierPct,
                 AddBonus(sender, coins, id, pct)
          PROVE  Rest'
        <3>1. Execute(sender, coins) /\ balance' = Attach(sender, coins)
            BY <2>5 DEF AddBonus
        <3>2. /\ AreBounties(bounties')
              /\ \A i \in DOMAIN bounties : bounties'[i].amount = bounties[i].amount
              /\ \A d \in Denom : Locked(d)' = Locked(d)
            BY <1>1, <2>5, BonusLocks
        <3>3. Solvent'
            BY <3>1, <3>2, AttachSolvent
        <3>4. /\ bounties[id] \in Bounty /\ DOMAIN bounties' = DOMAIN bounties
              /\ bounties'[id] = [bounties[id] EXCEPT !.multiplier_pct = pct]
              /\ \A i \in DOMAIN bounties \ {id} : bounties'[i] = bounties[i]
            BY <1>1, <2>5, BonusIs
        <3>5. bounties'[id].multiplier_pct <= 100
            BY <3>4 DEF Bounty, Discounts
        <3>6. \A i \in DOMAIN bounties' : Modest(bounties'[i])
            BY <1>2, <3>2, <3>4, <3>5
        <3>7. config' # NoConfig
            BY <1>5, <2>5 DEF AddBonus
        <3> QED BY <3>2, <3>3, <3>6, <3>7 DEF AreBounties
    <2> QED BY <1>1, <2>1, <2>2, <2>3, <2>4, <2>5 DEF SolvencyInv
<1> QED BY <1>7, <1>8

\* The inductive invariant holds under discounts and small coins.
LEMMA SolvencyInvariant ==
    ASSUME Discounts, SmallCoins
    PROVE  Spec => []SolvencyInv
<1>1. SolvencyInv /\ [Next]_vars => SolvencyInv'
    BY SolvencyStep
<1> QED BY <1>1, SolvencyInit, PTL DEF Spec

\* However many bounties share the contract's account, in whatever denominations,
\* it holds what the open ones lock (execute_claim_bounty): rounding and fees stay
\* within the bounty they come from.
THEOREM AlwaysSolvent ==
    ASSUME Discounts, SmallCoins
    PROVE  Spec => []Solvent
<1>1. SolvencyInv => Solvent
    BY DEF SolvencyInv
<1> QED BY <1>1, SolvencyInvariant, PTL

\* A solvent contract pays any open bounty that leaves its claimer anything.
LEMMA SolventPays ==
    ASSUME SolvencyInv, NEW id \in Open, Net(bounties[id]) > 0
    PROVE  CanPay(balance, bounties[id])
<1> DEFINE b == bounties[id]
<1>1. /\ id \in DOMAIN bounties /\ b \in Bounty
      /\ b.multiplier_pct <= 100 /\ b.amount * 100 <= MaxUint128
    BY DEF Open, SolvencyInv, TypeOK
<1>2. config # NoConfig
    BY <1>1 DEF SolvencyInv
<1>3. /\ b.amount \in Nat /\ b.multiplier_pct \in Nat /\ b.denom \in Denom
      /\ config.fee_pct \in Nat /\ config.fee_pct <= 100
    BY <1>1, <1>2 DEF Bounty, SolvencyInv, TypeOK, Config
<1>4. Gross(b) \in 0 .. b.amount
    BY <1>1, GrossBounds
<1>5. /\ Fee(b) \in Nat /\ Net(b) \in Nat /\ Net(b) + Fee(b) = Gross(b)
    BY <1>1, <1>2, PayoutSplit DEF SolvencyInv
<1>6. NoOverflow(b)
    <2>1. b.amount * b.multiplier_pct <= b.amount * 100
        BY <1>1, <1>3
    <2>2. Gross(b) * config.fee_pct <= b.amount * 100
        <3>1. Gross(b) * config.fee_pct <= b.amount * config.fee_pct
            BY <1>3, <1>4
        <3>2. b.amount * config.fee_pct <= b.amount * 100
            BY <1>3
        <3>3. /\ Gross(b) * config.fee_pct \in Nat
              /\ b.amount * config.fee_pct \in Nat /\ b.amount * 100 \in Nat
            BY <1>3, <1>4
        <3> QED BY <3>1, <3>2, <3>3
    <2>3. /\ b.amount * b.multiplier_pct \in Nat /\ Gross(b) * config.fee_pct \in Nat
          /\ b.amount * 100 \in Nat /\ MaxUint128 \in Nat
        BY <1>3, <1>4, NumberAssumption
    <2> QED BY <1>1, <2>1, <2>2, <2>3 DEF NoOverflow
<1>7. balance[Contract][b.denom] >= b.amount
    <2>1. AreBounties(bounties)
        BY DEF SolvencyInv, TypeOK, AreBounties
    <2>2. id \in Unclaimed(bounties)
        BY LockedIs
    <2>3. b.amount <= Locked(b.denom) /\ Locked(b.denom) \in Nat
        BY <2>1, <2>2, LockedIs, TotalType
    <2>4. balance[Contract][b.denom] >= Locked(b.denom)
        BY <1>3 DEF SolvencyInv, Solvent
    <2>5. balance[Contract][b.denom] \in Nat
        BY <1>3 DEF SolvencyInv, TypeOK
    <2> QED BY <1>3, <2>3, <2>4, <2>5
<1>8. \A d \in Denom : balance[Contract][d] \in Nat
    BY DEF SolvencyInv, TypeOK
<1> HIDE DEF b
<1>9. Covers(balance, Contract, Coin(b.denom, Gross(b)))
    BY <1>3, <1>4, <1>7, <1>8 DEF Covers, Coin
<1>10. Covers(balance, Contract, Coin(b.denom, Net(b)))
    BY <1>3, <1>4, <1>5, <1>7, <1>8 DEF Covers, Coin
<1>11. Coin(b.denom, Net(b))[b.denom] > 0
    BY <1>3 DEF Coin, b
<1>12. CanSend(balance, Contract, Coin(b.denom, Net(b)))
    BY <1>3, <1>10, <1>11 DEF CanSend
<1> QED BY <1>6, <1>9, <1>12 DEF CanPay, b

\* Every open bounty with a payout can be claimed, whatever was claimed before it
\* from the same account (execute_claim_bounty).
THEOREM AlwaysClaimable ==
    ASSUME Discounts, SmallCoins
    PROVE  Spec => []Claimable
<1>1. SolvencyInv => Claimable
    BY SolventPays DEF Claimable
<1> QED BY <1>1, SolvencyInvariant, PTL

-----------------------------------------------------------------------------
(* The listing.                                                             *)

After(start) == {id \in DOMAIN bounties : id > start}

PageSize(limit) ==
    LET asked == IF limit = None THEN DefaultLimit ELSE limit
    IN  IF asked < MaxLimit THEN asked ELSE MaxLimit

\* How many bounties a page shows.
Shown(start, limit) ==
    IF Cardinality(After(start)) <= PageSize(limit)
    THEN Cardinality(After(start)) ELSE PageSize(limit)

\* A page shows the first bounties after its start.
LEMMA PageIs ==
    ASSUME DOMAIN bounties \subseteq Nat, IsFiniteSet(DOMAIN bounties),
           NEW start \in Int, NEW limit \in {None} \cup Nat
    PROVE  LET page == ListBounties(start, limit)
               all  == Ascending(After(start))
               m    == Shown(start, limit)
           IN  /\ m \in Nat /\ m <= Cardinality(After(start))
               /\ page \in Seq(After(start)) /\ Len(page) = m
               /\ \A i \in 1 .. m : page[i] = all[i]
<1> DEFINE page == ListBounties(start, limit)
           all  == Ascending(After(start))
           n    == Cardinality(After(start))
           size == PageSize(limit)
<1>1. After(start) \subseteq Nat /\ IsFiniteSet(After(start))
    <2>1. After(start) \in SUBSET DOMAIN bounties
        BY DEF After
    <2> QED BY <2>1, FS_Subset
<1>2. n \in Nat /\ all \in [1 .. n -> After(start)]
    BY <1>1, AscendingLists, Zenon
<1>3. size \in Nat
    BY NumberAssumption DEF PageSize, None
<1>4. page = IF Len(all) <= size THEN all ELSE SubSeq(all, 1, size)
    BY DEF ListBounties, PageSize, After
<1> HIDE DEF page, all, n, size
<1>5. all \in Seq(After(start)) /\ Len(all) = n
    BY <1>2
<1>6. CASE n <= size
    BY <1>2, <1>3, <1>4, <1>5, <1>6 DEF page, all, n, size, Shown
<1>7. CASE size < n
    <2>1. \A i \in 1 .. size : all[i] \in After(start)
        BY <1>2, <1>3, <1>7
    <2>2. page = SubSeq(all, 1, size)
        BY <1>2, <1>3, <1>4, <1>5, <1>7
    <2>3. /\ page \in Seq(After(start)) /\ Len(page) = size
          /\ \A i \in 1 .. size : page[i] = all[i]
        <3>1. /\ SubSeq(all, 1, size) \in Seq(After(start))
              /\ Len(SubSeq(all, 1, size)) = IF 1 <= size THEN size - 1 + 1 ELSE 0
              /\ \A i \in 1 .. size - 1 + 1 : SubSeq(all, 1, size)[i] = all[1 + i - 1]
            BY <1>3, <2>1, SubSeqProperties
        <3>2. size - 1 + 1 = size /\ \A i \in 1 .. size : 1 + i - 1 = i
            BY <1>3
        <3>3. Len(SubSeq(all, 1, size)) = size
            BY <1>3, <3>1
        <3> QED BY <2>2, <3>1, <3>2, <3>3
    <2>4. Shown(start, limit) = size
        BY <1>2, <1>3, <1>7 DEF Shown, n, size
    <2> QED BY <1>2, <1>3, <1>7, <2>3, <2>4 DEF page, all, n
<1> QED BY <1>2, <1>3, <1>6, <1>7

\* The start_after of the page that follows the first k bounties.
At(k) == IF k = 0 THEN None ELSE Ascending(DOMAIN bounties)[k]

\* What follows the first k bounties are the others.
LEMMA AfterAt ==
    ASSUME DOMAIN bounties \subseteq Nat, IsFiniteSet(DOMAIN bounties),
           NEW k \in 0 .. Cardinality(DOMAIN bounties)
    PROVE  /\ At(k) \in Int
           /\ After(At(k)) = {Ascending(DOMAIN bounties)[j] :
                                  j \in k + 1 .. Cardinality(DOMAIN bounties)}
<1> DEFINE D == DOMAIN bounties
           A == Ascending(D)
           n == Cardinality(D)
<1>1. n \in Nat /\ A \in [1 .. n -> D]
    BY AscendingLists, Zenon
<1>2. \A i, j \in 1 .. n : i < j => A[i] < A[j]
    BY AscendingLists, Zenon
<1>3. \A x \in D : \E i \in 1 .. n : A[i] = x
    BY AscendingLists, Zenon
<1>4. k \in 0 .. n /\ D \subseteq Nat
    OBVIOUS
<1>5. At(k) = IF k = 0 THEN None ELSE A[k]
    BY DEF At
<1>6. After(At(k)) = {id \in D : id > At(k)}
    BY DEF After
<1> HIDE DEF D, A, n
<1>7. \A i \in 1 .. n : A[i] \in D /\ A[i] \in Nat
    BY <1>1, <1>4
<1>8. At(k) \in Int
    <2>1. CASE k = 0
        BY <1>5, <2>1 DEF None
    <2>2. CASE k # 0
        <3>1. k \in 1 .. n
            BY <1>1, <1>4, <2>2
        <3> QED BY <1>5, <1>7, <2>2, <3>1
    <2> QED BY <2>1, <2>2
<1>9. ASSUME NEW j \in 1 .. n PROVE A[j] > At(k) <=> j \in k + 1 .. n
    <2>1. CASE k = 0
        BY <1>1, <1>5, <1>7, <2>1 DEF None
    <2>2. CASE k # 0
        <3>1. k \in 1 .. n /\ At(k) = A[k] /\ A[k] \in Nat /\ A[j] \in Nat
            BY <1>1, <1>4, <1>5, <1>7, <2>2
        <3>2. CASE j = k
            BY <1>1, <3>1, <3>2
        <3>3. CASE j < k
            <4>1. A[j] < A[k]
                BY <1>2, <3>1, <3>3
            <4> QED BY <1>1, <3>1, <3>3, <4>1
        <3>4. CASE k < j
            <4>1. A[k] < A[j]
                BY <1>2, <3>1, <3>4
            <4> QED BY <1>1, <3>1, <3>4, <4>1
        <3> QED BY <1>1, <3>1, <3>2, <3>3, <3>4
    <2> QED BY <2>1, <2>2
<1>10. \A j \in k + 1 .. n : j \in 1 .. n
    BY <1>1, <1>4
<1>11. After(At(k)) = {A[j] : j \in k + 1 .. n}
    <2>1. ASSUME NEW x \in After(At(k)) PROVE x \in {A[j] : j \in k + 1 .. n}
        <3>1. PICK i \in 1 .. n : A[i] = x
            BY <1>3, <1>6, <2>1
        <3>2. A[i] > At(k)
            BY <1>6, <2>1, <3>1
        <3> QED BY <1>9, <3>1, <3>2
    <2>2. ASSUME NEW j \in k + 1 .. n PROVE A[j] \in After(At(k))
        BY <1>6, <1>7, <1>9, <1>10
    <2> QED BY <2>1, <2>2
<1> QED BY <1>8, <1>11 DEF D, A, n

\* A page after the first k bounties shows the next ones, as many as it holds.
LEMMA PageAt ==
    ASSUME DOMAIN bounties \subseteq Nat, IsFiniteSet(DOMAIN bounties),
           NEW k \in 0 .. Cardinality(DOMAIN bounties),
           NEW limit \in {None} \cup 1 .. MaxLimit + 1
    PROVE  LET n    == Cardinality(DOMAIN bounties)
               e    == Least(k + PageSize(limit), n)
               page == ListBounties(At(k), limit)
           IN  /\ PageSize(limit) \in Nat \ {0} /\ n \in Nat
               /\ page = SubSeq(Ascending(DOMAIN bounties), k + 1, e)
               /\ At(e) = IF page = <<>> THEN At(k) ELSE page[Len(page)]
<1> DEFINE D    == DOMAIN bounties
           A    == Ascending(D)
           n    == Cardinality(D)
           T    == After(At(k))
           size == PageSize(limit)
           e    == Least(k + size, n)
           page == ListBounties(At(k), limit)
           m    == Shown(At(k), limit)
<1>1. n \in Nat /\ A \in [1 .. n -> D]
    BY AscendingLists, Zenon
<1>2. k \in 0 .. n /\ D \subseteq Nat /\ IsFiniteSet(D)
    OBVIOUS
<1>3. size \in Nat \ {0}
    BY NumberAssumption DEF PageSize, None
<1>4. limit \in {None} \cup Nat
    BY NumberAssumption
<1>5. At(k) \in Int /\ T = {A[j] : j \in k + 1 .. n}
    BY AfterAt
<1>6. /\ Cardinality(T) = n - k
      /\ \A i \in 1 .. n - k : Ascending(T)[i] = A[k + i]
    <2> HIDE DEF T
    <2> QED BY <1>2, <1>5, AscendingTail DEF n, A
<1>7. /\ m \in Nat /\ m <= Cardinality(T)
      /\ page \in Seq(T) /\ Len(page) = m
      /\ \A i \in 1 .. m : page[i] = Ascending(T)[i]
    BY <1>2, <1>4, <1>5, PageIs
<1>8. m = IF Cardinality(T) <= size THEN Cardinality(T) ELSE size
    BY DEF Shown
<1>9. At(e) = IF e = 0 THEN None ELSE A[e]
    BY DEF At
<1>10. At(k) = IF k = 0 THEN None ELSE A[k]
    BY DEF At
<1>11. T \subseteq D
    BY DEF After
<1> HIDE DEF D, A, n, T, size, page, m
<1>12. e = k + m /\ e \in k .. n /\ (m = 0 => k = n)
    BY <1>1, <1>2, <1>3, <1>6, <1>8 DEF Least
<1> HIDE DEF e
<1>13. \A i \in 1 .. m : page[i] = A[k + i]
    BY <1>1, <1>2, <1>6, <1>7
<1>14. page = SubSeq(A, k + 1, e)
    <2>1. \A i \in k + 1 .. e : A[i] \in D
        BY <1>1, <1>2, <1>12
    <2>2. e \in Int /\ k + 1 \in Int
        BY <1>1, <1>2, <1>12
    <2>3. /\ SubSeq(A, k + 1, e) \in Seq(D)
          /\ Len(SubSeq(A, k + 1, e)) = IF k + 1 <= e THEN e - (k + 1) + 1 ELSE 0
          /\ \A i \in 1 .. e - (k + 1) + 1 : SubSeq(A, k + 1, e)[i] = A[k + 1 + i - 1]
        BY <2>1, <2>2, SubSeqProperties
    <2>4. e - (k + 1) + 1 = m /\ Len(SubSeq(A, k + 1, e)) = m
        BY <1>2, <1>7, <1>12, <2>3
    <2>5. \A i \in 1 .. m : SubSeq(A, k + 1, e)[i] = page[i]
        <3>1. \A i \in 1 .. m : k + 1 + i - 1 = k + i
            BY <1>2, <1>7
        <3> QED BY <1>13, <2>3, <2>4, <3>1
    <2>6. page \in Seq(D)
        <3>1. Seq(T) \subseteq Seq(D)
            BY <1>11
        <3> QED BY <1>7, <3>1
    <2> QED BY <1>7, <2>3, <2>4, <2>5, <2>6, SeqEqual
<1>15. At(e) = IF page = <<>> THEN At(k) ELSE page[Len(page)]
    <2>1. CASE m = 0
        <3>1. page = <<>>
            BY <1>7, <2>1
        <3>2. e = k
            BY <1>2, <1>12, <2>1
        <3> QED BY <3>1, <3>2
    <2>2. CASE m # 0
        <3>1. page # <<>> /\ page[Len(page)] = A[k + m]
            BY <1>7, <1>13, <2>2
        <3>2. e # 0
            BY <1>2, <1>7, <1>12, <2>2
        <3> QED BY <1>9, <1>12, <3>1, <3>2
    <2> QED BY <2>1, <2>2
<1> QED BY <1>1, <1>3, <1>14, <1>15 DEF D, A, n, size, e, page

\* F is where the pages start when each follows the one before.
Starts(F, limit) ==
    F = [n \in Nat |->
            IF n = 0 THEN None
            ELSE LET page == ListBounties(F[n - 1], limit)
                 IN  IF page = <<>> THEN F[n - 1] ELSE page[Len(page)]]

\* How many bounties the first n pages show.
Passed(n, limit) == Least(n * PageSize(limit), Cardinality(DOMAIN bounties))

\* A page more passes a page more.
LEMMA PassedMore ==
    ASSUME NEW limit, PageSize(limit) \in Nat \ {0}, Cardinality(DOMAIN bounties) \in Nat,
           NEW n \in Nat \ {0}
    PROVE  LET size == PageSize(limit)
               c    == Cardinality(DOMAIN bounties)
           IN  /\ Passed(n - 1, limit) \in 0 .. c /\ Passed(n, limit) \in 0 .. c
               /\ Passed(n - 1, limit) <= Passed(n, limit)
               /\ Passed(n, limit) = Least(Passed(n - 1, limit) + size, c)
<1> DEFINE size == PageSize(limit)
           c    == Cardinality(DOMAIN bounties)
           x    == (n - 1) * size
<1>1. x \in Nat /\ n * size = x + size
    <2> HIDE DEF size
    <2> QED BY DEF size
<1>2. Passed(n - 1, limit) = Least(x, c) /\ Passed(n, limit) = Least(x + size, c)
    BY <1>1 DEF Passed
<1> HIDE DEF x, c, size
<1>3. c \in Nat /\ size \in Nat \ {0}
    BY DEF c, size
<1> QED BY <1>1, <1>2, <1>3 DEF Least, c, size

\* The n-th page starts after what the pages before it show.
LEMMA StartsAre ==
    ASSUME DOMAIN bounties \subseteq Nat, IsFiniteSet(DOMAIN bounties),
           NEW limit \in {None} \cup 1 .. MaxLimit + 1
    PROVE  \A n \in Nat : (CHOOSE F : Starts(F, limit))[n] = At(Passed(n, limit))
<1> DEFINE c == Cardinality(DOMAIN bounties)
           G == [n \in Nat |-> At(Passed(n, limit))]
           F == CHOOSE f : Starts(f, limit)
<1>1. c \in Nat /\ PageSize(limit) \in Nat \ {0}
    <2>1. c \in Nat
        BY FS_CardinalityType
    <2>2. PageSize(limit) \in Nat \ {0}
        BY NumberAssumption DEF PageSize, None
    <2> QED BY <2>1, <2>2
<1>2. At(Passed(0, limit)) = None
    <2>1. Passed(0, limit) = 0
        BY <1>1 DEF Passed, Least
    <2> QED BY <2>1 DEF At
<1>3. ASSUME NEW n \in Nat \ {0}
      PROVE  LET page == ListBounties(At(Passed(n - 1, limit)), limit)
             IN  At(Passed(n, limit)) = IF page = <<>> THEN At(Passed(n - 1, limit))
                                        ELSE page[Len(page)]
    <2> DEFINE k == Passed(n - 1, limit)
    <2>1. k \in 0 .. c /\ Passed(n, limit) = Least(k + PageSize(limit), c)
        BY <1>1, PassedMore
    <2> HIDE DEF k
    <2>2. LET page == ListBounties(At(k), limit)
          IN  At(Least(k + PageSize(limit), c)) =
                  IF page = <<>> THEN At(k) ELSE page[Len(page)]
        BY <2>1, PageAt
    <2> QED BY <2>1, <2>2 DEF k
<1>4. Starts(G, limit)
    <2>1. ASSUME NEW n \in Nat
          PROVE  G[n] = IF n = 0 THEN None
                        ELSE LET page == ListBounties(G[n - 1], limit)
                             IN  IF page = <<>> THEN G[n - 1] ELSE page[Len(page)]
        <3>1. CASE n = 0
            BY <1>2, <3>1
        <3>2. CASE n # 0
            <4>1. n - 1 \in Nat /\ n \in Nat \ {0}
                BY <3>2
            <4>2. G[n] = At(Passed(n, limit)) /\ G[n - 1] = At(Passed(n - 1, limit))
                BY <4>1
            <4> HIDE DEF G
            <4> QED BY <1>3, <3>2, <4>1, <4>2
        <3> QED BY <3>1, <3>2
    <2>2. G = [n \in Nat |-> G[n]]
        OBVIOUS
    <2> HIDE DEF G
    <2> QED BY <2>1, <2>2, Zenon DEF Starts
<1>5. Starts(F, limit)
    <2> HIDE DEF G
    <2> QED BY <1>4, Zenon
<1> HIDE DEF F, G
<1>6. ASSUME NEW n \in Nat
      PROVE  F[n] = IF n = 0 THEN None
                    ELSE LET page == ListBounties(F[n - 1], limit)
                         IN  IF page = <<>> THEN F[n - 1] ELSE page[Len(page)]
    BY <1>5, Zenon DEF Starts
<1> DEFINE N == {n \in Nat : F[n] = At(Passed(n, limit))}
<1>7. 0 \in N
    BY <1>2, <1>6
<1>8. ASSUME NEW n \in Nat, n \in N PROVE n + 1 \in N
    <2>1. n + 1 \in Nat \ {0} /\ n + 1 - 1 = n
        OBVIOUS
    <2>2. F[n + 1] = LET page == ListBounties(F[n], limit)
                     IN  IF page = <<>> THEN F[n] ELSE page[Len(page)]
        BY <1>6, <2>1
    <2>3. F[n] = At(Passed(n, limit))
        BY <1>8
    <2>4. LET page == ListBounties(At(Passed(n, limit)), limit)
          IN  At(Passed(n + 1, limit)) = IF page = <<>> THEN At(Passed(n, limit))
                                         ELSE page[Len(page)]
        BY <1>3, <2>1
    <2> QED BY <2>1, <2>2, <2>3, <2>4
<1>9. Nat \subseteq N
    <2> HIDE DEF N
    <2> QED BY <1>7, <1>8, NatSteps
<1> QED BY <1>9 DEF F

LEMMA FlattenIs ==
    ASSUME NEW parts, Len(parts) # 0
    PROVE  FlattenSeq(parts) = (CHOOSE F : Joins(F, parts))[Len(parts)]
  BY Zenon DEF FlattenSeq, Joins

\* Pages of any size, each from where the one before ends, are the list.
LEMMA PagesJoin ==
    ASSUME DOMAIN bounties \subseteq Nat, IsFiniteSet(DOMAIN bounties),
           NEW limit \in {None} \cup 1 .. MaxLimit + 1
    PROVE  FlattenSeq([n \in 1 .. Cardinality(DOMAIN bounties) |->
                          ListBounties((CHOOSE F : Starts(F, limit))[n - 1], limit)])
               = Ascending(DOMAIN bounties)
<1> DEFINE D    == DOMAIN bounties
           A    == Ascending(D)
           c    == Cardinality(D)
           size == PageSize(limit)
           e    == [n \in 0 .. c |-> Passed(n, limit)]
           pages == [n \in 1 .. c |->
                        ListBounties((CHOOSE F : Starts(F, limit))[n - 1], limit)]
<1>1. c \in Nat /\ A \in [1 .. c -> D]
    BY AscendingLists, Zenon
<1>2. A \in Seq(D) /\ Len(A) = c
    <2> HIDE DEF A, D, c
    <2> QED BY <1>1
<1>3. DOMAIN pages = 1 .. c /\ Len(pages) = c
    <2> HIDE DEF c
    <2> QED BY <1>1 DEF c
<1>4. size \in Nat \ {0}
    BY NumberAssumption DEF PageSize, None
<1>5. CASE c = 0
    <2>1. pages = <<>> /\ A = <<>>
        <3> HIDE DEF A, D, c
        <3> QED BY <1>1, <1>2, <1>3, <1>5 DEF c, D
    <2>2. FlattenSeq(pages) = pages
        BY <1>3, <1>5 DEF FlattenSeq
    <2> QED BY <2>1, <2>2
<1>6. CASE c # 0
    <2>1. e[0] = 0 /\ e[c] = c
        <3>1. Passed(0, limit) = 0
            BY <1>1, <1>4 DEF Passed, Least
        <3>2. Passed(c, limit) = c
            <4> HIDE DEF size, c, D
            <4>1. c * size \in Nat /\ c <= c * size
                BY <1>1, <1>4
            <4> QED BY <1>1, <4>1 DEF Passed, Least, size, c, D
        <3> QED BY <1>1, <3>1, <3>2
    <2>2. ASSUME NEW n \in 1 .. c
          PROVE  /\ Passed(n - 1, limit) \in 0 .. c /\ Passed(n, limit) \in 0 .. c
                 /\ Passed(n - 1, limit) <= Passed(n, limit)
                 /\ pages[n] = SubSeq(A, Passed(n - 1, limit) + 1, Passed(n, limit))
        <3> DEFINE k == Passed(n - 1, limit)
        <3>1. n \in Nat \ {0} /\ n - 1 \in Nat
            BY <1>1
        <3>2. /\ k \in 0 .. c /\ Passed(n, limit) \in 0 .. c
              /\ k <= Passed(n, limit)
              /\ Passed(n, limit) = Least(k + size, c)
            BY <1>1, <1>4, <3>1, PassedMore
        <3>3. (CHOOSE F : Starts(F, limit))[n - 1] = At(k)
            BY <3>1, StartsAre
        <3>4. pages[n] = ListBounties(At(k), limit)
            BY <3>3
        <3> HIDE DEF k
        <3>5. ListBounties(At(k), limit) = SubSeq(A, k + 1, Least(k + size, c))
            BY <3>2, PageAt
        <3> QED BY <3>2, <3>4, <3>5 DEF k
    <2>3. e \in [0 .. c -> 0 .. c]
        <3>1. ASSUME NEW n \in 0 .. c PROVE Passed(n, limit) \in 0 .. c
            <4>1. CASE n = 0
                <5>1. Passed(0, limit) = 0
                    BY <1>1, <1>4 DEF Passed, Least
                <5> QED BY <1>1, <4>1, <5>1
            <4>2. CASE n # 0
                <5>1. n \in 1 .. c
                    BY <1>1, <4>2
                <5> QED BY <2>2, <5>1
            <4> QED BY <4>1, <4>2
        <3> QED BY <3>1
    <2>4. \A n \in 1 .. c : e[n - 1] <= e[n] /\ pages[n] = SubSeq(A, e[n - 1] + 1, e[n])
        <3>1. \A n \in 1 .. c : n \in 0 .. c /\ n - 1 \in 0 .. c
            BY <1>1
        <3> QED BY <2>2, <3>1
    <2> HIDE DEF e, A, c, D, pages
    <2>5. (CHOOSE F : Joins(F, pages))[c] = A
        <3>1. c \in Nat \ {0} /\ Len(pages) = c /\ A \in Seq(D)
            BY <1>1, <1>2, <1>3, <1>6
        <3>2. e \in [0 .. c -> 0 .. Len(A)] /\ e[0] = 0 /\ e[c] = Len(A)
            BY <1>2, <2>1, <2>3
        <3> QED BY <2>4, <3>1, <3>2, PartsJoin
    <2>6. FlattenSeq(pages) = A
        BY <1>3, <1>6, <2>5, FlattenIs
    <2> QED BY <2>6 DEF A, D, c, pages
<1> QED BY <1>5, <1>6

\* There are finitely many bounties.
Finite == IsFiniteSet(DOMAIN bounties)

LEMMA FiniteStep == TypeOK /\ Finite /\ [Next]_vars => Finite'
<1> SUFFICES ASSUME TypeOK, Finite, [Next]_vars
             PROVE  Finite'
    OBVIOUS
<1>1. CASE UNCHANGED vars
    BY <1>1 DEF vars, Finite
<1>2. CASE Next
    <2>1. PICK sender \in Account, coins \in Funds :
              \/ \E collector \in Account, pct \in FeePct : Instantiate(sender, collector, pct)
              \/ \E id \in TaskId : FundBounty(sender, coins, id)
              \/ \E id \in TaskId : ClaimBounty(sender, coins, id)
              \/ \E pct \in FeePct : UpdateFee(sender, coins, pct)
              \/ \E id \in TaskId, pct \in MultiplierPct : AddBonus(sender, coins, id, pct)
        BY <1>2 DEF Next
    <2>2. ASSUME NEW collector \in Account, NEW pct \in FeePct,
                 Instantiate(sender, collector, pct)
          PROVE  Finite'
        BY <2>2 DEF Instantiate, Finite
    <2>3. ASSUME NEW id \in TaskId, FundBounty(sender, coins, id)
          PROVE  Finite'
        <3>1. DOMAIN bounties' = DOMAIN bounties \cup {id}
            BY <2>3, FundedIs
        <3> QED BY <3>1, FS_AddElement DEF Finite
    <2>4. ASSUME NEW id \in TaskId, ClaimBounty(sender, coins, id)
          PROVE  Finite'
        BY <2>4, ClaimedIs DEF Finite
    <2>5. ASSUME NEW pct \in FeePct, UpdateFee(sender, coins, pct)
          PROVE  Finite'
        BY <2>5 DEF UpdateFee, Finite
    <2>6. ASSUME NEW id \in TaskId, NEW pct \in MultiplierPct,
                 AddBonus(sender, coins, id, pct)
          PROVE  Finite'
        BY <2>6, BonusIs DEF Finite
    <2> QED BY <2>1, <2>2, <2>3, <2>4, <2>5, <2>6
<1> QED BY <1>1, <1>2

LEMMA AlwaysFinite == Spec => []Finite
<1>1. Init => Finite
    BY FS_EmptySet DEF Init, Finite
<1>2. TypeOK /\ Finite /\ [Next]_vars => Finite'
    BY FiniteStep
<1> QED BY <1>1, <1>2, TypeCorrect, PTL DEF Spec

\* Whoever follows start_after from page to page (query_list_bounties) sees every bounty
\* once and in order, with whatever limit, or none, for every default and maximum.
THEOREM BountyPagesCover == Spec => []PagesCoverBounties
<1>1. TypeOK /\ Finite => PagesCoverBounties
    <2> SUFFICES ASSUME TypeOK, Finite
                 PROVE  PagesCoverBounties
        OBVIOUS
    <2>1. DOMAIN bounties \subseteq Nat /\ IsFiniteSet(DOMAIN bounties)
        BY NumberAssumption DEF TypeOK, Finite
    <2>2. ASSUME NEW limit \in {None} \cup 1 .. MaxLimit + 1
          PROVE  FlattenSeq([n \in 1 .. Cardinality(DOMAIN bounties) |->
                     ListBounties((CHOOSE F : Starts(F, limit))[n - 1], limit)])
                 = Ascending(DOMAIN bounties)
        BY <2>1, PagesJoin, Zenon
    <2> QED BY <2>2, Zenon DEF PagesCoverBounties, Starts
<1> QED BY <1>1, TypeCorrect, AlwaysFinite, PTL
=============================================================================
