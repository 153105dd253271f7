------------------------ MODULE TokenGateway_proofs ------------------------
(***************************************************************************)
(* For any chains, decimals, amounts and any number of transfers,          *)
(* governance requests, expiries and refunds, in any order: what the       *)
(* gateways hold backs every ERC6160 and every transfer under way, and the *)
(* inspector's balances cover what they answer for.                        *)
(*                                                                         *)
(* Every step is one of a few moves of value (Sends, Settles, a step of    *)
(* the inspector, or none), and each move changes both sides of the two    *)
(* inequalities by amounts that are compared here.                         *)
(***************************************************************************)
EXTENDS TokenGateway, NumberFacts

Bodies == [source : Chains, dest : Chains, amount : Nat, redeem : BOOLEAN]
Stages == {"none", "sent", "routed", "received", "lapsed", "refunded"}

\* The shapes of the state, and that finitely many transfers are under way.
GatewayTypes ==
    /\ GatewayConstants
    /\ native \in SUBSET Substrate
    /\ custody \in [Chains -> Nat] /\ wallet \in [Chains -> Nat]
    /\ bridged \in [EvmChains -> Nat] /\ inflow \in [Substrate -> Nat]
    /\ status \in [Transfers -> Stages]
    /\ transfer \in [Transfers -> Bodies \cup {None}]
    /\ \A t \in Transfers : status[t] # "none" => transfer[t] \in Bodies
    /\ IsFiniteSet(InFlight)

\* The amounts of the bodies b of the transfers in S.
Amounts(b, S) == SumFunctionOnSet([t \in S |-> b[t].amount], S)

LEMMA AmountOfIs == \A S : AmountOf(S) = Amounts(transfer, S)
<1> TAKE S
<1>1. DOMAIN [t \in S |-> transfer[t].amount] = S
  OBVIOUS
<1> QED BY <1>1 DEF AmountOf, Amounts, SumFunction

\* A set of transfers with one more, one less, or the same transfers.
LEMMA AmountsAdd ==
    ASSUME NEW S, IsFiniteSet(S), NEW t, t \notin S, NEW b, NEW c,
           \A u \in S : b[u].amount \in Nat /\ c[u] = b[u], c[t].amount \in Nat
    PROVE  Amounts(c, S \cup {t}) = Amounts(b, S) + c[t].amount
<1> DEFINE f == [u \in S |-> b[u].amount]
           g == [u \in S \cup {t} |-> c[u].amount]
<1>1. (\A y \in S : f[y] \in Int /\ g[y] = f[y]) /\ g[t] \in Int
  OBVIOUS
<1> HIDE DEF f, g
<1>2. SumFunctionOnSet(g, S \cup {t}) = SumFunctionOnSet(f, S) + g[t]
  BY <1>1, SumAdd
<1> QED BY <1>2 DEF Amounts, f, g

LEMMA AmountsNat ==
    ASSUME NEW S, IsFiniteSet(S), NEW b, \A u \in S : b[u].amount \in Nat
    PROVE  Amounts(b, S) \in Nat
<1> DEFINE f == [u \in S |-> b[u].amount]
<1>1. \A y \in S : f[y] \in Nat
  OBVIOUS
<1> HIDE DEF f
<1>2. SumFunctionOnSet(f, S) \in Nat
  BY <1>1, SumNat
<1> QED BY <1>2 DEF Amounts, f

LEMMA AmountsRemove ==
    ASSUME NEW S, IsFiniteSet(S), NEW t \in S, NEW b, \A u \in S : b[u].amount \in Nat
    PROVE  Amounts(b, S) = Amounts(b, S \ {t}) + b[t].amount
<1> DEFINE T == S \ {t}
<1>0. IsFiniteSet(T) /\ t \notin T
  BY FS_RemoveElement
<1>1. T \cup {t} = S
  OBVIOUS
<1> HIDE DEF T
<1> DEFINE f == [u \in T |-> b[u].amount]
           g == [u \in T \cup {t} |-> b[u].amount]
<1>5. g[t] = b[t].amount
  OBVIOUS
<1>2. (\A y \in T : f[y] \in Int /\ g[y] = f[y]) /\ g[t] \in Int
  BY <1>1
<1> HIDE DEF f, g
<1>3. SumFunctionOnSet(g, T \cup {t}) = SumFunctionOnSet(f, T) + g[t]
  BY <1>0, <1>2, SumAdd
<1>4. Amounts(b, T \cup {t}) = Amounts(b, T) + b[t].amount
  BY Zenon, <1>3, <1>5 DEF Amounts, f, g
<1> QED BY Zenon, <1>1, <1>4 DEF T

LEMMA AmountsSplit ==
    ASSUME NEW S, IsFiniteSet(S), NEW T \in SUBSET S, NEW b, \A u \in S : b[u].amount \in Nat
    PROVE  Amounts(b, S) = Amounts(b, T) + Amounts(b, S \ T)
<1> DEFINE f == [u \in S |-> b[u].amount]
           part(U) == [u \in U |-> b[u].amount]
<1>1. \A y \in S : f[y] \in Int
  OBVIOUS
<1>2. SumFunctionOnSet(f, S) = SumFunctionOnSet(f, T) + SumFunctionOnSet(f, S \ T)
  <2> HIDE DEF f
  <2> QED BY <1>1, SumSplit
<1>3. ASSUME NEW U \in SUBSET S PROVE SumFunctionOnSet(f, U) = Amounts(b, U)
  <2>1. IsFiniteSet(U)
    BY FS_Subset
  <2>2. \A y \in U : f[y] = part(U)[y] /\ f[y] \in Int
    OBVIOUS
  <2>3. SumFunctionOnSet(f, U) = SumFunctionOnSet(part(U), U)
    <3> HIDE DEF f, part
    <3> QED BY <2>1, <2>2, SumSame
  <2> QED BY <2>3 DEF Amounts
<1> HIDE DEF f
<1> QED BY <1>2, <1>3

LEMMA AmountsSame ==
    ASSUME NEW S, NEW b, NEW c, \A u \in S : c[u] = b[u]
    PROVE  Amounts(c, S) = Amounts(b, S)
BY DEF Amounts

----------------------------------------------------------------------------
\* What the gateways hold beyond what the holders of ERC6160s can claim.
DepositsOf(held, own) == [s \in Substrate |-> (held[s] - (IF s \in own THEN 0 ELSE Float)) * Scale[s]]
Held == SumFunctionOnSet(custody, EvmChains)
        + SumFunctionOnSet(DepositsOf(custody, native), Substrate)
        - SumFunctionOnSet(bridged, EvmChains)

LEMMA GatewayChains ==
    GatewayConstants =>
    /\ IsFiniteSet(EvmChains) /\ IsFiniteSet(Substrate)
    /\ EvmChains \cap Substrate = {}
    /\ Scale \in [Substrate -> Nat \ {0}] /\ Float \in Nat /\ Supply \in Nat /\ MaxAmount \in Nat
BY FS_Subset DEF GatewayConstants, Chains

LEMMA FiniteChains ==
    GatewayTypes =>
    /\ IsFiniteSet(EvmChains) /\ IsFiniteSet(Substrate)
    /\ EvmChains \cap Substrate = {}
    /\ Scale \in [Substrate -> Nat \ {0}] /\ Float \in Nat /\ Supply \in Nat /\ MaxAmount \in Nat
BY GatewayChains DEF GatewayTypes

LEMMA HeldInt ==
    ASSUME GatewayTypes
    PROVE  /\ SumFunctionOnSet(custody, EvmChains) \in Int
           /\ SumFunctionOnSet(DepositsOf(custody, native), Substrate) \in Int
           /\ SumFunctionOnSet(bridged, EvmChains) \in Int
<1>1. \A s \in Substrate : DepositsOf(custody, native)[s] \in Int
  BY FiniteChains DEF DepositsOf, GatewayTypes, Chains
<1>2. \A c \in EvmChains : custody[c] \in Int /\ bridged[c] \in Int
  BY DEF GatewayTypes, Chains
<1> QED BY <1>1, <1>2, FiniteChains, SumInt

LEMMA HeldIsInt == GatewayTypes => Held \in Int
BY HeldInt DEF Held

LEMMA BackedIs ==
    ASSUME GatewayTypes
    PROVE  Backed <=> Amounts(transfer, InFlight) <= Held
<1>1. Amounts(transfer, InFlight) \in Nat
  BY AmountsNat DEF GatewayTypes, InFlight, Bodies
<1>2. DOMAIN bridged = EvmChains
  BY DEF GatewayTypes
<1>3. /\ [s \in Substrate |-> Deposits(s)] = DepositsOf(custody, native)
      /\ DOMAIN DepositsOf(custody, native) = Substrate
  BY DEF DepositsOf, Deposits
<1>4. Backed <=>
        SumFunctionOnSet(bridged, EvmChains) + Amounts(transfer, InFlight)
          <= SumFunctionOnSet(custody, EvmChains)
             + SumFunctionOnSet(DepositsOf(custody, native), Substrate)
  BY <1>2, <1>3, AmountOfIs DEF Backed, SumFunction
<1> QED BY <1>1, <1>4, HeldInt DEF Held

\* A change of what one gateway holds, and of the ERC6160s of one chain.
LEMMA CustodyChange ==
    ASSUME GatewayTypes, GatewayTypes', native' = native, bridged' = bridged,
           NEW c \in Chains, \A y \in Chains \ {c} : custody'[y] = custody[y]
    PROVE  /\ c \in EvmChains => Held' = Held + (custody'[c] - custody[c])
           /\ c \in Substrate => Held' = Held + (custody'[c] - custody[c]) * Scale[c]
<1> DEFINE d == custody'[c] - custody[c]
           new == custody'
           dep == DepositsOf(custody, native)
           newdep == DepositsOf(new, native)
<1>0. IsFiniteSet(EvmChains) /\ \A y \in EvmChains : custody[y] \in Int /\ new[y] \in Int
  BY FiniteChains DEF DepositsOf, GatewayTypes, Chains
<1>1. IsFiniteSet(Substrate) /\ \A y \in Substrate : dep[y] \in Int /\ newdep[y] \in Int
  BY FiniteChains DEF DepositsOf, GatewayTypes, Chains
<1>2. Held' = SumFunctionOnSet(new, EvmChains) + SumFunctionOnSet(newdep, Substrate)
              - SumFunctionOnSet(bridged, EvmChains)
  BY DEF Held
<1>3. CASE c \in EvmChains
  <2>0. \A y \in EvmChains \ {c} : new[y] = custody[y]
    BY DEF GatewayTypes, Chains
  <2>1. \A y \in Substrate : newdep[y] = dep[y]
    BY <1>3, FiniteChains DEF GatewayTypes, Chains, DepositsOf
  <2>2. new[c] = custody[c] + d
    BY DEF GatewayTypes, Chains
  <2>6. d \in Int
    BY DEF GatewayTypes
  <2> HIDE DEF new, dep, newdep, d
  <2>3. SumFunctionOnSet(new, EvmChains) = SumFunctionOnSet(custody, EvmChains) + new[c] - custody[c]
    BY <1>0, <1>3, <2>0, SumChange
  <2>4. SumFunctionOnSet(newdep, Substrate) = SumFunctionOnSet(dep, Substrate)
    BY <1>1, <2>1, SumSame
  <2>5. custody[c] \in Int
    BY <1>0, <1>3
  <2> QED BY <1>2, <1>3, <2>2, <2>3, <2>4, <2>5, <2>6, FiniteChains, HeldInt DEF Held, dep, d
<1>4. CASE c \in Substrate
  <2>0. \A y \in EvmChains : new[y] = custody[y]
    BY <1>4, FiniteChains DEF GatewayTypes, Chains
  <2>1. \A y \in Substrate \ {c} : newdep[y] = dep[y]
    BY DEF GatewayTypes, Chains, DepositsOf
  <2>2. newdep[c] = dep[c] + d * Scale[c]
    BY <1>4, FiniteChains DEF GatewayTypes, Chains, DepositsOf
  <2>6. d \in Int
    BY DEF GatewayTypes
  <2> HIDE DEF new, dep, newdep, d
  <2>3. SumFunctionOnSet(newdep, Substrate) = SumFunctionOnSet(dep, Substrate) + newdep[c] - dep[c]
    BY <1>1, <1>4, <2>1, SumChange
  <2>4. SumFunctionOnSet(new, EvmChains) = SumFunctionOnSet(custody, EvmChains)
    BY <1>0, <2>0, SumSame
  <2>5. dep[c] \in Int /\ d * Scale[c] \in Int
    BY <1>1, <1>4, <2>6, FiniteChains
  <2> QED BY <1>2, <1>4, <2>2, <2>3, <2>4, <2>5, <2>6, FiniteChains, HeldInt DEF Held, dep, d
<1> QED BY <1>3, <1>4

LEMMA BridgedChange ==
    ASSUME GatewayTypes, GatewayTypes', native' = native, custody' = custody,
           NEW c \in EvmChains, \A y \in EvmChains \ {c} : bridged'[y] = bridged[y]
    PROVE  Held' = Held - (bridged'[c] - bridged[c])
<1> DEFINE new == bridged'
<1>1. /\ \A y \in EvmChains : bridged[y] \in Int /\ new[y] \in Int
      /\ \A y \in EvmChains \ {c} : new[y] = bridged[y]
  BY DEF GatewayTypes
<1>2. new[c] = bridged'[c] /\ new[c] \in Int /\ bridged[c] \in Int
  BY DEF GatewayTypes
<1>3. Held' = SumFunctionOnSet(custody, EvmChains)
              + SumFunctionOnSet(DepositsOf(custody, native), Substrate)
              - SumFunctionOnSet(new, EvmChains)
  BY DEF Held
<1> HIDE DEF new
<1>4. IsFiniteSet(EvmChains)
  BY FiniteChains
<1>5. SumFunctionOnSet(new, EvmChains) = SumFunctionOnSet(bridged, EvmChains) + new[c] - bridged[c]
  BY <1>1, <1>4, SumChange
<1> QED BY <1>2, <1>3, <1>5, HeldInt DEF Held

----------------------------------------------------------------------------
\* The transfers that the inspector's balance of s answers for: those s has
\* sent, until Hyperbridge takes them or once it has given them back, and
\* those on their way to it.
Covered(s) ==
    {t \in InFlight : /\ status[t] # "routed" => transfer[t].source = s
                      /\ status[t] = "routed" => transfer[t].dest = s}

\* What t adds to the amounts of S.
Part(b, S, t) == IF t \in S THEN b[t].amount ELSE 0

LEMMA AmountsMove ==
    ASSUME NEW S, IsFiniteSet(S), NEW T, IsFiniteSet(T), NEW t, S \ {t} = T \ {t}, NEW b, NEW c,
           \A u \in S : b[u].amount \in Nat, \A u \in T : c[u].amount \in Nat,
           \A u \in S \ {t} : c[u] = b[u]
    PROVE  Amounts(c, T) = Amounts(b, S) + Part(c, T, t) - Part(b, S, t)
<1>1. Amounts(b, S) = Amounts(b, S \ {t}) + Part(b, S, t)
  <2>1. CASE t \in S
    BY <2>1, AmountsRemove DEF Part
  <2>2. CASE t \notin S
    <3>1. S \ {t} = S
      BY <2>2
    <3>2. Amounts(b, S) \in Nat
      BY AmountsNat
    <3>3. Part(b, S, t) = 0 /\ Amounts(b, S \ {t}) = Amounts(b, S)
      BY <2>2, <3>1 DEF Part
    <3> QED BY <3>2, <3>3
  <2> QED BY <2>1, <2>2
<1>2. Amounts(c, T) = Amounts(c, T \ {t}) + Part(c, T, t)
  <2>1. CASE t \in T
    BY <2>1, AmountsRemove DEF Part
  <2>2. CASE t \notin T
    <3>1. T \ {t} = T
      BY <2>2
    <3>2. Amounts(c, T) \in Nat
      BY AmountsNat
    <3>3. Part(c, T, t) = 0 /\ Amounts(c, T \ {t}) = Amounts(c, T)
      BY <2>2, <3>1 DEF Part
    <3> QED BY <3>2, <3>3
  <2> QED BY <2>1, <2>2
<1>3. Amounts(c, T \ {t}) = Amounts(b, S \ {t})
  BY AmountsSame
<1>4. Amounts(b, S \ {t}) \in Nat
  <2>1. IsFiniteSet(S \ {t})
    BY FS_Subset
  <2> QED BY <2>1, AmountsNat
<1>5. Part(b, S, t) \in Nat /\ Part(c, T, t) \in Nat
  BY DEF Part
<1> QED BY <1>1, <1>2, <1>3, <1>4, <1>5

\* The sets of transfers are finite, and their amounts are naturals.
LEMMA FiniteParts ==
    ASSUME GatewayTypes, NEW X \in SUBSET InFlight
    PROVE  /\ IsFiniteSet(X)
           /\ \A u \in X : transfer[u] \in Bodies /\ transfer[u].amount \in Nat
           /\ Amounts(transfer, X) \in Nat
<1>1. IsFiniteSet(X)
  BY FS_Subset DEF GatewayTypes
<1>2. \A u \in X : transfer[u] \in Bodies
  BY DEF GatewayTypes, InFlight
<1>3. \A u \in X : transfer[u].amount \in Nat
  BY <1>2 DEF Bodies
<1> QED BY <1>1, <1>2, <1>3, AmountsNat

\* A step of one transfer moves a sum by what that transfer adds.
LEMMA OneMoves ==
    ASSUME GatewayTypes, GatewayTypes', NEW t \in Transfers,
           \A u \in Transfers \ {t} : transfer'[u] = transfer[u],
           NEW X \in SUBSET InFlight, NEW Y \in SUBSET InFlight', X \ {t} = Y \ {t}
    PROVE  \E was, now \in Nat :
             /\ Amounts(transfer', Y) = Amounts(transfer, X) + now - was
             /\ t \in X => was = transfer[t].amount
             /\ t \notin X => was = 0
             /\ t \in Y => now = transfer'[t].amount
             /\ t \notin Y => now = 0
<1>1. IsFiniteSet(X) /\ \A u \in X : transfer[u].amount \in Nat
  BY FiniteParts
<1>2. IsFiniteSet(Y)
  BY FS_Subset DEF GatewayTypes
<1>3. \A u \in Y : transfer'[u].amount \in Nat
  BY DEF GatewayTypes, InFlight, Bodies
<1>4. \A u \in X \ {t} : transfer'[u] = transfer[u]
  BY DEF InFlight
<1>5. Amounts(transfer', Y) = Amounts(transfer, X) + Part(transfer', Y, t) - Part(transfer, X, t)
  BY <1>1, <1>2, <1>3, <1>4, AmountsMove
<1>6. Part(transfer, X, t) \in Nat /\ Part(transfer', Y, t) \in Nat
  BY <1>1, <1>3 DEF Part
<1> QED BY <1>5, <1>6 DEF Part

----------------------------------------------------------------------------
\* The value, in ERC units, of x tokens of a chain.
Worth(c, x) == IF c \in Substrate THEN x * Scale[c] ELSE x

\* The gateway of c takes a value of v, or gives away at most that.
Takes(c, v) == \E x \in Nat : /\ Worth(c, x) = v
                              /\ Lock(c, x) \/ (c \in EvmChains /\ Burn(c, x))
Gives(c, v) == \E x \in Nat : /\ Worth(c, x) <= v
                              /\ Release(c, x) \/ (c \in EvmChains /\ Mint(c, x))

LEMMA BalanceTypes ==
    ASSUME GatewayTypes, NEW c \in Chains, NEW v \in Nat, Takes(c, v) \/ Gives(c, v)
    PROVE  /\ custody' \in [Chains -> Nat] /\ wallet' \in [Chains -> Nat]
           /\ bridged' \in [EvmChains -> Nat]
BY DEF GatewayTypes, Takes, Gives, Lock, Burn, Release, Mint

LEMMA TakesValue ==
    ASSUME GatewayTypes, GatewayTypes', UNCHANGED native,
           NEW c \in Chains, NEW v \in Nat, Takes(c, v)
    PROVE  /\ Held' = Held + v
           /\ c \in Substrate => wallet'[c] * Scale[c] + v = wallet[c] * Scale[c]
           /\ \A s \in Substrate \ {c} : wallet'[s] = wallet[s]
<1>1. PICK x \in Nat : /\ Worth(c, x) = v
                       /\ Lock(c, x) \/ (c \in EvmChains /\ Burn(c, x))
  BY DEF Takes
<1>2. CASE Lock(c, x)
  <2>1. /\ custody' = [custody EXCEPT ![c] = @ + x] /\ wallet' = [wallet EXCEPT ![c] = @ - x]
        /\ UNCHANGED bridged
    BY <1>2 DEF Lock
  <2>2. Held' = Held + v
    <3>1. /\ \A y \in Chains \ {c} : custody'[y] = custody[y]
          /\ custody'[c] - custody[c] = x
      BY <2>1 DEF GatewayTypes
    <3>2. /\ c \in EvmChains => Held' = Held + (custody'[c] - custody[c])
          /\ c \in Substrate => Held' = Held + (custody'[c] - custody[c]) * Scale[c]
      BY <2>1, <3>1, CustodyChange
    <3> QED BY <1>1, <3>1, <3>2, FiniteChains DEF Worth, Chains
  <2>3. ASSUME NEW s \in Substrate, s # c
        PROVE  wallet'[s] = wallet[s]
    BY <2>1, <2>3 DEF GatewayTypes, Chains
  <2>4. ASSUME c \in Substrate
        PROVE  wallet'[c] * Scale[c] + v = wallet[c] * Scale[c]
    <3>1. v = x * Scale[c] /\ wallet'[c] = wallet[c] - x /\ wallet[c] \in Int /\ Scale[c] \in Int
      BY <1>1, <2>1, <2>4, FiniteChains DEF GatewayTypes, Chains, Worth
    <3> QED BY <3>1
  <2> QED BY <2>2, <2>3, <2>4
<1>3. CASE c \in EvmChains /\ Burn(c, x)
  <2>1. bridged' = [bridged EXCEPT ![c] = @ - x] /\ UNCHANGED <<custody, wallet>>
    BY <1>3 DEF Burn
  <2>2. bridged'[c] - bridged[c] = -x /\ \A y \in EvmChains \ {c} : bridged'[y] = bridged[y]
    BY <1>3, <2>1 DEF GatewayTypes
  <2>3. Held' = Held - (-x)
    BY <1>3, <2>1, <2>2, BridgedChange
  <2>4. v = x /\ c \notin Substrate
    BY <1>1, <1>3, FiniteChains DEF Worth
  <2>5. Held \in Int
    BY HeldIsInt
  <2> QED BY <2>1, <2>3, <2>4, <2>5
<1> QED BY <1>1, <1>2, <1>3

LEMMA GivesValue ==
    ASSUME GatewayTypes, GatewayTypes', UNCHANGED native,
           NEW c \in Chains, NEW v \in Nat, Gives(c, v)
    PROVE  /\ Held' >= Held - v
           /\ c \in Substrate => wallet'[c] * Scale[c] <= wallet[c] * Scale[c] + v
           /\ \A s \in Substrate \ {c} : wallet'[s] = wallet[s]
<1>1. PICK x \in Nat : /\ Worth(c, x) <= v
                       /\ Release(c, x) \/ (c \in EvmChains /\ Mint(c, x))
  BY DEF Gives
<1>0. Held \in Int
  BY HeldIsInt
<1>2. CASE Release(c, x)
  <2>1. /\ custody' = [custody EXCEPT ![c] = @ - x] /\ wallet' = [wallet EXCEPT ![c] = @ + x]
        /\ UNCHANGED bridged
    BY <1>2 DEF Release
  <2>2. Held' >= Held - v
    <3>1. /\ \A y \in Chains \ {c} : custody'[y] = custody[y]
          /\ custody'[c] - custody[c] = -x
      BY <2>1 DEF GatewayTypes
    <3>2. /\ c \in EvmChains => Held' = Held + (custody'[c] - custody[c])
          /\ c \in Substrate => Held' = Held + (custody'[c] - custody[c]) * Scale[c]
      BY <2>1, <3>1, CustodyChange
    <3>3. c \in Substrate => Scale[c] \in Int
      BY FiniteChains
    <3> QED BY <1>0, <1>1, <3>1, <3>2, <3>3, FiniteChains DEF Worth, Chains
  <2>3. ASSUME NEW s \in Substrate, s # c
        PROVE  wallet'[s] = wallet[s]
    BY <2>1, <2>3 DEF GatewayTypes, Chains
  <2>4. ASSUME c \in Substrate
        PROVE  wallet'[c] * Scale[c] <= wallet[c] * Scale[c] + v
    <3>1. x * Scale[c] <= v /\ wallet'[c] = wallet[c] + x /\ wallet[c] \in Int /\ Scale[c] \in Int
      BY <1>1, <2>1, <2>4, FiniteChains DEF GatewayTypes, Chains, Worth
    <3>2. wallet'[c] * Scale[c] = wallet[c] * Scale[c] + x * Scale[c]
      BY <3>1
    <3> QED BY <3>1, <3>2
  <2> QED BY <1>0, <2>2, <2>3, <2>4
<1>3. CASE c \in EvmChains /\ Mint(c, x)
  <2>1. bridged' = [bridged EXCEPT ![c] = @ + x] /\ UNCHANGED <<custody, wallet>>
    BY <1>3 DEF Mint
  <2>2. bridged'[c] - bridged[c] = x /\ \A y \in EvmChains \ {c} : bridged'[y] = bridged[y]
    BY <1>3, <2>1 DEF GatewayTypes
  <2>3. Held' = Held - x
    BY <1>3, <2>1, <2>2, BridgedChange
  <2>4. x <= v /\ c \notin Substrate
    BY <1>1, <1>3, FiniteChains DEF Worth
  <2> QED BY <1>0, <2>1, <2>3, <2>4
<1> QED BY <1>1, <1>2, <1>3

----------------------------------------------------------------------------
\* The steps of a transfer, and the steps that move nothing.
Sends(t, b) ==
    /\ status[t] = "none" /\ status' = [status EXCEPT ![t] = "sent"]
    /\ b \in Bodies /\ transfer' = [transfer EXCEPT ![t] = b]
    /\ Takes(b.source, b.amount) /\ UNCHANGED <<native, inflow>>
Settles(t, c, end) ==
    /\ status' = [status EXCEPT ![t] = end]
    /\ Gives(c, transfer[t].amount) /\ UNCHANGED <<native, transfer, inflow>>
MovesNothing == UNCHANGED <<native, custody, wallet, bridged, transfer, status, inflow>>

LEMMA GivesToLocal ==
    ASSUME GatewayTypes, NEW s \in Substrate, NEW v \in Nat, Release(s, ToLocal(s, v))
    PROVE  Gives(s, v)
<1> DEFINE x == v \div Scale[s]
<1>1. x \in Nat /\ x * Scale[s] <= v
  BY FiniteChains
<1>2. ToLocal(s, v) = x /\ Worth(s, x) = x * Scale[s]
  BY DEF ToLocal, Worth
<1> HIDE DEF x
<1> QED BY <1>1, <1>2 DEF Gives

LEMMA GatewaySteps ==
    ASSUME GatewayTypes, Next
    PROVE  \/ \E t \in Transfers : \E b \in Bodies : Sends(t, b)
           \/ \E t \in Transfers :
                \/ status[t] = "routed" /\ Settles(t, transfer[t].dest, "received")
                \/ status[t] \in {"sent", "lapsed"} /\ Settles(t, transfer[t].source, "refunded")
                \/ InspectRequest(t) \/ HandleTimeout(t)
           \/ MovesNothing
<1>1. ASSUME NEW t \in Transfers, NEW d \in Chains, NEW x \in 1..MaxAmount, NEW c \in EvmChains,
             NEW redeem \in BOOLEAN, Teleport(t, c, d, x, redeem)
      PROVE  \E b \in Bodies : Sends(t, b)
  <2> DEFINE b == [source |-> c, dest |-> d, amount |-> x, redeem |-> redeem]
  <2>1. b \in Bodies /\ b.source = c /\ b.amount = x /\ x \in Nat
    BY FiniteChains DEF Bodies, Chains
  <2>2. Lock(c, x) \/ Burn(c, x)
    BY <1>1 DEF Teleport
  <2>3. Worth(c, x) = x
    BY FiniteChains DEF Worth
  <2>4. Takes(c, x)
    BY <2>1, <2>2, <2>3 DEF Takes
  <2>5. /\ status[t] = "none" /\ status' = [status EXCEPT ![t] = "sent"]
        /\ transfer' = [transfer EXCEPT ![t] = b] /\ UNCHANGED <<native, inflow>>
    BY <1>1 DEF Teleport, Send, registry
  <2> HIDE DEF b
  <2> QED BY Zenon, <2>1, <2>4, <2>5 DEF Sends
<1>2. ASSUME NEW t \in Transfers, NEW d \in Chains, NEW x \in 1..MaxAmount, NEW s \in Substrate,
             PalletTeleport(t, s, d, x)
      PROVE  \E b \in Bodies : Sends(t, b)
  <2> DEFINE b == [source |-> s, dest |-> d, amount |-> x * Scale[s], redeem |-> FALSE]
  <2>1. x \in Nat /\ x * Scale[s] \in Nat
    BY FiniteChains
  <2>2. b \in Bodies /\ b.source = s /\ b.amount = x * Scale[s]
    BY <2>1 DEF Bodies, Chains
  <2>3. Worth(s, x) = x * Scale[s]
    BY DEF Worth
  <2>4. Takes(s, x * Scale[s])
    BY <1>2, <2>1, <2>3 DEF Takes, PalletTeleport
  <2>5. /\ status[t] = "none" /\ status' = [status EXCEPT ![t] = "sent"]
        /\ transfer' = [transfer EXCEPT ![t] = b] /\ UNCHANGED <<native, inflow>>
    BY <1>2 DEF PalletTeleport, Send, registry, ToErc
  <2> HIDE DEF b
  <2> QED BY Zenon, <2>2, <2>4, <2>5 DEF Sends
<1>3. ASSUME NEW t \in Transfers, Receive(t)
      PROVE  status[t] = "routed" /\ Settles(t, transfer[t].dest, "received")
  <2>1. /\ status[t] = "routed" /\ status' = [status EXCEPT ![t] = "received"]
        /\ UNCHANGED <<native, transfer, inflow>>
    BY <1>3 DEF Receive, registry
  <2>2. transfer[t] \in Bodies
    BY <2>1 DEF GatewayTypes
  <2>3. transfer[t].dest \in Chains /\ transfer[t].amount \in Nat
    BY <2>2 DEF Bodies
  <2>4. CASE transfer[t].dest \in EvmChains
    <3>1. \/ Release(transfer[t].dest, transfer[t].amount)
          \/ Mint(transfer[t].dest, transfer[t].amount)
      BY <1>3, <2>4 DEF Receive, HandleIncomingAsset
    <3>2. Worth(transfer[t].dest, transfer[t].amount) = transfer[t].amount
      BY <2>4, FiniteChains DEF Worth
    <3>3. Gives(transfer[t].dest, transfer[t].amount)
      BY <2>3, <2>4, <3>1, <3>2 DEF Gives
    <3> QED BY <2>1, <3>3 DEF Settles
  <2>5. CASE transfer[t].dest \notin EvmChains
    <3>1. Release(transfer[t].dest, ToLocal(transfer[t].dest, transfer[t].amount))
      BY <1>3, <2>5 DEF Receive, OnAccept
    <3>2. Gives(transfer[t].dest, transfer[t].amount)
      BY <2>3, <2>5, <3>1, GivesToLocal DEF Chains
    <3> QED BY <2>1, <3>2 DEF Settles
  <2> QED BY <2>4, <2>5
<1>4. ASSUME NEW t \in Transfers, Refund(t)
      PROVE  status[t] \in {"sent", "lapsed"} /\ Settles(t, transfer[t].source, "refunded")
  <2>1. /\ status[t] \in {"sent", "lapsed"} /\ status' = [status EXCEPT ![t] = "refunded"]
        /\ UNCHANGED <<native, transfer, inflow>>
    BY <1>4 DEF Refund, registry
  <2>2. transfer[t] \in Bodies
    BY <2>1 DEF GatewayTypes
  <2>3. transfer[t].source \in Chains /\ transfer[t].amount \in Nat
    BY <2>2 DEF Bodies
  <2>4. CASE transfer[t].source \in EvmChains
    <3>1. \/ Release(transfer[t].source, transfer[t].amount)
          \/ Mint(transfer[t].source, transfer[t].amount)
      BY <1>4, <2>4 DEF Refund, OnPostRequestTimeout
    <3>2. Worth(transfer[t].source, transfer[t].amount) = transfer[t].amount
      BY <2>4, FiniteChains DEF Worth
    <3>3. Gives(transfer[t].source, transfer[t].amount)
      BY <2>3, <2>4, <3>1, <3>2 DEF Gives
    <3> QED BY <2>1, <3>3 DEF Settles
  <2>5. CASE transfer[t].source \notin EvmChains
    <3>1. Release(transfer[t].source, ToLocal(transfer[t].source, transfer[t].amount))
      BY <1>4, <2>5 DEF Refund, OnTimeout
    <3>2. Gives(transfer[t].source, transfer[t].amount)
      BY <2>3, <2>5, <3>1, GivesToLocal DEF Chains
    <3> QED BY <2>1, <3>2 DEF Settles
  <2> QED BY <2>4, <2>5
<1>5. ASSUME NEW c, \/ HandleDeregisterAssets(c) \/ HandleChangeAssetAdmin(c)
                    \/ NewInstance(c)
      PROVE  MovesNothing
  BY <1>5 DEF MovesNothing, HandleDeregisterAssets, HandleChangeAssetAdmin,
              NewInstance, balances
<1>6. ASSUME NEW t, Expire(t)
      PROVE  MovesNothing
  BY <1>6 DEF MovesNothing, Expire, balances, registry
<1>7. Chains = Chains
  BY DEF Chains, Chains
<1> QED BY Zenon, <1>1, <1>2, <1>3, <1>4, <1>5, <1>6, <1>7 DEF Next

----------------------------------------------------------------------------
\* What Hyperbridge's inspector does to the balance of a chain.
LEMMA InspectEffect ==
    ASSUME GatewayTypes, NEW t \in Transfers, InspectRequest(t)
    PROVE  /\ status[t] = "sent" /\ status' = [status EXCEPT ![t] = "routed"]
           /\ UNCHANGED <<native, custody, wallet, bridged, transfer>>
           /\ transfer[t] \in Bodies
           /\ inflow' \in [Substrate -> Nat]
           /\ \A s \in Substrate \ native :
                \E more, less \in Nat :
                  /\ inflow'[s] = inflow[s] + more - less
                  /\ transfer[t].dest = s => more = transfer[t].amount
                  /\ transfer[t].dest # s => more = 0
                  /\ transfer[t].source = s => less = transfer[t].amount
                  /\ transfer[t].source # s => less = 0
<1> DEFINE b == transfer[t]
           credited == Plus({b.dest}, b.amount)
<1>1. /\ status[t] = "sent" /\ status' = [status EXCEPT ![t] = "routed"]
      /\ UNCHANGED <<native, custody, wallet, bridged, transfer>>
      /\ \A s \in Checked(b) : b.amount <= credited[s]
      /\ inflow' = [s \in Substrate |->
            IF s \in Checked(b) THEN credited[s] - b.amount ELSE credited[s]]
  BY Zenon DEF InspectRequest, registry, balances
<1>2. b \in Bodies
  BY <1>1 DEF GatewayTypes
<1>3. b.amount \in Nat
  BY <1>2 DEF Bodies
<1>4. \A s \in Substrate :
        /\ s = b.dest => credited[s] = inflow[s] + b.amount
        /\ s # b.dest => credited[s] = inflow[s]
        /\ inflow[s] \in Nat
        /\ s \in Checked(b) <=> (s = b.source /\ s \notin native)
  BY DEF Plus, Checked, GatewayTypes
<1> HIDE DEF b, credited
<1>5. inflow' \in [Substrate -> Nat]
  <2>1. \A s \in Substrate : credited[s] \in Nat
    BY <1>3, <1>4
  <2> QED BY <1>1, <1>3, <2>1
<1>6. ASSUME NEW s \in Substrate \ native
      PROVE  \E more, less \in Nat :
               /\ inflow'[s] = inflow[s] + more - less
               /\ b.dest = s => more = b.amount
               /\ b.dest # s => more = 0
               /\ b.source = s => less = b.amount
               /\ b.source # s => less = 0
  <2> DEFINE more == IF b.dest = s THEN b.amount ELSE 0
             less == IF b.source = s THEN b.amount ELSE 0
  <2>1. more \in Nat /\ less \in Nat
    BY <1>3
  <2>2. inflow[s] \in Nat /\ credited[s] = inflow[s] + more
    BY <1>3, <1>4
  <2>3. inflow'[s] = credited[s] - less
    BY <1>1, <1>3, <1>4, <2>2
  <2> QED BY <2>1, <2>2, <2>3
<1> QED BY Zenon, <1>1, <1>2, <1>5, <1>6 DEF b

LEMMA TimeoutEffect ==
    ASSUME GatewayTypes, NEW t \in Transfers, HandleTimeout(t)
    PROVE  /\ status[t] = "routed" /\ status' = [status EXCEPT ![t] = "lapsed"]
           /\ UNCHANGED <<native, custody, wallet, bridged, transfer>>
           /\ transfer[t] \in Bodies
           /\ inflow' \in [Substrate -> Nat]
           /\ \A s \in Substrate \ native :
                \E more, less \in Nat :
                  /\ inflow'[s] = inflow[s] + more - less
                  /\ transfer[t].source = s => more = transfer[t].amount
                  /\ transfer[t].source # s => more = 0
                  /\ transfer[t].dest = s => less = transfer[t].amount
                  /\ transfer[t].dest # s => less = 0
<1> DEFINE b == transfer[t]
           restored == Plus(Checked(b), b.amount)
<1>1. /\ status[t] = "routed" /\ status' = [status EXCEPT ![t] = "lapsed"]
      /\ UNCHANGED <<native, custody, wallet, bridged, transfer>>
      /\ b.dest \in Substrate => b.amount <= restored[b.dest]
      /\ inflow' = [s \in Substrate |->
            IF s = b.dest THEN restored[s] - b.amount ELSE restored[s]]
  BY Zenon DEF HandleTimeout, registry, balances
<1>2. b \in Bodies
  BY <1>1 DEF GatewayTypes
<1>3. b.amount \in Nat
  BY <1>2 DEF Bodies
<1>4. \A s \in Substrate :
        /\ restored[s] = IF s = b.source /\ s \notin native THEN inflow[s] + b.amount ELSE inflow[s]
        /\ inflow[s] \in Nat
  BY DEF Plus, Checked, GatewayTypes
<1> HIDE DEF b, restored
<1>5. inflow' \in [Substrate -> Nat]
  BY <1>1, <1>3, <1>4
<1>6. ASSUME NEW s \in Substrate \ native
      PROVE  \E more, less \in Nat :
               /\ inflow'[s] = inflow[s] + more - less
               /\ b.source = s => more = b.amount
               /\ b.source # s => more = 0
               /\ b.dest = s => less = b.amount
               /\ b.dest # s => less = 0
  <2> DEFINE more == IF b.source = s THEN b.amount ELSE 0
             less == IF b.dest = s THEN b.amount ELSE 0
  <2>1. more \in Nat /\ less \in Nat
    BY <1>3
  <2>2. inflow'[s] = inflow[s] + more - less
    BY <1>1, <1>3, <1>4
  <2> QED BY <2>1, <2>2
<1> QED BY <1>1, <1>2, <1>5, <1>6 DEF b

LEMMA TypesKept ==
    ASSUME GatewayTypes, Next
    PROVE  GatewayTypes'
<1>1. ASSUME NEW t \in Transfers, NEW st \in Stages, status' = [status EXCEPT ![t] = st]
      PROVE  IsFiniteSet(InFlight)' /\ status' \in [Transfers -> Stages]
  <2>1. InFlight' \subseteq InFlight \cup {t}
    BY <1>1 DEF InFlight, GatewayTypes
  <2>2. IsFiniteSet(InFlight \cup {t})
    BY FS_AddElement DEF GatewayTypes
  <2>3. IsFiniteSet(InFlight')
    BY <2>1, <2>2, FS_Subset
  <2> QED BY <1>1, <2>3 DEF GatewayTypes
<1>2. ASSUME NEW t \in Transfers, NEW b \in Bodies, Sends(t, b)
      PROVE  GatewayTypes'
  <2>1. b.source \in Chains /\ b.amount \in Nat
    BY DEF Bodies
  <2>2. /\ custody' \in [Chains -> Nat] /\ wallet' \in [Chains -> Nat]
        /\ bridged' \in [EvmChains -> Nat]
    BY <1>2, <2>1, BalanceTypes DEF Sends
  <2>3. IsFiniteSet(InFlight)' /\ status' \in [Transfers -> Stages]
    BY Zenon, <1>1, <1>2 DEF Sends, Stages
  <2>4. \A u \in Transfers : status'[u] # "none" => transfer'[u] \in Bodies
    BY <1>2 DEF Sends, GatewayTypes
  <2> QED BY <1>2, <2>2, <2>3, <2>4 DEF Sends, GatewayTypes
<1>3. ASSUME NEW t \in Transfers, NEW c \in Chains, NEW end \in {"received", "refunded"},
             status[t] # "none", Settles(t, c, end)
      PROVE  GatewayTypes'
  <2>1. transfer[t] \in Bodies
    BY <1>3 DEF GatewayTypes
  <2>2. transfer[t].amount \in Nat
    BY <2>1 DEF Bodies
  <2>3. /\ custody' \in [Chains -> Nat] /\ wallet' \in [Chains -> Nat]
        /\ bridged' \in [EvmChains -> Nat]
    BY <1>3, <2>2, BalanceTypes DEF Settles
  <2>4. IsFiniteSet(InFlight)' /\ status' \in [Transfers -> Stages]
    BY Zenon, <1>1, <1>3 DEF Settles, Stages
  <2>5. \A u \in Transfers : status'[u] # "none" => transfer'[u] \in Bodies
    BY <1>3, <2>1 DEF Settles, GatewayTypes
  <2> QED BY Zenon, <1>3, <2>3, <2>4, <2>5 DEF Settles, GatewayTypes
<1>4. ASSUME NEW t \in Transfers, InspectRequest(t) \/ HandleTimeout(t)
      PROVE  GatewayTypes'
  <2>1. PICK st \in {"routed", "lapsed"} : status' = [status EXCEPT ![t] = st]
    BY Zenon, <1>4, InspectEffect, TimeoutEffect
  <2>2. /\ UNCHANGED <<native, custody, wallet, bridged, transfer>>
        /\ transfer[t] \in Bodies /\ inflow' \in [Substrate -> Nat]
    BY <1>4, InspectEffect, TimeoutEffect
  <2>3. IsFiniteSet(InFlight)' /\ status' \in [Transfers -> Stages]
    BY Zenon, <1>1, <2>1 DEF Stages
  <2>4. \A u \in Transfers : status'[u] # "none" => transfer'[u] \in Bodies
    BY <2>1, <2>2 DEF GatewayTypes
  <2> QED BY <2>2, <2>3, <2>4 DEF GatewayTypes
<1>5. ASSUME MovesNothing
      PROVE  GatewayTypes'
  BY <1>5 DEF MovesNothing, GatewayTypes, InFlight
<1>6. \A t \in Transfers : status[t] # "none" =>
        transfer[t].dest \in Chains /\ transfer[t].source \in Chains
  BY DEF GatewayTypes, Bodies
<1> QED BY Zenon, <1>2, <1>3, <1>4, <1>5, <1>6, GatewaySteps

----------------------------------------------------------------------------
\* Taking a transfer's tokens adds its amount to both sides, paying them out
\* takes it from both, and Hyperbridge moves no tokens.
LEMMA BackedKept ==
    ASSUME GatewayTypes, GatewayTypes', Backed, Next
    PROVE  Backed'
<1> DEFINE sum == Amounts(transfer, InFlight)
<1>1. sum \in Nat /\ sum <= Held /\ Held \in Int /\ Held' \in Int
  <2>1. (GatewayTypes => Held \in Int)'
    BY HeldIsInt, PTL
  <2> QED BY <2>1, FiniteParts, BackedIs, HeldIsInt
<1>2. SUFFICES sum' <= Held'
  <2>1. (GatewayTypes => (Backed <=> Amounts(transfer, InFlight) <= Held))'
    BY BackedIs, PTL
  <2> QED BY <2>1
<1>3. ASSUME NEW t \in Transfers,
             \A u \in Transfers \ {t} : status'[u] = status[u] /\ transfer'[u] = transfer[u]
      PROVE  \E was, now \in Nat :
               /\ sum' = sum + now - was
               /\ status[t] \in {"sent", "routed", "lapsed"} => was = transfer[t].amount
               /\ status[t] \notin {"sent", "routed", "lapsed"} => was = 0
               /\ status'[t] \in {"sent", "routed", "lapsed"} => now = transfer'[t].amount
               /\ status'[t] \notin {"sent", "routed", "lapsed"} => now = 0
  <2>1. /\ InFlight \ {t} = InFlight' \ {t}
        /\ t \in InFlight <=> status[t] \in {"sent", "routed", "lapsed"}
        /\ t \in InFlight' <=> status'[t] \in {"sent", "routed", "lapsed"}
    BY <1>3 DEF InFlight
  <2> QED BY <1>3, <2>1, OneMoves
<1> HIDE DEF sum
<1>4. ASSUME NEW t \in Transfers, NEW b \in Bodies, Sends(t, b)
      PROVE  sum' <= Held'
  <2>1. /\ status[t] = "none" /\ status'[t] = "sent" /\ transfer'[t] = b
        /\ \A u \in Transfers \ {t} : status'[u] = status[u] /\ transfer'[u] = transfer[u]
    BY Zenon, <1>4 DEF Sends, GatewayTypes
  <2>2. sum' = sum + b.amount
    BY <1>1, <1>3, <2>1
  <2>3. b.source \in Chains /\ b.amount \in Nat
    BY DEF Bodies
  <2>4. Held' = Held + b.amount
    BY <1>4, <2>3, TakesValue DEF Sends
  <2> QED BY <1>1, <2>2, <2>3, <2>4
<1>5. ASSUME NEW t \in Transfers, NEW c \in Chains, NEW end \in {"received", "refunded"},
             status[t] \in {"sent", "routed", "lapsed"}, Settles(t, c, end)
      PROVE  sum' <= Held'
  <2>1. /\ status'[t] \in {"received", "refunded"}
        /\ \A u \in Transfers \ {t} : status'[u] = status[u] /\ transfer'[u] = transfer[u]
    BY <1>5 DEF Settles, GatewayTypes
  <2>2. transfer[t].amount \in Nat
    BY <1>5 DEF GatewayTypes, Bodies
  <2>3. sum' = sum - transfer[t].amount
    BY <1>1, <1>3, <1>5, <2>1, <2>2
  <2>4. Held' >= Held - transfer[t].amount
    BY <1>5, <2>2, GivesValue DEF Settles
  <2> QED BY <1>1, <2>2, <2>3, <2>4
<1>6. ASSUME NEW t \in Transfers, InspectRequest(t) \/ HandleTimeout(t)
      PROVE  sum' <= Held'
  <2>1. /\ UNCHANGED <<native, custody, bridged, transfer>>
        /\ status[t] \in {"sent", "routed"} /\ status'[t] \in {"routed", "lapsed"}
        /\ \A u \in Transfers \ {t} : status'[u] = status[u]
    <3>1. status \in [Transfers -> Stages]
      BY Zenon DEF GatewayTypes
    <3>2. CASE InspectRequest(t)
      BY Zenon, <3>1, <3>2, InspectEffect
    <3>3. CASE HandleTimeout(t)
      BY Zenon, <3>1, <3>3, TimeoutEffect
    <3> QED BY Zenon, <1>6, <3>2, <3>3
  <2>2. sum' = sum
    BY <1>1, <1>3, <2>1
  <2>3. Held' = Held
    BY <2>1 DEF Held
  <2> QED BY <1>1, <2>2, <2>3
<1>7. ASSUME MovesNothing
      PROVE  sum' <= Held'
  BY <1>1, <1>7 DEF MovesNothing, Held, sum, InFlight
<1>8. \A t \in Transfers : status[t] # "none" =>
        transfer[t].dest \in Chains /\ transfer[t].source \in Chains
  BY DEF GatewayTypes, Bodies
<1> QED BY <1>4, <1>5, <1>6, <1>7, <1>8, GatewaySteps

----------------------------------------------------------------------------
\* What the inspector's balance of s has to cover.
Due(s) == wallet[s] * Scale[s] + Amounts(transfer, Covered(s))

LEMMA CoversIs ==
    GatewayTypes => (InflowCovers <=> \A s \in Substrate \ native : Due(s) <= inflow[s])
<1> SUFFICES ASSUME GatewayTypes
             PROVE  InflowCovers <=> \A s \in Substrate \ native : Due(s) <= inflow[s]
  OBVIOUS
<1> DEFINE out(s) == {t \in InFlight : transfer[t].source = s /\ status[t] # "routed"}
           in(s) == {t \in InFlight : transfer[t].dest = s /\ status[t] = "routed"}
<1>1. ASSUME NEW s \in Substrate
      PROVE  wallet[s] * Scale[s] + Amounts(transfer, out(s)) + Amounts(transfer, in(s)) = Due(s)
  <2>1. /\ Covered(s) \in SUBSET InFlight /\ out(s) \in SUBSET Covered(s)
        /\ Covered(s) \ out(s) = in(s) /\ in(s) \in SUBSET InFlight /\ out(s) \in SUBSET InFlight
    BY DEF Covered
  <2> HIDE DEF out, in
  <2>2. /\ IsFiniteSet(Covered(s)) /\ \A u \in Covered(s) : transfer[u].amount \in Nat
        /\ Amounts(transfer, out(s)) \in Nat /\ Amounts(transfer, in(s)) \in Nat
    BY <2>1, FiniteParts
  <2>3. Amounts(transfer, Covered(s)) = Amounts(transfer, out(s)) + Amounts(transfer, in(s))
    BY <2>1, <2>2, AmountsSplit
  <2>4. wallet[s] * Scale[s] \in Nat
    <3>1. wallet[s] \in Nat /\ Scale[s] \in Nat
      BY FiniteChains DEF GatewayTypes, Chains
    <3> QED BY <3>1
  <2> QED BY <2>2, <2>3, <2>4 DEF Due
<1>2. InflowCovers <=> \A s \in Substrate \ native :
        wallet[s] * Scale[s] + Amounts(transfer, out(s)) + Amounts(transfer, in(s)) <= inflow[s]
  BY AmountOfIs DEF InflowCovers, ToErc
<1> HIDE DEF out, in
<1> QED BY Zenon, <1>1, <1>2

\* What a chain's users give up the inspector's balance keeps covering, what
\* they get it covered before, and Hyperbridge moves both by the same amount.
LEMMA CoversKept ==
    ASSUME GatewayTypes, GatewayTypes', InflowCovers, Next
    PROVE  InflowCovers'
<1>1. native' = native
  BY Zenon, GatewaySteps, InspectEffect, TimeoutEffect DEF Sends, Settles, MovesNothing
<1>2. (GatewayTypes => (InflowCovers <=> \A s \in Substrate \ native : Due(s) <= inflow[s]))'
  BY CoversIs, PTL
<1>3. SUFFICES ASSUME NEW s \in Substrate \ native
               PROVE  Due(s)' <= inflow'[s]
  BY <1>1, <1>2
<1> DEFINE sum == Amounts(transfer, Covered(s))
           held == wallet[s] * Scale[s]
<1>4. held \in Nat /\ sum \in Nat /\ inflow[s] \in Nat /\ held' \in Nat
  <2>1. wallet[s] \in Nat /\ wallet'[s] \in Nat /\ Scale[s] \in Nat /\ inflow[s] \in Nat
    BY FiniteChains DEF GatewayTypes, Chains
  <2>2. Covered(s) \in SUBSET InFlight
    BY DEF Covered
  <2> QED BY <2>1, <2>2, FiniteParts
<1>5. held + sum <= inflow[s]
  BY CoversIs DEF Due
<1>6. SUFFICES held' + sum' <= inflow'[s]
  BY Zenon DEF Due
<1>7. ASSUME NEW t \in Transfers,
             \A u \in Transfers \ {t} : status'[u] = status[u] /\ transfer'[u] = transfer[u]
      PROVE  \E was, now \in Nat :
               /\ sum' = sum + now - was
               /\ t \in Covered(s) => was = transfer[t].amount
               /\ t \notin Covered(s) => was = 0
               /\ t \in Covered(s)' => now = transfer'[t].amount
               /\ t \notin Covered(s)' => now = 0
  <2>1. /\ Covered(s) \in SUBSET InFlight /\ Covered(s)' \in SUBSET InFlight'
        /\ Covered(s) \ {t} = Covered(s)' \ {t}
    BY Zenon, <1>7 DEF Covered, InFlight
  <2> QED BY <1>7, <2>1, OneMoves
<1> HIDE DEF sum
<1>8. ASSUME NEW t \in Transfers, NEW b \in Bodies, Sends(t, b)
      PROVE  held' + sum' <= inflow'[s]
  <2>1. /\ status[t] = "none" /\ status'[t] = "sent" /\ inflow' = inflow /\ transfer'[t] = b
        /\ \A u \in Transfers \ {t} : status'[u] = status[u] /\ transfer'[u] = transfer[u]
    BY Zenon, <1>8 DEF Sends, GatewayTypes
  <2>2. t \notin Covered(s) /\ (t \in Covered(s)' <=> b.source = s)
    BY <2>1 DEF Covered, InFlight
  <2>3. b.source \in Chains /\ b.amount \in Nat
    BY DEF Bodies
  <2>4. /\ b.source = s => held' + b.amount = held
        /\ b.source # s => held' = held
    BY Zenon, <1>8, <2>3, TakesValue DEF Sends
  <2>5. /\ b.source = s => sum' = sum + b.amount
        /\ b.source # s => sum' = sum
    BY <1>4, <1>7, <2>1, <2>2
  <2>6. inflow'[s] = inflow[s]
    BY Zenon, <2>1
  <2> HIDE DEF held
  <2> QED BY <1>4, <1>5, <2>3, <2>4, <2>5, <2>6
<1>9. ASSUME NEW t \in Transfers, NEW c \in Chains, NEW end \in {"received", "refunded"},
             \/ status[t] = "routed" /\ c = transfer[t].dest
             \/ status[t] \in {"sent", "lapsed"} /\ c = transfer[t].source,
             Settles(t, c, end)
      PROVE  held' + sum' <= inflow'[s]
  <2>1. /\ status'[t] \in {"received", "refunded"} /\ inflow' = inflow
        /\ \A u \in Transfers \ {t} : status'[u] = status[u] /\ transfer'[u] = transfer[u]
    BY Zenon, <1>9 DEF Settles, GatewayTypes
  <2>2. (t \in Covered(s) <=> c = s) /\ t \notin Covered(s)'
    BY Zenon, <1>9, <2>1 DEF Covered, InFlight
  <2>3. transfer[t].amount \in Nat
    BY <1>9 DEF GatewayTypes, Bodies
  <2>4. /\ c = s => held' <= held + transfer[t].amount
        /\ c # s => held' = held
    BY <1>9, <2>3, GivesValue DEF Settles
  <2>5. /\ c = s => sum' = sum - transfer[t].amount
        /\ c # s => sum' = sum
    BY <1>4, <1>7, <2>1, <2>2, <2>3
  <2>6. inflow'[s] = inflow[s]
    BY Zenon, <2>1
  <2> HIDE DEF held
  <2> QED BY <1>4, <1>5, <2>3, <2>4, <2>5, <2>6
<1>10. ASSUME NEW t \in Transfers, InspectRequest(t) \/ HandleTimeout(t)
       PROVE  held' + sum' <= inflow'[s]
  <2>1. /\ UNCHANGED <<wallet, transfer>>
        /\ \A u \in Transfers \ {t} : status'[u] = status[u] /\ transfer'[u] = transfer[u]
    <3>1. status \in [Transfers -> Stages]
      BY Zenon DEF GatewayTypes
    <3>2. CASE InspectRequest(t)
      BY Zenon, <3>1, <3>2, InspectEffect
    <3>3. CASE HandleTimeout(t)
      BY Zenon, <3>1, <3>3, TimeoutEffect
    <3> QED BY Zenon, <1>10, <3>2, <3>3
  <2>2. PICK more, less \in Nat :
          /\ inflow'[s] = inflow[s] + more - less
          /\ t \in Covered(s) => less = transfer[t].amount
          /\ t \notin Covered(s) => less = 0
          /\ t \in Covered(s)' => more = transfer[t].amount
          /\ t \notin Covered(s)' => more = 0
    <3>1. CASE InspectRequest(t)
      <4>1. /\ t \in Covered(s) <=> transfer[t].source = s
            /\ t \in Covered(s)' <=> transfer[t].dest = s
        BY Zenon, <2>1, <3>1, InspectEffect DEF Covered, InFlight, GatewayTypes
      <4>2. PICK more, less \in Nat :
              /\ inflow'[s] = inflow[s] + more - less
              /\ transfer[t].dest = s => more = transfer[t].amount
              /\ transfer[t].dest # s => more = 0
              /\ transfer[t].source = s => less = transfer[t].amount
              /\ transfer[t].source # s => less = 0
        BY Zenon, <3>1, InspectEffect
      <4> QED BY <4>1, <4>2
    <3>2. CASE HandleTimeout(t)
      <4>1. /\ t \in Covered(s) <=> transfer[t].dest = s
            /\ t \in Covered(s)' <=> transfer[t].source = s
        BY <2>1, <3>2, TimeoutEffect DEF Covered, InFlight, GatewayTypes
      <4>2. PICK more, less \in Nat :
              /\ inflow'[s] = inflow[s] + more - less
              /\ transfer[t].source = s => more = transfer[t].amount
              /\ transfer[t].source # s => more = 0
              /\ transfer[t].dest = s => less = transfer[t].amount
              /\ transfer[t].dest # s => less = 0
        BY Zenon, <3>2, TimeoutEffect
      <4> QED BY <4>1, <4>2
    <3> QED BY Zenon, <1>10, <3>1, <3>2
  <2>3. sum' = sum + more - less
    BY Zenon, <1>7, <2>1, <2>2
  <2>4. held' = held
    BY Zenon, <2>1
  <2> HIDE DEF held
  <2> QED BY <1>4, <1>5, <2>2, <2>3, <2>4
<1>11. ASSUME MovesNothing
       PROVE  held' + sum' <= inflow'[s]
  <2>1. held' = held /\ sum' = sum /\ inflow' = inflow
    BY Zenon, <1>11 DEF MovesNothing, sum, Covered, InFlight
  <2> HIDE DEF held
  <2> QED BY <1>5, <2>1
<1>12. \A t \in Transfers : status[t] # "none" =>
        transfer[t].dest \in Chains /\ transfer[t].source \in Chains
  BY DEF GatewayTypes, Bodies
<1> HIDE DEF held
<1> QED BY Zenon, <1>8, <1>9, <1>10, <1>11, <1>12, GatewaySteps

----------------------------------------------------------------------------
LEMMA GatewayStart ==
    ASSUME GatewayConstants, Init
    PROVE  GatewayTypes /\ Backed /\ InflowCovers
<1>1. PICK home \in Chains :
        /\ native = {home} \cap Substrate
        /\ wallet = [c \in Chains |-> IF c = home THEN Supply ELSE 0]
        /\ custody = [c \in Chains |-> IF c \in Substrate \ {home} THEN Float ELSE 0]
  BY DEF Init, Chains
<1>2. /\ bridged = [c \in EvmChains |-> 0] /\ inflow = [s \in Substrate |-> 0]
      /\ transfer = [t \in Transfers |-> None] /\ status = [t \in Transfers |-> "none"]
  BY DEF Init
<1>3. InFlight = {}
  BY <1>2 DEF InFlight
<1>4. GatewayTypes
  <2>1. IsFiniteSet(InFlight)
    BY <1>3, FS_EmptySet
  <2> QED BY <1>1, <1>2, <2>1, GatewayChains DEF GatewayTypes, Stages, Chains
<1>5. \A S : S = {} => Amounts(transfer, S) = 0
  BY SumEmpty DEF Amounts
<1>6. Held = 0
  <2>1. /\ \A c \in EvmChains : custody[c] = 0 /\ bridged[c] = 0
        /\ \A s \in Substrate : DepositsOf(custody, native)[s] = 0
    BY <1>1, <1>2, GatewayChains DEF DepositsOf, Chains
  <2>2. /\ SumFunctionOnSet(custody, EvmChains) = 0
        /\ SumFunctionOnSet(bridged, EvmChains) = 0
        /\ SumFunctionOnSet(DepositsOf(custody, native), Substrate) = 0
    BY <2>1, GatewayChains, SumZero
  <2> QED BY <2>2 DEF Held
<1>7. Backed
  BY <1>3, <1>4, <1>5, <1>6, BackedIs
<1>8. ASSUME NEW s \in Substrate \ native PROVE Due(s) <= inflow[s]
  <2>1. Covered(s) = {}
    BY <1>3 DEF Covered
  <2>2. wallet[s] = 0 /\ inflow[s] = 0
    BY <1>1, <1>2 DEF Chains
  <2>3. Scale[s] \in Nat
    BY GatewayChains
  <2> QED BY <1>5, <2>1, <2>2, <2>3 DEF Due
<1> QED BY <1>4, <1>7, <1>8, CoversIs

\* Each of the two inequalities is inductive once the state is well typed.
GatewayInv == GatewayTypes /\ Backed /\ InflowCovers

LEMMA GatewayStutters ==
    ASSUME GatewayInv, UNCHANGED <<native, custody, wallet, bridged, transfer, status, inflow>>
    PROVE  GatewayInv'
<1>1. GatewayTypes' /\ InFlight' = InFlight
  BY DEF GatewayInv, GatewayTypes, InFlight
<1>2. Backed'
  BY Zenon, <1>1 DEF GatewayInv, Backed, AmountOf, Deposits
<1>3. InflowCovers'
  BY <1>1 DEF GatewayInv, InflowCovers, AmountOf
<1> QED BY <1>1, <1>2, <1>3 DEF GatewayInv

LEMMA GatewayInductive ==
    ASSUME GatewayInv, [Next]_vars
    PROVE  GatewayInv'
<1>1. CASE Next
  BY <1>1, TypesKept, BackedKept, CoversKept DEF GatewayInv
<1>2. CASE UNCHANGED vars
  <2>1. UNCHANGED <<native, custody, wallet, bridged, transfer, status, inflow>>
    BY <1>2 DEF vars, registry, balances
  <2> QED BY <2>1, GatewayStutters
<1> QED BY <1>1, <1>2

\* Every ERC6160 and every transfer under way is backed by tokens in custody
\* (teleport, onAccept and onPostRequestTimeout of both gateways).
THEOREM ValueIsBacked ==
    ASSUME GatewayConstants PROVE Spec => []Backed
<1>1. Init => GatewayInv
  BY GatewayStart DEF GatewayInv
<1>2. GatewayInv /\ [Next]_vars => GatewayInv'
  BY GatewayInductive
<1>3. GatewayInv => Backed
  BY DEF GatewayInv
<1> QED BY <1>1, <1>2, <1>3, PTL DEF Spec

\* The inspector's balance of a chain the asset is foreign to covers what its
\* users hold and have sent, and what is on its way there (inspect_request,
\* handle_timeout).
THEOREM InspectorCovers ==
    ASSUME GatewayConstants PROVE Spec => []InflowCovers
<1>1. Init => GatewayInv
  BY GatewayStart DEF GatewayInv
<1>2. GatewayInv /\ [Next]_vars => GatewayInv'
  BY GatewayInductive
<1>3. GatewayInv => InflowCovers
  BY DEF GatewayInv
<1> QED BY <1>1, <1>2, <1>3, PTL DEF Spec
============================================================================
