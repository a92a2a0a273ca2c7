------------------------ MODULE DelegateAddressProofs ------------------------
(***************************************************************************)
(* Theorems about DelegateAddress: type correctness, one address between   *)
(* two stops of the service, and the address of key 0 over all starts when *)
(* nothing disturbs the keys, for any number of calls, keys and wallets.   *)
(***************************************************************************)
EXTENDS DelegateAddress, TLAPS

-----------------------------------------------------------------------------
(* Type correctness.                                                        *)

LEMMA InitType == Init => TypeOK
<1> SUFFICES ASSUME Init PROVE TypeOK
  OBVIOUS
<1>1. wallet \in 1..MaxWallets /\ keys \in 0..MaxKeys
  BY AddressAssumption DEF Init
<1> QED
  BY <1>1, Zenon DEF Init, TypeOK

LEMMA KeyType == ASSUME TypeOK, TakeKey PROVE /\ keys' \in 0..MaxKeys
                                              /\ contracts' \subseteq 0..MaxKeys
                                              /\ (IF HD THEN keys ELSE 0) \in Nat
  BY AddressAssumption DEF TypeOK, TakeKey

LEMMA ResolveType == ASSUME TypeOK, NEW q \in Call, Resolve(q) PROVE TypeOK'
<1> USE AddressAssumption DEF TypeOK, Address, Goes, Answer, state, calls, history
<1>1. CASE AskCache(q)
  BY <1>1 DEF AskCache
<1>2. CASE Ask(q)
  BY <1>2 DEF Ask
<1>3. CASE List(q)
  BY <1>3 DEF List, Anchor
<1>4. CASE ListNone(q)
  BY <1>4 DEF ListNone
<1>5. CASE SkipUnranked(q)
  BY <1>5 DEF SkipUnranked
<1>6. CASE Derive(q)
  <2>1. /\ TakeKey
        /\ at' = [at EXCEPT ![q] = "store"]
        /\ found' = [found EXCEPT ![q] = <<wallet, IF HD THEN keys ELSE 0>>]
        /\ disturbed' \in BOOLEAN
        /\ UNCHANGED <<wallet, up, cache, thisRun, thisWallet>>
    BY <1>6 DEF Derive, TakeKey
  <2>2. <<wallet, IF HD THEN keys ELSE 0>> \in Nat \X Nat
    BY <2>1, KeyType
  <2> QED
    BY <2>1, <2>2, KeyType
<1>7. CASE Fail(q)
  BY <1>7 DEF Fail
<1>8. CASE Store(q)
  <2>1. cache' \in Address
    BY <1>8 DEF Store
  <2> QED
    BY <1>8, <2>1 DEF Store
<1> QED
  BY <1>1, <1>2, <1>3, <1>4, <1>5, <1>6, <1>7, <1>8 DEF Resolve

LEMMA EnvironmentType == ASSUME TypeOK, Environment PROVE TypeOK'
<1> USE AddressAssumption DEF TypeOK, Address, calls, history
<1>1. CASE NewAddress
  <2>1. disturbed' \in BOOLEAN /\ UNCHANGED <<wallet, up, cache, calls, thisRun, thisWallet>>
    BY <1>1 DEF NewAddress, TakeKey
  <2> QED
    BY <1>1, <2>1, KeyType DEF NewAddress
<1>2. CASE Unlock \/ Lock
  BY <1>2 DEF Unlock, Lock
<1>3. CASE Reset
  <2>1. wallet' \in 1..MaxWallets /\ keys' \in 0..MaxKeys
    BY <1>3 DEF Reset
  <2>2. up' \in BOOLEAN /\ disturbed' \in BOOLEAN
    BY <1>3 DEF Reset
  <2> QED
    BY <1>3, <2>1, <2>2 DEF Reset
<1>4. CASE Die
  BY <1>4 DEF Die
<1> QED
  BY <1>1, <1>2, <1>3, <1>4 DEF Environment

LEMMA NextType == TypeOK /\ [Next]_vars => TypeOK'
<1> SUFFICES ASSUME TypeOK, [Next]_vars PROVE TypeOK'
  OBVIOUS
<1>1. CASE UNCHANGED vars
  BY <1>1 DEF TypeOK, vars, state, calls, history
<1> QED
  BY <1>1, ResolveType, EnvironmentType DEF Next

\* Every variable keeps its type, and a call never stores without an address.
THEOREM AddressTypeCorrect == Spec => []TypeOK
<1>1. Init => TypeOK
  BY InitType
<1>2. TypeOK /\ [Next]_vars => TypeOK'
  BY NextType
<1> QED
  BY <1>1, <1>2, PTL DEF Spec

-----------------------------------------------------------------------------
(* One address between two stops.                                           *)

\* What was answered since the last stop is what the cache holds.
AnsweredIsCached == \A a \in thisRun : a = cache

\* Between two stops of the service all calls are answered the same address.
THEOREM OneAddress == Spec => []OneAddressPerRun
<1> DEFINE Inv == TypeOK /\ AnsweredIsCached
<1>1. Init => Inv
  BY InitType DEF Init, AnsweredIsCached
<1>2. Inv /\ [Next]_vars => Inv'
  <2> SUFFICES ASSUME Inv, [Next]_vars PROVE AnsweredIsCached'
    BY NextType
  <2> USE DEF AnsweredIsCached
  <2>1. ASSUME NEW q \in Call, AskCache(q) \/ Store(q) PROVE AnsweredIsCached'
    BY <2>1, AddressAssumption DEF AskCache, Store, Answer, TypeOK, Address
  <2>2. CASE UNCHANGED <<cache, thisRun>> \/ thisRun' = {}
    BY <2>2
  <2>3. CASE UNCHANGED vars
    BY <2>2, <2>3 DEF vars, history
  <2>4. CASE Environment
    BY <2>2, <2>4 DEF Environment, NewAddress, Unlock, Lock, Reset, Die, history
  <2>5. ASSUME NEW q \in Call, Resolve(q) PROVE AnsweredIsCached'
    BY <2>1, <2>2, <2>5 DEF Resolve, Ask, List, ListNone, SkipUnranked, Derive, Fail, history
  <2> QED
    BY <2>3, <2>4, <2>5 DEF Next
<1>3. Inv => OneAddressPerRun
  BY DEF AnsweredIsCached, OneAddressPerRun
<1> QED
  BY <1>1, <1>2, <1>3, PTL DEF Spec

-----------------------------------------------------------------------------
(* One address over all starts.                                             *)

\* The first derivation made key 0 a default contract.
FirstKey == keys # 0 => 0 \in contracts

\* Undisturbed, a call derives only from a wallet that has derived nothing, and
\* everything resolved, cached or answered is the address of key 0.
Undisturbed ==
    /\ \A q \in Call : at[q] = "derive" => keys = 0
    /\ \A q \in Call : at[q] = "store" => found[q] = Anchor
    /\ cache \in {NoAddress, Anchor}
    /\ thisWallet \subseteq {Anchor}

AInv == TypeOK /\ FirstKey /\ (~disturbed => Undisturbed)

LEMMA KeyTaken == ASSUME AInv, TakeKey PROVE FirstKey'
  BY AddressAssumption DEF AInv, TypeOK, FirstKey, TakeKey

LEMMA ResolveAInv == ASSUME AInv, NEW q \in Call, Resolve(q) PROVE AInv'
<1> USE AddressAssumption DEF AInv, FirstKey, Undisturbed, Anchor, Goes, Answer, state, calls, history
<1>1. TypeOK /\ TypeOK'
  BY ResolveType
<1>2. CASE AskCache(q)
  BY <1>1, <1>2 DEF AskCache
<1>3. CASE Ask(q)
  BY <1>1, <1>3 DEF Ask, TypeOK
<1>4. CASE List(q)
  BY <1>1, <1>4 DEF List, TypeOK
<1>5. CASE ListNone(q)
  BY <1>1, <1>5 DEF ListNone, TypeOK
<1>6. CASE SkipUnranked(q)
  BY <1>1, <1>6 DEF SkipUnranked
<1>7. CASE Derive(q)
  <2>1. FirstKey'
    BY <1>7, KeyTaken DEF Derive
  <2>2. ASSUME ~disturbed' PROVE Undisturbed'
    <3>1. ~disturbed /\ \A p \in Call \ {q} : at[p] # "derive"
      BY <1>7, <2>2 DEF Derive
    <3>2. keys = 0 /\ found' = [found EXCEPT ![q] = Anchor] /\ at' = [at EXCEPT ![q] = "store"]
      BY <1>7, <3>1 DEF Derive
    <3>3. UNCHANGED <<wallet, cache, thisWallet>>
      BY <1>7 DEF Derive, TakeKey
    <3> QED
      BY <1>1, <3>1, <3>2, <3>3 DEF TypeOK
  <2> QED
    BY <1>1, <2>1, <2>2
<1>8. CASE Fail(q)
  BY <1>1, <1>8 DEF Fail, TypeOK
<1>9. CASE Store(q)
  BY <1>1, <1>9 DEF Store, TypeOK
<1> QED
  BY <1>2, <1>3, <1>4, <1>5, <1>6, <1>7, <1>8, <1>9 DEF Resolve

LEMMA EnvironmentAInv == ASSUME AInv, Environment PROVE AInv'
<1> USE AddressAssumption DEF AInv, FirstKey, Undisturbed, Anchor, calls, history
<1>1. TypeOK /\ TypeOK'
  BY EnvironmentType
<1>2. CASE NewAddress
  <2>1. FirstKey'
    BY <1>2, KeyTaken DEF NewAddress
  <2>2. UNCHANGED <<wallet, at, found, cache, thisWallet>>
    BY <1>2 DEF NewAddress, TakeKey
  <2>3. ~disturbed' => ~disturbed /\ \A p \in Call : at[p] # "derive"
    BY <1>2 DEF NewAddress
  <2> QED
    BY <1>1, <2>1, <2>2, <2>3
<1>3. CASE Unlock
  BY <1>1, <1>3 DEF Unlock
<1>4. CASE Lock
  BY <1>1, <1>4 DEF Lock
<1>5. CASE Reset
  BY <1>1, <1>5 DEF Reset, TypeOK
<1>6. CASE Die
  BY <1>1, <1>6 DEF Die
<1> QED
  BY <1>2, <1>3, <1>4, <1>5, <1>6 DEF Environment

\* Over all starts of the process and all locks of the wallet, the address
\* advertised is that of the wallet's key 0, unless the keys were disturbed.
THEOREM Anchored == Spec => []AnchoredOverStarts
<1>1. Init => AInv
  BY InitType DEF Init, AInv, FirstKey, Undisturbed
<1>2. AInv /\ [Next]_vars => AInv'
  <2> SUFFICES ASSUME AInv, [Next]_vars PROVE AInv'
    OBVIOUS
  <2>1. CASE UNCHANGED vars
    BY <2>1, NextType DEF AInv, FirstKey, Undisturbed, Anchor, vars, state, calls, history
  <2> QED
    BY <2>1, ResolveAInv, EnvironmentAInv DEF Next
<1>3. AInv => AnchoredOverStarts
  BY DEF AInv, Undisturbed, AnchoredOverStarts
<1> QED
  BY <1>1, <1>2, <1>3, PTL DEF Spec
=============================================================================
