--------------------------- MODULE MacaroonsProofs ---------------------------
(***************************************************************************)
(* Theorems about Macaroons: type correctness, that the macaroon files are *)
(* verified by the store, that the store opens with the wallet's password, *)
(* and that an open wallet is served when all updates have been taken, for *)
(* any number of passwords, calls and crashes.                             *)
(***************************************************************************)
EXTENDS Macaroons, SequenceTheorems, TLAPS

-----------------------------------------------------------------------------
(* Taking one update out of those that wait.                                *)

LEMMA Removed ==
    ASSUME NEW S, NEW u \in Seq(S), NEW i \in 1..Len(u)
    PROVE  /\ RemoveAt(u, i) \in Seq(S)
           /\ Len(RemoveAt(u, i)) = Len(u) - 1
           /\ \A k \in 1..(Len(u) - 1) : RemoveAt(u, i)[k] = IF k < i THEN u[k] ELSE u[k + 1]
<1> DEFINE a == SubSeq(u, 1, i - 1)
           b == SubSeq(u, i + 1, Len(u))
<1>1. Len(u) \in Nat /\ \A k \in 1..Len(u) : u[k] \in S
  BY LenProperties, ElementOfSeq
<1>2. /\ a \in Seq(S) /\ Len(a) = i - 1
      /\ \A k \in 1..(i - 1) : a[k] = u[k]
  <2>1. \A k \in 1..(i - 1) : u[k] \in S
    BY <1>1
  <2> QED
    BY <1>1, <2>1, SubSeqProperties
<1>3. /\ b \in Seq(S) /\ Len(b) = Len(u) - i
      /\ \A k \in 1..(Len(u) - i) : b[k] = u[i + k]
  <2>1. \A k \in (i + 1)..Len(u) : u[k] \in S
    BY <1>1
  <2> QED
    BY <1>1, <2>1, SubSeqProperties
<1>4. RemoveAt(u, i) = a \o b
  BY DEF RemoveAt
<1> HIDE DEF a, b
<1>5. /\ a \o b \in Seq(S)
      /\ Len(a \o b) = Len(a) + Len(b)
      /\ \A k \in 1..(Len(a) + Len(b)) : (a \o b)[k] = IF k <= Len(a) THEN a[k] ELSE b[k - Len(a)]
  BY <1>2, <1>3, ConcatProperties
<1>6. ASSUME NEW k \in 1..(Len(u) - 1)
      PROVE  (a \o b)[k] = IF k < i THEN u[k] ELSE u[k + 1]
  <2>1. k \in 1..(Len(a) + Len(b))
    BY <1>1, <1>2, <1>3
  <2>2. CASE k < i
    BY <1>1, <1>2, <1>5, <2>1, <2>2
  <2>3. CASE ~(k < i)
    <3>1. k - (i - 1) \in 1..(Len(u) - i) /\ i + (k - (i - 1)) = k + 1
      BY <1>1, <2>3
    <3> QED
      BY <1>1, <1>2, <1>3, <1>5, <2>1, <2>3, <3>1
  <2> QED
    BY <2>2, <2>3
<1> QED
  BY <1>1, <1>2, <1>3, <1>4, <1>5, <1>6

-----------------------------------------------------------------------------
(* Type correctness.                                                        *)

LEMMA InitType == Init => TypeOK
<1> SUFFICES ASSUME Init PROVE TypeOK
  OBVIOUS
<1>1. updates \in Seq(Password \cup {Wipe})
  BY EmptySeq DEF Init
<1>2. /\ store \in 0..stores /\ file \in 0..stores /\ stores \in Nat
      /\ calls \in 0..MaxCalls /\ crashes \in 0..MaxCrashes
  BY MacaroonAssumption DEF Init
<1>3. /\ wallet = "none" <=> password = NoKey
      /\ key = NoKey <=> store = 0
  BY DEF Init
<1>4. alive \in BOOLEAN /\ unlocked \in BOOLEAN
  BY DEF Init
<1>5. overtaken \in BOOLEAN /\ lost \in BOOLEAN /\ sealed \in BOOLEAN
  BY DEF Init
<1> QED
  BY <1>1, <1>2, <1>3, <1>4, <1>5 DEF Init, TypeOK

LEMMA CallType ==
    ASSUME TypeOK, (\E p \in Password : Setup(p)) \/ UnlockNode \/ LockNode \/ ResetWallet
    PROVE  TypeOK'
<1> USE MacaroonAssumption DEF TypeOK, Tells, disk, history
<1>1. ASSUME NEW p \in Password, Setup(p) PROVE TypeOK'
  BY <1>1 DEF Setup
<1>2. CASE UnlockNode
  BY <1>2 DEF UnlockNode
<1>3. CASE LockNode
  BY <1>3 DEF LockNode
<1>4. CASE ResetWallet
  BY <1>4 DEF ResetWallet
<1> QED
  BY <1>1, <1>2, <1>3, <1>4

LEMMA TakesType ==
    ASSUME TypeOK, NEW i \in 1..MaxCalls, Takes(i)
    PROVE  updates' \in Seq(Password \cup {Wipe}) /\ overtaken' \in BOOLEAN
<1>1. i \in 1..Len(updates) /\ updates \in Seq(Password \cup {Wipe})
  BY LenProperties DEF TypeOK, Takes
<1>2. updates' \in Seq(Password \cup {Wipe})
  BY <1>1, Removed DEF Takes
<1>3. overtaken' \in BOOLEAN
  BY DEF Takes, TypeOK
<1> QED
  BY <1>2, <1>3

LEMMA ListenType == ASSUME TypeOK, Listen PROVE TypeOK'
<1> USE MacaroonAssumption DEF disk, history
<1>1. ASSUME NEW i \in 1..MaxCalls, Unlock(i) PROVE TypeOK'
  <2>1. updates' \in Seq(Password \cup {Wipe}) /\ overtaken' \in BOOLEAN
    BY <1>1, TakesType DEF Unlock
  <2>2. i \in 1..Len(updates) /\ updates[i] \in Password
    BY <1>1, LenProperties, ElementOfSeq DEF Unlock, Takes, TypeOK
  <2> QED
    BY <1>1, <2>1, <2>2 DEF Unlock, TypeOK
<1>2. ASSUME NEW i \in 1..MaxCalls, UnlockFails(i) PROVE TypeOK'
  <2>1. updates' \in Seq(Password \cup {Wipe}) /\ overtaken' \in BOOLEAN
    BY <1>2, TakesType DEF UnlockFails
  <2> QED
    BY <1>2, <2>1 DEF UnlockFails, Dies, TypeOK
<1>3. ASSUME NEW i \in 1..MaxCalls, StartReset(i) PROVE TypeOK'
  <2>1. updates' \in Seq(Password \cup {Wipe}) /\ overtaken' \in BOOLEAN
    BY <1>3, TakesType DEF StartReset
  <2> QED
    BY <1>3, <2>1 DEF StartReset, TypeOK
<1>4. CASE Generate
  BY <1>4 DEF Generate, TypeOK
<1>5. CASE RemoveFiles
  BY <1>5 DEF RemoveFiles, TypeOK
<1>6. CASE RemoveStore
  BY <1>6 DEF RemoveStore, TypeOK
<1>7. CASE Renew
  BY <1>7 DEF Renew, TypeOK
<1> QED
  BY <1>1, <1>2, <1>3, <1>4, <1>5, <1>6, <1>7 DEF Listen

LEMMA NextType == TypeOK /\ [Next]_vars => TypeOK'
<1> SUFFICES ASSUME TypeOK, [Next]_vars PROVE TypeOK'
  OBVIOUS
<1>1. CASE Die
  <2>1. crashes' \in 0..MaxCrashes
    BY <1>1, MacaroonAssumption DEF Die, TypeOK
  <2>2. alive' \in BOOLEAN /\ lost' \in BOOLEAN
    BY <1>1 DEF Die, Dies, TypeOK
  <2>3. UNCHANGED <<wallet, password, updates, listener, unlocked, key, store, file, stores, calls,
                    overtaken, sealed>>
    BY <1>1 DEF Die, disk
  <2> QED
    BY <2>1, <2>2, <2>3 DEF TypeOK
<1>2. CASE Restart
  <2>1. updates' \in Seq(Password \cup {Wipe})
    BY <1>2, EmptySeq DEF Restart
  <2>2. wallet' \in {"none", "locked", "open"} /\ (wallet' = "none" <=> wallet = "none")
    BY <1>2 DEF Restart, TypeOK
  <2>3. alive' \in BOOLEAN /\ unlocked' \in BOOLEAN /\ listener' \in {"receive", "generate", "remove"}
    BY <1>2 DEF Restart
  <2>4. UNCHANGED <<password, key, store, file, stores, calls, crashes, overtaken, lost, sealed>>
    BY <1>2 DEF Restart, disk, history
  <2> QED
    BY <2>1, <2>2, <2>3, <2>4 DEF TypeOK
<1>3. CASE UNCHANGED vars
  BY <1>3 DEF TypeOK, vars, disk, history
<1> QED
  BY <1>1, <1>2, <1>3, CallType, ListenType DEF Next

\* Every variable keeps its type, and key and store go together.
THEOREM MacaroonTypeCorrect == Spec => []TypeOK
<1>1. Init => TypeOK
  BY InitType
<1>2. TypeOK /\ [Next]_vars => TypeOK'
  BY NextType
<1> QED
  BY <1>1, <1>2, PTL DEF Spec

-----------------------------------------------------------------------------
(* The store verifies the files.                                            *)

\* A reset that a crash does not find half done has left nothing on disk.
CutShort ==
    ~alive /\ ~lost =>
        /\ \A i \in DOMAIN updates : updates[i] # Wipe
        /\ listener = "remove" => key = NoKey /\ file = 0

FInv == TypeOK /\ FilesVerify /\ CutShort

LEMMA NextFInv == FInv /\ [Next]_vars => FilesVerify' /\ CutShort'
<1> SUFFICES ASSUME FInv, [Next]_vars PROVE FilesVerify' /\ CutShort'
  OBVIOUS
<1> USE MacaroonAssumption DEF FInv, FilesVerify, CutShort, disk, history
<1>1. CASE (\E p \in Password : Setup(p)) \/ UnlockNode \/ LockNode \/ ResetWallet
  BY <1>1 DEF Setup, UnlockNode, LockNode, ResetWallet, Tells
<1>2. ASSUME NEW i \in 1..MaxCalls, Unlock(i) PROVE FilesVerify' /\ CutShort'
  BY <1>2 DEF Unlock, Takes, TypeOK
<1>3. ASSUME NEW i \in 1..MaxCalls, UnlockFails(i) PROVE FilesVerify' /\ CutShort'
  <2>1. /\ i \in 1..Len(updates) /\ updates \in Seq(Password \cup {Wipe})
        /\ updates' = RemoveAt(updates, i)
    BY <1>3, LenProperties DEF UnlockFails, Takes, TypeOK
  <2>2. /\ DOMAIN updates = 1..Len(updates) /\ DOMAIN updates' = 1..(Len(updates) - 1)
        /\ \A k \in 1..(Len(updates) - 1) :
               updates'[k] = IF k < i THEN updates[k] ELSE updates[k + 1]
    BY <2>1, Removed, LenProperties
  <2>3. (\A k \in DOMAIN updates : updates[k] # Wipe) => \A k \in DOMAIN updates' : updates'[k] # Wipe
    BY <2>1, <2>2, LenProperties
  <2> QED
    BY <1>3, <2>3 DEF UnlockFails, Takes, Dies
<1>4. ASSUME NEW i \in 1..MaxCalls, StartReset(i) PROVE FilesVerify' /\ CutShort'
  BY <1>4 DEF StartReset, Takes
<1>5. CASE Generate \/ RemoveFiles \/ RemoveStore \/ Renew
  BY <1>5 DEF Generate, RemoveFiles, RemoveStore, Renew
<1>6. CASE Die
  BY <1>6 DEF Die, Dies
<1>7. CASE Restart
  BY <1>7 DEF Restart
<1>8. CASE UNCHANGED vars
  BY <1>8 DEF vars
<1> QED
  BY <1>1, <1>2, <1>3, <1>4, <1>5, <1>6, <1>7, <1>8 DEF Next, Listen

\* The files on disk hold macaroons of the store on disk, unless a crash cut a reset
\* short.
THEOREM FilesOfTheStore == Spec => []FilesVerify
<1>1. Init => FInv
  BY InitType DEF Init, FInv, FilesVerify, CutShort
<1>2. FInv /\ [Next]_vars => FInv'
  BY NextType, NextFInv DEF FInv
<1>3. FInv => FilesVerify
  BY DEF FInv
<1> QED
  BY <1>1, <1>2, <1>3, PTL DEF Spec

-----------------------------------------------------------------------------
(* The store opens with the wallet's password.                              *)

Update == Password \cup {Wipe}

\* No reset waits from the i-th update to the k-th of the updates s.
NoWipe(s, i, k) == \A j \in i..k : s[j] # Wipe

\* The updates that wait tell of the wallet of their time: those behind the last reset
\* of the wallet there is, ...
LastOnes(s, w, p) ==
    \A i \in 1..Len(s) : NoWipe(s, i, Len(s)) => w # "none" /\ s[i] = p

\* ... those between two resets of one wallet, ...
Between(s) == \A i, k \in 1..Len(s) : i <= k /\ NoWipe(s, i, k) => s[i] = s[k]

\* ... and those before the first of the wallet whose password the store has, which
\* is the wallet there is when no reset waits.
OfTheStore(s, p, l, k) ==
    l # "remove" /\ k # NoKey =>
        /\ \A i \in 1..Len(s) : NoWipe(s, 1, i) => s[i] = k
        /\ NoWipe(s, 1, Len(s)) => k = p

\* An open wallet's update has been taken and no reset after it waits, or it waits itself.
OpenTold(s, w, l, un) ==
    w = "open" =>
        \/ NoWipe(s, 1, Len(s)) /\ l # "remove" /\ un
        \/ \E i \in 1..Len(s) : s[i] # Wipe /\ NoWipe(s, i, Len(s))

\* What is unlocked has a key, and files as soon as the listener has made them.
UnlockedHasKey ==
    unlocked =>
        /\ listener # "remove" => key # NoKey
        /\ listener = "receive" => file # 0

InStep ==
    ~overtaken /\ ~lost =>
        /\ LastOnes(updates, wallet, password)
        /\ Between(updates)
        /\ OfTheStore(updates, password, listener, key)
        /\ alive => OpenTold(updates, wallet, listener, unlocked)

PInv == FInv /\ UnlockedHasKey /\ InStep /\ SealedForCause

LEMMA Appended ==
    ASSUME NEW s \in Seq(Update), NEW u \in Update, NEW t, t = Append(s, u)
    PROVE  /\ Len(s) \in Nat /\ Len(t) = Len(s) + 1 /\ t[Len(s) + 1] = u
           /\ \A k \in 1..Len(s) : t[k] = s[k]
           /\ \A i, k \in 1..Len(s) : NoWipe(t, i, k) <=> NoWipe(s, i, k)
           /\ \A i \in 1..(Len(s) + 1) :
                  NoWipe(t, i, Len(s) + 1) <=> NoWipe(s, i, Len(s)) /\ u # Wipe
<1>1. Len(s) \in Nat
  BY LenProperties
<1>2. /\ Len(t) = Len(s) + 1 /\ t[Len(s) + 1] = u
      /\ \A k \in 1..Len(s) : t[k] = s[k]
  BY <1>1
<1>3. ASSUME NEW i \in 1..Len(s), NEW k \in 1..Len(s) PROVE NoWipe(t, i, k) <=> NoWipe(s, i, k)
  BY <1>1, <1>2 DEF NoWipe
<1>4. ASSUME NEW i \in 1..(Len(s) + 1)
      PROVE  NoWipe(t, i, Len(s) + 1) <=> NoWipe(s, i, Len(s)) /\ u # Wipe
  <2>1. \A j \in i..(Len(s) + 1) : j = Len(s) + 1 \/ (j \in i..Len(s) /\ j \in 1..Len(s))
    BY <1>1
  <2>2. /\ \A j \in i..Len(s) : j \in i..(Len(s) + 1) /\ j \in 1..Len(s)
        /\ Len(s) + 1 \in i..(Len(s) + 1)
    BY <1>1
  <2> QED
    BY <1>2, <2>1, <2>2 DEF NoWipe
<1> QED
  BY <1>1, <1>2, <1>3, <1>4

Kept(s, w, p, l, k, un) ==
    LastOnes(s, w, p) /\ Between(s) /\ OfTheStore(s, p, l, k) /\ OpenTold(s, w, l, un)

\* A call adds the update of the wallet it leaves behind.
LEMMA CallKeepsStep ==
    ASSUME NEW s \in Seq(Update), NEW u \in Update, NEW t, t = Append(s, u),
           NEW w, NEW p, NEW w2, NEW p2, NEW l, NEW k, NEW un,
           (w2 = "none") <=> u = Wipe,
           u # Wipe => u = p2,
           w # "none" /\ u # Wipe => p2 = p,
           w = "none" => p = NoKey,
           LastOnes(s, w, p), Between(s), OfTheStore(s, p, l, k)
    PROVE  Kept(t, w2, p2, l, k, un)
<1> DEFINE n == Len(s)
<1>1. /\ n \in Nat /\ Len(t) = n + 1 /\ t[n + 1] = u
      /\ \A j \in 1..n : t[j] = s[j]
      /\ \A i, j \in 1..n : NoWipe(t, i, j) <=> NoWipe(s, i, j)
      /\ \A i \in 1..(n + 1) : NoWipe(t, i, n + 1) <=> NoWipe(s, i, n) /\ u # Wipe
  <2>1. Len(s) \in Nat /\ Len(t) = Len(s) + 1 /\ t[Len(s) + 1] = u
    BY Appended
  <2>2. \A j \in 1..Len(s) : t[j] = s[j]
    BY Appended
  <2>3. \A i, j \in 1..Len(s) : NoWipe(t, i, j) <=> NoWipe(s, i, j)
    BY Appended
  <2>4. \A i \in 1..(Len(s) + 1) : NoWipe(t, i, Len(s) + 1) <=> NoWipe(s, i, Len(s)) /\ u # Wipe
    BY Appended
  <2> QED
    BY <2>1, <2>2, <2>3, <2>4
<1>2. \A i \in 1..n : NoWipe(s, i, n) => w # "none" /\ s[i] = p
  BY DEF LastOnes
<1>3. \A i, j \in 1..n : i <= j /\ NoWipe(s, i, j) => s[i] = s[j]
  BY DEF Between
<1>4. l # "remove" /\ k # NoKey =>
          /\ \A i \in 1..n : NoWipe(s, 1, i) => s[i] = k
          /\ NoWipe(s, 1, n) => k = p
  BY DEF OfTheStore
<1> HIDE DEF n
<1>5. \A i \in 1..(n + 1) : i \in 1..n \/ i = n + 1
  BY <1>1
<1>6. \A i \in 1..(n + 1) : NoWipe(t, i, n + 1) => w2 # "none" /\ t[i] = p2
  BY <1>1, <1>2, <1>5
<1>7. ASSUME NEW i \in 1..(n + 1), NEW j \in 1..(n + 1), i <= j, NoWipe(t, i, j)
      PROVE  t[i] = t[j]
  <2>1. CASE j \in 1..n
    <3>1. i \in 1..n
      BY <1>1, <1>7, <2>1
    <3> QED
      BY <1>1, <1>3, <1>7, <2>1, <3>1
  <2>2. CASE j = n + 1
    <3>1. t[i] = p2 /\ u # Wipe
      BY <1>1, <1>6, <1>7, <2>2
    <3> QED
      BY <1>1, <2>2, <3>1
  <2> QED
    BY <1>5, <2>1, <2>2
<1>8. ASSUME l # "remove", k # NoKey
      PROVE  /\ \A i \in 1..(n + 1) : NoWipe(t, 1, i) => t[i] = k
             /\ NoWipe(t, 1, n + 1) => k = p2
  <2>1. 1 \in 1..(n + 1) /\ (n = 0 \/ 1 \in 1..n)
    BY <1>1
  <2>2. ASSUME NoWipe(t, 1, n + 1) PROVE k = p2 /\ t[n + 1] = k
    <3>1. NoWipe(s, 1, n) /\ u # Wipe
      BY <1>1, <2>1, <2>2
    <3>2. k = p
      BY <1>4, <1>8, <3>1
    <3> QED
      BY <1>1, <1>8, <3>1, <3>2
  <2>3. ASSUME NEW i \in 1..n, NoWipe(t, 1, i) PROVE t[i] = k
    <3>1. 1 \in 1..n
      BY <1>1, <2>3
    <3> QED
      BY <1>1, <1>4, <1>8, <2>3, <3>1
  <2> QED
    BY <1>5, <2>2, <2>3
<1>9. w2 = "open" => \E i \in 1..(n + 1) : t[i] # Wipe /\ NoWipe(t, i, n + 1)
  <2>1. n + 1 \in 1..(n + 1) /\ NoWipe(s, n + 1, n)
    BY <1>1 DEF NoWipe
  <2> QED
    BY <1>1, <2>1
<1> QED
  BY <1>1, <1>6, <1>7, <1>8, <1>9 DEF Kept, LastOnes, Between, OfTheStore, OpenTold

LEMMA Shifted ==
    ASSUME NEW s \in Seq(Update), NEW i \in 1..Len(s), NEW t, t = RemoveAt(s, i)
    PROVE  /\ Len(s) \in Nat /\ Len(t) = Len(s) - 1
           /\ \A a \in 1..(Len(s) - 1) : a < i => t[a] = s[a]
           /\ \A a \in 1..(Len(s) - 1) : i <= a => t[a] = s[a + 1]
           /\ \A a, b \in 1..(Len(s) - 1) : i <= a => (NoWipe(t, a, b) <=> NoWipe(s, a + 1, b + 1))
<1>1. Len(s) \in Nat
  BY LenProperties
<1>2. Len(t) = Len(s) - 1
  BY Removed
<1>3. \A a \in 1..(Len(s) - 1) : t[a] = IF a < i THEN s[a] ELSE s[a + 1]
  BY Removed
<1>4. \A a \in 1..(Len(s) - 1) : a < i => t[a] = s[a]
  BY <1>3
<1>5. \A a \in 1..(Len(s) - 1) : i <= a => t[a] = s[a + 1]
  BY <1>1, <1>3
<1>6. ASSUME NEW a \in 1..(Len(s) - 1), NEW b \in 1..(Len(s) - 1), i <= a
      PROVE  NoWipe(t, a, b) <=> NoWipe(s, a + 1, b + 1)
  <2>1. ASSUME NoWipe(s, a + 1, b + 1), NEW j \in a..b PROVE t[j] # Wipe
    <3>1. j \in 1..(Len(s) - 1) /\ i <= j /\ j + 1 \in (a + 1)..(b + 1)
      BY <1>1, <1>6
    <3> QED
      BY <1>5, <2>1, <3>1 DEF NoWipe
  <2>2. ASSUME NoWipe(t, a, b), NEW j \in (a + 1)..(b + 1) PROVE s[j] # Wipe
    <3>1. /\ j - 1 \in 1..(Len(s) - 1) /\ i <= j - 1
          /\ j - 1 \in a..b /\ (j - 1) + 1 = j
      BY <1>1, <1>6
    <3> QED
      BY <1>5, <2>2, <3>1 DEF NoWipe
  <2> QED
    BY <2>1, <2>2 DEF NoWipe
<1> QED
  BY <1>1, <1>2, <1>4, <1>5, <1>6

\* A reset is taken, and only resets waited longer.
LEMMA ResetTakenKeepsStep ==
    ASSUME NEW s \in Seq(Update), NEW i \in 1..Len(s), NEW t, t = RemoveAt(s, i),
           \A j \in 1..i : s[j] = Wipe,
           NEW w, NEW p, NEW l, NEW l2, NEW un,
           LastOnes(s, w, p), Between(s), OpenTold(s, w, l, un)
    PROVE  LastOnes(t, w, p) /\ Between(t) /\ OpenTold(t, w, l2, un)
<1> DEFINE n == Len(s)
<1>1. n \in Nat /\ Len(t) = n - 1
  BY Shifted
<1>2. \A a \in 1..(n - 1) : a < i => t[a] = s[a]
  BY Shifted
<1>3. \A a \in 1..(n - 1) : i <= a => t[a] = s[a + 1]
  BY Shifted
<1>4. \A a, b \in 1..(n - 1) : i <= a => (NoWipe(t, a, b) <=> NoWipe(s, a + 1, b + 1))
  BY Shifted
<1>5. \A a \in 1..n : NoWipe(s, a, n) => w # "none" /\ s[a] = p
  BY DEF LastOnes
<1>6. \A a, b \in 1..n : a <= b /\ NoWipe(s, a, b) => s[a] = s[b]
  BY DEF Between
<1>7. w = "open" => \/ NoWipe(s, 1, n)
                    \/ \E a \in 1..n : s[a] # Wipe /\ NoWipe(s, a, n)
  BY DEF OpenTold
<1>8. i \in 1..n
  OBVIOUS
<1> HIDE DEF n
<1>9. ASSUME NEW a \in 1..(n - 1), NEW b \in 1..(n - 1), a <= b, NoWipe(t, a, b) PROVE i <= a
  <2>1. a < i => t[a] = Wipe /\ a \in a..b
    BY <1>1, <1>2, <1>8, <1>9
  <2> QED
    BY <1>1, <1>8, <1>9, <2>1 DEF NoWipe
<1>10. ASSUME NEW a \in 1..(n - 1), NoWipe(t, a, n - 1) PROVE w # "none" /\ t[a] = p
  <2>1. n - 1 \in 1..(n - 1) /\ a <= n - 1 /\ a + 1 \in 1..n /\ (n - 1) + 1 = n
    BY <1>1
  <2>2. i <= a
    BY <1>9, <1>10, <2>1
  <2>3. NoWipe(s, a + 1, n)
    BY <1>4, <1>10, <2>1, <2>2
  <2> QED
    BY <1>3, <1>5, <2>1, <2>2, <2>3
<1>11. ASSUME NEW a \in 1..(n - 1), NEW b \in 1..(n - 1), a <= b, NoWipe(t, a, b)
       PROVE  t[a] = t[b]
  <2>1. i <= a /\ i <= b
    BY <1>1, <1>8, <1>9, <1>11
  <2>2. a + 1 \in 1..n /\ b + 1 \in 1..n /\ a + 1 <= b + 1
    BY <1>1, <1>11
  <2> QED
    BY <1>3, <1>4, <1>6, <1>11, <2>1, <2>2
<1>12. ASSUME w = "open" PROVE \E a \in 1..(n - 1) : t[a] # Wipe /\ NoWipe(t, a, n - 1)
  <2>1. i \in 1..i /\ i \in 1..n /\ s[i] = Wipe
    BY <1>8
  <2>2. ~NoWipe(s, 1, n)
    BY <2>1 DEF NoWipe
  <2>3. PICK a \in 1..n : s[a] # Wipe /\ NoWipe(s, a, n)
    BY <1>7, <1>12, <2>2
  <2>4. i < a
    BY <1>1, <1>8, <2>3
  <2>5. /\ a - 1 \in 1..(n - 1) /\ n - 1 \in 1..(n - 1) /\ i <= a - 1
        /\ (a - 1) + 1 = a /\ (n - 1) + 1 = n
    BY <1>1, <1>8, <2>4
  <2>6. t[a - 1] = s[a]
    BY <1>3, <2>5
  <2>7. NoWipe(t, a - 1, n - 1)
    BY <1>4, <2>3, <2>5
  <2> QED
    BY <2>3, <2>5, <2>6, <2>7
<1> QED
  BY <1>1, <1>10, <1>11, <1>12 DEF LastOnes, Between, OpenTold

\* The update of Setup or UnlockNode is taken, and no reset waited longer: its password
\* is the store's, or the store is sealed with it.
LEMMA PasswordTakenKeepsStep ==
    ASSUME NEW s \in Seq(Update), NEW i \in 1..Len(s), NEW t, t = RemoveAt(s, i),
           \A j \in 1..i : s[j] # Wipe,
           NEW w, NEW p, NEW un, NEW k, NEW k2, k2 = IF k = NoKey THEN s[i] ELSE k,
           LastOnes(s, w, p), Between(s), OfTheStore(s, p, "receive", k), OpenTold(s, w, "receive", un)
    PROVE  /\ k # NoKey => k = s[i]
           /\ LastOnes(t, w, p) /\ Between(t)
           /\ OfTheStore(t, p, "generate", k2)
           /\ OpenTold(t, w, "generate", TRUE)
<1> DEFINE n == Len(s)
<1>1. n \in Nat /\ Len(t) = n - 1
  BY Shifted
<1>2. \A a \in 1..(n - 1) : a < i => t[a] = s[a]
  BY Shifted
<1>3. \A a \in 1..(n - 1) : i <= a => t[a] = s[a + 1]
  BY Shifted
<1>4. \A a, b \in 1..(n - 1) : i <= a => (NoWipe(t, a, b) <=> NoWipe(s, a + 1, b + 1))
  BY Shifted
<1>5. \A a \in 1..n : NoWipe(s, a, n) => w # "none" /\ s[a] = p
  BY DEF LastOnes
<1>6. \A a, b \in 1..n : a <= b /\ NoWipe(s, a, b) => s[a] = s[b]
  BY DEF Between
<1>7. k # NoKey => /\ \A a \in 1..n : NoWipe(s, 1, a) => s[a] = k
                   /\ NoWipe(s, 1, n) => k = p
  BY DEF OfTheStore
<1>8. w = "open" => \/ NoWipe(s, 1, n)
                    \/ \E a \in 1..n : s[a] # Wipe /\ NoWipe(s, a, n)
  BY DEF OpenTold
<1>9. i \in 1..n
  OBVIOUS
<1> HIDE DEF n
<1>10. \A a \in 1..i : NoWipe(s, 1, a)
  <2>1. \A a \in 1..i : \A j \in 1..a : j \in 1..i
    BY <1>1, <1>9
  <2> QED
    BY <2>1 DEF NoWipe
<1>11. ASSUME NEW a \in 1..(i - 1), NEW b \in 1..n, i <= b, \A j \in i..(b - 1) : t[j] # Wipe
       PROVE  NoWipe(s, 1, b)
  <2>1. ASSUME NEW j \in 1..b, i < j PROVE s[j] # Wipe
    <3>1. j - 1 \in i..(b - 1) /\ j - 1 \in 1..(n - 1) /\ i <= j - 1 /\ (j - 1) + 1 = j
      BY <1>1, <1>9, <1>11, <2>1
    <3> QED
      BY <1>3, <1>11, <3>1
  <2>2. \A j \in 1..b : i < j \/ j \in 1..i
    BY <1>1, <1>9
  <2> QED
    BY <2>1, <2>2 DEF NoWipe
<1>12. ASSUME NEW j \in 1..n, NoWipe(s, 1, n) PROVE NoWipe(s, j, n)
  <2>1. \A m \in j..n : m \in 1..n
    BY <1>1
  <2> QED
    BY <1>12, <2>1 DEF NoWipe
\* Behind the one taken nothing changes; before it no reset waits.
<1>13. ASSUME NEW a \in 1..(n - 1), NEW b \in 1..(n - 1), a <= b, NoWipe(t, a, b)
       PROVE  \/ i <= a /\ NoWipe(s, a + 1, b + 1) /\ t[a] = s[a + 1] /\ t[b] = s[b + 1]
              \/ a < i /\ i <= b /\ NoWipe(s, 1, b + 1) /\ t[a] = s[a] /\ t[b] = s[b + 1]
              \/ a < i /\ b < i /\ NoWipe(s, 1, b) /\ t[a] = s[a] /\ t[b] = s[b]
  <2>1. CASE i <= a
    <3>1. i <= b
      BY <1>1, <1>9, <1>13, <2>1
    <3> QED
      BY <1>3, <1>4, <1>13, <2>1, <3>1
  <2>2. CASE a < i /\ i <= b
    <3>1. a \in 1..(i - 1) /\ b + 1 \in 1..n /\ i <= b + 1 /\ (b + 1) - 1 = b
      BY <1>1, <1>9, <2>2
    <3>2. \A j \in i..b : j \in a..b
      BY <1>1, <1>9, <2>2
    <3>3. \A j \in i..((b + 1) - 1) : t[j] # Wipe
      BY <1>13, <3>1, <3>2 DEF NoWipe
    <3>4. NoWipe(s, 1, b + 1)
      BY <1>11, <3>1, <3>3
    <3> QED
      BY <1>2, <1>3, <2>2, <3>4
  <2>3. CASE a < i /\ b < i
    <3>1. b \in 1..i
      BY <1>1, <1>9, <2>3
    <3> QED
      BY <1>2, <1>10, <2>3, <3>1
  <2> QED
    BY <1>1, <1>9, <2>1, <2>2, <2>3
<1>14. ASSUME NEW a \in 1..(n - 1), NoWipe(t, a, n - 1)
       PROVE  \/ i <= a /\ NoWipe(s, a + 1, n) /\ t[a] = s[a + 1]
              \/ a < i /\ NoWipe(s, 1, n) /\ t[a] = s[a]
  <2>1. n - 1 \in 1..(n - 1) /\ a <= n - 1 /\ (n - 1) + 1 = n
    BY <1>1
  <2>2. n - 1 < i => n \in 1..i
    BY <1>1, <1>9, <2>1
  <2> QED
    BY <1>10, <1>13, <1>14, <2>1, <2>2
<1>15. ASSUME NoWipe(t, 1, n - 1) PROVE NoWipe(s, 1, n)
  <2>1. CASE n = 1
    BY <1>9, <1>10, <2>1
  <2>2. CASE n # 1 /\ i = 1
    <3>1. 1 \in 1..(n - 1) /\ 1 \in 1..1
      BY <1>1, <1>9, <2>2
    <3>2. NoWipe(s, 1 + 1, n)
      BY <1>14, <1>15, <2>2, <3>1
    <3>3. NoWipe(s, 1, 1)
      BY <1>10, <2>2, <3>1
    <3>4. \A j \in 1..n : j \in 1..1 \/ j \in (1 + 1)..n
      BY <1>1
    <3> QED
      BY <3>2, <3>3, <3>4 DEF NoWipe
  <2>3. CASE n # 1 /\ i # 1
    <3>1. 1 \in 1..(n - 1) /\ 1 < i /\ ~(i <= 1)
      BY <1>1, <1>9, <2>3
    <3> QED
      BY <1>14, <1>15, <3>1
  <2> QED
    BY <2>1, <2>2, <2>3
<1>16. k # NoKey => k = s[i]
  <2>1. i \in 1..i
    BY <1>9
  <2> QED
    BY <1>7, <1>9, <1>10, <2>1
<1>17. ASSUME NEW a \in 1..(n - 1), NoWipe(t, a, n - 1) PROVE w # "none" /\ t[a] = p
  <2>1. a + 1 \in 1..n /\ a \in 1..n
    BY <1>1
  <2> QED
    BY <1>5, <1>12, <1>14, <1>17, <2>1
<1>18. ASSUME NEW a \in 1..n, NEW b \in 1..n, a <= b, NoWipe(s, 1, b) PROVE s[a] = s[b]
  <2>1. \A j \in a..b : j \in 1..b
    BY <1>1
  <2> QED
    BY <1>6, <1>18, <2>1 DEF NoWipe
<1>19. ASSUME NEW a \in 1..(n - 1), NEW b \in 1..(n - 1), a <= b, NoWipe(t, a, b)
       PROVE  t[a] = t[b]
  <2>1. /\ a \in 1..n /\ b \in 1..n /\ a + 1 \in 1..n /\ b + 1 \in 1..n
        /\ a + 1 <= b + 1 /\ a <= b + 1
    BY <1>1, <1>19
  <2> QED
    BY <1>6, <1>13, <1>18, <1>19, <2>1
<1>20. s[i] = k2
  BY <1>16
<1>21. ASSUME NEW b \in 1..n, NoWipe(s, 1, b) PROVE s[b] = k2
  <2>1. CASE i <= b
    BY <1>9, <1>18, <1>20, <1>21, <2>1
  <2>2. CASE b < i
    <3>1. i \in 1..i
      BY <1>9
    <3>2. NoWipe(s, 1, i) /\ b <= i
      BY <1>1, <1>9, <1>10, <2>2, <3>1
    <3>3. s[b] = s[i]
      BY <1>9, <1>18, <3>2
    <3> QED
      BY <1>20, <3>3
  <2> QED
    BY <1>1, <1>9, <2>1, <2>2
<1>22. ASSUME NEW b \in 1..(n - 1), NoWipe(t, 1, b) PROVE t[b] = k2
  <2>1. 1 \in 1..(n - 1) /\ 1 <= b /\ b \in 1..n /\ b + 1 \in 1..n
    BY <1>1
  <2>2. CASE i <= 1 /\ NoWipe(s, 1 + 1, b + 1) /\ t[b] = s[b + 1]
    <3>1. i = 1 /\ 1 \in 1..i
      BY <1>9, <2>2
    <3>2. NoWipe(s, 1, 1)
      BY <1>10, <3>1
    <3>3. \A j \in 1..(b + 1) : j \in 1..1 \/ j \in (1 + 1)..(b + 1)
      BY <1>1
    <3>4. NoWipe(s, 1, b + 1)
      BY <2>2, <3>2, <3>3 DEF NoWipe
    <3> QED
      BY <1>21, <2>1, <2>2, <3>4
  <2>3. CASE NoWipe(s, 1, b + 1) /\ t[b] = s[b + 1]
    BY <1>21, <2>1, <2>3
  <2>4. CASE NoWipe(s, 1, b) /\ t[b] = s[b]
    BY <1>21, <2>1, <2>4
  <2> QED
    BY <1>13, <1>22, <2>1, <2>2, <2>3, <2>4
<1>23. NoWipe(t, 1, n - 1) => k2 = p
  BY <1>5, <1>9, <1>12, <1>15, <1>20
<1>24. ASSUME w = "open"
       PROVE  \/ NoWipe(t, 1, n - 1)
              \/ \E a \in 1..(n - 1) : t[a] # Wipe /\ NoWipe(t, a, n - 1)
  <2>1. CASE NoWipe(s, 1, n)
    <3>1. ASSUME NEW j \in 1..(n - 1) PROVE t[j] # Wipe
      <4>1. j \in 1..n /\ j + 1 \in 1..n /\ (j < i \/ i <= j)
        BY <1>1, <1>9
      <4> QED
        BY <1>2, <1>3, <2>1, <4>1 DEF NoWipe
    <3> QED
      BY <3>1 DEF NoWipe
  <2>2. ASSUME NEW a \in 1..n, s[a] # Wipe, NoWipe(s, a, n), i < a
        PROVE  \E c \in 1..(n - 1) : t[c] # Wipe /\ NoWipe(t, c, n - 1)
    <3>1. /\ a - 1 \in 1..(n - 1) /\ n - 1 \in 1..(n - 1) /\ i <= a - 1
          /\ (a - 1) + 1 = a /\ (n - 1) + 1 = n
      BY <1>1, <1>9, <2>2
    <3>2. t[a - 1] = s[a]
      BY <1>3, <3>1
    <3>3. NoWipe(t, a - 1, n - 1)
      BY <1>4, <2>2, <3>1
    <3> QED
      BY <2>2, <3>1, <3>2, <3>3
  <2>3. ASSUME NEW a \in 1..n, NoWipe(s, a, n), a <= i PROVE NoWipe(s, 1, n)
    <3>1. \A j \in 1..n : j \in 1..i \/ j \in a..n
      BY <1>1, <1>9, <2>3
    <3> QED
      BY <2>3, <3>1 DEF NoWipe
  <2>4. \A a \in 1..n : i < a \/ a <= i
    BY <1>1, <1>9
  <2> QED
    BY <1>8, <1>24, <2>1, <2>2, <2>3, <2>4
<1> QED
  BY <1>1, <1>16, <1>17, <1>19, <1>22, <1>23, <1>24 DEF LastOnes, Between, OfTheStore, OpenTold

\* What is unlocked keeps its key and its files until it is removed.
LEMMA NextUnlocked == TypeOK /\ UnlockedHasKey /\ [Next]_vars => UnlockedHasKey'
<1> SUFFICES ASSUME TypeOK, UnlockedHasKey, [Next]_vars PROVE UnlockedHasKey'
  OBVIOUS
<1> USE MacaroonAssumption DEF UnlockedHasKey, disk, history
<1>1. CASE (\E p \in Password : Setup(p)) \/ UnlockNode \/ LockNode \/ ResetWallet
  BY <1>1 DEF Setup, UnlockNode, LockNode, ResetWallet, Tells
<1>2. ASSUME NEW i \in 1..MaxCalls, Unlock(i) PROVE UnlockedHasKey'
  <2>1. updates[i] # NoKey
    <3>1. updates[i] \in Password \cup {Wipe} /\ updates[i] # Wipe
      BY <1>2, ElementOfSeq, LenProperties DEF Unlock, Takes, TypeOK
    <3> QED
      BY <3>1
  <2> QED
    BY <1>2, <2>1 DEF Unlock, Takes
<1>3. ASSUME NEW i \in 1..MaxCalls, UnlockFails(i) PROVE UnlockedHasKey'
  BY <1>3 DEF UnlockFails, Takes, Dies
<1>4. ASSUME NEW i \in 1..MaxCalls, StartReset(i) PROVE UnlockedHasKey'
  BY <1>4 DEF StartReset, Takes
<1>5. CASE Generate
  BY <1>5 DEF Generate, TypeOK
<1>6. CASE RemoveFiles \/ RemoveStore \/ Renew
  BY <1>6 DEF RemoveFiles, RemoveStore, Renew
<1>7. CASE Die \/ Restart \/ UNCHANGED vars
  BY <1>7 DEF Die, Dies, Restart, vars
<1> QED
  BY <1>1, <1>2, <1>3, <1>4, <1>5, <1>6, <1>7 DEF Next, Listen

\* A call keeps the updates in step.
LEMMA CallInStep ==
    ASSUME PInv, (\E p \in Password : Setup(p)) \/ UnlockNode \/ LockNode \/ ResetWallet
    PROVE  InStep'
<1> USE MacaroonAssumption
<1>1. /\ TypeOK
      /\ ~overtaken /\ ~lost =>
            /\ LastOnes(updates, wallet, password) /\ Between(updates)
            /\ OfTheStore(updates, password, listener, key)
            /\ alive => OpenTold(updates, wallet, listener, unlocked)
  BY DEF PInv, FInv, InStep
<1>2. CASE LockNode
  BY <1>1, <1>2 DEF LockNode, InStep, LastOnes, OpenTold, disk, history
<1>3. ASSUME NEW u \in Update, Tells(u), (wallet' = "none") <=> u = Wipe,
             u # Wipe => u = password',
             wallet # "none" /\ u # Wipe => password' = password
      PROVE  InStep'
  <2>1. /\ updates \in Seq(Update) /\ updates' = Append(updates, u)
        /\ UNCHANGED <<listener, unlocked, key, overtaken, lost>>
        /\ wallet = "none" => password = NoKey
    BY <1>1, <1>3 DEF Tells, TypeOK, Update, disk, history
  <2>2. ASSUME ~overtaken, ~lost
        PROVE  /\ LastOnes(updates', wallet', password') /\ Between(updates')
               /\ OfTheStore(updates', password', listener, key)
               /\ OpenTold(updates', wallet', listener, unlocked)
    <3>1. /\ LastOnes(updates, wallet, password) /\ Between(updates)
          /\ OfTheStore(updates, password, listener, key)
      BY <1>1, <2>2
    <3>2. Kept(updates', wallet', password', listener, key, unlocked)
      BY <1>3, <2>1, <3>1, CallKeepsStep
    <3> QED
      BY <3>2 DEF Kept
  <2> QED
    BY <2>1, <2>2 DEF InStep
<1>4. ASSUME NEW p \in Password, Setup(p) PROVE InStep'
  BY <1>3, <1>4 DEF Setup, Update
<1>5. CASE UnlockNode
  <2>1. password \in Password
    BY <1>1, <1>5 DEF UnlockNode, TypeOK
  <2> QED
    BY <1>3, <1>5, <2>1 DEF UnlockNode, Update
<1>6. CASE ResetWallet
  BY <1>3, <1>6 DEF ResetWallet, Update
<1> QED
  BY <1>2, <1>4, <1>5, <1>6

\* So does the listener when it takes one.
LEMMA TakenInStep ==
    ASSUME PInv, NEW i \in 1..MaxCalls, Unlock(i) \/ UnlockFails(i) \/ StartReset(i)
    PROVE  InStep' /\ SealedForCause'
<1> USE MacaroonAssumption
<1>1. /\ TypeOK /\ UnlockedHasKey /\ SealedForCause
      /\ ~overtaken /\ ~lost =>
            /\ LastOnes(updates, wallet, password) /\ Between(updates)
            /\ OfTheStore(updates, password, listener, key)
            /\ alive => OpenTold(updates, wallet, listener, unlocked)
  BY DEF PInv, FInv, InStep
<1>2. Takes(i)
  BY DEF Unlock, UnlockFails, StartReset
<1>3. /\ updates \in Seq(Update) /\ i \in 1..Len(updates)
      /\ updates' = RemoveAt(updates, i) /\ alive /\ listener = "receive"
      /\ overtaken' = (overtaken \/ \E j \in 1..(i - 1) : (updates[j] = Wipe) # (updates[i] = Wipe))
  BY <1>1, <1>2, LenProperties DEF Takes, TypeOK, Update
<1>4. \A j \in 1..i : j = i \/ j \in 1..(i - 1)
  BY <1>3
<1>5. UNCHANGED <<wallet, password>> /\ overtaken \in BOOLEAN /\ (lost => lost')
  BY <1>1 DEF Unlock, UnlockFails, StartReset, Dies, TypeOK
<1>6. unlocked => key # NoKey
  BY <1>1, <1>3 DEF UnlockedHasKey
<1>7. ASSUME ~overtaken', ~lost', updates[i] # Wipe
      PROVE  /\ key # NoKey => key = updates[i]
             /\ LastOnes(updates', wallet, password) /\ Between(updates')
             /\ OfTheStore(updates', password, "generate", IF key = NoKey THEN updates[i] ELSE key)
             /\ OpenTold(updates', wallet, "generate", TRUE)
  <2>1. ~overtaken /\ ~lost /\ \A j \in 1..i : updates[j] # Wipe
    BY <1>3, <1>4, <1>5, <1>7
  <2>2. /\ LastOnes(updates, wallet, password) /\ Between(updates)
        /\ OfTheStore(updates, password, "receive", key)
        /\ OpenTold(updates, wallet, "receive", unlocked)
    BY <1>1, <1>3, <2>1
  <2> DEFINE k2 == IF key = NoKey THEN updates[i] ELSE key
  <2> HIDE DEF k2
  <2>3. k2 = IF key = NoKey THEN updates[i] ELSE key
    BY DEF k2
  <2>4. /\ key # NoKey => key = updates[i]
        /\ LastOnes(updates', wallet, password) /\ Between(updates')
        /\ OfTheStore(updates', password, "generate", k2)
        /\ OpenTold(updates', wallet, "generate", TRUE)
    <3>1. key # NoKey => key = updates[i]
      BY <1>3, <2>1, <2>2, <2>3, PasswordTakenKeepsStep
    <3>2. LastOnes(updates', wallet, password) /\ Between(updates')
      BY <1>3, <2>1, <2>2, <2>3, PasswordTakenKeepsStep
    <3>3. OfTheStore(updates', password, "generate", k2)
      BY <1>3, <2>1, <2>2, <2>3, PasswordTakenKeepsStep
    <3>4. OpenTold(updates', wallet, "generate", TRUE)
      BY <1>3, <2>1, <2>2, <2>3, PasswordTakenKeepsStep
    <3> QED
      BY <3>1, <3>2, <3>3, <3>4
  <2> QED
    BY <2>3, <2>4
<1>8. CASE Unlock(i)
  <2>1. /\ listener' = "generate" /\ unlocked' = TRUE /\ UNCHANGED <<lost, sealed, alive>>
        /\ updates[i] # Wipe
        /\ key' = IF key = NoKey THEN updates[i] ELSE key
    BY <1>6, <1>8 DEF Unlock, disk
  <2>2. InStep'
    BY <1>5, <1>7, <2>1 DEF InStep
  <2>3. SealedForCause'
    BY <1>1, <1>3, <2>1 DEF SealedForCause
  <2> QED
    BY <2>2, <2>3
<1>9. CASE UnlockFails(i)
  <2>1. updates[i] # Wipe /\ key \notin {NoKey, updates[i]}
    BY <1>9 DEF UnlockFails
  <2>2. overtaken' \/ lost'
    BY <1>7, <2>1
  <2> QED
    BY <2>2 DEF InStep, SealedForCause
<1>10. CASE StartReset(i)
  <2>1. /\ listener' = "remove" /\ UNCHANGED <<lost, sealed, key, unlocked, alive>>
        /\ updates[i] = Wipe
    BY <1>10 DEF StartReset, disk
  <2>2. ASSUME ~overtaken', ~lost'
        PROVE  /\ LastOnes(updates', wallet, password) /\ Between(updates')
               /\ OpenTold(updates', wallet, "remove", unlocked)
    <3>1. ~overtaken /\ ~lost /\ \A j \in 1..i : updates[j] = Wipe
      BY <1>3, <1>4, <1>5, <2>1, <2>2
    <3>2. /\ LastOnes(updates, wallet, password) /\ Between(updates)
          /\ OpenTold(updates, wallet, "receive", unlocked)
      BY <1>1, <1>3, <3>1
    <3> QED
      BY <1>3, <3>1, <3>2, ResetTakenKeepsStep
  <2>3. InStep'
    BY <1>5, <2>1, <2>2 DEF InStep, OfTheStore
  <2>4. SealedForCause'
    BY <1>1, <1>3, <2>1 DEF SealedForCause
  <2> QED
    BY <2>3, <2>4
<1> QED
  BY <1>8, <1>9, <1>10

LEMMA NextInStep == PInv /\ [Next]_vars => InStep' /\ SealedForCause'
<1> SUFFICES ASSUME PInv, [Next]_vars PROVE InStep' /\ SealedForCause'
  OBVIOUS
<1> USE MacaroonAssumption
<1>1. /\ TypeOK /\ CutShort /\ SealedForCause
      /\ ~overtaken /\ ~lost =>
            /\ LastOnes(updates, wallet, password) /\ Between(updates)
            /\ OfTheStore(updates, password, listener, key)
            /\ alive => OpenTold(updates, wallet, listener, unlocked)
  BY DEF PInv, FInv, InStep
<1>2. CASE (\E p \in Password : Setup(p)) \/ UnlockNode \/ LockNode \/ ResetWallet
  <2>1. UNCHANGED <<overtaken, lost, sealed>>
    BY <1>2 DEF Setup, UnlockNode, LockNode, ResetWallet, Tells, history
  <2>2. SealedForCause'
    BY <1>1, <2>1 DEF SealedForCause
  <2> QED
    BY <1>2, <2>2, CallInStep
<1>3. ASSUME NEW i \in 1..MaxCalls, Unlock(i) \/ UnlockFails(i) \/ StartReset(i)
      PROVE  InStep' /\ SealedForCause'
  BY <1>3, TakenInStep
<1>4. CASE Generate \/ RemoveFiles \/ RemoveStore \/ Renew
  <2>1. /\ UNCHANGED <<updates, wallet, password, alive, overtaken, lost, sealed>>
        /\ \/ listener # "remove" /\ listener' # "remove" /\ UNCHANGED <<key, unlocked>>
           \/ listener = "remove" /\ (listener' = "remove" \/ key' = NoKey)
    BY <1>4 DEF Generate, RemoveFiles, RemoveStore, Renew, disk, history
  <2>2. OfTheStore(updates, password, listener, key) => OfTheStore(updates, password, listener', key')
    BY <2>1 DEF OfTheStore
  <2>3. OpenTold(updates, wallet, listener, unlocked) => OpenTold(updates, wallet, listener', unlocked')
    BY <2>1 DEF OpenTold
  <2>4. InStep'
    BY <1>1, <2>1, <2>2, <2>3 DEF InStep
  <2> QED
    BY <1>1, <2>1, <2>4 DEF SealedForCause
<1>5. CASE Die
  <2>1. /\ UNCHANGED <<updates, wallet, password, listener, key, overtaken, sealed>>
        /\ alive' = FALSE /\ (lost => lost')
    BY <1>5 DEF Die, Dies, disk
  <2>2. InStep'
    BY <1>1, <2>1 DEF InStep
  <2> QED
    BY <1>1, <2>1, <2>2 DEF SealedForCause
<1>6. CASE Restart
  <2>1. /\ updates' = <<>> /\ listener' = "receive" /\ wallet' # "open" /\ ~alive
        /\ UNCHANGED <<password, key, overtaken, lost, sealed>>
    BY <1>1, <1>6 DEF Restart, disk, history, TypeOK
  <2>2. LastOnes(updates', wallet', password') /\ Between(updates')
    BY <2>1, EmptySeq DEF LastOnes, Between
  <2>3. ASSUME ~overtaken, ~lost PROVE OfTheStore(updates', password', listener', key')
    <3>1. /\ NoWipe(updates, 1, Len(updates))
          /\ listener = "remove" => key = NoKey
      BY <1>1, <2>1, <2>3, LenProperties DEF CutShort, TypeOK, NoWipe
    <3>2. OfTheStore(updates, password, listener, key)
      BY <1>1, <2>3
    <3> QED
      BY <2>1, <3>1, <3>2, EmptySeq DEF OfTheStore
  <2>4. OpenTold(updates', wallet', listener', unlocked')
    BY <2>1 DEF OpenTold
  <2>5. InStep'
    BY <2>1, <2>2, <2>3, <2>4 DEF InStep
  <2> QED
    BY <1>1, <2>1, <2>5 DEF SealedForCause
<1>7. CASE UNCHANGED vars
  BY <1>1, <1>7 DEF InStep, SealedForCause, vars, disk, history
<1> QED
  BY <1>2, <1>3, <1>4, <1>5, <1>6, <1>7 DEF Next, Listen

LEMMA InitPInv == Init => PInv
<1> SUFFICES ASSUME Init PROVE PInv
  OBVIOUS
<1>1. TypeOK
  BY InitType
<1>2. LastOnes(updates, wallet, password) /\ Between(updates)
  BY EmptySeq DEF Init, LastOnes, Between
<1> QED
  BY <1>1, <1>2 DEF Init, PInv, FInv, FilesVerify, CutShort, UnlockedHasKey, InStep, OfTheStore, OpenTold,
                    SealedForCause

LEMMA NextPInv == PInv /\ [Next]_vars => PInv'
  BY NextType, NextFInv, NextUnlocked, NextInStep DEF PInv, FInv

\* The wallet's password opens the store, unless an update overtook a reset or a crash
\* left a reset undone.
THEOREM SealedWithCause == Spec => []SealedForCause
<1>1. PInv => SealedForCause
  BY DEF PInv
<1> QED
  BY <1>1, InitPInv, NextPInv, PTL DEF Spec

\* When all updates have been taken, an open wallet has an unlocked macaroon service
\* sealed with its password, unless a reset was overtaken or left undone.
THEOREM ServesOpenWallet == Spec => []ServesTheWallet
<1>1. PInv => ServesTheWallet
  <2> SUFFICES ASSUME PInv, alive, updates = <<>>, listener = "receive", wallet = "open",
                      ~overtaken, ~lost
               PROVE  unlocked /\ key = password /\ file # 0
    BY DEF ServesTheWallet
  <2>1. /\ UnlockedHasKey /\ OfTheStore(updates, password, listener, key)
        /\ OpenTold(updates, wallet, listener, unlocked)
    BY DEF PInv, FInv, InStep
  <2>2. Len(updates) = 0
    BY EmptySeq
  <2>3. unlocked /\ NoWipe(updates, 1, Len(updates))
    BY <2>1, <2>2 DEF OpenTold
  <2> QED
    BY <2>1, <2>3 DEF UnlockedHasKey, OfTheStore
<1> QED
  BY <1>1, InitPInv, NextPInv, PTL DEF Spec

=============================================================================
