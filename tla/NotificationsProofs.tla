------------------------- MODULE NotificationsProofs -------------------------
(***************************************************************************)
(* Theorems about Notifications: type correctness, in particular that the  *)
(* loop, which reads without the lock, reads no slot never written, that a *)
(* round without a removal reaches every listener once, and that no sender *)
(* and no handler is left to wait for nothing, for any number of streams   *)
(* and events.                                                             *)
(***************************************************************************)
EXTENDS Notifications, SequenceTheorems, TLAPS

-----------------------------------------------------------------------------
(* Type correctness.                                                        *)

LEMMA ArrayIsSeq ==
    ASSUME NEW S, NEW m \in Nat, NEW f \in [1..m -> S]
    PROVE  f \in Seq(S) /\ Len(f) = m
<1>1. f \in Seq(S)
  OBVIOUS
<1>2. Len(f) = m
  OBVIOUS
<1> QED
  BY <1>1, <1>2

\* A slot written behind the slice.
LEMMA WriteBehind ==
    ASSUME NEW S, NEW a \in Seq(S), NEW m \in Nat, m < Len(a), NEW e \in S
    PROVE  /\ [a EXCEPT ![m + 1] = e] \in Seq(S)
           /\ Len([a EXCEPT ![m + 1] = e]) = Len(a)
           /\ \A k \in 1..Len(a) : [a EXCEPT ![m + 1] = e][k] = IF k = m + 1 THEN e ELSE a[k]
<1>1. m + 1 \in 1..Len(a)
  BY LenProperties
<1> QED
  BY <1>1, ExceptSeq

\* A larger array, with the slice and one more.
LEMMA Grow ==
    ASSUME NEW S, NEW a, NEW m \in Nat, NEW e \in S, NEW c \in Nat, m + 1 <= c,
           NEW o, \A k \in 1..m : a[k] \in S,
           NEW f, f = [k \in 1..c |-> IF k <= m THEN a[k] ELSE IF k = m + 1 THEN e ELSE o]
    PROVE  f \in Seq(S \cup {o}) /\ Len(f) = c
<1>1. ASSUME NEW k \in 1..c
      PROVE  (IF k <= m THEN a[k] ELSE IF k = m + 1 THEN e ELSE o) \in S \cup {o}
  OBVIOUS
<1>2. f \in [1..c -> S \cup {o}]
  BY <1>1
<1> QED
  BY <1>2, ArrayIsSeq

\* The slots behind i shifted.
LEMMA Shift ==
    ASSUME NEW S, NEW a \in Seq(S), NEW m \in 1..Len(a), NEW i \in 1..m
    PROVE  LET f == [k \in DOMAIN a |-> IF i <= k /\ k < m THEN a[k + 1] ELSE a[k]]
           IN  /\ f \in Seq(S) /\ Len(f) = Len(a)
               /\ \A k \in 1..Len(a) : f[k] = IF i <= k /\ k < m THEN a[k + 1] ELSE a[k]
<1> DEFINE f == [k \in DOMAIN a |-> IF i <= k /\ k < m THEN a[k + 1] ELSE a[k]]
<1>1. DOMAIN a = 1..Len(a) /\ Len(a) \in Nat /\ \A k \in 1..Len(a) : a[k] \in S
  BY LenProperties, ElementOfSeq
<1>2. \A k \in 1..Len(a) : f[k] = IF i <= k /\ k < m THEN a[k + 1] ELSE a[k]
  BY <1>1
<1>3. ASSUME NEW k \in 1..Len(a)
      PROVE  (IF i <= k /\ k < m THEN a[k + 1] ELSE a[k]) \in S
  BY <1>1
<1>4. f \in [1..Len(a) -> S]
  BY <1>1, <1>3
<1> HIDE DEF f
<1>5. f \in Seq(S) /\ Len(f) = Len(a)
  BY <1>1, <1>4, ArrayIsSeq
<1> QED
  BY <1>2, <1>5 DEF f

\* Slots that hold a listener hold one after a write behind the slice, ...
LEMMA WriteKeeps ==
    ASSUME NEW S, NEW a, NEW b, NEW l \in Nat, NEW c \in Nat, l <= c, NEW m \in Nat, NEW e \in S,
           \A k \in 1..l : a[k] \in S,
           \A k \in 1..c : b[k] = IF k = m + 1 THEN e ELSE a[k]
    PROVE  \A k \in 1..l : b[k] \in S
  OBVIOUS

\* ... and after a shift.
LEMMA ShiftKeeps ==
    ASSUME NEW S, NEW a, NEW b, NEW l \in Nat, NEW c \in Nat, l <= c, NEW m \in 1..c, NEW i \in 1..m,
           \A k \in 1..l : a[k] \in S,
           \A k \in 1..m : a[k] \in S,
           \A k \in 1..c : b[k] = IF i <= k /\ k < m THEN a[k + 1] ELSE a[k]
    PROVE  \A k \in 1..l : b[k] \in S
<1>1. ASSUME NEW k \in 1..l PROVE b[k] \in S
  <2>1. k \in 1..c
    OBVIOUS
  <2>2. CASE i <= k /\ k < m
    <3>1. k + 1 \in 1..m
      BY <2>2
    <3> QED
      BY <2>1, <2>2, <3>1
  <2> QED
    BY <2>1, <2>2
<1> QED
  BY <1>1

\* What the operations on the slice touch.
SliceType ==
    /\ slots \in Seq(Stream \cup {Nobody})
    /\ n \in 0..Len(slots)
    /\ \A k \in 1..n : slots[k] \in Stream
    /\ shared \in BOOLEAN
    /\ own \in Seq(Stream \cup {Nobody})
    /\ loop = "range" =>
        /\ idx <= limit
        /\ limit <= Len(IF shared THEN slots ELSE own)
        /\ \A k \in 1..limit : (IF shared THEN slots ELSE own)[k] \in Stream

LEMMA InitType == Init => TypeOK
<1> SUFFICES ASSUME Init PROVE TypeOK
  OBVIOUS
<1>1. /\ slots \in Seq(Stream \cup {Nobody}) /\ own \in Seq(Stream \cup {Nobody})
      /\ first \in Seq(Stream)
      /\ Len(slots) = 0 /\ n = 0
  BY EmptySeq DEF Init
<1>2. n \in 0..Len(slots) /\ (\A k \in 1..n : slots[k] \in Stream)
  BY <1>1
<1>3. events \in 0..MaxEvents
  BY NotificationAssumption DEF Init
<1>4. /\ chan \in [Stream -> {"none", "open", "closed"}]
      /\ stream \in [Stream -> {"none", "select", "sending", "leaving", "gone"}]
      /\ senders \in [Stream -> Nat]
      /\ due \in [Stream -> Nat]
  BY DEF Init
<1>5. /\ loop = "select" /\ server = "up" /\ shared = TRUE /\ dead = FALSE /\ removed = FALSE
      /\ limit = 0 /\ idx = 1 /\ failed = {} /\ late = {}
  BY DEF Init
<1>6. SliceType
  BY <1>1, <1>2, <1>5 DEF SliceType
<1>7. /\ limit \in Nat /\ idx \in Nat \ {0}
      /\ loop \in {"select", "range", "stopped"} /\ server \in {"up", "stopping", "down"}
  BY <1>5
<1>8. dead \in BOOLEAN /\ removed \in BOOLEAN /\ failed \subseteq Stream /\ late \subseteq Stream
  BY <1>5
<1> QED
  BY <1>1, <1>3, <1>4, <1>6, <1>7, <1>8 DEF SliceType, TypeOK

\* What the loop reads are listeners, while it reads the array of the slice.
LEMMA LoopReads ==
    ASSUME TypeOK, loop = "range", shared
    PROVE  limit \in Nat /\ limit <= Len(slots) /\ \A k \in 1..limit : slots[k] \in Stream
  BY DEF TypeOK

LEMMA PushType == ASSUME TypeOK, NEW s \in Stream, PushListener(s) PROVE SliceType'
<1> DEFINE S == Stream \cup {Nobody}
<1>1. /\ slots \in Seq(S) /\ own \in Seq(S) /\ shared \in BOOLEAN
      /\ Len(slots) \in Nat /\ n \in 0..Len(slots) /\ \A k \in 1..n : slots[k] \in Stream
  BY LenProperties DEF TypeOK
<1>2. n' = n + 1 /\ UNCHANGED <<loop, limit, idx>>
  BY DEF PushListener
<1>3. CASE n < Len(slots)
  <2>1. slots' = [slots EXCEPT ![n + 1] = s] /\ UNCHANGED <<shared, own>>
    BY <1>3 DEF PushListener
  <2>2. /\ slots' \in Seq(S) /\ Len(slots') = Len(slots)
        /\ \A k \in 1..Len(slots) : slots'[k] = IF k = n + 1 THEN s ELSE slots[k]
    BY <1>1, <1>3, <2>1, WriteBehind
  <2>3. n' \in 0..Len(slots') /\ \A k \in 1..n' : slots'[k] \in Stream
    BY <1>1, <1>2, <1>3, <2>2
  <2>4. ASSUME loop = "range", shared PROVE \A k \in 1..limit : slots'[k] \in Stream
    BY <1>1, <2>2, <2>4, LoopReads, WriteKeeps
  <2> QED
    BY <1>1, <1>2, <2>1, <2>2, <2>3, <2>4 DEF TypeOK, SliceType
<1>4. CASE ~(n < Len(slots))
  <2> DEFINE m == IF n = 0 THEN 1 ELSE 2 * n
  <2>1. /\ slots' = [k \in 1..m |->
                        IF k <= n THEN slots[k] ELSE IF k = n + 1 THEN s ELSE Nobody]
        /\ shared' = FALSE
        /\ own' = IF shared THEN slots ELSE own
    BY <1>4 DEF PushListener
  <2>2. m \in Nat /\ n + 1 <= m
    BY <1>1
  <2> HIDE DEF m
  <2>3. slots' \in Seq(S) /\ Len(slots') = m
    BY <1>1, <2>1, <2>2, Grow
  <2>4. n' \in 0..Len(slots') /\ \A k \in 1..n' : slots'[k] \in Stream
    BY <1>1, <1>2, <2>1, <2>2, <2>3
  <2> QED
    BY <1>1, <1>2, <2>1, <2>3, <2>4 DEF TypeOK, SliceType
<1> QED
  BY <1>3, <1>4

LEMMA RemoveType ==
    ASSUME TypeOK, NEW s \in Stream, RemoveListener(s), UNCHANGED ranging
    PROVE  SliceType' /\ removed' \in BOOLEAN
<1> DEFINE S == Stream \cup {Nobody}
<1>1. /\ slots \in Seq(S) /\ own \in Seq(S) /\ shared \in BOOLEAN /\ removed \in BOOLEAN
      /\ Len(slots) \in Nat /\ n \in 0..Len(slots) /\ \A k \in 1..n : slots[k] \in Stream
  BY LenProperties DEF TypeOK
<1>2. CASE s \notin Listening
  BY <1>2 DEF RemoveListener, slice, ranging, TypeOK, SliceType
<1>3. CASE s \in Listening
  <2>1. PICK i \in 1..n :
            /\ slots' = [k \in DOMAIN slots |-> IF i <= k /\ k < n THEN slots[k + 1] ELSE slots[k]]
            /\ n' = n - 1
            /\ removed' = (removed \/ loop = "range")
    BY <1>3 DEF RemoveListener
  <2>2. n \in 1..Len(slots)
    BY <1>1
  <2>3. /\ slots' \in Seq(S) /\ Len(slots') = Len(slots)
        /\ \A k \in 1..Len(slots) : slots'[k] = IF i <= k /\ k < n THEN slots[k + 1] ELSE slots[k]
    <3> DEFINE f == [k \in DOMAIN slots |-> IF i <= k /\ k < n THEN slots[k + 1] ELSE slots[k]]
    <3>1. /\ f \in Seq(S) /\ Len(f) = Len(slots)
          /\ \A k \in 1..Len(slots) : f[k] = IF i <= k /\ k < n THEN slots[k + 1] ELSE slots[k]
      <4> HIDE DEF S
      <4> QED
        BY <1>1, <2>2, Shift
    <3>2. slots' = f
      BY <2>1
    <3> HIDE DEF f
    <3> QED
      BY <3>1, <3>2
  <2>4. n' \in 0..Len(slots') /\ \A k \in 1..n' : slots'[k] \in Stream
    BY <1>1, <2>1, <2>2, <2>3
  <2>5. ASSUME loop = "range", shared PROVE \A k \in 1..limit : slots'[k] \in Stream
    BY <1>1, <2>2, <2>3, <2>5, LoopReads, ShiftKeeps
  <2> QED
    BY <1>1, <2>1, <2>3, <2>4, <2>5 DEF ranging, TypeOK, SliceType
<1> QED
  BY <1>2, <1>3

LEMMA LoopType ==
    ASSUME TypeOK, TakeEvent \/ StopLoop \/ \E s \in Stream : ReadRace(s) \/ RangeStep(s)
    PROVE  TypeOK'
<1> USE NotificationAssumption DEF TypeOK, slice, ranging, range, history
<1>1. CASE TakeEvent
  <2>1. n \in Nat /\ n <= Len(slots) /\ (\A k \in 1..n : slots[k] \in Stream)
    OBVIOUS
  <2>2. first' = [k \in 1..n |-> slots[k]]
    BY <1>1 DEF TakeEvent
  <2>3. first' \in [1..n -> Stream]
    BY <2>1, <2>2
  <2>4. first' \in Seq(Stream)
    BY <2>1, <2>3, ArrayIsSeq
  <2>5. events' \in 0..MaxEvents
    BY <1>1 DEF TakeEvent
  <2>6. /\ UNCHANGED <<slots, n, chan, stream, senders, server, dead, failed, late>>
        /\ loop' = IF n = 0 THEN "select" ELSE "range"
        /\ shared' = TRUE
        /\ own' = <<>>
        /\ limit' = n
        /\ idx' = 1
        /\ due' = [s \in Stream |-> 0]
        /\ removed' = FALSE
    BY <1>1 DEF TakeEvent
  <2>7. own' \in Seq(Stream \cup {Nobody}) /\ due' \in [Stream -> Nat]
    BY <2>6, EmptySeq
  <2>8. loop' = "range" =>
          /\ idx' <= limit'
          /\ limit' <= Len(slots')
          /\ \A k \in 1..limit' : slots'[k] \in Stream
    BY <2>1, <2>6
  <2>9. limit' \in Nat /\ idx' \in Nat \ {0}
    BY <2>1, <2>6
  <2> QED
    BY <2>4, <2>5, <2>6, <2>7, <2>8, <2>9
<1>2. CASE StopLoop
  BY <1>2 DEF StopLoop
<1>3. ASSUME NEW s \in Stream, ReadRace(s) PROVE TypeOK'
  BY <1>3 DEF ReadRace
<1>4. ASSUME NEW s \in Stream, RangeStep(s) PROVE TypeOK'
  <2>1. /\ senders' = [senders EXCEPT ![s] = @ + 1]
        /\ due' = [due EXCEPT ![s] = @ + 1]
        /\ idx' = idx + 1
        /\ loop = "range"
        /\ loop' = IF idx = limit THEN "select" ELSE "range"
        /\ UNCHANGED <<slice, shared, own, limit, events, chan, stream, server, dead, first, removed,
                       failed, late>>
    BY <1>4 DEF RangeStep
  <2>2. senders' \in [Stream -> Nat] /\ due' \in [Stream -> Nat]
    BY <2>1
  <2>3. idx' \in Nat \ {0} /\ (loop' = "range" => idx' <= limit)
    BY <2>1
  <2> QED
    BY <2>1, <2>2, <2>3
<1> QED
  BY <1>1, <1>2, <1>3, <1>4

LEMMA StreamType ==
    ASSUME TypeOK, NEW s \in Stream,
           \/ SenderPanics(s) \/ OpenStream(s) \/ Receive(s) \/ SendOk(s) \/ SendFails(s)
           \/ ClientLeaves(s) \/ SeeClosed(s) \/ Leave(s)
    PROVE  TypeOK'
<1> USE NotificationAssumption DEF Goes, slice, ranging, range, history
<1>1. CASE SenderPanics(s)
  BY <1>1 DEF SenderPanics, TypeOK
<1>2. CASE OpenStream(s)
  <2>1. SliceType'
    BY <1>2, PushType DEF OpenStream
  <2>2. UNCHANGED <<loop, limit, idx, events>>
    BY <1>2 DEF OpenStream, PushListener
  <2> QED
    BY <1>2, <2>1, <2>2 DEF OpenStream, SliceType, TypeOK
<1>3. CASE Receive(s)
  BY <1>3 DEF Receive, TypeOK
<1>4. CASE SendOk(s) \/ SeeClosed(s)
  <2>1. /\ stream' \in [Stream -> {"none", "select", "sending", "leaving", "gone"}]
        /\ UNCHANGED <<slice, ranging, chan, senders, server, dead, history>>
    BY <1>4 DEF SendOk, SeeClosed, TypeOK
  <2> QED
    BY <2>1 DEF TypeOK
<1>5. CASE SendFails(s)
  BY <1>5 DEF SendFails, TypeOK
<1>6. CASE ClientLeaves(s)
  BY <1>6 DEF ClientLeaves, TypeOK
<1>7. CASE Leave(s)
  <2>1. SliceType' /\ removed' \in BOOLEAN
    BY <1>7, RemoveType DEF Leave
  <2> QED
    BY <1>7, <2>1 DEF Leave, SliceType, TypeOK
<1> QED
  BY <1>1, <1>2, <1>3, <1>4, <1>5, <1>6, <1>7

LEMMA NextType == TypeOK /\ [Next]_vars => TypeOK'
<1> SUFFICES ASSUME TypeOK, [Next]_vars PROVE TypeOK'
  OBVIOUS
<1>1. CASE StopServer \/ Drain
  BY <1>1 DEF StopServer, Drain, TypeOK, slice, ranging, range, history
<1>2. CASE UNCHANGED vars
  BY <1>2 DEF TypeOK, vars, slice, ranging, range, history
<1> QED
  BY <1>1, <1>2, LoopType, StreamType DEF Next

\* Every variable keeps its type; what the loop still has to read are listeners,
\* however the array is written and replaced under it.
THEOREM NotificationTypeCorrect == Spec => []TypeOK
<1>1. Init => TypeOK
  BY InitType
<1>2. TypeOK /\ [Next]_vars => TypeOK'
  BY NextType
<1> QED
  BY <1>1, <1>2, PTL DEF Spec

-----------------------------------------------------------------------------
(* A round without a removal reaches every listener once.                   *)

\* No listener is on the slice twice, and none of a stream yet to be opened.
NoneTwice ==
    /\ \A i, k \in 1..n : slots[i] = slots[k] => i = k
    /\ \A k \in 1..n : stream[slots[k]] # "none"

\* The loop reads the listeners there were, and has reached those before idx.
Reached ==
    loop = "range" /\ ~removed =>
        /\ Len(first) = limit
        /\ shared => limit <= n
        /\ \A k \in 1..limit : (IF shared THEN slots ELSE own)[k] = first[k]
        /\ \A i, k \in 1..limit : first[i] = first[k] => i = k
        /\ \A k \in 1..limit : due[first[k]] = IF k < idx THEN 1 ELSE 0

RInv == TypeOK /\ NoneTwice /\ Reached /\ OnceUnlessRemoved

LEMMA PushRInv ==
    ASSUME RInv, NEW s \in Stream, OpenStream(s)
    PROVE  NoneTwice' /\ Reached' /\ OnceUnlessRemoved'
<1> USE NotificationAssumption
    DEF RInv, TypeOK, NoneTwice, Reached, OnceUnlessRemoved, range, history
<1>1. /\ stream[s] = "none" /\ stream' = [stream EXCEPT ![s] = "select"]
      /\ UNCHANGED <<first, due, removed, loop, limit, idx>>
      /\ n' = n + 1
  BY DEF OpenStream, PushListener
<1>2. \A k \in 1..n : slots[k] # s
  BY <1>1
<1>3. /\ \A k \in 1..n : slots'[k] = slots[k]
      /\ slots'[n + 1] = s
  <2>1. CASE n < Len(slots)
    <3>1. slots' = [slots EXCEPT ![n + 1] = s]
      BY <2>1 DEF OpenStream, PushListener
    <3> QED
      BY <2>1, <3>1
  <2>2. CASE ~(n < Len(slots))
    <3> DEFINE m == IF n = 0 THEN 1 ELSE 2 * n
    <3>1. slots' = [k \in 1..m |->
                       IF k <= n THEN slots[k] ELSE IF k = n + 1 THEN s ELSE Nobody]
      BY <2>2 DEF OpenStream, PushListener
    <3>2. m \in Nat /\ n + 1 <= m
      OBVIOUS
    <3> HIDE DEF m
    <3> QED
      BY <3>1, <3>2
  <2> QED
    BY <2>1, <2>2
<1>4. NoneTwice'
  <2>1. n \in Nat /\ stream \in [Stream -> {"none", "select", "sending", "leaving", "gone"}]
    OBVIOUS
  <2>2. /\ \A i, k \in 1..n : slots[i] = slots[k] => i = k
        /\ \A k \in 1..n : slots[k] \in Stream /\ stream[slots[k]] # "none"
    OBVIOUS
  <2> HIDE DEF RInv, TypeOK, NoneTwice, Reached, OnceUnlessRemoved
  <2>3. ASSUME NEW i \in 1..(n + 1), NEW k \in 1..(n + 1), slots'[i] = slots'[k] PROVE i = k
    <3>1. (i \in 1..n \/ i = n + 1) /\ (k \in 1..n \/ k = n + 1)
      BY <2>1
    <3> QED
      BY <1>2, <1>3, <2>2, <2>3, <3>1
  <2>4. ASSUME NEW k \in 1..(n + 1) PROVE stream'[slots'[k]] # "none"
    <3>1. k \in 1..n \/ k = n + 1
      BY <2>1
    <3>2. \A t \in Stream : stream'[t] = IF t = s THEN "select" ELSE stream[t]
      BY <1>1, <2>1
    <3> QED
      BY <1>3, <2>2, <3>1, <3>2
  <2> QED
    BY <1>1, <2>3, <2>4 DEF NoneTwice
<1>5. Reached'
  <2>1. CASE n < Len(slots)
    <3>1. UNCHANGED <<shared, own>>
      BY <2>1 DEF OpenStream, PushListener
    <3>2. ASSUME loop = "range", ~removed, shared
          PROVE  limit <= n + 1 /\ \A k \in 1..limit : slots'[k] = first[k]
      <4>1. limit \in Nat /\ n \in Nat /\ limit <= n /\ \A k \in 1..limit : slots[k] = first[k]
        <5>1. limit \in Nat /\ n \in Nat
          OBVIOUS
        <5>2. limit <= n /\ \A k \in 1..limit : slots[k] = first[k]
          BY <3>2 DEF Reached
        <5> QED
          BY <5>1, <5>2
      <4> HIDE DEF RInv, TypeOK, NoneTwice, Reached, OnceUnlessRemoved
      <4> QED
        BY <1>3, <4>1
    <3> QED
      BY <1>1, <3>1, <3>2
  <2>2. CASE ~(n < Len(slots))
    <3>1. shared' = FALSE /\ own' = IF shared THEN slots ELSE own
      BY <2>2 DEF OpenStream, PushListener
    <3> QED
      BY <1>1, <3>1
  <2> QED
    BY <2>1, <2>2
<1>6. OnceUnlessRemoved'
  BY <1>1
<1> QED
  BY <1>4, <1>5, <1>6

LEMMA RemoveRInv ==
    ASSUME RInv, NEW s \in Stream, Leave(s)
    PROVE  NoneTwice' /\ Reached' /\ OnceUnlessRemoved'
<1> USE NotificationAssumption
    DEF RInv, TypeOK, NoneTwice, Reached, OnceUnlessRemoved, ranging, Goes
<1>1. /\ stream' = [stream EXCEPT ![s] = "gone"]
      /\ UNCHANGED <<first, due, shared, own, loop, limit, idx>>
  BY DEF Leave
<1>2. CASE s \notin Listening
  <2>1. UNCHANGED <<slots, n, removed>>
    BY <1>2 DEF Leave, RemoveListener, slice
  <2> QED
    BY <1>1, <2>1
<1>3. CASE s \in Listening
  <2>1. PICK i \in 1..n :
            /\ slots' = [k \in DOMAIN slots |-> IF i <= k /\ k < n THEN slots[k + 1] ELSE slots[k]]
            /\ n' = n - 1
            /\ removed' = (removed \/ loop = "range")
    BY <1>3 DEF Leave, RemoveListener
  <2>2. \A k \in 1..n' : slots'[k] = IF i <= k THEN slots[k + 1] ELSE slots[k]
    BY <2>1
  <2>3. NoneTwice'
    <3>1. ASSUME NEW j \in 1..n', NEW k \in 1..n', slots'[j] = slots'[k] PROVE j = k
      BY <2>1, <2>2, <3>1
    <3>2. ASSUME NEW k \in 1..n' PROVE stream'[slots'[k]] # "none"
      BY <1>1, <2>1, <2>2, <3>2
    <3> QED
      BY <3>1, <3>2
  <2>4. Reached'
    BY <1>1, <2>1
  <2>5. OnceUnlessRemoved'
    BY <1>1, <2>1
  <2> QED
    BY <2>3, <2>4, <2>5
<1> QED
  BY <1>2, <1>3

LEMMA RangeRInv ==
    ASSUME RInv, NEW s \in Stream, RangeStep(s)
    PROVE  NoneTwice' /\ Reached' /\ OnceUnlessRemoved'
<1> USE NotificationAssumption
    DEF RInv, TypeOK, NoneTwice, Reached, OnceUnlessRemoved, slice
<1>1. /\ s = (IF shared THEN slots ELSE own)[idx]
      /\ loop = "range"
      /\ due' = [due EXCEPT ![s] = @ + 1]
      /\ idx' = idx + 1
      /\ loop' = IF idx = limit THEN "select" ELSE "range"
      /\ UNCHANGED <<slots, n, shared, own, limit, stream, first, removed>>
  BY DEF RangeStep
<1>2. NoneTwice'
  BY <1>1
<1>3. ASSUME ~removed
      PROVE  \A k \in 1..limit : due'[first[k]] = IF k < idx + 1 THEN 1 ELSE 0
  <2>1. idx \in 1..limit /\ s = first[idx] /\ due[s] = 0
    BY <1>1, <1>3
  <2> QED
    BY <1>1, <1>3, <2>1
<1>4. Reached'
  BY <1>1, <1>3
<1>5. OnceUnlessRemoved'
  <2>1. CASE idx # limit
    BY <1>1, <2>1
  <2>2. CASE idx = limit /\ ~removed
    <3>1. \A k \in 1..limit : due'[first[k]] = 1
      BY <1>3, <2>2
    <3>2. DOMAIN first = 1..limit
      BY <1>1, <2>2
    <3> QED
      BY <1>1, <3>1, <3>2
  <2> QED
    BY <1>1, <2>1, <2>2
<1> QED
  BY <1>2, <1>4, <1>5

LEMMA TakeRInv ==
    ASSUME RInv, TakeEvent PROVE NoneTwice' /\ Reached' /\ OnceUnlessRemoved'
<1> USE NotificationAssumption
    DEF RInv, TypeOK, NoneTwice, Reached, OnceUnlessRemoved, slice, TakeEvent
<1>1. first' = [k \in 1..n |-> slots[k]] /\ first' \in Seq(Stream) /\ Len(first') = n
  <2>1. n \in Nat /\ (\A k \in 1..n : slots[k] \in Stream)
    OBVIOUS
  <2>2. first' = [k \in 1..n |-> slots[k]]
    OBVIOUS
  <2>3. first' \in [1..n -> Stream]
    BY <2>1, <2>2
  <2> HIDE DEF RInv, TypeOK, NoneTwice, Reached, OnceUnlessRemoved, TakeEvent
  <2>4. first' \in Seq(Stream) /\ Len(first') = n
    BY <2>1, <2>3, ArrayIsSeq
  <2> QED
    BY <2>2, <2>4
<1>2. NoneTwice'
  OBVIOUS
<1>3. Reached'
  BY <1>1
<1>4. OnceUnlessRemoved'
  BY <1>1
<1> QED
  BY <1>2, <1>3, <1>4

LEMMA NextRInv == RInv /\ [Next]_vars => NoneTwice' /\ Reached' /\ OnceUnlessRemoved'
<1> SUFFICES ASSUME RInv, [Next]_vars PROVE NoneTwice' /\ Reached' /\ OnceUnlessRemoved'
  OBVIOUS
<1> USE NotificationAssumption
    DEF RInv, NoneTwice, Reached, OnceUnlessRemoved, slice, ranging, range, history, Goes
<1>1. CASE StopLoop
  BY <1>1 DEF StopLoop
<1>2. CASE StopServer \/ Drain
  BY <1>2 DEF StopServer, Drain
<1>3. ASSUME NEW s \in Stream, ReadRace(s) \/ SenderPanics(s)
      PROVE  NoneTwice' /\ Reached' /\ OnceUnlessRemoved'
  BY <1>3 DEF ReadRace, SenderPanics
<1>4. ASSUME NEW s \in Stream,
             Receive(s) \/ SendOk(s) \/ SendFails(s) \/ ClientLeaves(s) \/ SeeClosed(s)
      PROVE  NoneTwice' /\ Reached' /\ OnceUnlessRemoved'
  <2>1. /\ UNCHANGED <<slots, n, loop, shared, own, limit, idx, first, due, removed>>
        /\ \E a \in {"select", "sending", "leaving"} : stream' = [stream EXCEPT ![s] = a]
    BY <1>4 DEF Receive, SendOk, SendFails, ClientLeaves, SeeClosed
  <2> QED
    BY <2>1 DEF TypeOK
<1>5. CASE UNCHANGED vars
  BY <1>5 DEF vars
<1> QED
  BY <1>1, <1>2, <1>3, <1>4, <1>5, TakeRInv, RangeRInv, PushRInv, RemoveRInv DEF Next

\* An event reaches each listener there was as the loop began, once, whoever opens a
\* stream meanwhile, unless a listener was removed.
THEOREM OncePerListener == Spec => []OnceUnlessRemoved
<1>1. Init => RInv
  BY InitType DEF Init, RInv, NoneTwice, Reached, OnceUnlessRemoved
<1>2. RInv /\ [Next]_vars => RInv'
  BY NextType, NextRInv DEF RInv
<1>3. RInv => OnceUnlessRemoved
  BY DEF RInv
<1> QED
  BY <1>1, <1>2, <1>3, PTL DEF Spec
-----------------------------------------------------------------------------
(* Nobody is left waiting: what SendersEnd and StreamsEnd need of the state. *)

\* A goroutine waits to send only where somebody will come for it: the handler of the
\* stream takes it, or the channel is closed and it panics, unless the handler left
\* because the client could not be sent to.
SendersServed == \A s \in Stream : senders[s] > 0 =>
    stream[s] \in {"select", "sending"} \/ chan[s] = "closed" \/ s \in failed

\* When the loop has stopped, every handler that goes on finds its channel closed,
\* unless its stream came later.
StoppedTold == loop = "stopped" => \A s \in Stream :
    stream[s] \in {"select", "sending"} => chan[s] = "closed" \/ s \in late

\* The arrays hold listeners of streams that were opened, behind the slice too, ...
Opened ==
    /\ \A k \in 1..Len(slots) : slots[k] \in Stream => stream[slots[k]] # "none"
    /\ \A k \in 1..Len(own) : own[k] \in Stream => stream[own[k]] # "none"

\* ... the slice holds those of all streams that have not been left, ...
LiveListens == \A s \in Stream :
    stream[s] \in {"select", "sending", "leaving"} => \E k \in 1..n : slots[k] = s

\* ... and who leaves closes his channel, finds it closed, or could not send.
LeftClosed == \A s \in Stream :
    stream[s] \in {"leaving", "gone"} => chan[s] = "closed" \/ s \in failed

WaitParts == Opened /\ LiveListens /\ LeftClosed /\ SendersServed /\ StoppedTold

WInv == RInv /\ WaitParts

\* The arrays after a stream was opened.
LEMMA PushedSlots ==
    ASSUME TypeOK, NEW s \in Stream, PushListener(s)
    PROVE  /\ n' = n + 1
           /\ \A k \in 1..n : slots'[k] = slots[k]
           /\ slots'[n + 1] = s
           /\ \A k \in 1..Len(slots') :
                  slots'[k] \in {s, Nobody} \/ (k \in 1..Len(slots) /\ slots'[k] = slots[k])
           /\ own' = own \/ own' = slots
<1>1. n \in Nat /\ n <= Len(slots) /\ Len(slots) \in Nat /\ slots \in Seq(Stream \cup {Nobody})
  BY LenProperties DEF TypeOK
<1>2. n' = n + 1 /\ (own' = own \/ own' = slots)
  BY DEF PushListener
<1>3. CASE n < Len(slots)
  <2>1. slots' = [slots EXCEPT ![n + 1] = s]
    BY <1>3 DEF PushListener
  <2>2. /\ Len(slots') = Len(slots)
        /\ \A k \in 1..Len(slots) : slots'[k] = IF k = n + 1 THEN s ELSE slots[k]
    BY <1>1, <1>3, <2>1, WriteBehind
  <2> QED
    BY <1>1, <1>2, <1>3, <2>2
<1>4. CASE ~(n < Len(slots))
  <2> DEFINE m == IF n = 0 THEN 1 ELSE 2 * n
  <2>1. slots' = [k \in 1..m |-> IF k <= n THEN slots[k] ELSE IF k = n + 1 THEN s ELSE Nobody]
    BY <1>4 DEF PushListener
  <2>2. m \in Nat /\ n + 1 <= m
    BY <1>1
  <2> HIDE DEF m
  <2>3. \A k \in 1..n : slots[k] \in Stream
    BY DEF TypeOK
  <2>4. Len(slots') = m
    BY <1>1, <2>1, <2>2, <2>3, Grow
  <2> QED
    BY <1>1, <1>2, <2>1, <2>2, <2>4
<1> QED
  BY <1>3, <1>4

\* The slice after a listener was removed.
LEMMA RemovedSlots ==
    ASSUME RInv, NEW s \in Stream, RemoveListener(s)
    PROVE  /\ \A k \in 1..Len(slots') : \E j \in 1..Len(slots) : slots'[k] = slots[j]
           /\ \A t \in Stream \ {s} :
                  (\E k \in 1..n : slots[k] = t) => \E k \in 1..n' : slots'[k] = t
<1>1. /\ n \in Nat /\ n <= Len(slots) /\ Len(slots) \in Nat
      /\ slots \in Seq(Stream \cup {Nobody}) /\ DOMAIN slots = 1..Len(slots)
  BY LenProperties DEF RInv, TypeOK
<1>2. CASE s \notin Listening
  BY <1>2 DEF RemoveListener, slice
<1>3. CASE s \in Listening
  <2>1. PICK i \in 1..n :
            /\ slots[i] = s
            /\ slots' = [k \in DOMAIN slots |-> IF i <= k /\ k < n THEN slots[k + 1] ELSE slots[k]]
            /\ n' = n - 1
    BY <1>3 DEF RemoveListener
  <2> DEFINE f == [k \in DOMAIN slots |-> IF i <= k /\ k < n THEN slots[k + 1] ELSE slots[k]]
  <2>2. /\ Len(f) = Len(slots)
        /\ \A k \in 1..Len(slots) : f[k] = IF i <= k /\ k < n THEN slots[k + 1] ELSE slots[k]
    <3>1. n \in 1..Len(slots)
      BY <1>1, <2>1
    <3> QED
      BY <1>1, <3>1, Shift
  <2>3. slots' = f
    BY <2>1
  <2> HIDE DEF f
  <2>4. ASSUME NEW k \in 1..Len(slots') PROVE \E j \in 1..Len(slots) : slots'[k] = slots[j]
    <3>1. CASE i <= k /\ k < n
      <4>1. k + 1 \in 1..Len(slots) /\ slots'[k] = slots[k + 1]
        BY <1>1, <2>2, <2>3, <2>4, <3>1
      <4> QED
        BY <4>1
    <3>2. CASE ~(i <= k /\ k < n)
      BY <1>1, <2>2, <2>3, <2>4, <3>2
    <3> QED
      BY <3>1, <3>2
  <2>5. ASSUME NEW t \in Stream \ {s}, NEW k \in 1..n, slots[k] = t
        PROVE  \E j \in 1..n' : slots'[j] = t
    <3>1. CASE k < i
      <4>1. k \in 1..n' /\ slots'[k] = t
        BY <1>1, <2>1, <2>2, <2>3, <2>5, <3>1
      <4> QED
        BY <4>1
    <3>2. CASE k > i
      <4>1. k - 1 \in 1..n' /\ slots'[k - 1] = slots[(k - 1) + 1] /\ (k - 1) + 1 = k
        BY <1>1, <2>1, <2>2, <2>3, <3>2
      <4> QED
        BY <2>5, <4>1
    <3>3. k # i
      BY <2>1, <2>5
    <3> QED
      BY <2>1, <3>1, <3>2, <3>3
  <2> QED
    BY <2>4, <2>5
<1> QED
  BY <1>2, <1>3

LEMMA OpenWInv == ASSUME WInv, NEW s \in Stream, OpenStream(s) PROVE WaitParts'
<1>1. /\ stream[s] = "none"
      /\ stream' = [stream EXCEPT ![s] = "select"]
      /\ chan' = [chan EXCEPT ![s] = "open"]
      /\ late' = IF loop = "stopped" THEN late \cup {s} ELSE late
      /\ UNCHANGED <<senders, failed, loop>>
      /\ PushListener(s)
  BY DEF OpenStream, PushListener
<1>2. /\ TypeOK /\ n \in Nat
      /\ stream \in [Stream -> {"none", "select", "sending", "leaving", "gone"}]
      /\ chan \in [Stream -> {"none", "open", "closed"}]
  BY DEF WInv, RInv, TypeOK
<1>3. \A t \in Stream : stream'[t] = IF t = s THEN "select" ELSE stream[t]
  BY <1>1, <1>2
<1>4. Opened'
  BY <1>1, <1>2, <1>3, PushedSlots, NotificationAssumption DEF WInv, WaitParts, Opened
<1>5. LiveListens'
  <2>1. ASSUME NEW t \in Stream, stream'[t] \in {"select", "sending", "leaving"}
        PROVE  \E k \in 1..(n + 1) : slots'[k] = t
    <3>1. CASE t = s
      <4>1. n + 1 \in 1..(n + 1)
        BY <1>2
      <4> QED
        BY <1>1, <1>2, <3>1, <4>1, PushedSlots
    <3>2. CASE t # s
      <4>1. PICK k \in 1..n : slots[k] = t
        BY <1>3, <2>1, <3>2 DEF WInv, WaitParts, LiveListens
      <4>2. k \in 1..(n + 1)
        BY <1>2
      <4> QED
        BY <1>1, <1>2, <4>1, <4>2, PushedSlots
    <3> QED
      BY <3>1, <3>2
  <2> QED
    BY <1>1, <1>2, <2>1, PushedSlots DEF LiveListens
<1>6. \A t \in Stream \ {s} : chan'[t] = chan[t]
  BY <1>1, <1>2
<1>7. LeftClosed' /\ SendersServed' /\ StoppedTold'
  BY <1>1, <1>3, <1>6 DEF WInv, WaitParts, LeftClosed, SendersServed, StoppedTold
<1> QED
  BY <1>4, <1>5, <1>7 DEF WaitParts

LEMMA LeaveWInv == ASSUME WInv, NEW s \in Stream, Leave(s) PROVE WaitParts'
<1>1. /\ stream[s] = "leaving"
      /\ stream' = [stream EXCEPT ![s] = "gone"]
      /\ UNCHANGED <<chan, senders, loop, own, failed, late>>
      /\ RemoveListener(s)
  BY DEF Leave, Goes, ranging
<1>2. /\ RInv
      /\ stream \in [Stream -> {"none", "select", "sending", "leaving", "gone"}]
  BY DEF WInv, RInv, TypeOK
<1>3. \A t \in Stream : stream'[t] = IF t = s THEN "gone" ELSE stream[t]
  BY <1>1, <1>2
<1>4. Opened'
  BY <1>1, <1>2, <1>3, RemovedSlots DEF WInv, WaitParts, Opened
<1>5. LiveListens'
  BY <1>1, <1>2, <1>3, RemovedSlots DEF WInv, WaitParts, LiveListens
<1>6. LeftClosed' /\ SendersServed' /\ StoppedTold'
  BY <1>1, <1>3 DEF WInv, WaitParts, LeftClosed, SendersServed, StoppedTold
<1> QED
  BY <1>4, <1>5, <1>6 DEF WaitParts

LEMMA StreamWInv ==
    ASSUME WInv, NEW s \in Stream,
           Receive(s) \/ SendOk(s) \/ SendFails(s) \/ ClientLeaves(s) \/ SeeClosed(s)
    PROVE  WaitParts'
<1>1. /\ UNCHANGED <<slots, n, own, loop, late>>
      /\ failed \subseteq failed'
      /\ stream[s] \in {"select", "sending"}
      /\ \E a \in {"select", "sending", "leaving"} : stream' = [stream EXCEPT ![s] = a]
      /\ UNCHANGED senders \/ senders' = [senders EXCEPT ![s] = @ - 1]
      /\ UNCHANGED chan \/ chan' = [chan EXCEPT ![s] = "closed"]
  BY DEF Receive, SendOk, SendFails, ClientLeaves, SeeClosed, Goes, slice, ranging, range, history
<1>2. /\ stream \in [Stream -> {"none", "select", "sending", "leaving", "gone"}]
      /\ chan \in [Stream -> {"none", "open", "closed"}]
      /\ senders \in [Stream -> Nat]
  BY DEF WInv, RInv, TypeOK
<1>3. stream'[s] = "leaving" => chan'[s] = "closed" \/ s \in failed'
  BY <1>1, <1>2 DEF Receive, SendOk, SendFails, ClientLeaves, SeeClosed, Goes
<1>4. /\ stream'[s] \in {"select", "sending", "leaving"}
      /\ \A t \in Stream \ {s} :
             stream'[t] = stream[t] /\ chan'[t] = chan[t] /\ senders'[t] = senders[t]
      /\ chan[s] = "closed" => chan'[s] = "closed"
  BY <1>1, <1>2
<1>5. Opened' /\ LiveListens'
  BY <1>1, <1>4 DEF WInv, WaitParts, Opened, LiveListens
<1>6. LeftClosed' /\ SendersServed' /\ StoppedTold'
  BY <1>1, <1>3, <1>4 DEF WInv, WaitParts, LeftClosed, SendersServed, StoppedTold
<1> QED
  BY <1>5, <1>6 DEF WaitParts

LEMMA LoopWInv ==
    ASSUME WInv, TakeEvent \/ StopLoop \/ \E s \in Stream : RangeStep(s) PROVE WaitParts'
<1>1. CASE TakeEvent
  BY <1>1 DEF TakeEvent, slice, WInv, WaitParts, Opened, LiveListens, LeftClosed, SendersServed,
              StoppedTold
<1>2. CASE StopLoop
  <2>1. /\ UNCHANGED <<slots, n, own, stream, senders, failed, late>>
        /\ chan' = [s \in Stream |-> IF s \in Listening THEN "closed" ELSE chan[s]]
    BY <1>2 DEF StopLoop, slice, history
  <2>2. \A s \in Stream : stream[s] \in {"select", "sending"} => chan'[s] = "closed"
    BY <2>1 DEF WInv, WaitParts, LiveListens, Listening
  <2> QED
    BY <2>1, <2>2 DEF WInv, WaitParts, Opened, LiveListens, LeftClosed, SendersServed, StoppedTold
<1>3. ASSUME NEW s \in Stream, RangeStep(s) PROVE WaitParts'
  <2>1. /\ UNCHANGED <<slots, n, own, stream, chan, failed, late>>
        /\ loop = "range" /\ loop' # "stopped"
        /\ s = IF shared THEN slots[idx] ELSE own[idx]
        /\ senders' = [senders EXCEPT ![s] = @ + 1]
    BY <1>3 DEF RangeStep, slice
  <2>2. stream[s] # "none"
    <3>1. /\ idx \in Nat \ {0} /\ limit \in Nat /\ idx <= limit
          /\ limit <= Len(IF shared THEN slots ELSE own)
          /\ Len(slots) \in Nat /\ Len(own) \in Nat
      BY <2>1, LenProperties DEF WInv, RInv, TypeOK
    <3>2. IF shared THEN idx \in 1..Len(slots) ELSE idx \in 1..Len(own)
      BY <3>1
    <3> QED
      BY <2>1, <3>2 DEF WInv, WaitParts, Opened
  <2>3. /\ stream \in [Stream -> {"none", "select", "sending", "leaving", "gone"}]
        /\ senders \in [Stream -> Nat]
    BY DEF WInv, RInv, TypeOK
  <2>4. SendersServed'
    <3>1. \A t \in Stream \ {s} : senders'[t] = senders[t]
      BY <2>1, <2>3
    <3>2. stream[s] \in {"select", "sending"} \/ chan[s] = "closed" \/ s \in failed
      BY <2>2, <2>3 DEF WInv, WaitParts, LeftClosed
    <3> QED
      BY <2>1, <3>1, <3>2 DEF WInv, WaitParts, SendersServed
  <2> QED
    BY <2>1, <2>4 DEF WInv, WaitParts, Opened, LiveListens, LeftClosed, StoppedTold
<1> QED
  BY <1>1, <1>2, <1>3

LEMMA NextWInv == WInv /\ [Next]_vars => WaitParts'
<1> SUFFICES ASSUME WInv, [Next]_vars PROVE WaitParts'
  OBVIOUS
<1>1. CASE UNCHANGED <<slots, n, own, loop, chan, stream, senders, failed, late>>
  BY <1>1 DEF WInv, WaitParts, Opened, LiveListens, LeftClosed, SendersServed, StoppedTold
<1>2. CASE \/ StopServer \/ Drain \/ UNCHANGED vars
           \/ \E s \in Stream : ReadRace(s) \/ SenderPanics(s)
  BY <1>1, <1>2 DEF StopServer, Drain, ReadRace, SenderPanics, vars, slice, ranging, history
<1> QED
  BY <1>2, LoopWInv, StreamWInv, OpenWInv, LeaveWInv DEF Next

LEMMA WaitInvariant == Spec => []WInv
<1>1. Init => WInv
  <2> SUFFICES ASSUME Init PROVE WInv
    OBVIOUS
  <2>1. RInv
    BY InitType DEF Init, RInv, NoneTwice, Reached, OnceUnlessRemoved
  <2>2. Len(slots) = 0 /\ Len(own) = 0
    BY EmptySeq DEF Init
  <2> QED
    BY <2>1, <2>2 DEF Init, WInv, WaitParts, Opened, LiveListens, LeftClosed, SendersServed,
                      StoppedTold
<1>2. WInv /\ [Next]_vars => WInv'
  BY NextType, NextRInv, NextWInv DEF WInv, RInv
<1> QED
  BY <1>1, <1>2, PTL DEF Spec

\* However streams come and leave while the loop ranges over an array that is written
\* and shifted under it, no goroutine is left to wait on a channel that nobody reads
\* and nobody closes, but those of a stream whose client could not be sent to.
THEOREM NoSenderStranded == Spec => []SendersServed
<1>1. WInv => SendersServed
  BY DEF WInv, WaitParts
<1> QED
  BY <1>1, WaitInvariant, PTL

\* The stop of the loop reaches every handler there is, for the slice holds the
\* listeners of all: only those of streams opened later are not told.
THEOREM StopTellsAll == Spec => []StoppedTold
<1>1. WInv => StoppedTold
  BY DEF WInv, WaitParts
<1> QED
  BY <1>1, WaitInvariant, PTL
=============================================================================
