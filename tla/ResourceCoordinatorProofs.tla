---------------------- MODULE ResourceCoordinatorProofs ----------------------
(***************************************************************************)
(* Proofs about the resource coordinator, for every set of callers, keys   *)
(* and bundles.                                                            *)
(***************************************************************************)
EXTENDS ResourceCoordinator, FiniteSetTheorems, SequenceTheorems, TLAPS

-----------------------------------------------------------------------------
(* Lemmas about keys, requests and sequences                               *)

(* Overlap of keys does not depend on who asks first.                      *)
LEMMA KeysConflictSymmetric ==
  ASSUME NEW k, NEW l, KeysConflict(k, l)
  PROVE  KeysConflict(l, k)
BY DEF KeysConflict

(* A normalised request gives every key one mode.                          *)
LEMMA NormalizeType ==
  ASSUME NEW bundle
  PROVE  Normalize(bundle) \in [Keys -> Modes]
BY DEF Normalize, Modes

(* Dropping the i-th element of a sequence without repetitions.            *)
LEMMA RemoveAtElements ==
  ASSUME NEW S, NEW s \in Seq(S), NEW i \in 1..Len(s),
         IsInjective(s)
  PROVE  /\ RemoveAt(s, i) \in Seq(S)
         /\ ToSet(RemoveAt(s, i)) = ToSet(s) \ {s[i]}
         /\ IsInjective(RemoveAt(s, i))
<1> DEFINE r == RemoveAt(s, i)
           left == SubSeq(s, 1, i - 1)
           right == SubSeq(s, i + 1, Len(s))
<1>a. /\ left \in Seq(S) /\ Len(left) = i - 1
      /\ \A m \in 1..(i - 1) : left[m] = s[m]
  <2>1. \A m \in 1..(i - 1) : s[m] \in S
    BY ElementOfSeq
  <2> QED BY <2>1, SubSeqProperties, LenProperties
<1>b. /\ right \in Seq(S) /\ Len(right) = Len(s) - i
      /\ \A m \in 1..(Len(s) - i) : right[m] = s[m + i]
  <2>1. \A m \in (i + 1)..Len(s) : s[m] \in S
    BY ElementOfSeq
  <2> QED BY <2>1, SubSeqProperties, LenProperties
<1> HIDE DEF left, right
<1>c. r = left \o right
  BY DEF RemoveAt, left, right
<1>1. r \in Seq(S) /\ Len(r) = Len(s) - 1
  BY <1>a, <1>b, <1>c, ConcatProperties, LenProperties
<1> HIDE DEF r
<1>2. \A m \in 1..Len(r) : r[m] = IF m < i THEN s[m] ELSE s[m + 1]
  <2> SUFFICES ASSUME NEW m \in 1..Len(r) PROVE r[m] = IF m < i THEN s[m] ELSE s[m + 1]
    OBVIOUS
  <2>1. r[m] = IF m <= Len(left) THEN left[m] ELSE right[m - Len(left)]
    BY <1>1, <1>a, <1>b, <1>c, ConcatProperties, LenProperties
  <2> QED BY <2>1, <1>1, <1>a, <1>b, LenProperties
<1>d. \A m, n \in 1..Len(s) : s[m] = s[n] => m = n
  BY LenProperties DEF IsInjective
<1>3. IsInjective(r)
  <2> DEFINE at(m) == IF m < i THEN m ELSE m + 1
  <2>1. \A m \in 1..Len(r) : at(m) \in 1..Len(s) /\ r[m] = s[at(m)]
    BY <1>1, <1>2, LenProperties
  <2>2. \A m, n \in 1..Len(r) : at(m) = at(n) => m = n
    BY <1>1, LenProperties
  <2> HIDE DEF at
  <2>3. \A m, n \in 1..Len(r) : r[m] = r[n] => m = n
    BY <2>1, <2>2, <1>d
  <2> QED BY <2>3, <1>1, LenProperties DEF IsInjective
<1>4. ToSet(r) \subseteq ToSet(s) \ {s[i]}
  BY <1>1, <1>2, <1>d DEF ToSet
<1>5. ASSUME NEW x \in ToSet(s) \ {s[i]} PROVE x \in ToSet(r)
  <2>1. PICK m \in 1..Len(s) : s[m] = x /\ m # i
    BY DEF ToSet
  <2>2. CASE m < i
    BY <1>1, <1>2, <2>1, <2>2 DEF ToSet
  <2>3. CASE m > i
    <3>1. m - 1 \in 1..Len(r) /\ r[m - 1] = x
      BY <1>1, <1>2, <2>1, <2>3
    <3> QED BY <3>1, <1>1 DEF ToSet
  <2> QED BY <2>1, <2>2, <2>3
<1> QED BY <1>1, <1>3, <1>4, <1>5 DEF r

(* Appending adds one element, and no duplicate if it is new.              *)
LEMMA AppendElements ==
  ASSUME NEW S, NEW s \in Seq(S), NEW x \in S
  PROVE  /\ Append(s, x) \in Seq(S)
         /\ ToSet(Append(s, x)) = ToSet(s) \cup {x}
         /\ IsInjective(s) /\ x \notin ToSet(s) => IsInjective(Append(s, x))
<1>1. /\ Append(s, x) \in Seq(S)
      /\ Len(Append(s, x)) = Len(s) + 1
      /\ \A m \in 1..Len(s) : Append(s, x)[m] = s[m]
      /\ Append(s, x)[Len(s) + 1] = x
  OBVIOUS
<1>2. ToSet(s) \cup {x} \subseteq ToSet(Append(s, x))
  BY <1>1 DEF ToSet
<1>3. ToSet(Append(s, x)) \subseteq ToSet(s) \cup {x}
  BY <1>1 DEF ToSet
<1>4. ASSUME IsInjective(s), x \notin ToSet(s) PROVE IsInjective(Append(s, x))
  <2>1. \A m, n \in 1..Len(s) : s[m] = s[n] => m = n
    BY <1>4, LenProperties DEF IsInjective
  <2>2. \A m \in 1..Len(s) : s[m] # x
    BY <1>4, LenProperties DEF ToSet
  <2>3. DOMAIN Append(s, x) = 1..(Len(s) + 1)
    BY <1>1, LenProperties
  <2> QED BY <1>1, <2>1, <2>2, <2>3, LenProperties DEF IsInjective
<1> QED BY <1>1, <1>2, <1>3, <1>4

(* Without its head, a sequence without duplicates has lost that element.  *)
LEMMA HeadTailElements ==
  ASSUME NEW S, NEW s \in Seq(S), s # <<>>,
         IsInjective(s)
  PROVE  /\ Head(s) \in S /\ Tail(s) \in Seq(S)
         /\ Head(s) \in ToSet(s)
         /\ ToSet(Tail(s)) = ToSet(s) \ {Head(s)}
         /\ IsInjective(Tail(s))
<1> DEFINE t == Tail(s)
<1>1. /\ Len(s) > 0 /\ Head(s) = s[1] /\ Head(s) \in S
      /\ t \in Seq(S) /\ Len(t) = Len(s) - 1
      /\ \A m \in 1..Len(t) : t[m] = s[m + 1]
  OBVIOUS
<1>2. Head(s) \in ToSet(s)
  BY <1>1 DEF ToSet
<1>6. \A m, n \in 1..Len(s) : s[m] = s[n] => m = n
  BY LenProperties DEF IsInjective
<1>3. ToSet(t) \subseteq ToSet(s) \ {Head(s)}
  BY <1>1, <1>6 DEF ToSet
<1>4. ASSUME NEW x \in ToSet(s) \ {Head(s)} PROVE x \in ToSet(t)
  <2>1. PICK m \in 1..Len(s) : s[m] = x /\ m # 1
    BY <1>1 DEF ToSet
  <2>2. m - 1 \in 1..Len(t) /\ t[m - 1] = x
    BY <1>1, <2>1
  <2>3. DOMAIN t = 1..Len(t)
    BY <1>1, LenProperties
  <2> HIDE DEF t
  <2> QED BY <2>2, <2>3 DEF ToSet
<1>5. IsInjective(t)
  <2>1. \A m, n \in 1..Len(t) : t[m] = t[n] => m = n
    BY <1>1, <1>6
  <2> QED BY <2>1, <1>1, LenProperties DEF IsInjective
<1> QED BY <1>1, <1>2, <1>3, <1>4, <1>5

-----------------------------------------------------------------------------
(* Type correctness                                                        *)

(* Every variable keeps its type: in particular the reader counts stay     *)
(* natural numbers.                                                        *)
THEOREM TypeCorrect == Spec => []TypeOK
<1>1. Init => TypeOK
  BY NormalizeType DEF Init, TypeOK, Free
<1>2. TypeOK /\ [Next]_vars => TypeOK'
  <2> SUFFICES ASSUME TypeOK, [Next]_vars PROVE TypeOK'
    OBVIOUS
  <2> USE DEF TypeOK
  <2>1. ASSUME NEW c \in Callers, NEW bundle \in Bundles, BeginAcquire(c, bundle)
        PROVE TypeOK'
    BY <2>1, NormalizeType DEF BeginAcquire
  <2>2. ASSUME NEW c \in Callers, Cancel(c) PROVE TypeOK'
    BY <2>2 DEF Cancel
  <2>3. ASSUME NEW c \in Callers, Enqueue(c) PROVE TypeOK'
    BY <2>3 DEF Enqueue, StartWalk
  <2>4. ASSUME NEW c \in Callers, RefuseCancelled(c) PROVE TypeOK'
    BY <2>4 DEF RefuseCancelled
  <2>5. CASE WalkGrant
    <3>1. Head(scan) \in Callers /\ Tail(scan) \in Seq(Callers)
      BY <2>5 DEF WalkGrant
    <3>2. GrantedTable(Head(scan)) \in [Keys -> [readers : Nat, writer : BOOLEAN]]
      <4> SUFFICES ASSUME NEW c \in Callers
                   PROVE  GrantedTable(c) \in [Keys -> [readers : Nat, writer : BOOLEAN]]
        BY <3>1
      <4>1. ASSUME NEW k \in Keys
            PROVE  /\ resources[k].readers + (IF req[c][k] = "read" THEN 1 ELSE 0) \in Nat
                   /\ (IF req[c][k] = "write" THEN TRUE ELSE resources[k].writer) \in BOOLEAN
        <5>1. resources[k].readers \in Nat /\ resources[k].writer \in BOOLEAN
          OBVIOUS
        <5>2. (resources[k].readers + (IF req[c][k] = "read" THEN 1 ELSE 0)) \in Nat
          BY <5>1
        <5>3. (IF req[c][k] = "write" THEN TRUE ELSE resources[k].writer) \in BOOLEAN
          <6>1. CASE req[c][k] = "write"
            BY <6>1, Zenon
          <6>2. CASE req[c][k] # "write"
            BY <5>1, <6>2, Zenon
          <6> QED BY <6>1, <6>2
        <5> QED BY <5>2, <5>3, Zenon
      <4> QED BY <4>1 DEF GrantedTable
    <3> QED BY <2>5, <3>1, <3>2 DEF WalkGrant
  <2>6. CASE WalkKeep
    BY <2>6 DEF WalkKeep
  <2>7. ASSUME NEW c \in Callers, Unlock(c) PROVE TypeOK'
    BY <2>7 DEF Unlock
  <2>8. ASSUME NEW c \in Callers, SelectReady(c) \/ SelectDone(c) PROVE TypeOK'
    BY <2>8 DEF SelectReady, SelectDone
  <2>9. ASSUME NEW c \in Callers, AbortGranted(c) \/ Release(c) PROVE TypeOK'
    <3>1. ReleasedTable(c) \in [Keys -> [readers : Nat, writer : BOOLEAN]]
      <4>1. ASSUME NEW k \in Keys
            PROVE  /\ (IF req[c][k] = "read" /\ resources[k].readers > 0
                       THEN resources[k].readers - 1 ELSE resources[k].readers) \in Nat
                   /\ (IF req[c][k] = "write" THEN FALSE ELSE resources[k].writer) \in BOOLEAN
        <5>1. resources[k].readers \in Nat /\ resources[k].writer \in BOOLEAN
          OBVIOUS
        <5>2. (IF req[c][k] = "read" /\ resources[k].readers > 0
              THEN resources[k].readers - 1 ELSE resources[k].readers) \in Nat
          BY <5>1
        <5>3. (IF req[c][k] = "write" THEN FALSE ELSE resources[k].writer) \in BOOLEAN
          <6>1. CASE req[c][k] = "write"
            BY <6>1, Zenon
          <6>2. CASE req[c][k] # "write"
            BY <5>1, <6>2, Zenon
          <6> QED BY <6>1, <6>2
        <5> QED BY <5>2, <5>3, Zenon
      <4> QED BY <4>1 DEF ReleasedTable
    <3>2. ReleaseLocked(c)
      BY <2>9 DEF AbortGranted, Release
    <3>3. resources' \in [Keys -> [readers : Nat, writer : BOOLEAN]]
      BY <3>1, <3>2 DEF ReleaseLocked
    <3>4. waiters' \in Seq(Callers) /\ scan' \in Seq(Callers)
      BY <3>2 DEF ReleaseLocked, StartWalk
    <3>5. /\ pc' = [pc EXCEPT ![c] = "releasing"]
          /\ granted' = [granted EXCEPT ![c] = FALSE]
          /\ mu' = c /\ req' = req /\ ctxDone' = ctxDone
      BY <3>2 DEF ReleaseLocked, StartWalk
    <3> QED BY <3>3, <3>4, <3>5
  <2>10. ASSUME NEW c \in Callers, AbortWaiting(c) PROVE TypeOK'
    <3>1. PICK i \in DOMAIN waiters : StartWalk(c, RemoveAt(waiters, i))
      BY <2>10 DEF AbortWaiting
    <3>2. RemoveAt(waiters, i) \in Seq(Callers)
      <4>1. i \in 1..Len(waiters)
        BY LenProperties
      <4>2. \A m \in 1..Len(waiters) : waiters[m] \in Callers
        BY ElementOfSeq
      <4>3. /\ SubSeq(waiters, 1, i - 1) \in Seq(Callers)
            /\ SubSeq(waiters, i + 1, Len(waiters)) \in Seq(Callers)
        BY <4>1, <4>2, LenProperties, SubSeqProperties
      <4> QED BY <4>3, ConcatProperties DEF RemoveAt
    <3> QED BY <2>10, <3>1, <3>2 DEF AbortWaiting, StartWalk
  <2>11. CASE UNCHANGED vars
    BY <2>11 DEF vars
  <2> QED
    BY <2>1, <2>2, <2>3, <2>4, <2>5, <2>6, <2>7, <2>8, <2>9, <2>10, <2>11 DEF Next
<1> QED BY <1>1, <1>2, PTL DEF Spec
-----------------------------------------------------------------------------
(* The queue and the mutex                                                 *)

QueueInv == TypeOK /\ MutexInv /\ OnePlaceInQueue /\ NothingLeftBehind

(* The queues are empty at first.                                          *)
LEMMA QueueInvInit == Init => QueueInv
<1>1. ToSet(<<>>) = {} /\ IsInjective(<<>>)
  BY DEF ToSet, IsInjective
<1>2. Init => TypeOK
  BY NormalizeType DEF Init, TypeOK, Free
<1> QED
  BY <1>1, <1>2, NoCallerIsNoCaller
  DEF Init, QueueInv, MutexInv, OnePlaceInQueue, NothingLeftBehind, Queued

(* A walk starts on a queue that holds the right callers.                  *)
LEMMA WalkStarts ==
  ASSUME QueueInv, mu = NoCaller, TypeOK',
         NEW c \in Callers, NEW queue \in Seq(Callers),
         StartWalk(c, queue), IsInjective(queue),
         pc[c] \notin {"enqueuing", "releasing"},
         \/ /\ pc' = [pc EXCEPT ![c] = "enqueuing"]
            /\ ToSet(queue) = ToSet(waiters) \cup {c}
            /\ granted' = granted /\ ~granted[c]
         \/ /\ pc' = [pc EXCEPT ![c] = "releasing"]
            /\ ToSet(queue) = ToSet(waiters) \ {c}
            /\ granted' = [granted EXCEPT ![c] = FALSE]
  PROVE  QueueInv'
<1>1. scan = <<>> /\ waiters' = <<>> /\ scan' = queue /\ mu' = c
  BY DEF QueueInv, MutexInv, StartWalk
<1>2. ToSet(<<>>) = {} /\ IsInjective(<<>>)
  BY DEF ToSet, IsInjective
<1>3. OnePlaceInQueue'
  BY <1>1, <1>2 DEF OnePlaceInQueue
<1>4. MutexInv'
  BY <1>1, NoCallerIsNoCaller DEF QueueInv, MutexInv, TypeOK
<1>5. NothingLeftBehind'
  BY <1>1, <1>2 DEF QueueInv, NothingLeftBehind, Queued, TypeOK
<1> QED BY <1>3, <1>4, <1>5 DEF QueueInv

(* Every step keeps the places of the callers and the queues in agreement. *)
LEMMA QueueInvNext == QueueInv /\ TypeOK' /\ [Next]_vars => QueueInv'
<1> SUFFICES ASSUME QueueInv, TypeOK', [Next]_vars PROVE QueueInv'
  OBVIOUS
<1>0. TypeOK /\ MutexInv /\ OnePlaceInQueue /\ NothingLeftBehind
  BY DEF QueueInv
<1> USE DEF QueueInv
<1>1. ASSUME NEW c \in Callers, NEW bundle \in Bundles, BeginAcquire(c, bundle)
      PROVE QueueInv'
  BY <1>0, <1>1
  DEF BeginAcquire, MutexInv, OnePlaceInQueue, NothingLeftBehind, Queued, TypeOK
<1>2. ASSUME NEW c \in Callers, Cancel(c) PROVE QueueInv'
  BY <1>0, <1>2
  DEF Cancel, MutexInv, OnePlaceInQueue, NothingLeftBehind, Queued, TypeOK
<1>3. ASSUME NEW c \in Callers, Enqueue(c) PROVE QueueInv'
  <2>1. c \notin ToSet(waiters) /\ ~granted[c]
    BY <1>0, <1>3 DEF Enqueue, NothingLeftBehind, Queued
  <2>2. /\ Append(waiters, c) \in Seq(Callers)
        /\ ToSet(Append(waiters, c)) = ToSet(waiters) \cup {c}
        /\ IsInjective(Append(waiters, c))
    BY <1>0, <2>1, AppendElements DEF TypeOK, OnePlaceInQueue
  <2> QED BY <1>3, <2>1, <2>2, WalkStarts DEF Enqueue
<1>4. ASSUME NEW c \in Callers, RefuseCancelled(c) PROVE QueueInv'
  BY <1>0, <1>4
  DEF RefuseCancelled, MutexInv, OnePlaceInQueue, NothingLeftBehind, Queued, TypeOK
<1>5. CASE WalkGrant
  <2> DEFINE h == Head(scan)
  <2>1. /\ h \in Callers /\ h \in ToSet(scan) /\ ToSet(Tail(scan)) = ToSet(scan) \ {h}
        /\ IsInjective(Tail(scan))
    BY <1>0, <1>5, HeadTailElements DEF WalkGrant, TypeOK, OnePlaceInQueue
  <2>2. /\ granted' = [granted EXCEPT ![h] = TRUE]
        /\ scan' = Tail(scan) /\ pc' = pc /\ waiters' = waiters /\ mu' = mu /\ scan # <<>>
    BY <1>5 DEF WalkGrant
  <2> HIDE DEF h
  <2>3. OnePlaceInQueue'
    BY <1>0, <2>1, <2>2 DEF OnePlaceInQueue
  <2>4. MutexInv'
    BY <1>0, <2>2 DEF MutexInv
  <2>5. NothingLeftBehind'
    BY <1>0, <2>1, <2>2 DEF NothingLeftBehind, Queued, OnePlaceInQueue, TypeOK
  <2> QED BY <2>3, <2>4, <2>5
<1>6. CASE WalkKeep
  <2> DEFINE h == Head(scan)
  <2>1. /\ h \in Callers /\ h \in ToSet(scan) /\ ToSet(Tail(scan)) = ToSet(scan) \ {h}
        /\ IsInjective(Tail(scan))
    BY <1>0, <1>6, HeadTailElements DEF WalkKeep, TypeOK, OnePlaceInQueue
  <2>2. h \notin ToSet(waiters)
    BY <1>0, <2>1 DEF OnePlaceInQueue
  <2>3. /\ ToSet(Append(waiters, h)) = ToSet(waiters) \cup {h}
        /\ IsInjective(Append(waiters, h))
    BY <1>0, <2>1, <2>2, AppendElements DEF TypeOK, OnePlaceInQueue
  <2>4. /\ waiters' = Append(waiters, h) /\ scan' = Tail(scan)
        /\ pc' = pc /\ granted' = granted /\ mu' = mu /\ scan # <<>>
    BY <1>6 DEF WalkKeep
  <2> HIDE DEF h
  <2>5. OnePlaceInQueue'
    BY <1>0, <2>1, <2>3, <2>4 DEF OnePlaceInQueue
  <2>6. MutexInv'
    BY <1>0, <2>4 DEF MutexInv
  <2>7. NothingLeftBehind'
    BY <1>0, <2>1, <2>3, <2>4 DEF NothingLeftBehind, Queued
  <2> QED BY <2>5, <2>6, <2>7
<1>7. ASSUME NEW c \in Callers, Unlock(c) PROVE QueueInv'
  BY <1>0, <1>7, NoCallerIsNoCaller
  DEF Unlock, MutexInv, OnePlaceInQueue, NothingLeftBehind, Queued, TypeOK
<1>8. ASSUME NEW c \in Callers, SelectReady(c) \/ SelectDone(c) PROVE QueueInv'
  BY <1>0, <1>8
  DEF SelectReady, SelectDone, MutexInv, OnePlaceInQueue, NothingLeftBehind, Queued, TypeOK
<1>9. ASSUME NEW c \in Callers, AbortGranted(c) \/ Release(c) PROVE QueueInv'
  <2>1. ReleaseLocked(c) /\ pc[c] \in {"aborting", "held"} /\ c \notin ToSet(waiters)
    BY <1>0, <1>9 DEF AbortGranted, Release, NothingLeftBehind, Queued
  <2>2. waiters \in Seq(Callers) /\ IsInjective(waiters)
    BY <1>0 DEF TypeOK, OnePlaceInQueue
  <2> QED BY <2>1, <2>2, WalkStarts DEF ReleaseLocked
<1>10. ASSUME NEW c \in Callers, AbortWaiting(c) PROVE QueueInv'
  <2>1. PICK i \in DOMAIN waiters :
          waiters[i] = c /\ StartWalk(c, RemoveAt(waiters, i))
    BY <1>10 DEF AbortWaiting
  <2>2. i \in 1..Len(waiters) /\ waiters \in Seq(Callers) /\ IsInjective(waiters)
    BY <1>0, LenProperties DEF TypeOK, OnePlaceInQueue
  <2>3. /\ RemoveAt(waiters, i) \in Seq(Callers)
        /\ ToSet(RemoveAt(waiters, i)) = ToSet(waiters) \ {c}
        /\ IsInjective(RemoveAt(waiters, i))
    BY <2>1, <2>2, RemoveAtElements
  <2>4. /\ mu = NoCaller /\ pc[c] = "aborting"
        /\ pc' = [pc EXCEPT ![c] = "releasing"]
        /\ granted' = [granted EXCEPT ![c] = FALSE]
    BY <1>0, <1>10 DEF AbortWaiting, TypeOK
  <2> QED BY <2>1, <2>3, <2>4, WalkStarts
<1>11. CASE UNCHANGED vars
  BY <1>0, <1>11
  DEF vars, MutexInv, OnePlaceInQueue, NothingLeftBehind, Queued
<1> QED
  BY <1>1, <1>2, <1>3, <1>4, <1>5, <1>6, <1>7, <1>8, <1>9, <1>10, <1>11 DEF Next

(* Whoever is outside Acquire and owns no lease is neither queued nor       *)
(* granted, and a caller in select can always still be woken: cancellation  *)
(* never leaks a place in the queue.                                       *)
THEOREM NothingLeftBehindAlways == Spec => []NothingLeftBehind
<1>1. QueueInv => NothingLeftBehind
  BY DEF QueueInv
<1> QED BY <1>1, QueueInvInit, QueueInvNext, TypeCorrect, PTL DEF Spec

-----------------------------------------------------------------------------
(* The lease table                                                         *)

(* The owners of a key are finitely many: they can be counted.             *)
LEMMA OwnersFinite ==
  ASSUME NEW k \in Keys
  PROVE  IsFiniteSet(Readers(k)) /\ Cardinality(Readers(k)) \in Nat
BY CallersFinite, FS_Subset, FS_CardinalityType DEF Readers

(* An empty table counts no leases.                                        *)
LEMMA TableInit == Init => TableMatchesLeases
<1> SUFFICES ASSUME Init, NEW k \in Keys
             PROVE  /\ resources[k].readers = Cardinality(Readers(k))
                    /\ resources[k].writer <=> Writers(k) # {}
  BY DEF TableMatchesLeases
<1>1. Readers(k) = {} /\ Writers(k) = {}
  BY DEF Init, Readers, Writers
<1> QED BY <1>1, FS_EmptySet DEF Init, Free

(* Steps that grant nothing and release nothing: the requests of owners    *)
(* stay what they are.                                                     *)
LEMMA TableUntouched ==
  ASSUME TypeOK, TypeOK', TableMatchesLeases,
         granted' = granted, resources' = resources,
         \A c \in Callers : granted[c] => req'[c] = req[c]
  PROVE  TableMatchesLeases'
<1>1. \A k \in Keys : Readers(k)' = Readers(k) /\ Writers(k)' = Writers(k)
  BY DEF Readers, Writers
<1> QED BY <1>1 DEF TableMatchesLeases

(* Granting a bundle that fits changes the table as it changes the leases. *)
LEMMA TableGrant ==
  ASSUME TypeOK, TypeOK', TableMatchesLeases,
         NEW c \in Callers, ~granted[c], req' = req,
         granted' = [granted EXCEPT ![c] = TRUE], resources' = GrantedTable(c)
  PROVE  TableMatchesLeases'
<1> SUFFICES ASSUME NEW k \in Keys
             PROVE  /\ resources'[k].readers = Cardinality(Readers(k)')
                    /\ resources'[k].writer <=> Writers(k)' # {}
  BY DEF TableMatchesLeases
<1>1. /\ resources[k].readers = Cardinality(Readers(k))
      /\ resources[k].writer <=> Writers(k) # {}
  BY DEF TableMatchesLeases
<1>2. c \notin Readers(k)
  BY DEF Readers
<1>3. resources'[k] =
        [readers |-> resources[k].readers + (IF req[c][k] = "read" THEN 1 ELSE 0),
         writer  |-> IF req[c][k] = "write" THEN TRUE ELSE resources[k].writer]
  BY DEF GrantedTable
<1>w. resources'[k].writer <=> (resources[k].writer \/ req[c][k] = "write")
  <2>1. resources'[k].writer = IF req[c][k] = "write" THEN TRUE ELSE resources[k].writer
    BY <1>3
  <2> QED BY <2>1
<1>r. resources'[k].readers
        = resources[k].readers + (IF req[c][k] = "read" THEN 1 ELSE 0)
  BY <1>3
<1>4. CASE req[c][k] = "read"
  <2>1. Readers(k)' = Readers(k) \cup {c} /\ Writers(k)' = Writers(k)
    BY <1>4 DEF Readers, Writers, TypeOK
  <2>2. Cardinality(Readers(k)') = Cardinality(Readers(k)) + 1
    BY <2>1, <1>2, OwnersFinite, FS_AddElement
  <2> QED BY <1>1, <1>w, <1>r, <1>4, <2>1, <2>2
<1>5. CASE req[c][k] # "read"
  <2>1. Readers(k)' = Readers(k)
    BY <1>5 DEF Readers, TypeOK
  <2>2. Writers(k)' = IF req[c][k] = "write" THEN Writers(k) \cup {c} ELSE Writers(k)
    BY DEF Writers, TypeOK
  <2>3. resources'[k].readers = resources[k].readers
    BY <1>r, <1>5 DEF TypeOK
  <2>4. Writers(k)' # {} <=> (Writers(k) # {} \/ req[c][k] = "write")
    BY <2>2
  <2> QED BY <1>1, <1>w, <2>1, <2>3, <2>4
<1> QED BY <1>4, <1>5

(* A release takes its own entries out and nothing else: this is where a   *)
(* writer's key must have no second owner.                                 *)
LEMMA TableRelease ==
  ASSUME TypeOK, TypeOK', TableMatchesLeases, ExclusiveLeases,
         NEW c \in Callers, granted[c], req' = req,
         granted' = [granted EXCEPT ![c] = FALSE], resources' = ReleasedTable(c)
  PROVE  TableMatchesLeases'
<1> SUFFICES ASSUME NEW k \in Keys
             PROVE  /\ resources'[k].readers = Cardinality(Readers(k)')
                    /\ resources'[k].writer <=> Writers(k)' # {}
  BY DEF TableMatchesLeases
<1>1. /\ resources[k].readers = Cardinality(Readers(k))
      /\ resources[k].writer <=> Writers(k) # {}
  BY DEF TableMatchesLeases
<1>2. resources'[k] =
        [readers |-> IF req[c][k] = "read" /\ resources[k].readers > 0
                     THEN resources[k].readers - 1 ELSE resources[k].readers,
         writer  |-> IF req[c][k] = "write" THEN FALSE ELSE resources[k].writer]
  BY DEF ReleasedTable
<1>3. Readers(k)' = Readers(k) \ {c} /\ Writers(k)' = Writers(k) \ {c}
  BY DEF Readers, Writers, TypeOK
<1>4. resources'[k].readers = Cardinality(Readers(k)')
  <2>1. CASE req[c][k] = "read"
    <3>1. c \in Readers(k)
      BY <2>1 DEF Readers
    <3>2. /\ Cardinality(Readers(k)') = Cardinality(Readers(k)) - 1
          /\ Cardinality(Readers(k)) # 0
      <4>1. IsFiniteSet(Readers(k)) /\ Cardinality(Readers(k)) \in Nat
        BY OwnersFinite
      <4>2. Cardinality(Readers(k) \ {c}) = Cardinality(Readers(k)) - 1
        BY <3>1, <4>1, FS_RemoveElement
      <4>3. Cardinality(Readers(k)) # 0
        BY <3>1, <4>1, FS_EmptySet
      <4> QED BY <1>3, <4>2, <4>3
    <3>3. resources[k].readers \in Nat
      BY DEF TypeOK
    <3> QED BY <1>1, <1>2, <2>1, <3>2, <3>3
  <2>2. CASE req[c][k] # "read"
    <3>1. c \notin Readers(k)
      BY <2>2 DEF Readers
    <3> QED BY <1>1, <1>2, <1>3, <2>2, <3>1
  <2> QED BY <2>1, <2>2
<1>5. resources'[k].writer <=> Writers(k)' # {}
  <2>1. resources'[k].writer <=> (resources[k].writer /\ req[c][k] # "write")
    <3>1. resources'[k].writer = IF req[c][k] = "write" THEN FALSE ELSE resources[k].writer
      BY <1>2
    <3> QED BY <3>1
  <2>2. CASE req[c][k] = "write"
    <3>1. \A d \in Callers : d # c /\ granted[d] => req[d][k] = "none"
      BY <2>2 DEF ExclusiveLeases, KeysConflict
    <3>2. Writers(k) \ {c} = {}
      BY <3>1 DEF Writers
    <3> QED BY <2>1, <2>2, <3>2, <1>3
  <2>3. CASE req[c][k] # "write"
    <3>1. c \notin Writers(k)
      BY <2>3 DEF Writers
    <3>2. Writers(k)' = Writers(k)
      BY <3>1, <1>3
    <3> QED BY <1>1, <2>1, <2>3, <3>2
  <2> QED BY <2>2, <2>3
<1> QED BY <1>4, <1>5

-----------------------------------------------------------------------------
(* Exclusion                                                               *)

(* A grant that looked at the whole table respects every lease.            *)
LEMMA ExclusiveGrant ==
  ASSUME TypeOK, TypeOK', TableMatchesLeases, ExclusiveLeases,
         NEW c \in Callers, CanGrant(c), req' = req,
         granted' = [granted EXCEPT ![c] = TRUE]
  PROVE  ExclusiveLeases'
<1> SUFFICES ASSUME NEW a \in Callers, NEW b \in Callers, NEW k \in Keys, NEW l \in Keys,
                    a # b, granted'[a], granted'[b], KeysConflict(k, l),
                    req[a][k] = "write"
             PROVE  req[b][l] = "none"
  BY DEF ExclusiveLeases
<1>1. req[b][l] \in Modes
  BY DEF TypeOK
<1>2. CASE a = c
  <2>1. granted[b]
    BY <1>2 DEF TypeOK
  <2>2. resources[l] = Free
    BY <1>2 DEF CanGrant
  <2>3. Readers(l) = {} /\ Writers(l) = {}
    BY <2>2, OwnersFinite, FS_EmptySet DEF TableMatchesLeases, Free
  <2> QED BY <1>1, <2>1, <2>3 DEF Readers, Writers, Modes
<1>3. CASE b = c
  <2>1. a \in Writers(k)
    BY <1>3 DEF Writers, TypeOK
  <2>2. resources[k].writer
    BY <2>1 DEF TableMatchesLeases
  <2>3. KeysConflict(l, k)
    BY KeysConflictSymmetric
  <2>4. req[b][l] # "write" /\ req[b][l] # "read"
    BY <1>3, <2>2, <2>3 DEF CanGrant, Free
  <2> QED BY <1>1, <2>4 DEF Modes
<1>4. CASE a # c /\ b # c
  BY <1>4 DEF ExclusiveLeases, TypeOK
<1> QED BY <1>2, <1>3, <1>4

(* Handing leases back makes no two of them conflict.                      *)
LEMMA ExclusiveKept ==
  ASSUME TypeOK, TypeOK', ExclusiveLeases,
         \A c \in Callers : granted'[c] => granted[c] /\ req'[c] = req[c]
  PROVE  ExclusiveLeases'
BY DEF ExclusiveLeases

LeaseInv == QueueInv /\ TableMatchesLeases /\ ExclusiveLeases

(* Nobody has a lease at first.                                            *)
LEMMA LeaseInvInit == Init => LeaseInv
BY QueueInvInit, TableInit DEF LeaseInv, ExclusiveLeases, Init

(* Every step keeps table and leases in agreement and leases exclusive.    *)
LEMMA LeaseInvNext == LeaseInv /\ TypeOK' /\ [Next]_vars => LeaseInv'
<1> SUFFICES ASSUME LeaseInv, TypeOK', [Next]_vars PROVE LeaseInv'
  OBVIOUS
<1>0. /\ QueueInv /\ TypeOK /\ NothingLeftBehind
      /\ TableMatchesLeases /\ ExclusiveLeases /\ QueueInv'
  BY QueueInvNext DEF LeaseInv, QueueInv
<1>1. ASSUME NEW c \in Callers, NEW bundle \in Bundles, BeginAcquire(c, bundle)
      PROVE LeaseInv'
  <2>1. /\ granted' = granted /\ resources' = resources
        /\ \A d \in Callers : granted[d] => req'[d] = req[d]
    BY <1>0, <1>1 DEF BeginAcquire, NothingLeftBehind, TypeOK
  <2> QED BY <1>0, <2>1, TableUntouched, ExclusiveKept DEF LeaseInv
<1>2. CASE WalkGrant
  <2> DEFINE h == Head(scan)
  <2>1. h \in Callers /\ ~granted[h]
    BY <1>0, <1>2, HeadTailElements
    DEF WalkGrant, TypeOK, QueueInv, OnePlaceInQueue, NothingLeftBehind, Queued
  <2>2. /\ CanGrant(h) /\ granted' = [granted EXCEPT ![h] = TRUE]
        /\ resources' = GrantedTable(h) /\ req' = req
    BY <1>2 DEF WalkGrant, Grantable
  <2> HIDE DEF h
  <2> QED BY <1>0, <2>1, <2>2, TableGrant, ExclusiveGrant DEF LeaseInv
<1>3. ASSUME NEW c \in Callers, AbortGranted(c) \/ Release(c) PROVE LeaseInv'
  <2>1. /\ granted[c] /\ req' = req
        /\ granted' = [granted EXCEPT ![c] = FALSE] /\ resources' = ReleasedTable(c)
    BY <1>0, <1>3 DEF AbortGranted, Release, ReleaseLocked, NothingLeftBehind
  <2>2. \A d \in Callers : granted'[d] => granted[d] /\ req'[d] = req[d]
    BY <1>0, <2>1 DEF TypeOK
  <2> QED BY <1>0, <2>1, <2>2, TableRelease, ExclusiveKept DEF LeaseInv
<1>4. CASE /\ granted' = granted /\ resources' = resources /\ req' = req
  BY <1>0, <1>4, TableUntouched, ExclusiveKept DEF LeaseInv
<1> QED
  BY <1>1, <1>2, <1>3, <1>4
  DEF Next, vars, Cancel, Enqueue, RefuseCancelled, WalkKeep, Unlock, SelectReady,
      SelectDone, AbortWaiting

(* The mutual exclusion of the coordinator: a write lease excludes every    *)
(* overlapping lease, whatever the callers, keys and bundles.              *)
THEOREM ExclusiveLeasesAlways == Spec => []ExclusiveLeases
<1>1. LeaseInv => ExclusiveLeases
  BY DEF LeaseInv
<1> QED BY <1>1, LeaseInvInit, LeaseInvNext, TypeCorrect, PTL DEF Spec

(* The lease table is the sum of the outstanding leases in every state:     *)
(* nothing leaks and nothing is freed twice.                               *)
THEOREM TableMatchesLeasesAlways == Spec => []TableMatchesLeases
<1>1. LeaseInv => TableMatchesLeases
  BY DEF LeaseInv
<1> QED BY <1>1, LeaseInvInit, LeaseInvNext, TypeCorrect, PTL DEF Spec

-----------------------------------------------------------------------------
(* No lost wake-up                                                         *)

(* Granting one more lease never makes a refused request grantable.        *)
LEMMA RefusalStable ==
  ASSUME TypeOK, NEW h \in Callers, NEW w \in Callers,
         resources' = GrantedTable(h), req' = req, CanGrant(w)'
  PROVE  CanGrant(w)
<1> SUFFICES ASSUME NEW k \in Keys, NEW l \in Keys, KeysConflict(k, l)
             PROVE  /\ req[w][k] = "write" => resources[l] = Free
                    /\ req[w][k] = "read" => ~resources[l].writer
  BY DEF CanGrant
<1>1. /\ req[w][k] = "write" => resources'[l] = Free
      /\ req[w][k] = "read" => ~resources'[l].writer
  BY DEF CanGrant, Free
<1>2. /\ resources[l] = [readers |-> resources[l].readers, writer |-> resources[l].writer]
      /\ resources[l].readers \in Nat /\ resources[l].writer \in BOOLEAN
  BY DEF TypeOK
<1>3. /\ resources'[l].readers
           = resources[l].readers + (IF req[h][l] = "read" THEN 1 ELSE 0)
      /\ resources'[l].writer
           = IF req[h][l] = "write" THEN TRUE ELSE resources[l].writer
  BY DEF GrantedTable
<1>4. resources[l].writer => resources'[l].writer
  BY <1>3
<1>5. resources'[l].readers = 0 => resources[l].readers = 0
  BY <1>2, <1>3
<1>6. ASSUME req[w][k] = "write" PROVE resources[l] = Free
  <2>1. resources'[l].readers = 0 /\ ~resources'[l].writer
    BY <1>1, <1>6 DEF Free
  <2>2. resources[l].readers = 0 /\ resources[l].writer = FALSE
    BY <2>1, <1>2, <1>4, <1>5
  <2> QED BY <2>2, <1>2 DEF Free
<1> QED BY <1>1, <1>4, <1>6

(* Whoever is passed over by a walk stays blocked until the next walk.     *)
LEMMA NobodyForgottenNext ==
  LeaseInv /\ TypeOK' /\ NobodyForgotten /\ [Next]_vars => NobodyForgotten'
<1> SUFFICES ASSUME LeaseInv, TypeOK', NobodyForgotten, [Next]_vars
             PROVE  NobodyForgotten'
  OBVIOUS
<1>0. TypeOK /\ MutexInv /\ OnePlaceInQueue /\ NothingLeftBehind
  BY DEF LeaseInv, QueueInv
<1>w. \A i \in 1..Len(waiters) : waiters[i] \in Callers
  BY <1>0, ElementOfSeq DEF TypeOK
<1>1. ASSUME NEW c \in Callers, NEW bundle \in Bundles, BeginAcquire(c, bundle)
      PROVE NobodyForgotten'
  <2>1. waiters' = waiters /\ resources' = resources
    BY <1>1 DEF BeginAcquire
  <2>2. \A i \in 1..Len(waiters) : req'[waiters[i]] = req[waiters[i]]
    <3>1. c \notin ToSet(waiters)
      BY <1>0, <1>1 DEF BeginAcquire, NothingLeftBehind, Queued
    <3>2. \A i \in 1..Len(waiters) : waiters[i] # c
      BY <3>1, <1>0, LenProperties DEF ToSet, TypeOK
    <3> QED BY <3>2, <1>0, <1>1, <1>w DEF BeginAcquire, TypeOK
  <2>3. \A i \in 1..Len(waiters) : CanGrant(waiters[i])' => CanGrant(waiters[i])
    BY <2>1, <2>2 DEF CanGrant
  <2>4. \A i \in 1..Len(waiters) : \A j \in 1..(i - 1) : j \in 1..Len(waiters)
    BY <1>0, LenProperties DEF TypeOK
  <2> QED BY <2>1, <2>2, <2>3, <2>4 DEF NobodyForgotten
<1>2. CASE WalkGrant
  <2>1. Head(scan) \in Callers
    BY <1>0, <1>2, HeadTailElements DEF WalkGrant, TypeOK, OnePlaceInQueue
  <2>2. /\ waiters' = waiters /\ req' = req /\ resources' = GrantedTable(Head(scan))
    BY <1>2 DEF WalkGrant
  <2>3. \A i \in 1..Len(waiters) : CanGrant(waiters[i])' => CanGrant(waiters[i])
    <3> SUFFICES ASSUME NEW i \in 1..Len(waiters), CanGrant(waiters[i])'
                 PROVE  CanGrant(waiters[i])
      OBVIOUS
    <3> DEFINE w == waiters[i]
    <3>1. w \in Callers
      BY <1>w
    <3>2. CanGrant(w)' => CanGrant(w)
      <4>1. waiters'[i] = waiters[i]
        BY <2>2
      <4> QED BY <1>0, <2>1, <2>2, <3>1, <4>1, RefusalStable DEF CanGrant, GrantedTable
    <3> QED BY <3>2
  <2> QED BY <2>2, <2>3 DEF NobodyForgotten
<1>3. CASE WalkKeep
  <2> DEFINE h == Head(scan)
  <2>1. h \in Callers
    BY <1>0, <1>3, HeadTailElements DEF WalkKeep, TypeOK, OnePlaceInQueue
  <2>2. /\ waiters' = Append(waiters, h) /\ req' = req /\ resources' = resources
        /\ BlockedByKept(h) \/ ~CanGrant(h)
    BY <1>3 DEF WalkKeep, Grantable
  <2> HIDE DEF h
  <2>3. /\ Len(waiters') = Len(waiters) + 1 /\ Len(waiters) \in Nat
        /\ \A i \in 1..Len(waiters) : waiters'[i] = waiters[i]
        /\ waiters'[Len(waiters) + 1] = h
    BY <1>0, <2>1, <2>2, AppendProperties, LenProperties DEF TypeOK
  <2>4. \A w : CanGrant(w) => CanGrant(w)
    OBVIOUS
  <2> SUFFICES ASSUME NEW i \in 1..Len(waiters'), CanGrant(waiters[i])'
               PROVE  \E j \in 1..(i - 1), k, l \in Keys :
                        /\ req[waiters'[i]][k] # "none" /\ req[waiters'[j]][l] # "none"
                        /\ KeysConflict(k, l)
    BY <2>2 DEF NobodyForgotten
  <2>5. CASE i \in 1..Len(waiters)
    <3>1. CanGrant(waiters[i])
      BY <2>2, <2>3, <2>5 DEF CanGrant
    <3>2. PICK j \in 1..(i - 1), k \in Keys, l \in Keys :
            /\ req[waiters[i]][k] # "none" /\ req[waiters[j]][l] # "none"
            /\ KeysConflict(k, l)
      BY <3>1, <2>5 DEF NobodyForgotten
    <3>3. waiters'[i] = waiters[i] /\ waiters'[j] = waiters[j]
      BY <2>3, <2>5
    <3> QED BY <3>2, <3>3
  <2>6. CASE i = Len(waiters) + 1
    <3>1. waiters'[i] = h /\ CanGrant(h)
      BY <2>2, <2>3, <2>6 DEF CanGrant
    <3>2. PICK j \in 1..Len(waiters), k \in Keys, l \in Keys :
            /\ req[h][k] # "none" /\ req[waiters[j]][l] # "none" /\ KeysConflict(k, l)
      <4>1. BlockedByKept(h)
        BY <2>2, <3>1
      <4>2. DOMAIN waiters = 1..Len(waiters)
        BY <1>0, LenProperties DEF TypeOK
      <4> QED BY <4>1, <4>2 DEF BlockedByKept
    <3>3. j \in 1..(i - 1) /\ waiters'[j] = waiters[j]
      BY <2>3, <2>6
    <3> QED BY <3>1, <3>2, <3>3
  <2> QED BY <2>3, <2>5, <2>6
<1>4. CASE waiters' = <<>>
  BY <1>4 DEF NobodyForgotten
<1>5. CASE waiters' = waiters /\ req' = req /\ resources' = resources
  BY <1>5 DEF NobodyForgotten, CanGrant
<1> QED
  BY <1>1, <1>2, <1>3, <1>4, <1>5
  DEF Next, vars, Cancel, Enqueue, RefuseCancelled, Unlock, SelectReady, SelectDone,
      AbortGranted, AbortWaiting, Release, ReleaseLocked, StartWalk

(* No lost wake-up: every waiter passed over by the last walk of the queue  *)
(* really is held back by a lease or by an earlier waiter.                 *)
THEOREM NobodyForgottenAlways == Spec => []NobodyForgotten
<1>1. Init => NobodyForgotten
  BY DEF Init, NobodyForgotten
<1> QED
  BY <1>1, LeaseInvInit, LeaseInvNext, NobodyForgottenNext, TypeCorrect, PTL DEF Spec

-----------------------------------------------------------------------------
(* The abstract lease service                                              *)

(* The queue of the walk, in line: without its head, and with the head     *)
(* moved to those that are kept.                                           *)
LEMMA QueueOfWalk ==
  ASSUME NEW S, NEW s \in Seq(S), NEW t \in Seq(S), t # <<>>
  PROVE  /\ Len(s) + 1 \in DOMAIN (s \o t) /\ (s \o t)[Len(s) + 1] = Head(t)
         /\ \A j \in 1..Len(s) : (s \o t)[j] = s[j]
         /\ s \o Tail(t) = SubSeq(s \o t, 1, Len(s)) \o SubSeq(s \o t, Len(s) + 2, Len(s \o t))
         /\ Append(s, Head(t)) \o Tail(t) = s \o t
<1> DEFINE u == s \o t
           m == Len(s)
           left == SubSeq(u, 1, m)
           right == SubSeq(u, m + 2, Len(u))
<1>1. /\ Len(t) > 0 /\ Head(t) = t[1] /\ Head(t) \in S /\ Tail(t) \in Seq(S) /\ Len(Tail(t)) = Len(t) - 1
      /\ \A i \in 1..Len(Tail(t)) : Tail(t)[i] = t[i + 1]
      /\ Len(t) \in Nat /\ m \in Nat
  OBVIOUS
<1>2. /\ u \in Seq(S) /\ Len(u) = m + Len(t)
      /\ \A i \in 1..(m + Len(t)) : u[i] = IF i <= m THEN s[i] ELSE t[i - m]
  BY ConcatProperties
<1>3. \A i \in 1..Len(u) : u[i] \in S
  BY <1>2, ElementOfSeq
<1> HIDE DEF u
<1>4. left \in Seq(S) /\ Len(left) = m /\ \A i \in 1..m : left[i] = s[i]
  <2>1. \A i \in 1..m : u[i] \in S
    BY <1>1, <1>2, <1>3
  <2>2. /\ left \in Seq(S) /\ Len(left) = (IF 1 <= m THEN m - 1 + 1 ELSE 0)
        /\ \A i \in 1..(m - 1 + 1) : left[i] = u[1 + i - 1]
    BY <1>1, <2>1, SubSeqProperties
  <2> HIDE DEF left
  <2> QED BY <1>1, <1>2, <2>2
<1>5. right \in Seq(S) /\ Len(right) = Len(Tail(t)) /\ \A i \in 1..Len(Tail(t)) : right[i] = Tail(t)[i]
  <2>1. \A i \in (m + 2)..Len(u) : u[i] \in S
    BY <1>1, <1>2, <1>3
  <2>2. /\ right \in Seq(S) /\ Len(right) = (IF m + 2 <= Len(u) THEN Len(u) - (m + 2) + 1 ELSE 0)
        /\ \A i \in 1..(Len(u) - (m + 2) + 1) : right[i] = u[(m + 2) + i - 1]
    BY <1>1, <1>2, <2>1, SubSeqProperties
  <2> HIDE DEF left, right, m
  <2>a. Len(u) - (m + 2) + 1 = Len(t) - 1 /\ (m + 2 <= Len(u) <=> 2 <= Len(t))
    BY <1>1, <1>2
  <2>3. Len(right) = Len(Tail(t))
    BY <1>1, <2>2, <2>a
  <2>4. ASSUME NEW i \in 1..Len(Tail(t)) PROVE right[i] = Tail(t)[i]
    <3>0. i \in 1..(Len(t) - 1) /\ (m + 2) + i - 1 = m + 1 + i
      BY <1>1
    <3>1. right[i] = u[m + 1 + i]
      BY <2>2, <2>a, <3>0
    <3>2. u[m + 1 + i] = t[i + 1]
      BY <1>1, <1>2
    <3> QED BY <1>1, <3>1, <3>2
  <2> QED BY <2>2, <2>3, <2>4
<1>6. left = s
  BY <1>4, SeqEqual
<1>7. right = Tail(t)
  BY <1>1, <1>5, SeqEqual
<1>8. Append(s, Head(t)) \o Tail(t) = u
  <2> DEFINE w == Append(s, Head(t))
             v == w \o Tail(t)
  <2>1. w \in Seq(S) /\ Len(w) = m + 1 /\ (\A i \in 1..m : w[i] = s[i]) /\ w[m + 1] = Head(t)
    BY <1>1, AppendProperties
  <2> HIDE DEF w
  <2>2. /\ v \in Seq(S) /\ Len(v) = Len(w) + Len(Tail(t))
        /\ \A i \in 1..(Len(w) + Len(Tail(t))) : v[i] = IF i <= Len(w) THEN w[i] ELSE Tail(t)[i - Len(w)]
    BY <1>1, <2>1, ConcatProperties
  <2> HIDE DEF v
  <2>3. Len(v) = Len(u)
    BY <1>1, <1>2, <2>1, <2>2
  <2>4. ASSUME NEW i \in 1..Len(v) PROVE v[i] = u[i]
    <3>1. CASE i <= m
      <4>0. i \in 1..m /\ i \in 1..(Len(w) + Len(Tail(t))) /\ i <= Len(w)
        BY <1>1, <2>1, <2>2, <2>4, <3>1
      <4>1. v[i] = w[i] /\ w[i] = s[i]
        BY <2>1, <2>2, <4>0
      <4>2. u[i] = s[i]
        BY <1>2, <2>3, <2>4, <3>1
      <4> QED BY <4>1, <4>2
    <3>2. CASE i = m + 1
      <4>1. v[i] = w[i] /\ w[i] = Head(t)
        BY <1>1, <2>1, <2>2, <2>4, <3>2
      <4>2. u[i] = t[1]
        BY <1>1, <1>2, <2>3, <2>4, <3>2
      <4> QED BY <1>1, <4>1, <4>2
    <3>3. CASE i > m + 1
      <4>1. v[i] = Tail(t)[i - (m + 1)] /\ i - (m + 1) \in 1..Len(Tail(t))
        BY <1>1, <1>2, <2>1, <2>2, <2>3, <2>4, <3>3
      <4>2. u[i] = t[i - m]
        BY <1>1, <1>2, <2>3, <3>3
      <4> QED BY <1>1, <4>1, <4>2
    <3> QED BY <1>1, <2>1, <2>2, <3>1, <3>2, <3>3
  <2>5. v = u
    BY <1>2, <2>2, <2>3, <2>4, SeqEqual
  <2> QED BY <2>5 DEF v, w
<1>9. DOMAIN u = 1..Len(u)
  BY <1>2, LenProperties
<1>10. m + 1 \in DOMAIN u /\ u[m + 1] = Head(t) /\ \A j \in 1..m : u[j] = s[j]
  <2> HIDE DEF left, right, m
  <2>1. m + 1 \in 1..(m + Len(t))
    BY <1>1
  <2>2. \A n \in 1..(m + Len(t)) : n = m + 1 => u[n] = t[1]
    <3>1. ASSUME NEW n \in 1..(m + Len(t)), n = m + 1 PROVE n - m = 1 /\ ~(n <= m)
      BY <1>1, <3>1
    <3> QED BY <1>2, <3>1
  <2> QED BY <1>1, <1>2, <1>9, <2>1, <2>2
<1> QED BY <1>6, <1>7, <1>8, <1>10 DEF u

(* A caller is in line when it is queued.                                  *)
LEMMA InLineIsQueued ==
  ASSUME TypeOK, NEW c \in Callers
  PROVE  Leases!InLine(c) <=> Queued(c)
<1> DEFINE u == waiters \o scan
<1>1. /\ waiters \in Seq(Callers) /\ scan \in Seq(Callers) /\ Len(waiters) \in Nat /\ Len(scan) \in Nat
      /\ DOMAIN waiters = 1..Len(waiters) /\ DOMAIN scan = 1..Len(scan)
  BY DEF TypeOK
<1>2. /\ DOMAIN u = 1..(Len(waiters) + Len(scan))
      /\ \A i \in 1..(Len(waiters) + Len(scan)) :
           u[i] = IF i <= Len(waiters) THEN waiters[i] ELSE scan[i - Len(waiters)]
  BY <1>1, ConcatProperties, LenProperties
<1> HIDE DEF u
<1>3. ASSUME NEW i \in DOMAIN u, u[i] = c PROVE Queued(c)
  <2>1. CASE i <= Len(waiters)
    <3>1. i \in DOMAIN waiters /\ waiters[i] = c
      BY <1>1, <1>2, <1>3, <2>1
    <3> QED BY <3>1 DEF Queued, ToSet
  <2>2. CASE i > Len(waiters)
    <3>1. i - Len(waiters) \in DOMAIN scan /\ scan[i - Len(waiters)] = c
      BY <1>1, <1>2, <1>3, <2>2
    <3> QED BY <3>1 DEF Queued, ToSet
  <2> QED BY <1>1, <1>2, <2>1, <2>2
<1>4. ASSUME NEW i \in DOMAIN waiters, waiters[i] = c PROVE \E j \in DOMAIN u : u[j] = c
  BY <1>1, <1>2, <1>4
<1>5. ASSUME NEW i \in DOMAIN scan, scan[i] = c PROVE \E j \in DOMAIN u : u[j] = c
  <2>1. i + Len(waiters) \in DOMAIN u /\ u[i + Len(waiters)] = c
    BY <1>1, <1>2, <1>5
  <2> QED BY <2>1
<1>6. Leases!InLine(c) <=> \E j \in DOMAIN u : u[j] = c
  BY DEF Leases!InLine, Queue, u
<1> QED BY <1>3, <1>4, <1>5, <1>6 DEF Queued, ToSet

(* A waiter the walk grants gets in the way of no holder and of nobody     *)
(* before it in line.                                                      *)
LEMMA GrantIsFair ==
  ASSUME TypeOK, TableMatchesLeases, NEW h \in Callers, Grantable(h)
  PROVE  /\ \A d \in Callers : granted[d] =>
              \A k, l \in Keys : KeysConflict(k, l) =>
                /\ req[h][k] = "write" => req[d][l] = "none"
                /\ req[d][l] = "write" => req[h][k] = "none"
         /\ \A j \in 1..Len(waiters) :
              ~\E k, l \in Keys : req[h][k] # "none" /\ req[waiters[j]][l] # "none" /\ KeysConflict(k, l)
<1>1. ASSUME NEW d \in Callers, granted[d], NEW k \in Keys, NEW l \in Keys, KeysConflict(k, l)
      PROVE  /\ req[h][k] = "write" => req[d][l] = "none"
             /\ req[d][l] = "write" => req[h][k] = "none"
  <2>1. /\ req[h][k] \in Modes /\ req[d][l] \in Modes
    BY DEF TypeOK
  <2>2. /\ req[h][k] = "write" => resources[l] = Free
        /\ req[h][k] = "read" => ~resources[l].writer
    BY <1>1 DEF Grantable, CanGrant
  <2>3. /\ resources[l].readers = Cardinality(Readers(l))
        /\ resources[l].writer <=> Writers(l) # {}
    BY DEF TableMatchesLeases
  <2>4. req[d][l] = "write" => resources[l].writer
    BY <1>1, <2>3 DEF Writers
  <2>5. ASSUME req[d][l] = "read" PROVE resources[l].readers # 0
    <3>1. d \in Readers(l)
      BY <1>1, <2>5 DEF Readers
    <3>2. IsFiniteSet(Readers(l))
      BY OwnersFinite
    <3> QED BY <2>3, <3>1, <3>2, FS_EmptySet
  <2> QED BY <2>1, <2>2, <2>4, <2>5 DEF Modes, Free
<1>2. \A j \in 1..Len(waiters) :
        ~\E k, l \in Keys : req[h][k] # "none" /\ req[waiters[j]][l] # "none" /\ KeysConflict(k, l)
  BY LenProperties DEF Grantable, BlockedByKept, TypeOK
<1> QED BY <1>1, <1>2

(* At first nobody waits in either.                                        *)
LEMMA LeasesInit == Init => Leases!Init
<1>1. ASSUME Init PROVE waiters \o scan = <<>>
  BY <1>1, ConcatEmptySeq DEF Init
<1> QED BY <1>1 DEF Init, Leases!Init, Queue, Normalize

(* A step of the walk: a grant, or nothing the lease service knows of.     *)
LEMMA LeasesWalk ==
  ASSUME LeaseInv, WalkGrant \/ WalkKeep
  PROVE  [Leases!Next]_(Leases!vars)
<1> DEFINE h == Head(scan)
           place == Len(waiters) + 1
<1>1. waiters \in Seq(Callers) /\ scan \in Seq(Callers) /\ scan # <<>> /\ TypeOK /\ TableMatchesLeases
  BY DEF LeaseInv, QueueInv, TypeOK, WalkGrant, WalkKeep
<1>2. h \in Callers /\ Len(waiters) \in Nat
  BY <1>1
<1>a. place - 1 = Len(waiters) /\ place + 1 = Len(waiters) + 2
  BY <1>2
<1>b. /\ Len(waiters) + 1 \in DOMAIN Queue /\ Queue[Len(waiters) + 1] = h
      /\ \A j \in 1..Len(waiters) : Queue[j] = waiters[j]
      /\ waiters \o Tail(scan) = SubSeq(Queue, 1, Len(waiters)) \o SubSeq(Queue, Len(waiters) + 2, Len(Queue))
      /\ Append(waiters, h) \o Tail(scan) = Queue
  BY <1>1, QueueOfWalk DEF Queue
<1>3. /\ place \in DOMAIN Queue /\ Queue[place] = h /\ \A j \in 1..(place - 1) : Queue[j] = waiters[j]
      /\ waiters \o Tail(scan) = Leases!Without(place) /\ Append(waiters, h) \o Tail(scan) = Queue
  BY <1>a, <1>b DEF Leases!Without
<1>4. CASE WalkGrant
  <2>1. /\ Grantable(h) /\ granted' = [granted EXCEPT ![h] = TRUE] /\ req' = req
        /\ Queue' = waiters \o Tail(scan)
    BY <1>4 DEF WalkGrant, Queue
  <2> HIDE DEF h, place
  <2>2. {c \in Callers : granted[c]}' = {c \in Callers : granted[c]} \cup {h}
    BY <1>1, <1>2, <2>1 DEF TypeOK
  <2>3. \A d \in {c \in Callers : granted[c]} : Leases!Compatible(h, d)
    BY <1>1, <1>2, <2>1, GrantIsFair DEF Leases!Compatible
  <2>4. \A j \in 1..(place - 1) : ~Leases!Overlap(h, waiters[j])
    BY <1>1, <1>2, <2>1, GrantIsFair DEF Leases!Overlap, place
  <2>5. PICK n \in DOMAIN Queue : n = place
    BY <1>3
  <2>6. Leases!Grant(n)
    BY <1>3, <2>1, <2>2, <2>3, <2>4, <2>5 DEF Leases!Grant
  <2>7. Leases!Next
    BY <2>5, <2>6 DEF Leases!Next
  <2> QED BY <2>7
<1>5. CASE WalkKeep
  <2>1. Queue' = Append(waiters, h) \o Tail(scan) /\ granted' = granted /\ req' = req
    BY <1>5 DEF WalkKeep, Queue
  <2> QED BY <1>3, <2>1 DEF Leases!vars
<1> QED BY <1>4, <1>5

(* Every step of the coordinator is one of the lease service, or nothing   *)
(* it knows of.                                                            *)
LEMMA LeasesStep ==
  ASSUME LeaseInv, [Next]_vars
  PROVE  [Leases!Next]_(Leases!vars)
<1>0. TypeOK /\ MutexInv /\ NothingLeftBehind /\ waiters \in Seq(Callers) /\ scan \in Seq(Callers)
  BY DEF LeaseInv, QueueInv, TypeOK
<1>1. ASSUME mu = NoCaller PROVE Queue = waiters
  BY <1>0, <1>1, ConcatEmptySeq DEF MutexInv, Queue
<1>2. ASSUME NEW c \in Callers, NEW queue, StartWalk(c, queue), queue \in Seq(Callers) PROVE Queue' = queue
  BY <1>2, ConcatEmptySeq DEF StartWalk, Queue
<1>3. ASSUME NEW c \in Callers, NEW bundle \in Bundles, BeginAcquire(c, bundle)
      PROVE  Leases!Next
  <2>1. ~Leases!InLine(c) /\ ~granted[c]
    BY <1>0, <1>3, InLineIsQueued DEF BeginAcquire, NothingLeftBehind
  <2>2. Leases!Choose(c)
    BY <1>0, <1>3, <2>1 DEF BeginAcquire, Leases!Choose, Queue, TypeOK
  <2> QED BY <2>2 DEF Leases!Next
<1>4. ASSUME NEW c \in Callers, Enqueue(c) PROVE Leases!Next
  <2>1. ~Leases!InLine(c) /\ ~granted[c]
    BY <1>0, <1>4, InLineIsQueued DEF Enqueue, NothingLeftBehind
  <2>2. Append(waiters, c) \in Seq(Callers)
    BY <1>0
  <2>3. Queue = waiters /\ Queue' = Append(waiters, c) /\ granted' = granted /\ req' = req
    BY <1>1, <1>2, <1>4, <2>2 DEF Enqueue
  <2>4. Leases!Arrive(c)
    BY <2>1, <2>3 DEF Leases!Arrive
  <2> QED BY <2>4 DEF Leases!Next
<1>5. ASSUME NEW c \in Callers, AbortGranted(c) \/ Release(c) PROVE Leases!Next
  <2>1. ReleaseLocked(c) /\ granted[c]
    BY <1>0, <1>5 DEF AbortGranted, Release, NothingLeftBehind
  <2>2. Queue' = Queue /\ req' = req /\ granted' = [granted EXCEPT ![c] = FALSE]
    BY <1>0, <1>1, <1>2, <2>1 DEF ReleaseLocked
  <2>3. {d \in Callers : granted[d]}' = {d \in Callers : granted[d]} \ {c}
    BY <1>0, <2>2 DEF TypeOK
  <2>4. Leases!Return(c)
    BY <2>1, <2>2, <2>3 DEF Leases!Return
  <2> QED BY <2>4 DEF Leases!Next
<1>6. ASSUME NEW c \in Callers, AbortWaiting(c) PROVE Leases!Next
  <2>1. PICK i \in DOMAIN waiters : waiters[i] = c /\ StartWalk(c, RemoveAt(waiters, i))
    BY <1>6 DEF AbortWaiting
  <2>2. mu = NoCaller /\ granted' = granted /\ req' = req
    BY <1>6 DEF AbortWaiting
  <2>3. RemoveAt(waiters, i) \in Seq(Callers)
    <3>1. i \in 1..Len(waiters) /\ IsInjective(waiters)
      BY <1>0, LenProperties DEF LeaseInv, QueueInv, OnePlaceInQueue
    <3> QED BY <1>0, <3>1, RemoveAtElements
  <2>4. Queue = waiters /\ Queue' = RemoveAt(waiters, i)
    BY <1>1, <1>2, <2>1, <2>2, <2>3
  <2>5. Leases!GiveUp(i)
    BY <2>2, <2>4 DEF Leases!GiveUp, Leases!Without, RemoveAt
  <2> QED BY <2>4, <2>5 DEF Leases!Next
<1>7. ASSUME UNCHANGED <<waiters, scan, granted, req>> PROVE UNCHANGED Leases!vars
  BY <1>7 DEF Leases!vars, Queue
<1>8. ASSUME NEW c \in Callers,
             Cancel(c) \/ RefuseCancelled(c) \/ Unlock(c) \/ SelectReady(c) \/ SelectDone(c)
      PROVE  UNCHANGED Leases!vars
  BY <1>7, <1>8 DEF Cancel, RefuseCancelled, Unlock, SelectReady, SelectDone
<1>9. CASE UNCHANGED vars
  BY <1>7, <1>9 DEF vars
<1> QED BY <1>3, <1>4, <1>5, <1>6, <1>8, <1>9, LeasesWalk DEF Next

(* The coordinator implements the lease service, for any number of callers *)
(* and any hierarchy of keys: with the mutex, the walk of the queue and    *)
(* the table of resource_lock.go, every behaviour is one of a line of      *)
(* callers that are granted all they ask for or nothing.                   *)
THEOREM ImplementsLeasesAlways == Spec => ImplementsLeases
<1>1. LeaseInv /\ [Next]_vars => [Leases!Next]_(Leases!vars)
  BY LeasesStep
<1> QED BY <1>1, LeasesInit, LeaseInvInit, LeaseInvNext, TypeCorrect, PTL DEF Spec, ImplementsLeases, Leases!Spec
=============================================================================
