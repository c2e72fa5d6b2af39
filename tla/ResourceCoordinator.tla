------------------------- MODULE ResourceCoordinator -------------------------
(***************************************************************************)
(* The read/write lease coordinator every tool call goes through           *)
(* (internal/agent/resource_lock.go).                                      *)
(*                                                                         *)
(* One mutex protects the table of leased resources and the FIFO queue of  *)
(* waiters.  scheduleLocked walks that queue while the mutex is held; the   *)
(* walk is modelled one waiter at a time, because a waiter whose channel    *)
(* is closed in the middle of the walk may run before the walk ends.        *)
(***************************************************************************)
EXTENDS Naturals, FiniteSets, SequencesExt

CONSTANTS
  Callers,    \* goroutines that call Acquire, one call at a time
  Keys,       \* resource keys: records [kind, path]
  Bundles,    \* what a call may ask for: sets of <<key, mode>> pairs
  NoCaller    \* the mutex is free

PathKinds == {"file", "dir", "workspace"}

ASSUME CallersFinite == IsFiniteSet(Callers)
ASSUME NoCallerIsNoCaller == NoCaller \notin Callers
ASSUME BundlesAssumption ==
  Bundles \subseteq SUBSET (Keys \X {"read", "write"}) /\ {} \notin Bundles

-----------------------------------------------------------------------------
(* Keys and requests                                                       *)

PathContains(parent, child) == IsPrefix(parent, child)

(* Opaque keys conflict only with themselves; a directory or workspace key *)
(* also covers every path key below it, and two files never overlap.       *)
KeysConflict(left, right) ==
  \/ left = right
  \/ /\ {left.kind, right.kind} \subseteq PathKinds
     /\ \/ left.kind # "file" /\ PathContains(left.path, right.path)
        \/ right.kind # "file" /\ PathContains(right.path, left.path)

Modes == {"none", "read", "write"}

(* Repeated keys are coalesced and a write wins over a read.               *)
Normalize(bundle) ==
  [k \in Keys |-> IF <<k, "write">> \in bundle THEN "write"
                  ELSE IF <<k, "read">> \in bundle THEN "read" ELSE "none"]

-----------------------------------------------------------------------------
VARIABLES
  pc,         \* where each caller is in Acquire or Release
  req,        \* the normalised request of its call (or of its last lease)
  ctxDone,    \* whether the context of its call is cancelled
  granted,    \* waiter.granted, and so waiter.ready closed
  resources,  \* the lease table: readers and writer of each key
  waiters,    \* c.waiters; during a walk, the waiters kept so far
  scan,       \* during a walk, the waiters not examined yet
  mu          \* the caller inside the mutex, or NoCaller

vars == <<pc, req, ctxDone, granted, resources, waiters, scan, mu>>

Free == [readers |-> 0, writer |-> FALSE]

Init ==
  /\ pc = [c \in Callers |-> "idle"]
  /\ req = [c \in Callers |-> Normalize({})]
  /\ ctxDone = [c \in Callers |-> FALSE]
  /\ granted = [c \in Callers |-> FALSE]
  /\ resources = [k \in Keys |-> Free]
  /\ waiters = <<>>
  /\ scan = <<>>
  /\ mu = NoCaller

-----------------------------------------------------------------------------
(* Acquire validates its arguments and looks at the context once before it *)
(* takes the mutex; an invalid or already cancelled call changes nothing.  *)
BeginAcquire(c, bundle) ==
  /\ pc[c] = "idle"
  /\ pc' = [pc EXCEPT ![c] = "entering"]
  /\ req' = [req EXCEPT ![c] = Normalize(bundle)]
  /\ ctxDone' = [ctxDone EXCEPT ![c] = FALSE]
  /\ UNCHANGED <<granted, resources, waiters, scan, mu>>

(* The context of a pending call is cancelled or times out.  Cancelling    *)
(* the context of a caller that already holds its lease changes nothing    *)
(* here.                                                                   *)
Cancel(c) ==
  /\ pc[c] \in {"entering", "enqueuing", "selecting"}
  /\ ~ctxDone[c]
  /\ ctxDone' = [ctxDone EXCEPT ![c] = TRUE]
  /\ UNCHANGED <<pc, req, granted, resources, waiters, scan, mu>>

(* Walk the whole queue from its head: c stays inside the mutex.           *)
StartWalk(c, queue) ==
  /\ mu' = c
  /\ scan' = queue
  /\ waiters' = <<>>

(* The context is checked again under the mutex, then the call is queued   *)
(* behind everyone else and a walk starts.                                 *)
Enqueue(c) ==
  /\ pc[c] = "entering"
  /\ mu = NoCaller
  /\ ~ctxDone[c]
  /\ pc' = [pc EXCEPT ![c] = "enqueuing"]
  /\ StartWalk(c, Append(waiters, c))
  /\ UNCHANGED <<req, ctxDone, granted, resources>>

RefuseCancelled(c) ==
  /\ pc[c] = "entering"
  /\ mu = NoCaller
  /\ ctxDone[c]
  /\ pc' = [pc EXCEPT ![c] = "idle"]
  /\ UNCHANGED <<req, ctxDone, granted, resources, waiters, scan, mu>>

-----------------------------------------------------------------------------
(* scheduleLocked                                                          *)

(* requestsIntersectKeys: blockedKeys are the keys of the waiters kept by  *)
(* this walk, whatever their mode.                                         *)
(* Mutant: waiters may overtake.                                           *)
NeverBlocked(c) == FALSE

BlockedByKept(c) ==
  \E i \in DOMAIN waiters, k, l \in Keys :
    /\ req[c][k] # "none"
    /\ req[waiters[i]][l] # "none"
    /\ KeysConflict(k, l)

(* Mutant: only equal keys are compared with the table.                    *)
CanGrantSameKey(c) ==
  \A k \in Keys :
    /\ req[c][k] = "write" => resources[k] = Free
    /\ req[c][k] = "read" => ~resources[k].writer

CanGrant(c) ==
  \A k, l \in Keys : KeysConflict(k, l) =>
    /\ req[c][k] = "write" => resources[l] = Free
    /\ req[c][k] = "read" => ~resources[l].writer

GrantedTable(c) ==
  [k \in Keys |->
    [readers |-> resources[k].readers + (IF req[c][k] = "read" THEN 1 ELSE 0),
     writer  |-> IF req[c][k] = "write" THEN TRUE ELSE resources[k].writer]]

Grantable(c) == ~BlockedByKept(c) /\ CanGrant(c)

WalkGrant ==
  /\ scan # <<>>
  /\ Grantable(Head(scan))
  /\ granted' = [granted EXCEPT ![Head(scan)] = TRUE]
  /\ resources' = GrantedTable(Head(scan))
  /\ scan' = Tail(scan)
  /\ UNCHANGED <<pc, req, ctxDone, waiters, mu>>

WalkKeep ==
  /\ scan # <<>>
  /\ ~Grantable(Head(scan))
  /\ waiters' = Append(waiters, Head(scan))
  /\ scan' = Tail(scan)
  /\ UNCHANGED <<pc, req, ctxDone, granted, resources, mu>>

(* The walk is over: the mutex is released, and its holder goes on to the  *)
(* select of Acquire or returns.                                           *)
Unlock(c) ==
  /\ mu = c
  /\ scan = <<>>
  /\ mu' = NoCaller
  /\ pc' = [pc EXCEPT ![c] = IF pc[c] = "enqueuing" THEN "selecting" ELSE "idle"]
  /\ UNCHANGED <<req, ctxDone, granted, resources, waiters, scan>>

-----------------------------------------------------------------------------
(* The select of Acquire: either ready branch may be taken when both are.  *)

(* Received from waiter.ready; a cancellation seen now gives the grant     *)
(* back instead of returning a lease.                                      *)
SelectReady(c) ==
  /\ pc[c] = "selecting"
  /\ granted[c]
  /\ pc' = [pc EXCEPT ![c] = IF ctxDone[c] THEN "aborting" ELSE "held"]
  /\ UNCHANGED <<req, ctxDone, granted, resources, waiters, scan, mu>>

(* Mutant: the context branch of the select forgets that the grant may     *)
(* have come first.                                                        *)
SelectDoneDropsGrant(c) ==
  /\ pc[c] = "selecting"
  /\ ctxDone[c]
  /\ pc' = [pc EXCEPT ![c] = IF granted[c] THEN "idle" ELSE "aborting"]
  /\ UNCHANGED <<req, ctxDone, granted, resources, waiters, scan, mu>>

SelectDone(c) ==
  /\ pc[c] = "selecting"
  /\ ctxDone[c]
  /\ pc' = [pc EXCEPT ![c] = "aborting"]
  /\ UNCHANGED <<req, ctxDone, granted, resources, waiters, scan, mu>>

ReleasedTable(c) ==
  [k \in Keys |->
    [readers |-> IF req[c][k] = "read" /\ resources[k].readers > 0
                 THEN resources[k].readers - 1 ELSE resources[k].readers,
     writer  |-> IF req[c][k] = "write" THEN FALSE ELSE resources[k].writer]]

(* releaseLocked: clear the table entries, then walk the queue.            *)
ReleaseLocked(c) ==
  /\ mu = NoCaller
  /\ granted' = [granted EXCEPT ![c] = FALSE]
  /\ resources' = ReleasedTable(c)
  /\ pc' = [pc EXCEPT ![c] = "releasing"]
  /\ StartWalk(c, waiters)
  /\ UNCHANGED <<req, ctxDone>>

(* A cancelled call that was granted in the meantime.                      *)
AbortGranted(c) ==
  /\ pc[c] = "aborting"
  /\ granted[c]
  /\ ReleaseLocked(c)

(* Mutant: the waiter leaves without a walk of the queue.                  *)
AbortSilently(c) ==
  /\ pc[c] = "aborting"
  /\ ~granted[c]
  /\ mu = NoCaller
  /\ \E i \in DOMAIN waiters : waiters[i] = c /\ waiters' = RemoveAt(waiters, i)
  /\ mu' = c
  /\ pc' = [pc EXCEPT ![c] = "releasing"]
  /\ UNCHANGED <<req, ctxDone, granted, resources, scan>>

(* A cancelled call that is still queued leaves the queue, and the waiters *)
(* it was holding back are examined again.                                 *)
AbortWaiting(c) ==
  /\ pc[c] = "aborting"
  /\ ~granted[c]
  /\ mu = NoCaller
  /\ \E i \in DOMAIN waiters : waiters[i] = c /\ StartWalk(c, RemoveAt(waiters, i))
  /\ pc' = [pc EXCEPT ![c] = "releasing"]
  /\ UNCHANGED <<req, ctxDone, granted, resources>>

(* Mutant: a lease may be released again after it was returned.            *)
ReleaseAgain(c) ==
  /\ pc[c] \in {"held", "idle"}
  /\ ReleaseLocked(c)

(* ResourceLease.Release: only the first call has an effect (once.Do).     *)
Release(c) ==
  /\ pc[c] = "held"
  /\ ReleaseLocked(c)

-----------------------------------------------------------------------------
Next ==
  \/ \E c \in Callers, bundle \in Bundles : BeginAcquire(c, bundle)
  \/ \E c \in Callers : Cancel(c)
  \/ \E c \in Callers : Enqueue(c)
  \/ \E c \in Callers : RefuseCancelled(c)
  \/ WalkGrant
  \/ WalkKeep
  \/ \E c \in Callers : Unlock(c)
  \/ \E c \in Callers : SelectReady(c)
  \/ \E c \in Callers : SelectDone(c)
  \/ \E c \in Callers : AbortGranted(c)
  \/ \E c \in Callers : AbortWaiting(c)
  \/ \E c \in Callers : Release(c)

Spec == Init /\ [][Next]_vars

(* What a caller does by itself, with the mutex, and inside the mutex.      *)
SelectStep(c) == SelectReady(c) \/ SelectDone(c)

MutexStep(c) ==
  Enqueue(c) \/ RefuseCancelled(c) \/ AbortGranted(c) \/ AbortWaiting(c) \/ Release(c)

WalkStep == WalkGrant \/ WalkKeep \/ \E c \in Callers : Unlock(c)

(* Goroutines are scheduled, a contended sync.Mutex is handed over in the   *)
(* end (starvation mode), and a tool that returned releases its lease.      *)
(* Nothing obliges a caller to start a call or a context to be cancelled.   *)
Fairness ==
  /\ WF_vars(WalkStep)
  /\ \A c \in Callers : WF_vars(SelectStep(c)) /\ SF_vars(MutexStep(c))

FairSpec == Spec /\ Fairness

-----------------------------------------------------------------------------
(* Correctness                                                             *)

Queue == waiters \o scan

Queued(c) == c \in ToSet(waiters) \cup ToSet(scan)

(* Types of the state.                                                     *)
TypeOK ==
  /\ pc \in [Callers -> {"idle", "entering", "enqueuing", "selecting",
                         "aborting", "held", "releasing"}]
  /\ req \in [Callers -> [Keys -> Modes]]
  /\ ctxDone \in [Callers -> BOOLEAN]
  /\ granted \in [Callers -> BOOLEAN]
  /\ resources \in [Keys -> [readers : Nat, writer : BOOLEAN]]
  /\ waiters \in Seq(Callers)
  /\ scan \in Seq(Callers)
  /\ mu \in Callers \cup {NoCaller}

Readers(k) == {c \in Callers : granted[c] /\ req[c][k] = "read"}
Writers(k) == {c \in Callers : granted[c] /\ req[c][k] = "write"}

(* "Reads may share a key; a write excludes every other read or write":    *)
(* two calls never own leases one of which writes a key that overlaps a    *)
(* key of the other, through every hierarchy of files and directories.     *)
ExclusiveLeases ==
  \A c, d \in Callers, k, l \in Keys :
    (c # d /\ granted[c] /\ granted[d] /\ KeysConflict(k, l) /\ req[c][k] = "write")
      => req[d][l] = "none"

(* The table is exactly what the outstanding leases add up to: no release, *)
(* cancellation or grant that lost a race leaks or frees a resource.       *)
TableMatchesLeases ==
  \A k \in Keys :
    /\ resources[k].readers = Cardinality(Readers(k))
    /\ resources[k].writer <=> Writers(k) # {}

(* A caller that is not inside Acquire and owns no lease has left nothing  *)
(* behind, and a caller waiting in select is queued or granted, never      *)
(* neither (a waiter that can no longer be woken) and never both.          *)
NothingLeftBehind ==
  \A c \in Callers :
    /\ pc[c] \in {"idle", "entering", "releasing"} => ~Queued(c) /\ ~granted[c]
    /\ pc[c] = "held" => ~Queued(c) /\ granted[c]
    /\ pc[c] \in {"enqueuing", "selecting", "aborting"} => (Queued(c) <=> ~granted[c])

(* The mutex is held exactly by the caller inside a walk, and nobody has   *)
(* two places in the queue.                                                *)
MutexInv ==
  /\ \A c \in Callers : pc[c] \in {"enqueuing", "releasing"} <=> mu = c
  /\ mu = NoCaller => scan = <<>>

OnePlaceInQueue ==
  /\ IsInjective(waiters) /\ IsInjective(scan)
  /\ ToSet(waiters) \cap ToSet(scan) = {}

(* No lost wake-up: every waiter a walk has passed over conflicts with an  *)
(* outstanding lease or with a waiter ahead of it, and still does when the *)
(* mutex is free again: nobody waits for something that will not happen.   *)
NobodyForgotten ==
  \A i \in 1..Len(waiters) :
    \/ ~CanGrant(waiters[i])
    \/ \E j \in 1..(i - 1), k, l \in Keys :
         /\ req[waiters[i]][k] # "none" /\ req[waiters[j]][l] # "none"
         /\ KeysConflict(k, l)

(* The inductive strengthening of the safety properties.                   *)
IInv ==
  /\ TypeOK /\ MutexInv /\ OnePlaceInQueue /\ NothingLeftBehind
  /\ TableMatchesLeases /\ ExclusiveLeases /\ NobodyForgotten

(* If those who hold leases return them, every call that joined the queue  *)
(* gets its lease unless its own context is cancelled: no deadlock between *)
(* bundles named in different orders, and no starvation of a writer by a   *)
(* stream of readers.                                                      *)
EveryCallEnds ==
  \A c \in Callers :
    pc[c] = "selecting" ~> pc[c] = "held" \/ (ctxDone[c] /\ pc[c] = "idle")

(* The coordinator is the lease service the tools are promised: callers in *)
(* line, all-or-nothing grants, never past somebody who came earlier and   *)
(* wants an overlapping key.                                               *)
Leases == INSTANCE ResourceLeases WITH
  Conflict <- KeysConflict, line <- Queue,
  holders <- {c \in Callers : granted[c]}, ask <- req
ImplementsLeases == Leases!Spec
=============================================================================
