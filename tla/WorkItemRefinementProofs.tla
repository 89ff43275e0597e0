----------------------- MODULE WorkItemRefinementProofs -----------------------
(***************************************************************************)
(* The proof that the work-item queue implements QueueContract, for every  *)
(* value of the constants.                                                 *)
(***************************************************************************)
EXTENDS WorkItemRefinement, WorkItemLeaseProofs

\* The invariants the mapping of a step rests on.
QueueInv == TypeOK /\ RunInv /\ CancelInv /\ LeaseInv /\ FenceInv /\ ResultInv

LEMMA QueueInvariant == Spec => []QueueInv
  BY RunAndCancelInv, LeaseInvariant, FenceInvariant, ResultInvariant, PTL DEF QueueInv

LEMMA QueueInvStep == ASSUME QueueInv, [Next]_vars PROVE QueueInv'
<1>1. TypeOK'
  BY TypeStep DEF QueueInv
<1>2. RunInv' /\ CancelInv'
  BY RunInvStep, CancelInvStep DEF QueueInv
<1>3. LeaseInv' /\ FenceInv' /\ ResultInv'
  BY LeaseStep, FenceStep, ResultStep DEF QueueInv, RunInv, FenceInv
<1>. QED
  BY <1>1, <1>2, <1>3 DEF QueueInv

-----------------------------------------------------------------------------
(* The mapped variables are well typed *)

Mapped ==
    /\ [r \in Runs |-> Phase(r)] \in [Runs -> Contract!Phases]
    /\ outbox \in [Runs -> Nat]
    /\ [i \in Items |-> HolderOf(i)]
            \in [Items -> [worker : Workers, generation : Nat] \cup {None}]
    /\ [i \in Items |-> AuthorOf(i)]
            \in [Items -> [worker : Workers, generation : Nat] \cup {None}]

LEMMA MappedHolds == QueueInv => Mapped
<1>. SUFFICES ASSUME QueueInv PROVE Mapped
  OBVIOUS
<1>1. ASSUME NEW r \in Runs PROVE Phase(r) \in Contract!Phases
  BY DEF QueueInv, TypeOK, Phase, TerminalRun, Contract!Phases
<1>2. ASSUME NEW i \in Items
      PROVE  HolderOf(i) \in [worker : Workers, generation : Nat] \cup {None}
  BY DEF QueueInv, TypeOK, LeaseInv, LeaseConsistent, HolderOf, Current
<1>3. ASSUME NEW i \in Items
      PROVE  AuthorOf(i) \in [worker : Workers, generation : Nat] \cup {None}
  BY DEF QueueInv, TypeOK, Claims, AuthorOf
<1>. QED
  BY <1>1, <1>2, <1>3 DEF QueueInv, TypeOK, Mapped

-----------------------------------------------------------------------------
(* How a step moves the runs *)

\* What a store transaction may do to a run.
RunMove(r) ==
    \/ runStatus'[r] = runStatus[r] /\ outbox'[r] = outbox[r]
    \/ runStatus[r] = "Absent" /\ runStatus'[r] = "Queued" /\ outbox'[r] = outbox[r]
    \/ runStatus[r] = "Queued" /\ runStatus'[r] = "Running" /\ outbox'[r] = outbox[r]
    \/ /\ runStatus[r] = "Running"
       /\ runStatus'[r] \in {"Succeeded", "Failed"}
       /\ outbox'[r] = outbox[r] + 1
    \/ /\ runStatus[r] \notin TerminalRun \cup {"Absent"}
       /\ runStatus'[r] = "Cancelled"
       /\ outbox'[r] = outbox[r]

\* An item that is not Running, or whose claims were all fenced, has no holder.
LEMMA NoHolder ==
  ASSUME NEW i \in Items,
         itemStatus[i] # "Running" \/ \A c \in claims : c.item = i => c.generation # itemGen[i]
  PROVE  HolderOf(i) = None
  BY DEF HolderOf, Current, IsLatest

\* A concluded run has none of its items held, a cancelled one none of its
\* planned ones.
ClosedUnheld ==
    \A r \in Runs :
        /\ runStatus[r] \in {"Succeeded", "Failed"} =>
              \A i \in Items : RunOf[i] = r => HolderOf(i) = None
        /\ runStatus[r] = "Cancelled" =>
              \A i \in Items \ FollowUps : RunOf[i] = r => HolderOf(i) = None

LEMMA ClosedUnheldHolds == QueueInv => ClosedUnheld
<1>. SUFFICES ASSUME QueueInv, NEW r \in Runs
              PROVE  /\ runStatus[r] \in {"Succeeded", "Failed"} =>
                          \A i \in Items : RunOf[i] = r => HolderOf(i) = None
                     /\ runStatus[r] = "Cancelled" =>
                          \A i \in Items \ FollowUps : RunOf[i] = r => HolderOf(i) = None
  BY DEF ClosedUnheld
<1>1. ASSUME NEW i \in Items, RunOf[i] = r, runStatus[r] \in {"Succeeded", "Failed"}
      PROVE  itemStatus[i] # "Running"
  BY <1>1 DEF QueueInv, RunInv, TerminalRunClosed, Open, ItemsOf, OpenItem
<1>2. ASSUME NEW i \in Items \ FollowUps, RunOf[i] = r, runStatus[r] = "Cancelled",
             itemStatus[i] = "Running", NEW c \in claims, c.item = i
      PROVE  c.generation # itemGen[i]
  <2>1. c.generation < itemGen[i] /\ c.generation \in Nat /\ itemGen[i] \in Nat
    BY <1>2 DEF QueueInv, FenceInv, PlanItemsFenced, Planned, ItemsOf, TypeOK, Claims
  <2>. QED
    BY <2>1
<1>. QED
  BY <1>1, <1>2, NoHolder

LEMMA RunsMapped ==
  ASSUME QueueInv, QueueInv', \A r \in Runs : RunMove(r)
  PROVE  \A r \in Runs : \/ Contract!RunKept(r) \/ Contract!Opened(r)
                         \/ Contract!Concluded(r) \/ Contract!Withdrawn(r)
<1>. SUFFICES ASSUME NEW r \in Runs
              PROVE  \/ Contract!RunKept(r) \/ Contract!Opened(r)
                     \/ Contract!Concluded(r) \/ Contract!Withdrawn(r)
  OBVIOUS
<1>0. ClosedUnheld'
  BY ClosedUnheldHolds, PTL
<1>1. CASE runStatus'[r] = runStatus[r] /\ outbox'[r] = outbox[r]
  BY <1>1 DEF Contract!RunKept, Phase
<1>2. CASE runStatus[r] = "Absent" /\ runStatus'[r] = "Queued" /\ outbox'[r] = outbox[r]
  BY <1>2 DEF Contract!Opened, Phase, TerminalRun
<1>3. CASE runStatus[r] = "Queued" /\ runStatus'[r] = "Running" /\ outbox'[r] = outbox[r]
  BY <1>3 DEF Contract!RunKept, Phase, TerminalRun
<1>4. CASE /\ runStatus[r] = "Running"
           /\ runStatus'[r] \in {"Succeeded", "Failed"}
           /\ outbox'[r] = outbox[r] + 1
  <2>1. \A i \in Items : RunOf[i] = r => HolderOf(i)' = None
    BY <1>0, <1>4 DEF ClosedUnheld
  <2>. QED
    BY <1>4, <2>1 DEF Contract!Concluded, Phase, TerminalRun
<1>5. CASE /\ runStatus[r] \notin TerminalRun \cup {"Absent"}
           /\ runStatus'[r] = "Cancelled"
           /\ outbox'[r] = outbox[r]
  <2>1. \A i \in Items \ FollowUps : RunOf[i] = r => HolderOf(i)' = None
    BY <1>0, <1>5 DEF ClosedUnheld
  <2>. QED
    BY <1>5, <2>1 DEF Contract!Withdrawn, Phase, TerminalRun
<1>. QED
  BY <1>1, <1>2, <1>3, <1>4, <1>5 DEF RunMove

LEMMA RunMoves == ASSUME QueueInv, [Next]_vars PROVE \A r \in Runs : RunMove(r)
<1>1. CASE UNCHANGED vars
  BY <1>1 DEF RunMove, vars, runVars
<1>2. ASSUME NEW q \in Runs, Launch(q) PROVE \A r \in Runs : RunMove(r)
  BY <1>2 DEF RunMove, Launch, QueueInv, TypeOK
<1>3. ASSUME NEW i \in Items, Steer(i) PROVE \A r \in Runs : RunMove(r)
  BY <1>3 DEF RunMove, Steer, runVars
<1>4. ASSUME NEW w \in Workers, NEW i \in Items, Claim(w, i) PROVE \A r \in Runs : RunMove(r)
  BY <1>4 DEF RunMove, Claim, QueueInv, TypeOK
<1>5. ASSUME NEW c \in claims, Heartbeat(c) PROVE \A r \in Runs : RunMove(r)
  BY <1>5 DEF RunMove, Heartbeat, runVars
<1>6. ASSUME NEW c \in claims, Complete(c) \/ Fail(c) PROVE \A r \in Runs : RunMove(r)
  BY <1>6 DEF RunMove, Complete, Fail, Finalize, Announced, Concludes, Outcome
<1>7. CASE Tick
  BY <1>7 DEF RunMove, Tick, runVars
<1>8. CASE Reap
  BY <1>8 DEF RunMove, Reap, Finalize, Announced, Concludes, Outcome
<1>9. ASSUME NEW o \in Operators, NEW q \in Runs, CancelRead(o, q)
      PROVE  \A r \in Runs : RunMove(r)
  BY <1>9 DEF RunMove, CancelRead, runVars
<1>10. ASSUME NEW o \in Operators, CancelCommit(o) PROVE \A r \in Runs : RunMove(r)
  <2>1. "Cancelled" \in RunTargets(runStatus[cancel[o].run])
    BY <1>10 DEF CancelCommit, FoundAsRead, CancelInv, QueueInv
  <2>2. runStatus[cancel[o].run] \notin TerminalRun \cup {"Absent"}
    BY <2>1, Cancellable DEF TerminalRun
  <2>. QED
    BY <1>10, <2>2 DEF RunMove, CancelCommit, QueueInv, TypeOK
<1>11. ASSUME NEW o \in Operators,
              CancelItems(o) \/ CancelMiss(o) \/ CancelRetry(o) \/ CancelAbort(o)
       PROVE  \A r \in Runs : RunMove(r)
  BY <1>11 DEF RunMove, CancelItems, CancelMiss, CancelRetry, CancelAbort, runVars
<1>. QED
  BY <1>1, <1>2, <1>3, <1>4, <1>5, <1>6, <1>7, <1>8, <1>9, <1>10, <1>11 DEF Next, CancelStep

-----------------------------------------------------------------------------
(* How a step moves the items *)

\* The contract's steps of an item, said of the mapped values.
ItemMove(i) ==
    \/ HolderOf(i)' = HolderOf(i) /\ AuthorOf(i)' = AuthorOf(i)
    \/ /\ Phase(RunOf[i]) = "open"
       /\ HolderOf(i) = None /\ AuthorOf(i) = None
       /\ HolderOf(i)' # None /\ AuthorOf(i)' = None
    \/ HolderOf(i)' = None /\ AuthorOf(i)' = AuthorOf(i)
    \/ HolderOf(i) # None /\ HolderOf(i)' = None /\ AuthorOf(i)' = HolderOf(i)

LEMMA ItemsMapped ==
  ASSUME QueueInv, QueueInv', \A i \in Items : ItemMove(i)
  PROVE  \A i \in Items : \/ Contract!ItemKept(i) \/ Contract!Granted(i)
                          \/ Contract!Revoked(i) \/ Contract!Finished(i)
<1>1. Mapped'
  BY MappedHolds, PTL
<1>2. \A i \in Items : HolderOf(i)' \in [worker : Workers, generation : Nat] \cup {None}
  BY <1>1 DEF Mapped
<1>3. \A i \in Items : RunOf[i] \in Runs
  BY RunOfAssumption
<1>. QED
  BY <1>2, <1>3
     DEF ItemMove, Contract!ItemKept, Contract!Granted, Contract!Revoked, Contract!Finished

\* A row a step leaves alone keeps its holder, and one that is not Running
\* afterwards has none.
LEMMA ItemKeptOrFreed ==
  ASSUME NEW i \in Items, result'[i] = result[i],
         \/ itemStatus'[i] # "Running"
         \/ /\ itemStatus'[i] = itemStatus[i] /\ leasedBy'[i] = leasedBy[i]
            /\ attempt'[i] = attempt[i] /\ itemGen'[i] = itemGen[i]
            /\ \A c \in claims \cup claims' : c.item = i => c \in claims /\ c \in claims'
  PROVE  ItemMove(i)
<1>1. AuthorOf(i)' = AuthorOf(i)
  BY DEF AuthorOf
<1>2. CASE itemStatus'[i] # "Running"
  BY <1>1, <1>2 DEF ItemMove, HolderOf, Current
<1>3. CASE /\ itemStatus'[i] = itemStatus[i] /\ leasedBy'[i] = leasedBy[i]
           /\ attempt'[i] = attempt[i] /\ itemGen'[i] = itemGen[i]
           /\ \A c \in claims \cup claims' : c.item = i => c \in claims /\ c \in claims'
  <2>1. Current(i)' <=> Current(i)
    BY <1>3 DEF Current, IsLatest
  <2>2. HolderOf(i)' = HolderOf(i)
    BY <1>3, <2>1 DEF HolderOf
  <2>. QED
    BY <1>1, <2>2 DEF ItemMove
<1>. QED
  BY <1>2, <1>3

\* A claim makes its worker the holder; a Queued item has no result.
LEMMA ClaimGrants ==
  ASSUME QueueInv, QueueInv', NEW w \in Workers, NEW i \in Items, Claim(w, i)
  PROVE  ItemMove(i)
<1> DEFINE d == [item |-> i, worker |-> w, generation |-> runGen[RunOf[i]],
                 attempt |-> attempt[i] + 1]
<1>1. /\ itemStatus[i] = "Queued"
      /\ runStatus[RunOf[i]] \notin TerminalRun
      /\ itemStatus'[i] = "Running" /\ leasedBy'[i] = w
      /\ attempt'[i] = attempt[i] + 1 /\ itemGen'[i] = runGen[RunOf[i]]
      /\ d \in claims' /\ result' = result
  BY DEF Claim, Claimable, QueueInv, TypeOK
<1>2. result[i] = None
  BY <1>1 DEF QueueInv, ResultInv
<1>3. HolderOf(i) = None
  BY <1>1 DEF HolderOf, Current
<1>4. Phase(RunOf[i]) = "open"
  BY <1>1 DEF Phase, QueueInv, RunInv, NothingBeforeLaunch
<1>5. Current(i)'
  BY <1>1 DEF Current, IsLatest
<1>7. runGen[RunOf[i]] \in Nat
  BY RunOfAssumption DEF QueueInv, TypeOK
<1>6. HolderOf(i)' # None
  <2>1. HolderOf(i)' = [worker |-> leasedBy'[i], generation |-> itemGen'[i]]
    BY <1>5 DEF HolderOf
  <2>. QED
    BY <1>1, <1>7, <2>1, HoldersAssumption
<1>. QED
  BY <1>1, <1>2, <1>3, <1>4, <1>6 DEF ItemMove, AuthorOf

\* A call that finishes an item was made by its holder, and leaves it none.
LEMMA FinishMoves ==
  ASSUME QueueInv, NEW c \in claims, Complete(c) \/ Fail(c), NEW i \in Items
  PROVE  ItemMove(i)
<1>1. /\ c \in Claims /\ c.item \in Items
      /\ Owns(c)
      /\ itemStatus'[c.item] \in {"Succeeded", "Failed"}
      /\ \A j \in Items \ {c.item} :
            \/ itemStatus'[j] = itemStatus[j]
            \/ itemStatus[j] = "Blocked" /\ itemStatus'[j] = "Queued"
      /\ \A j \in Items : leasedBy'[j] = IF j = c.item THEN None ELSE leasedBy[j]
      /\ attempt' = attempt /\ itemGen' = itemGen /\ claims' = claims
      /\ result' = [result EXCEPT ![c.item] = c]
  <2>1. /\ \A j \in Items : leasedBy'[j] = IF j = c.item THEN None ELSE leasedBy[j]
        /\ attempt' = attempt /\ itemGen' = itemGen /\ claims' = claims
        /\ result' = [result EXCEPT ![c.item] = c]
    BY DEF Complete, Fail, Release
  <2>. QED
    BY <2>1, FinishItems DEF QueueInv
<1>2. CASE i = c.item
  <2>1. itemStatus[i] = "Running" /\ leasedBy[i] = c.worker /\ itemGen[i] = c.generation
    BY <1>1, <1>2 DEF Owns
  <2>2. Current(i)
    BY <1>1, <1>2, <2>1, OwnsLatest DEF Current, QueueInv, FenceInv
  <2>3. HolderOf(i) = [worker |-> c.worker, generation |-> c.generation]
    BY <2>1, <2>2 DEF HolderOf
  <2>4. result'[i] = c /\ c # None
    BY <1>1, <1>2, HoldersAssumption DEF QueueInv, TypeOK, Claims
  <2>5. AuthorOf(i)' = HolderOf(i)
    BY <2>3, <2>4 DEF AuthorOf
  <2>6. HolderOf(i)' = None
    BY <1>1, <1>2 DEF HolderOf, Current
  <2>7. HolderOf(i) # None
    BY <1>1, <2>3, HoldersAssumption DEF Claims
  <2>. QED
    BY <2>5, <2>6, <2>7 DEF ItemMove
<1>3. CASE i # c.item
  <2>1. result'[i] = result[i]
    BY <1>1, <1>3
  <2>2. itemStatus'[i] # "Running" \/ itemStatus'[i] = itemStatus[i]
    BY <1>1, <1>3
  <2>. QED
    BY <1>1, <1>3, <2>1, <2>2, ItemKeptOrFreed
<1>. QED
  BY <1>2, <1>3

\* The commit of a cancel takes the items of the plan from their holders.
LEMMA CancelMoves ==
  ASSUME QueueInv, QueueInv', NEW o \in Operators, CancelCommit(o), NEW i \in Items
  PROVE  ItemMove(i)
<1>1. /\ claims' = claims /\ result' = result /\ attempt' = attempt /\ leasedBy' = leasedBy
      /\ itemStatus'[i] = itemStatus[i] \/ itemStatus'[i] = "Cancelled"
      /\ \/ itemGen'[i] = itemGen[i]
         \/ itemGen'[i] = itemGen[i] + 1
  BY DEF CancelCommit, CancelledItems, FencedItems, callVars
<1>2. CASE itemGen'[i] = itemGen[i]
  BY <1>1, <1>2, ItemKeptOrFreed
<1>3. CASE itemGen'[i] = itemGen[i] + 1
  <2>1. \A c \in claims : c.item = i => c.generation # itemGen'[i]
    <3>1. \A c \in claims : c.generation <= itemGen[c.item] /\ c.generation \in Nat
      BY DEF QueueInv, FenceInv, GenerationInv, TypeOK, Claims
    <3>2. itemGen[i] \in Nat
      BY DEF QueueInv, TypeOK
    <3>. QED
      BY <1>3, <3>1, <3>2
  <2>2. HolderOf(i)' = None
    BY <1>1, <2>1 DEF HolderOf, Current, IsLatest
  <2>3. AuthorOf(i)' = AuthorOf(i)
    BY <1>1 DEF AuthorOf
  <2>. QED
    BY <2>2, <2>3 DEF ItemMove
<1>. QED
  BY <1>1, <1>2, <1>3

LEMMA ItemMoves == ASSUME QueueInv, QueueInv', [Next]_vars PROVE \A i \in Items : ItemMove(i)
<1>. SUFFICES ASSUME NEW i \in Items PROVE ItemMove(i)
  OBVIOUS
<1>1. CASE UNCHANGED vars
  BY <1>1, ItemKeptOrFreed DEF vars, itemVars, leaseVars, callVars
<1>2. ASSUME NEW r \in Runs, Launch(r) PROVE ItemMove(i)
  <2>1. itemStatus'[i] # "Running" \/ itemStatus'[i] = itemStatus[i]
    BY <1>2 DEF Launch, InitialStatus
  <2>. QED
    BY <1>2, <2>1, ItemKeptOrFreed DEF Launch, leaseVars, callVars
<1>3. ASSUME NEW j \in Items, Steer(j) PROVE ItemMove(i)
  <2>1. itemStatus'[i] # "Running" \/ itemStatus'[i] = itemStatus[i]
    BY <1>3 DEF Steer, QueueInv, TypeOK
  <2>. QED
    BY <1>3, <2>1, ItemKeptOrFreed DEF Steer, leaseVars, callVars
<1>4. ASSUME NEW w \in Workers, NEW j \in Items, Claim(w, j) PROVE ItemMove(i)
  <2>1. CASE i = j
    BY <1>4, <2>1, ClaimGrants
  <2>2. CASE i # j
    <3> DEFINE d == [item |-> j, worker |-> w, generation |-> runGen[RunOf[j]],
                     attempt |-> attempt[j] + 1]
    <3>1. claims' = claims \cup {d} /\ d.item = j
      BY <1>4 DEF Claim
    <3>. HIDE DEF d
    <3>2. \A c \in claims \cup claims' : c.item = i => c \in claims /\ c \in claims'
      BY <2>2, <3>1
    <3>3. /\ itemStatus'[i] = itemStatus[i] /\ leasedBy'[i] = leasedBy[i]
          /\ attempt'[i] = attempt[i] /\ itemGen'[i] = itemGen[i] /\ result'[i] = result[i]
      BY <1>4, <2>2 DEF Claim, QueueInv, TypeOK
    <3>. QED
      BY <3>2, <3>3, ItemKeptOrFreed
  <2>. QED
    BY <2>1, <2>2
<1>5. ASSUME NEW c \in claims, Heartbeat(c) PROVE ItemMove(i)
  BY <1>5, ItemKeptOrFreed DEF Heartbeat, callVars
<1>6. ASSUME NEW c \in claims, Complete(c) \/ Fail(c) PROVE ItemMove(i)
  BY <1>6, FinishMoves
<1>7. CASE Tick
  BY <1>7, ItemKeptOrFreed DEF Tick, callVars
<1>8. CASE Reap
  <2>1. \/ itemStatus'[i] # "Running"
        \/ itemStatus'[i] = itemStatus[i] /\ leasedBy'[i] = leasedBy[i]
    BY <1>8 DEF Reap, Finalize, Release
  <2>. QED
    BY <1>8, <2>1, ItemKeptOrFreed DEF Reap, callVars
<1>9. ASSUME NEW o \in Operators, NEW r \in Runs, CancelRead(o, r) PROVE ItemMove(i)
  BY <1>9, ItemKeptOrFreed DEF CancelRead, itemVars, leaseVars, callVars
<1>10. ASSUME NEW o \in Operators, CancelCommit(o) PROVE ItemMove(i)
  BY <1>10, CancelMoves
<1>11. ASSUME NEW o \in Operators,
              CancelItems(o) \/ CancelMiss(o) \/ CancelRetry(o) \/ CancelAbort(o)
       PROVE  ItemMove(i)
  BY <1>11, ItemKeptOrFreed
     DEF CancelItems, CancelMiss, CancelRetry, CancelAbort, itemVars, leaseVars, callVars
<1>. QED
  BY <1>1, <1>2, <1>3, <1>4, <1>5, <1>6, <1>7, <1>8, <1>9, <1>10, <1>11 DEF Next, CancelStep

-----------------------------------------------------------------------------
(* The refinement *)

LEMMA ContractInit == Init => Contract!Init
<1>. SUFFICES ASSUME Init PROVE Contract!Init
  OBVIOUS
<1>1. \A r \in Runs : Phase(r) = "absent"
  BY DEF Init, Phase, TerminalRun
<1>2. \A i \in Items : HolderOf(i) = None
  BY DEF Init, HolderOf, Current
<1>3. \A i \in Items : AuthorOf(i) = None
  BY DEF Init, AuthorOf
<1>4. /\ [r \in Runs |-> Phase(r)] = [r \in Runs |-> "absent"]
      /\ outbox = [r \in Runs |-> 0]
      /\ [i \in Items |-> HolderOf(i)] = [i \in Items |-> None]
      /\ [i \in Items |-> AuthorOf(i)] = [i \in Items |-> None]
  BY <1>1, <1>2, <1>3 DEF Init
<1>. QED
  BY <1>4 DEF Contract!Init

LEMMA ContractStep ==
  ASSUME QueueInv, QueueInv', [Next]_vars PROVE [Contract!Next]_(Contract!contractVars)
<1>1. Mapped'
  BY MappedHolds, PTL
<1>2. \A r \in Runs : \/ Contract!RunKept(r) \/ Contract!Opened(r)
                      \/ Contract!Concluded(r) \/ Contract!Withdrawn(r)
  BY RunMoves, RunsMapped
<1>3. \A i \in Items : \/ Contract!ItemKept(i) \/ Contract!Granted(i)
                       \/ Contract!Revoked(i) \/ Contract!Finished(i)
  BY ItemMoves, ItemsMapped
<1>. QED
  BY <1>1, <1>2, <1>3 DEF Contract!Next, Mapped

\* The queue implements its contract: whatever the interleaving of claims,
\* late calls, reaps and cancels, runs open and close once, a concluded run is
\* announced once, and an item is finished once, by the party that held it.
THEOREM QueueImplementsContract == Spec => ImplementsContract
<1>1. Spec => [][Contract!Next]_(Contract!contractVars)
  <2>1. QueueInv /\ QueueInv' /\ [Next]_vars => [Contract!Next]_(Contract!contractVars)
    BY ContractStep
  <2>. QED
    BY <2>1, QueueInvariant, PTL DEF Spec
<1>. QED
  BY <1>1, ContractInit DEF Spec, ImplementsContract, Contract!Spec

=============================================================================
