-------------------------- MODULE WorkItemRefinement --------------------------
(***************************************************************************)
(* The work-item queue implements QueueContract.  An item is held, in the  *)
(* sense of the contract, by the worker of its latest claim while that     *)
(* claim still carries the generation of the item: the fence of a cancel   *)
(* is a revocation that leaves the row alone.                              *)
(***************************************************************************)
EXTENDS WorkItemQueue

\* SQL NULL is neither a worker with a generation nor a claim reply.
ASSUME HoldersAssumption ==
    /\ None \notin [worker : Workers, generation : Nat]
    /\ None \notin [item : Items, worker : Workers, generation : Nat, attempt : Nat]

Phase(r) ==
    CASE runStatus[r] = "Absent"    -> "absent"
      [] runStatus[r] \in TerminalRun -> runStatus[r]
      [] OTHER                      -> "open"

\* The latest claim of i is still good.
Current(i) ==
    /\ itemStatus[i] = "Running"
    /\ \E c \in claims : IsLatest(c, i) /\ c.generation = itemGen[i]

HolderOf(i) ==
    IF Current(i) THEN [worker |-> leasedBy[i], generation |-> itemGen[i]] ELSE None

AuthorOf(i) ==
    IF result[i] = None THEN None
    ELSE [worker |-> result[i].worker, generation |-> result[i].generation]

Contract == INSTANCE QueueContract WITH
    Plan      <- Items \ FollowUps,
    Holders   <- [worker : Workers, generation : Nat],
    phase     <- [r \in Runs |-> Phase(r)],
    announced <- outbox,
    holder    <- [i \in Items |-> HolderOf(i)],
    author    <- [i \in Items |-> AuthorOf(i)]

\* Every behaviour of the queue, its cancels interrupted, its workers late, its
\* calls repeated, is one the contract allows.
ImplementsContract == Contract!Spec

=============================================================================
