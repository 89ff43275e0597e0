---------------------------- MODULE QueueContract ----------------------------
(***************************************************************************)
(* What the queue promises, without leases, attempts, generations or locks *)
(* of its own: a run is opened once and closed once, a concluded run is    *)
(* announced once, an item is finished at most once, and by the one party  *)
(* that held it.                                                           *)
(***************************************************************************)
EXTENDS Naturals

CONSTANTS
    Runs,
    Items,
    RunOf,      \* the run of an item
    Plan,       \* the items that come with the plan of their run
    Holders,    \* who may hold an item
    None

VARIABLES
    phase,      \* "absent", "open" or how the run was closed
    announced,  \* announcements of its conclusion
    holder,     \* who may finish the item
    author      \* who finished it

contractVars == <<phase, announced, holder, author>>

Phases == {"absent", "open", "Succeeded", "Failed", "Cancelled"}

Init ==
    /\ phase     = [r \in Runs |-> "absent"]
    /\ announced = [r \in Runs |-> 0]
    /\ holder    = [i \in Items |-> None]
    /\ author    = [i \in Items |-> None]

-----------------------------------------------------------------------------
RunKept(r) ==
    /\ phase'[r] = phase[r]
    /\ announced'[r] = announced[r]

Opened(r) ==
    /\ phase[r] = "absent"
    /\ phase'[r] = "open"
    /\ announced'[r] = announced[r]

\* A concluded run is announced in the same step and leaves no item held.
Concluded(r) ==
    /\ phase[r] = "open"
    /\ phase'[r] \in {"Succeeded", "Failed"}
    /\ announced'[r] = announced[r] + 1
    /\ \A i \in Items : RunOf[i] = r => holder'[i] = None

\* Withdrawing a run takes every item of its plan away from its holder.
Withdrawn(r) ==
    /\ phase[r] = "open"
    /\ phase'[r] = "Cancelled"
    /\ announced'[r] = announced[r]
    /\ \A i \in Plan : RunOf[i] = r => holder'[i] = None

-----------------------------------------------------------------------------
ItemKept(i) ==
    /\ holder'[i] = holder[i]
    /\ author'[i] = author[i]

\* Items are handed out while their run is open, one holder at a time.
Granted(i) ==
    /\ phase[RunOf[i]] = "open"
    /\ holder[i] = None
    /\ author[i] = None
    /\ holder'[i] \in Holders
    /\ author'[i] = None

Revoked(i) ==
    /\ holder'[i] = None
    /\ author'[i] = author[i]

\* Only the holder finishes an item.
Finished(i) ==
    /\ holder[i] # None
    /\ holder'[i] = None
    /\ author'[i] = holder[i]

\* One store transaction may move several runs and items.
Next ==
    /\ phase' \in [Runs -> Phases]
    /\ announced' \in [Runs -> Nat]
    /\ holder' \in [Items -> Holders \cup {None}]
    /\ author' \in [Items -> Holders \cup {None}]
    /\ \A r \in Runs : RunKept(r) \/ Opened(r) \/ Concluded(r) \/ Withdrawn(r)
    /\ \A i \in Items : ItemKept(i) \/ Granted(i) \/ Revoked(i) \/ Finished(i)

Spec == Init /\ [][Next]_contractVars

=============================================================================
