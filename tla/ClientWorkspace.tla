--------------------------- MODULE ClientWorkspace ---------------------------
(***************************************************************************)
(* The workspace document of the command-line client, sessions.json: who   *)
(* writes it, when, and what a restart finds in it.                        *)
(*                                                                         *)
(* The kernel hands a copy of its state to an ordered lane of writes with  *)
(* every event that opens, adopts, renames, focuses or closes a session    *)
(* (harness/reducer.ts, kernel/kernel.ts); reading the document at the     *)
(* start is a link of the same lane.  A write takes time and is not        *)
(* atomic (lib/json.ts).  There are two hosts.  The OpenTUI host uses the  *)
(* kernel alone.  The Ink shell sends focus and close to a second engine   *)
(* (harness/engine-adapter.ts), which has a state of its own and writes    *)
(* the same file.                                                          *)
(*                                                                         *)
(* A document is the set of its session references: titles, history,       *)
(* drafts, cursors and the outbound log ride along.                        *)
(***************************************************************************)
EXTENDS Naturals, Sequences, FiniteSets

CONSTANTS
    Tabs,     \* session references; the client never draws an id twice
    MaxLane   \* bound: links of the lane a user may pile up

ASSUME MaxLaneIsPositive == MaxLane \in Nat \ {0}

Document(sessions) == [kind |-> "document", refs |-> sessions]
\* The link of the lane that reads the document, and a content that does not
\* parse: a write that was cut short or mixed.
Load == [kind |-> "load", refs |-> {}]
Torn == [kind |-> "torn", refs |-> {}]

VARIABLES
    host,      \* "tui" or "ink"
    phase,     \* the process: "down", "created", "loading", "up", "stopping"
    open,      \* HarnessState.sessions of the kernel
    lane,      \* chain: documents to write, and Load
    writing,   \* the head of the lane is being written
    engine,    \* writes of the engine adapter under way
    mixed,     \* the kernel and the engine have been writing at the same time
    file,      \* what sessions.json holds
    \* Observation only.
    wanted,    \* tabs the user opened and did not close
    used,      \* tabs that were ever opened
    handed,    \* the documents this process has handed to the lane, the last one
    spoiled    \* what has happened that the document does not survive

vars == <<host, phase, open, lane, writing, engine, mixed, file, wanted, used, handed, spoiled>>

-----------------------------------------------------------------------------

Documents == {Document(sessions) : sessions \in SUBSET Tabs}
Phases    == {"down", "created", "loading", "up", "stopping"}
Reasons   == {"early", "engine", "cut", "disk"}

TypeOK ==
    /\ host \in {"tui", "ink"}
    /\ phase \in Phases
    /\ open \subseteq Tabs
    /\ lane \in Seq(Documents \cup {Load})
    /\ writing \in BOOLEAN
    /\ engine \in Nat
    /\ mixed \in BOOLEAN
    /\ file \in Documents \cup {Torn}
    /\ wanted \subseteq Tabs
    /\ used \subseteq Tabs
    /\ handed \in Documents \cup {Torn}
    /\ spoiled \in SUBSET Reasons

\* The first start: no document yet.
Init ==
    /\ host \in {"tui", "ink"}
    /\ phase = "down"
    /\ open = {}
    /\ lane = <<>>
    /\ writing = FALSE
    /\ engine = 0
    /\ mixed = FALSE
    /\ file = Document({})
    /\ wanted = {}
    /\ used = {}
    /\ handed = Torn
    /\ spoiled = {}

\* migrateWorkspaceDocument: what is not a document restores nothing.
Decoded(content) == content.refs

Spoils(yes, reason) == spoiled' = IF yes THEN spoiled \cup {reason} ELSE spoiled

-----------------------------------------------------------------------------
(* The process *)

\* The OpenTUI host takes keys before it starts the kernel; the Ink shell
\* creates and starts the kernel in one go.
Boot ==
    /\ phase = "down"
    /\ open' = {}
    /\ handed' = Torn
    /\ \/ host = "tui" /\ phase' = "created" /\ lane' = <<>>
       \/ host = "ink" /\ phase' = "loading" /\ lane' = <<Load>>
    /\ UNCHANGED <<host, writing, engine, mixed, file, wanted, used, spoiled>>

Start ==
    /\ phase = "created"
    /\ phase' = "loading"
    /\ lane' = Append(lane, Load)
    /\ UNCHANGED <<host, open, writing, engine, mixed, file, wanted, used, handed, spoiled>>

\* The exit command of the OpenTUI host: stop, then wait until nothing runs.
Quit ==
    /\ host = "tui"
    /\ phase \in {"created", "loading", "up"}
    /\ phase' = "stopping"
    /\ UNCHANGED <<host, open, lane, writing, engine, mixed, file, wanted, used, handed, spoiled>>

\* Mutant: the exit does not wait for the lane.
ExitsAtOnce == TRUE
Idle == lane = <<>>

Exit ==
    /\ phase = "stopping"
    /\ Idle
    /\ phase' = "down"
    /\ lane' = <<>>
    /\ writing' = FALSE
    /\ UNCHANGED <<host, open, engine, mixed, file, wanted, used, handed, spoiled>>

\* The process ends where it is; so does the Ink shell when it is closed.
Crash ==
    /\ phase # "down"
    /\ phase' = "down"
    /\ lane' = <<>>
    /\ writing' = FALSE
    /\ engine' = 0
    /\ mixed' = FALSE
    /\ Spoils(lane # <<>> \/ engine > 0, "cut")
    /\ UNCHANGED <<host, open, file, wanted, used, handed>>

-----------------------------------------------------------------------------
(* The user *)

Accepts == phase \in {"created", "loading", "up"} /\ Len(lane) < MaxLane

\* Mutants: a link that finds the lane busy is left out; a link is handed no
\* document.
EnqueueIfIdle(q, d) == IF q = <<>> THEN <<d>> ELSE q
EnqueueNothing(q, d) == Append(q, Torn)
Enqueue(q, d) == Append(q, d)

\* persist-sessions: the document is taken from the state the event leaves.
Persist(sessions) ==
    /\ lane' = Enqueue(lane, Document(sessions))
    /\ handed' = Document(sessions)

OpenTab(t) ==
    /\ Accepts
    /\ t \notin used
    /\ open' = open \cup {t}
    /\ Persist(open')
    /\ wanted' = wanted \cup {t}
    /\ used' = used \cup {t}
    /\ Spoils(phase # "up", "early")
    /\ UNCHANGED <<host, phase, writing, engine, mixed, file>>

\* Mutant: the document is taken before the session is removed.
ClosedDocumentStale(t) == open
ClosedDocument(t) == open \ {t}

\* In the Ink shell the event goes to the engine, which does not know the
\* session: nothing changes there, so that there is no such step.
CloseTab(t) ==
    /\ host = "tui"
    /\ Accepts
    /\ t \in open
    /\ open' = open \ {t}
    /\ Persist(ClosedDocument(t))
    /\ wanted' = wanted \ {t}
    /\ Spoils(phase # "up", "early")
    /\ UNCHANGED <<host, phase, writing, engine, mixed, file, used>>

\* Focus, rename and adoption keep the sessions and write the document.
TouchTab(t) ==
    /\ Accepts
    /\ t \in open
    /\ Persist(open)
    /\ Spoils(phase # "up", "early")
    /\ UNCHANGED <<host, phase, open, writing, engine, mixed, file, wanted, used>>

\* The engine was seeded before the kernel had read the document and takes in
\* no session afterwards: what it writes on a focus has none.
EngineFocus(t) ==
    /\ host = "ink"
    /\ phase \in {"loading", "up"}
    /\ t \in open
    /\ engine < 1
    /\ engine' = engine + 1
    /\ file' = Torn
    /\ mixed' = (mixed \/ writing)
    /\ spoiled' = spoiled \cup {"engine"}
    /\ UNCHANGED <<host, phase, open, lane, writing, wanted, used, handed>>

-----------------------------------------------------------------------------
(* The lane and the file *)

\* Two writers that overlapped may leave the one's text or a mixture.
Written(document) == IF mixed THEN {document, Torn} ELSE {document}

EngineWrites ==
    /\ engine > 0
    /\ engine' = engine - 1
    /\ file' \in Written(Document({}))
    /\ mixed' = (mixed /\ writing)
    /\ UNCHANGED <<host, phase, open, lane, writing, wanted, used, handed, spoiled>>

\* It fails midway; its error is swallowed like that of the lane.
EngineWriteFails ==
    /\ engine > 0
    /\ engine' = engine - 1
    /\ mixed' = (mixed /\ writing)
    /\ Spoils(TRUE, "disk")
    /\ UNCHANGED <<host, phase, open, lane, writing, file, wanted, used, handed>>

\* applyWorkspaceToState: the sessions of the document replace those in memory.
Restore ==
    /\ lane # <<>>
    /\ Head(lane) = Load
    /\ open' = Decoded(file)
    /\ phase' = IF phase = "loading" THEN "up" ELSE phase
    /\ lane' = Tail(lane)
    /\ Spoils(engine > 0, "cut")
    /\ UNCHANGED <<host, writing, engine, mixed, file, wanted, used, handed>>

WriteBegins ==
    /\ lane # <<>>
    /\ Head(lane) # Load
    /\ ~writing
    /\ writing' = TRUE
    /\ file' = Torn
    /\ mixed' = (mixed \/ engine > 0)
    /\ UNCHANGED <<host, phase, open, lane, engine, wanted, used, handed, spoiled>>

WriteEnds ==
    /\ writing
    /\ writing' = FALSE
    /\ file' \in Written(Head(lane))
    /\ mixed' = (mixed /\ engine > 0)
    /\ lane' = Tail(lane)
    /\ UNCHANGED <<host, phase, open, engine, wanted, used, handed, spoiled>>

\* The write of the head fails before it has touched the file, or midway: the
\* file is written in place, so what is there by then stays.  The lane goes on
\* without it; sessions-persist-failed is only reported.
WriteFails ==
    /\ lane # <<>>
    /\ Head(lane) # Load
    /\ lane' = Tail(lane)
    /\ writing' = FALSE
    /\ mixed' = (mixed /\ engine > 0)
    /\ Spoils(TRUE, "disk")
    /\ UNCHANGED <<host, phase, open, engine, file, wanted, used, handed>>

-----------------------------------------------------------------------------

Next ==
    \/ Boot \/ Start \/ Quit \/ Exit \/ Crash
    \/ \E t \in Tabs : OpenTab(t) \/ CloseTab(t) \/ TouchTab(t) \/ EngineFocus(t)
    \/ EngineWrites \/ EngineWriteFails \/ Restore \/ WriteBegins \/ WriteEnds \/ WriteFails

Spec == Init /\ [][Next]_vars

-----------------------------------------------------------------------------
(* Properties *)

\* What a started client shows is what the user has open, across any number of
\* exits, crashes and restarts -- unless a write failed or was cut, the user
\* acted before the document was read, or the engine wrote.
SessionsSurvive == phase = "up" /\ spoiled = {} => open = wanted

\* "The newest state is always the last one written" (kernel/kernel.ts:453):
\* when the lane is idle the file holds the last document it was handed, also
\* when the user acted before the load.
LastWriteWins ==
    lane = <<>> /\ handed # Torn /\ phase # "down" /\ spoiled \cap {"engine", "disk"} = {}
        => file = handed

\* A document that does not parse is one that is being written, or was left by a
\* write that was cut short -- the process died or the write failed under way --
\* or by two writers: an orderly exit, whatever the lane holds, leaves none.
TornOnlyWhenCut ==
    file = Torn => writing \/ engine > 0 \/ spoiled \cap {"cut", "disk", "engine"} # {}

\* "Everything here is what the CLI owns and must survive a restart: open
\* session references" (harness/workspace.ts:4): the focus of a tab in the Ink
\* shell is no reason to lose one.
OpenSessionsSurvive == phase = "up" /\ spoiled \subseteq {"engine"} => open = wanted
=============================================================================
