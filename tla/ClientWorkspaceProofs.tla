----------------------- MODULE ClientWorkspaceProofs -----------------------
(***************************************************************************)
(* Theorems about ClientWorkspace: types, what a torn document takes, the  *)
(* last write, and what a restart finds.                                   *)
(***************************************************************************)
EXTENDS ClientWorkspace, TLAPS

-----------------------------------------------------------------------------
(* Documents and lanes *)

Contents == Documents \cup {Load}

\* A document is neither the link that reads nor a torn content, and it is the
\* document of one set of sessions.
LEMMA DocumentKinds ==
  ASSUME NEW s, NEW u
  PROVE  /\ Document(s) # Load
         /\ Document(s) # Torn
         /\ Load # Torn
         /\ Document(s) = Document(u) => s = u
         /\ Decoded(Document(s)) = s
         /\ Decoded(Torn) = {}
<1>1. Document(s).kind = "document" /\ Load.kind = "load" /\ Torn.kind = "torn"
  BY DEF Document, Load, Torn
<1>2. Document(s).refs = s /\ Document(u).refs = u /\ Torn.refs = {}
  BY DEF Document, Torn
<1>. QED
  BY <1>1, <1>2 DEF Decoded

\* The links of a lane after it has taken one more, and after it has lost the
\* first.
LEMMA LaneGrows ==
  ASSUME NEW S, NEW q \in Seq(S), NEW d \in S
  PROVE  /\ Append(q, d) \in Seq(S)
         /\ Append(q, d) # <<>>
         /\ Len(Append(q, d)) = Len(q) + 1
         /\ Append(q, d)[Len(q) + 1] = d
         /\ \A i \in 1..Len(q) : Append(q, d)[i] = q[i]
  OBVIOUS

LEMMA LaneShrinks ==
  ASSUME NEW S, NEW q \in Seq(S), q # <<>>
  PROVE  /\ Tail(q) \in Seq(S)
         /\ Len(q) \in Nat \ {0}
         /\ Len(Tail(q)) = Len(q) - 1
         /\ Head(q) = q[1]
         /\ Head(q) \in S
         /\ \A i \in 1..(Len(q) - 1) : Tail(q)[i] = q[i + 1]
  OBVIOUS

\* What a write of a document can leave.
LEMMA WriteLeaves ==
  ASSUME TypeOK, NEW d \in Documents
  PROVE  /\ Written(d) \subseteq Documents \cup {Torn}
         /\ ~mixed => Written(d) = {d}
  BY DEF Written, TypeOK

-----------------------------------------------------------------------------
(* Types *)

\* A write is that of the first link, a process that is down has no lane, and
\* two writers only meet when the engine writes.
WritersOK ==
    /\ writing => lane # <<>> /\ Head(lane) # Load
    /\ phase = "down" => lane = <<>>
    /\ engine > 0 \/ mixed => "engine" \in spoiled

LEMMA TypeInit == Init => TypeOK /\ WritersOK
<1>. SUFFICES ASSUME Init PROVE TypeOK /\ WritersOK
  OBVIOUS
<1>1. Document({}) \in Documents
  BY DEF Documents
<1>2. lane \in Seq(Documents \cup {Load})
  BY DEF Init
<1>3. ~writing /\ ~mixed /\ ~(engine > 0)
  <2>1. writing = FALSE /\ mixed = FALSE /\ engine = 0
    BY DEF Init
  <2>. QED
    BY <2>1
<1>4. TypeOK
  BY <1>1, <1>2 DEF Init, TypeOK, Phases
<1>. QED
  BY <1>3, <1>4 DEF Init, WritersOK

\* What the lane is handed is a document.
LEMMA PersistTypes ==
  ASSUME TypeOK, WritersOK, NEW s \in SUBSET Tabs, Persist(s)
  PROVE  /\ lane' \in Seq(Documents \cup {Load})
         /\ handed' \in Documents \cup {Torn}
         /\ lane' # <<>>
         /\ writing => Head(lane') # Load
<1>1. Document(s) \in Documents \cup {Load}
  BY DEF Documents
<1>2. lane \in Seq(Documents \cup {Load}) /\ lane' = Append(lane, Document(s))
  BY DEF TypeOK, Persist, Enqueue
<1>3. lane' \in Seq(Documents \cup {Load}) /\ lane' # <<>>
  BY <1>1, <1>2, LaneGrows
<1>4. writing => Head(lane') # Load
  <2>1. writing => lane # <<>> /\ Head(lane) # Load
    BY DEF WritersOK
  <2>2. lane # <<>> => Head(lane') = Head(lane)
    BY <1>1, <1>2
  <2>. QED
    BY <2>1, <2>2
<1>. QED
  BY <1>1, <1>3, <1>4 DEF Persist, Documents

LEMMA TypeNext == TypeOK /\ WritersOK /\ [Next]_vars => TypeOK' /\ WritersOK'
<1>. SUFFICES ASSUME TypeOK, WritersOK, [Next]_vars
              PROVE  TypeOK' /\ WritersOK'
  OBVIOUS
<1>. USE DEF Phases, Reasons, Spoils
<1>1. CASE Boot
  <2>1. lane' \in Seq(Documents \cup {Load})
    <3>1. <<Load>> \in Seq(Documents \cup {Load}) /\ <<>> \in Seq(Documents \cup {Load})
      OBVIOUS
    <3>. QED
      BY <1>1, <3>1 DEF Boot
  <2>2. ~writing
    BY <1>1 DEF Boot, WritersOK
  <2>. QED
    BY <1>1, <2>1, <2>2 DEF Boot, TypeOK, WritersOK
<1>2. CASE Start
  <2>1. lane' \in Seq(Documents \cup {Load}) /\ lane' # <<>>
    BY <1>2, LaneGrows DEF Start, TypeOK
  <2>2. lane # <<>> => Head(lane') = Head(lane)
    BY <1>2 DEF Start, TypeOK
  <2>. QED
    BY <1>2, <2>1, <2>2 DEF Start, TypeOK, WritersOK
<1>3. CASE Quit
  BY <1>3 DEF Quit, TypeOK, WritersOK
<1>4. CASE Exit
  <2>1. ~writing'
    BY <1>4 DEF Exit
  <2>2. TypeOK'
    <3>1. lane' \in Seq(Documents \cup {Load})
      BY <1>4 DEF Exit
    <3>. QED
      BY <1>4, <3>1 DEF Exit, TypeOK
  <2>. QED
    BY <1>4, <2>1, <2>2 DEF Exit, WritersOK
<1>5. CASE Crash
  <2>1. ~writing' /\ ~mixed' /\ ~(engine' > 0)
    <3>1. writing' = FALSE /\ mixed' = FALSE /\ engine' = 0
      BY <1>5 DEF Crash
    <3>. QED
      BY <3>1
  <2>2. TypeOK'
    <3>1. lane' \in Seq(Documents \cup {Load})
      BY <1>5 DEF Crash
    <3>. QED
      BY <1>5, <3>1 DEF Crash, TypeOK
  <2>. QED
    BY <1>5, <2>1, <2>2 DEF Crash, WritersOK
<1>6. ASSUME NEW t \in Tabs, OpenTab(t) PROVE TypeOK' /\ WritersOK'
  <2>1. open' \in SUBSET Tabs /\ Persist(open')
    BY <1>6 DEF OpenTab, TypeOK
  <2>. QED
    BY <1>6, <2>1, PersistTypes DEF OpenTab, Accepts, TypeOK, WritersOK
<1>7. ASSUME NEW t \in Tabs, CloseTab(t) PROVE TypeOK' /\ WritersOK'
  <2>1. ClosedDocument(t) \in SUBSET Tabs /\ Persist(ClosedDocument(t))
    BY <1>7 DEF CloseTab, TypeOK, ClosedDocument
  <2>. QED
    BY <1>7, <2>1, PersistTypes DEF CloseTab, Accepts, TypeOK, WritersOK
<1>8. ASSUME NEW t \in Tabs, TouchTab(t) PROVE TypeOK' /\ WritersOK'
  <2>1. open \in SUBSET Tabs /\ Persist(open)
    BY <1>8 DEF TouchTab, TypeOK
  <2>. QED
    BY <1>8, <2>1, PersistTypes DEF TouchTab, Accepts, TypeOK, WritersOK
<1>9. ASSUME NEW t \in Tabs, EngineFocus(t) PROVE TypeOK' /\ WritersOK'
  BY <1>9 DEF EngineFocus, TypeOK, WritersOK
<1>10. CASE EngineWrites
  <2>1. Document({}) \in Documents
    BY DEF Documents
  <2>2. file' \in Documents \cup {Torn}
    BY <1>10, <2>1, WriteLeaves DEF EngineWrites
  <2>. QED
    BY <1>10, <2>2 DEF EngineWrites, TypeOK, WritersOK
<1>11. CASE Restore
  <2>1. lane' \in Seq(Documents \cup {Load}) /\ ~writing
    BY <1>11, LaneShrinks DEF Restore, TypeOK, WritersOK
  <2>2. open' \in SUBSET Tabs
    <3>1. CASE file = Torn
      BY <1>11, <3>1, DocumentKinds DEF Restore
    <3>2. CASE file \in Documents
      BY <1>11, <3>2, DocumentKinds DEF Restore, Documents
    <3>. QED
      BY <3>1, <3>2 DEF TypeOK
  <2>. QED
    BY <1>11, <2>1, <2>2 DEF Restore, TypeOK, WritersOK
<1>12. CASE WriteBegins
  BY <1>12 DEF WriteBegins, TypeOK, WritersOK
<1>13. CASE WriteEnds
  <2>1. lane # <<>> /\ Head(lane) # Load
    BY <1>13 DEF WriteEnds, WritersOK
  <2>2. lane' \in Seq(Documents \cup {Load}) /\ Head(lane) \in Documents
    BY <1>13, <2>1, LaneShrinks DEF WriteEnds, TypeOK
  <2>3. file' \in Documents \cup {Torn}
    BY <1>13, <2>2, WriteLeaves DEF WriteEnds
  <2>. QED
    BY <1>13, <2>1, <2>2, <2>3 DEF WriteEnds, TypeOK, WritersOK
<1>14. CASE WriteFails
  <2>1. lane' \in Seq(Documents \cup {Load})
    BY <1>14, LaneShrinks DEF WriteFails, TypeOK
  <2>2. ~writing' /\ mixed' \in BOOLEAN /\ (mixed' => mixed) /\ (phase # "down")
    BY <1>14 DEF WriteFails, TypeOK, WritersOK
  <2>. QED
    BY <1>14, <2>1, <2>2 DEF WriteFails, TypeOK, WritersOK
<1>15. CASE EngineWriteFails
  BY <1>15 DEF EngineWriteFails, TypeOK, WritersOK
<1>16. CASE UNCHANGED vars
  BY <1>16 DEF vars, TypeOK, WritersOK
<1>. QED
  BY <1>1, <1>2, <1>3, <1>4, <1>5, <1>6, <1>7, <1>8, <1>9, <1>10, <1>11, <1>12,
     <1>13, <1>14, <1>15, <1>16 DEF Next

\* Every reachable state is well typed, and only the process that runs has
\* writes to make.
THEOREM WorkspaceTypeCorrect == Spec => [](TypeOK /\ WritersOK)
<1>. QED
  BY TypeInit, TypeNext, PTL DEF Spec

-----------------------------------------------------------------------------
(* Torn documents *)

\* A cut or mixed document is explained in every reachable state.
LEMMA TornNext ==
  TypeOK /\ WritersOK /\ TornOnlyWhenCut /\ [Next]_vars => TornOnlyWhenCut'
<1>. SUFFICES ASSUME TypeOK, WritersOK, TornOnlyWhenCut, [Next]_vars
              PROVE  TornOnlyWhenCut'
  OBVIOUS
<1>1. CASE EngineWrites
  BY <1>1 DEF EngineWrites, TornOnlyWhenCut, WritersOK
<1>2. CASE WriteEnds
  <2>1. Head(lane) \in Documents
    BY <1>2, LaneShrinks DEF WriteEnds, WritersOK, TypeOK
  <2>2. mixed \/ file' = Head(lane)
    BY <1>2, <2>1, WriteLeaves DEF WriteEnds
  <2>3. Head(lane) # Torn
    BY <2>1, DocumentKinds DEF Documents
  <2>. QED
    BY <1>2, <2>2, <2>3 DEF WriteEnds, TornOnlyWhenCut, WritersOK
<1>3. CASE Crash
  BY <1>3 DEF Crash, Spoils, TornOnlyWhenCut, WritersOK
<1>4. CASE Exit
  BY <1>4 DEF Exit, Idle, TornOnlyWhenCut, WritersOK
<1>5. CASE WriteBegins
  <2>1. writing'
    BY <1>5 DEF WriteBegins
  <2>. QED
    BY <2>1 DEF TornOnlyWhenCut
<1>6. ASSUME NEW t \in Tabs, EngineFocus(t) PROVE TornOnlyWhenCut'
  BY <1>6 DEF EngineFocus, TornOnlyWhenCut
<1>7. ASSUME UNCHANGED <<file, writing, engine>>, spoiled \subseteq spoiled'
      PROVE  TornOnlyWhenCut'
  BY <1>7 DEF TornOnlyWhenCut
<1>8. CASE Boot \/ Start \/ Quit \/ Restore
  BY <1>7, <1>8 DEF Boot, Start, Quit, Restore, Spoils
<1>9. CASE \E t \in Tabs : OpenTab(t) \/ CloseTab(t) \/ TouchTab(t)
  BY <1>7, <1>9 DEF OpenTab, CloseTab, TouchTab, Spoils
<1>10. CASE WriteFails \/ EngineWriteFails
  BY <1>10 DEF WriteFails, EngineWriteFails, Spoils, TornOnlyWhenCut
<1>11. CASE UNCHANGED vars
  BY <1>7, <1>11 DEF vars
<1>. QED
  BY <1>1, <1>2, <1>3, <1>4, <1>5, <1>6, <1>8, <1>9, <1>10, <1>11 DEF Next

\* A document that does not parse is one that is being written, or was left by a
\* write that the end of the process or a failure cut short, or by two writers.
THEOREM TornExplained == Spec => []TornOnlyWhenCut
<1>1. Init => TornOnlyWhenCut
  BY DocumentKinds DEF Init, TornOnlyWhenCut
<1>. QED
  BY <1>1, WorkspaceTypeCorrect, TornNext, PTL DEF Spec

-----------------------------------------------------------------------------
(* The last write *)

\* The document that was handed to the lane last is the last one the lane has
\* still to write, or the one that was written last.
Pending ==
    \/ \E i \in 1..Len(lane) :
         /\ lane[i] = handed
         /\ \A j \in (i + 1)..Len(lane) : lane[j] = Load
    \/ /\ \A j \in 1..Len(lane) : lane[j] = Load
       /\ file = handed

LastWriteInv ==
    handed # Torn /\ phase # "down" /\ spoiled \cap {"engine", "disk"} = {} => Pending

\* A link taken off the lane: what was pending still is, when a document that
\* was taken off is what the file holds.
LEMMA PendingShrinks ==
  ASSUME TypeOK, Pending, lane # <<>>, lane' = Tail(lane), handed' = handed,
         Head(lane) = Load => file' = file,
         Head(lane) # Load => file' = Head(lane)
  PROVE  Pending'
<1>. DEFINE n == Len(lane)
<1>1. /\ n \in Nat \ {0}
      /\ Len(lane') = n - 1
      /\ Head(lane) = lane[1]
      /\ \A i \in 1..(n - 1) : lane'[i] = lane[i + 1]
  BY LaneShrinks DEF TypeOK
<1>2. CASE /\ \A j \in 1..n : lane[j] = Load
           /\ file = handed
  <2>1. \A j \in 1..Len(lane') : lane'[j] = Load
    BY <1>1, <1>2
  <2>2. file' = handed'
    BY <1>1, <1>2
  <2>. QED
    BY <2>1, <2>2 DEF Pending
<1>3. ASSUME NEW i \in 1..n, lane[i] = handed, \A j \in (i + 1)..n : lane[j] = Load
      PROVE  Pending'
  <2>1. CASE i = 1 /\ Head(lane) # Load
    <3>1. \A j \in 1..Len(lane') : lane'[j] = Load
      BY <1>1, <1>3, <2>1
    <3>. QED
      BY <1>1, <1>3, <2>1, <3>1 DEF Pending
  <2>2. CASE i = 1 /\ Head(lane) = Load
    BY <1>1, <1>3, <2>2, DocumentKinds DEF TypeOK, Documents
  <2>3. CASE i > 1
    <3>1. i - 1 \in 1..Len(lane') /\ lane'[i - 1] = handed'
      BY <1>1, <1>3, <2>3
    <3>2. \A j \in ((i - 1) + 1)..Len(lane') : lane'[j] = Load
      BY <1>1, <1>3, <2>3
    <3>. QED
      BY <3>1, <3>2 DEF Pending
  <2>. QED
    BY <2>1, <2>2, <2>3
<1>. QED
  BY <1>2, <1>3 DEF Pending

LEMMA PendingGrows ==
  ASSUME TypeOK, NEW s \in SUBSET Tabs, Persist(s)
  PROVE  Pending'
<1>1. Document(s) \in Documents \cup {Load}
  BY DEF Documents
<1>2. lane' = Append(lane, Document(s)) /\ handed' = Document(s)
  BY DEF Persist, Enqueue
<1>3. /\ Len(lane) + 1 \in 1..Len(lane')
      /\ lane'[Len(lane) + 1] = handed'
      /\ Len(lane') = Len(lane) + 1
  BY <1>1, <1>2, LaneGrows DEF TypeOK
<1>. QED
  BY <1>3 DEF Pending

LEMMA LastWriteNext ==
  TypeOK /\ WritersOK /\ LastWriteInv /\ [Next]_vars => LastWriteInv'
<1>. SUFFICES ASSUME TypeOK, WritersOK, LastWriteInv, [Next]_vars,
                     handed' # Torn, phase' # "down", spoiled' \cap {"engine", "disk"} = {}
              PROVE  Pending'
  BY DEF LastWriteInv
<1>1. CASE Boot
  BY <1>1 DEF Boot
<1>2. CASE Start
  <2>1. Pending
    BY <1>2 DEF Start, LastWriteInv
  <2>2. /\ Len(lane') = Len(lane) + 1
        /\ lane'[Len(lane) + 1] = Load
        /\ \A i \in 1..Len(lane) : lane'[i] = lane[i]
        /\ Len(lane) \in Nat
    BY <1>2, LaneGrows DEF Start, TypeOK
  <2>3. \A k \in 1..(Len(lane) + 1) :
           (\A j \in k..Len(lane) : lane[j] = Load) => \A j \in k..Len(lane') : lane'[j] = Load
    BY <2>2
  <2>4. CASE \E i \in 1..Len(lane) :
               lane[i] = handed /\ \A j \in (i + 1)..Len(lane) : lane[j] = Load
    <3>1. PICK i \in 1..Len(lane) :
                 lane[i] = handed /\ \A j \in (i + 1)..Len(lane) : lane[j] = Load
      BY <2>4
    <3>2. i \in 1..Len(lane') /\ lane'[i] = handed'
      BY <1>2, <2>2, <3>1 DEF Start
    <3>3. \A j \in (i + 1)..Len(lane') : lane'[j] = Load
      BY <2>2, <2>3, <3>1
    <3>. QED
      BY <3>2, <3>3 DEF Pending
  <2>5. CASE (\A j \in 1..Len(lane) : lane[j] = Load) /\ file = handed
    <3>1. \A j \in 1..Len(lane') : lane'[j] = Load
      BY <2>2, <2>3, <2>5
    <3>. QED
      BY <1>2, <2>5, <3>1 DEF Start, Pending
  <2>. QED
    BY <2>1, <2>4, <2>5 DEF Pending
<1>3. CASE Quit \/ Exit \/ Crash
  BY <1>3 DEF Quit, Exit, Crash, LastWriteInv, Pending
<1>4. ASSUME NEW t \in Tabs, OpenTab(t) PROVE Pending'
  <2>1. open' \in SUBSET Tabs /\ Persist(open')
    BY <1>4 DEF OpenTab, TypeOK
  <2>. QED
    BY <2>1, PendingGrows
<1>5. ASSUME NEW t \in Tabs, CloseTab(t) PROVE Pending'
  <2>1. ClosedDocument(t) \in SUBSET Tabs /\ Persist(ClosedDocument(t))
    BY <1>5 DEF CloseTab, TypeOK, ClosedDocument
  <2>. QED
    BY <2>1, PendingGrows
<1>6. ASSUME NEW t \in Tabs, TouchTab(t) PROVE Pending'
  <2>1. open \in SUBSET Tabs /\ Persist(open)
    BY <1>6 DEF TouchTab, TypeOK
  <2>. QED
    BY <2>1, PendingGrows
<1>7. ASSUME NEW t \in Tabs, EngineFocus(t) PROVE Pending'
  BY <1>7 DEF EngineFocus
<1>8. CASE EngineWrites
  BY <1>8 DEF EngineWrites, WritersOK
<1>9. CASE Restore
  <2>1. Pending
    BY <1>9 DEF Restore, LastWriteInv, WritersOK, Spoils
  <2>. QED
    BY <1>9, <2>1, PendingShrinks DEF Restore
<1>10. CASE WriteBegins
  <2>1. Pending
    BY <1>10 DEF WriteBegins, LastWriteInv, WritersOK
  <2>2. 1 \in 1..Len(lane) /\ lane[1] # Load
    BY <1>10, LaneShrinks DEF WriteBegins, TypeOK
  <2>. QED
    BY <1>10, <2>1, <2>2 DEF WriteBegins, Pending
<1>11. CASE WriteEnds
  <2>1. Pending /\ lane # <<>> /\ Head(lane) # Load /\ ~mixed
    BY <1>11 DEF WriteEnds, LastWriteInv, WritersOK
  <2>2. Head(lane) \in Documents
    BY <2>1, LaneShrinks DEF TypeOK
  <2>3. file' = Head(lane)
    BY <1>11, <2>1, <2>2, WriteLeaves DEF WriteEnds
  <2>. QED
    BY <1>11, <2>1, <2>3, PendingShrinks DEF WriteEnds
<1>12. CASE WriteFails \/ EngineWriteFails
  BY <1>12 DEF WriteFails, EngineWriteFails, Spoils
<1>13. CASE UNCHANGED vars
  BY <1>13 DEF vars, LastWriteInv, Pending
<1>. QED
  BY <1>1, <1>2, <1>3, <1>4, <1>5, <1>6, <1>7, <1>8, <1>9, <1>10, <1>11, <1>12,
     <1>13 DEF Next

\* The newest document is the last one written, also when the user acted before
\* the load.
THEOREM LastWriteHolds == Spec => []LastWriteWins
<1>1. Init => LastWriteInv
  BY DEF Init, LastWriteInv
<1>2. LastWriteInv => LastWriteWins
  BY DEF LastWriteInv, LastWriteWins, Pending
<1>. QED
  BY <1>1, <1>2, WorkspaceTypeCorrect, LastWriteNext, PTL DEF Spec

-----------------------------------------------------------------------------
(* Restarts *)

\* The lane of a process to which nothing has happened: it has the document
\* still to read, with what the user has open in the file, or it ends with that
\* document, or it is empty and the file holds it.
ToRead == lane = <<Load>> /\ file = Document(wanted) /\ ~writing

ToWrite ==
    /\ lane # <<>>
    /\ lane[Len(lane)] = Document(wanted)
    /\ \A i \in 1..Len(lane) : lane[i] # Load

AllWritten == lane = <<>> /\ file = Document(wanted)

Faithful ==
    /\ ToRead \/ ToWrite \/ AllWritten
    /\ phase \in {"down", "created"} => AllWritten
    /\ phase = "loading" => ToRead
    /\ phase = "up" => ~ToRead /\ open = wanted

SurviveInv == spoiled = {} => Faithful

\* A document of the state the user sees keeps the lane faithful.
LEMMA FaithfulGrows ==
  ASSUME TypeOK, Faithful, phase = "up", phase' = "up", Persist(open'), open' = wanted',
         open' \in SUBSET Tabs
  PROVE  Faithful'
<1>. DEFINE d == Document(open')
<1>1. d \in Documents \cup {Load} /\ d # Load
  BY DocumentKinds DEF Documents
<1>2. lane' = Append(lane, d)
  BY DEF Persist, Enqueue
<1>. HIDE DEF d
<1>3. /\ lane' # <<>>
      /\ Len(lane) \in Nat
      /\ Len(lane') = Len(lane) + 1
      /\ lane'[Len(lane) + 1] = d
      /\ \A i \in 1..Len(lane) : lane'[i] = lane[i]
  BY <1>1, <1>2, LaneGrows DEF TypeOK
<1>4. \A i \in 1..Len(lane) : lane[i] # Load
  BY DEF Faithful, ToWrite, AllWritten
<1>5. ToWrite'
  BY <1>1, <1>3, <1>4 DEF ToWrite, d
<1>6. ~ToRead'
  BY <1>1, <1>3 DEF ToRead
<1>. QED
  BY <1>5, <1>6 DEF Faithful

LEMMA SurviveNext ==
  TypeOK /\ WritersOK /\ SurviveInv /\ [Next]_vars => SurviveInv'
<1>. SUFFICES ASSUME TypeOK, WritersOK, SurviveInv, [Next]_vars, spoiled' = {}
              PROVE  Faithful'
  BY DEF SurviveInv
<1>. USE DEF ToRead, AllWritten
<1>1. CASE Boot
  <2>1. Faithful /\ file = Document(wanted) /\ ~writing
    BY <1>1 DEF Boot, SurviveInv, Faithful, WritersOK
  <2>. QED
    BY <1>1, <2>1 DEF Boot, Faithful
<1>2. CASE Start
  <2>1. AllWritten /\ ~writing
    BY <1>2 DEF Start, SurviveInv, Faithful, WritersOK
  <2>2. lane' = <<Load>>
    BY <1>2, <2>1 DEF Start
  <2>. QED
    BY <1>2, <2>1, <2>2 DEF Start, Faithful
<1>3. CASE Quit
  BY <1>3 DEF Quit, SurviveInv, Faithful, ToWrite
<1>4. CASE Exit
  <2>1. Faithful /\ lane = <<>>
    BY <1>4 DEF Exit, Idle, SurviveInv
  <2>. QED
    BY <1>4, <2>1 DEF Exit, Faithful, ToWrite
<1>5. CASE Crash
  <2>1. Faithful /\ lane = <<>>
    BY <1>5 DEF Crash, Spoils, SurviveInv
  <2>. QED
    BY <1>5, <2>1 DEF Crash, Faithful, ToWrite
<1>6. ASSUME NEW t \in Tabs, OpenTab(t) PROVE Faithful'
  <2>1. phase = "up" /\ spoiled = {}
    BY <1>6 DEF OpenTab, Spoils
  <2>2. open' = wanted'
    BY <1>6, <2>1 DEF OpenTab, SurviveInv, Faithful
  <2>3. open' \in SUBSET Tabs /\ Persist(open') /\ phase' = "up"
    BY <1>6, <2>1 DEF OpenTab, TypeOK
  <2>. QED
    BY <2>1, <2>2, <2>3, FaithfulGrows DEF SurviveInv
<1>7. ASSUME NEW t \in Tabs, CloseTab(t) PROVE Faithful'
  <2>1. phase = "up" /\ spoiled = {}
    BY <1>7 DEF CloseTab, Spoils
  <2>2. open' = wanted'
    BY <1>7, <2>1 DEF CloseTab, SurviveInv, Faithful
  <2>3. open' \in SUBSET Tabs /\ Persist(open') /\ phase' = "up"
    BY <1>7, <2>1 DEF CloseTab, ClosedDocument, TypeOK
  <2>. QED
    BY <2>1, <2>2, <2>3, FaithfulGrows DEF SurviveInv
<1>8. ASSUME NEW t \in Tabs, TouchTab(t) PROVE Faithful'
  <2>1. phase = "up" /\ spoiled = {}
    BY <1>8 DEF TouchTab, Spoils
  <2>2. open' = wanted' /\ open' = open
    BY <1>8, <2>1 DEF TouchTab, SurviveInv, Faithful
  <2>3. open' \in SUBSET Tabs /\ Persist(open') /\ phase' = "up"
    BY <1>8, <2>1, <2>2 DEF TouchTab, TypeOK
  <2>. QED
    BY <2>1, <2>2, <2>3, FaithfulGrows DEF SurviveInv
<1>9. ASSUME NEW t \in Tabs, EngineFocus(t) PROVE Faithful'
  BY <1>9 DEF EngineFocus
<1>10. CASE EngineWrites
  BY <1>10 DEF EngineWrites, WritersOK
<1>11. CASE Restore
  <2>1. Faithful /\ lane # <<>> /\ Head(lane) = Load
    BY <1>11 DEF Restore, Spoils, SurviveInv
  <2>2. ToRead
    BY <2>1, LaneShrinks DEF TypeOK, Faithful, ToWrite
  <2>3. lane' = <<>> /\ file' = Document(wanted') /\ open' = wanted'
    BY <1>11, <2>2, DocumentKinds DEF Restore
  <2>4. phase' # "loading" /\ (phase' = "up" => ~ToRead')
    BY <1>11, <2>3 DEF Restore
  <2>. QED
    BY <2>3, <2>4 DEF Faithful
<1>12. CASE WriteBegins
  <2>1. Faithful /\ ~ToRead /\ ~AllWritten
    BY <1>12 DEF WriteBegins, SurviveInv
  <2>2. ToWrite' /\ ~ToRead'
    BY <1>12, <2>1 DEF WriteBegins, Faithful, ToWrite
  <2>. QED
    BY <1>12, <2>1, <2>2 DEF WriteBegins, Faithful
<1>13. CASE WriteEnds
  <2>1. Faithful /\ lane # <<>> /\ Head(lane) # Load /\ ~mixed
    BY <1>13 DEF WriteEnds, SurviveInv, WritersOK
  <2>2. ToWrite /\ phase \notin {"down", "created", "loading"}
    BY <1>13, <2>1 DEF WriteEnds, Faithful
  <2>3. /\ Head(lane) \in Documents
        /\ Head(lane) = lane[1]
        /\ Len(lane) \in Nat \ {0}
        /\ Len(lane') = Len(lane) - 1
        /\ lane' \in Seq(Documents \cup {Load})
        /\ \A i \in 1..Len(lane') : lane'[i] = lane[i + 1]
    <3>1. Head(lane) \in Documents \cup {Load}
      BY <2>1, LaneShrinks DEF TypeOK
    <3>. QED
      BY <1>13, <2>1, <3>1, LaneShrinks DEF WriteEnds, TypeOK
  <2>4. file' = lane[1]
    BY <1>13, <2>1, <2>3, WriteLeaves DEF WriteEnds
  <2>5. wanted' = wanted /\ open' = open /\ phase' = phase
    BY <1>13 DEF WriteEnds
  <2>6. CASE Len(lane) = 1
    <3>1. AllWritten' /\ ~ToRead'
      BY <2>2, <2>3, <2>4, <2>5, <2>6 DEF ToWrite
    <3>. QED
      BY <2>1, <2>2, <2>5, <3>1 DEF Faithful
  <2>7. CASE Len(lane) > 1
    <3>1. lane' # <<>> /\ lane'[Len(lane')] = lane[Len(lane)]
      BY <2>3, <2>7
    <3>2. \A i \in 1..Len(lane') : lane'[i] # Load
      BY <2>2, <2>3 DEF ToWrite
    <3>3. ToWrite' /\ ~ToRead'
      BY <2>2, <2>5, <3>1, <3>2 DEF ToWrite
    <3>. QED
      BY <2>1, <2>2, <2>5, <3>3 DEF Faithful
  <2>. QED
    BY <2>3, <2>6, <2>7
<1>14. CASE WriteFails \/ EngineWriteFails
  BY <1>14 DEF WriteFails, EngineWriteFails, Spoils
<1>15. CASE UNCHANGED vars
  BY <1>15 DEF vars, SurviveInv, Faithful, ToWrite
<1>. QED
  BY <1>1, <1>2, <1>3, <1>4, <1>5, <1>6, <1>7, <1>8, <1>9, <1>10, <1>11, <1>12,
     <1>13, <1>14, <1>15 DEF Next

\* What a started client shows is what the user has open, across any number of
\* exits, crashes and restarts.
THEOREM SessionsKept == Spec => []SessionsSurvive
<1>1. Init => SurviveInv
  <2>1. Init => lane = <<>> /\ file = Document(wanted) /\ phase = "down"
    BY DEF Init
  <2>. QED
    BY <2>1 DEF SurviveInv, Faithful, AllWritten
<1>2. SurviveInv => SessionsSurvive
  BY DEF SurviveInv, Faithful, SessionsSurvive
<1>. QED
  BY <1>1, <1>2, WorkspaceTypeCorrect, SurviveNext, PTL DEF Spec
=============================================================================
