------------------------- MODULE ClientTurnsProofs -------------------------
(***************************************************************************)
(* Theorems about ClientTurns: types, the agreement of the turn of a tab   *)
(* with the wire, the order of the messages, and the outcomes.             *)
(***************************************************************************)
EXTENDS ClientTurns, FiniteSetTheorems, SequenceTheorems, TLAPS

-----------------------------------------------------------------------------
(* The parts of the state *)

Tab  == [identity : Identities, turn : TurnKinds, req : Requests \cup {None},
         queue : Seq(Commands)]
Wire == [phase : Phases, key : Keys \cup {None}]

\* The fields of a tab after the operators of the reducer.
LEMMA TabFields ==
  ASSUME NEW s \in Tab, NEW k \in TurnKinds, NEW r \in Requests \cup {None}
  PROVE  /\ Turn(s, k, r) \in Tab
         /\ Turn(s, k, r).identity = s.identity
         /\ Turn(s, k, r).turn = k
         /\ Turn(s, k, r).req = r
         /\ Turn(s, k, r).queue = s.queue
  BY DEF Tab, Turn

LEMMA QueuedFields ==
  ASSUME NEW s \in Tab, NEW c \in Commands
  PROVE  /\ Queued(s, c) \in Tab
         /\ Queued(s, c).identity = s.identity
         /\ Queued(s, c).turn = s.turn
         /\ Queued(s, c).req = s.req
         /\ Queued(s, c).queue = Append(s.queue, c)
  BY DEF Tab, Queued

LEMMA FreshFields ==
  ASSUME NEW i \in Identities
  PROVE  /\ Fresh(i) \in Tab
         /\ Fresh(i).identity = i
         /\ Fresh(i).turn = "idle"
         /\ Fresh(i).req = None
         /\ Fresh(i).queue = <<>>
<1>1. <<>> \in Seq(Commands)
  OBVIOUS
<1>. QED
  BY <1>1 DEF Tab, Fresh, TurnKinds

LEMMA DrainedFields ==
  ASSUME NEW s \in Tab, s.queue # <<>>
  PROVE  /\ Drained(s) \in Tab
         /\ Drained(s).identity = s.identity
         /\ Drained(s).turn = "thinking"
         /\ Drained(s).req = Head(s.queue)
         /\ Drained(s).queue = Tail(s.queue)
         /\ Head(s.queue) \in Commands
<1>1. Head(s.queue) \in Commands /\ Tail(s.queue) \in Seq(Commands)
  BY DEF Tab
<1>. QED
  BY <1>1 DEF Tab, Drained, TurnKinds, Requests

LEMMA SentFields ==
  ASSUME NEW w \in [Requests -> Wire], NEW r \in Requests, NEW k \in Keys \cup {None}
  PROVE  /\ Sent(w, r, k) \in [Requests -> Wire]
         /\ Sent(w, r, k)[r].phase = "sent"
         /\ \A q \in Requests \ {r} : Sent(w, r, k)[q] = w[q]
  BY DEF Wire, Sent, Phases, InFlight, Returned

LEMMA PhaseFields ==
  ASSUME NEW r \in Requests, NEW p \in Phases, wire \in [Requests -> Wire]
  PROVE  /\ [wire EXCEPT ![r].phase = p] \in [Requests -> Wire]
         /\ [wire EXCEPT ![r].phase = p][r].phase = p
         /\ \A q \in Requests \ {r} : [wire EXCEPT ![r].phase = p][q] = wire[q]
  BY DEF Wire

\* continueQueue leaves the queue, or posts its head.
LEMMA Continued ==
  ASSUME NEW w, NEW cs, NEW t, NEW s, ContinueQueue(w, cs, t, s)
  PROVE  \/ /\ s.queue = <<>> \/ w[Head(s.queue)].phase \in InFlight
            /\ tab' = [tab EXCEPT ![t] = s]
            /\ wire' = w
            /\ controllers' = cs
            /\ posted' = posted
         \/ /\ s.queue # <<>>
            /\ w[Head(s.queue)].phase \notin InFlight
            /\ tab' = [tab EXCEPT ![t] = Drained(s)]
            /\ wire' = Sent(w, Head(s.queue), t)
            /\ controllers' = Registered(cs, t, Head(s.queue))
            /\ posted' = [posted EXCEPT ![t] = Append(@, Head(s.queue))]
  BY DEF ContinueQueue, SubmitHead, Settle

-----------------------------------------------------------------------------
(* Types *)

\* A session that is being created has been opened, and the message that asked
\* for it is still in its queue.
CreationOK ==
    \A t \in creating :
        /\ tab[t].identity # "unopened"
        /\ tab[t].identity = "pending" => tab[t].queue # <<>>

\* Only a request that was taken is on the wire.
LogOK == \A r \in Requests : outbound[r] = None => wire[r].phase = "unsent"

\* What waits in a tab was taken for it.
WaitingOK ==
    \A t \in Tabs : \A i \in 1..Len(tab[t].queue) : outbound[tab[t].queue[i]] = t

\* Only a session of the server has a turn, and a turn is that of a request.
TurnOK ==
    \A t \in Tabs :
        /\ tab[t].turn \in {"thinking", "awaiting"} => tab[t].identity = "remote"
        /\ tab[t].turn = "thinking" => tab[t].req \in Requests /\ outbound[tab[t].req] = t

TypeInv == TypeOK /\ CreationOK /\ LogOK /\ WaitingOK /\ TurnOK

LEMMA ContinueTypes ==
  ASSUME TypeOK, NEW w \in [Requests -> Wire], NEW t \in Tabs, NEW s \in Tab,
         NEW cs \in [Keys -> Commands \cup {None}], ContinueQueue(w, cs, t, s)
  PROVE  /\ tab' \in [Tabs -> Tab]
         /\ wire' \in [Requests -> Wire]
         /\ controllers' \in [Keys -> Commands \cup {None}]
         /\ posted' \in [Tabs -> Seq(Commands)]
         /\ tab'[t].identity = s.identity
         /\ \A u \in Tabs \ {t} : tab'[u] = tab[u]
<1>1. tab \in [Tabs -> Tab] /\ posted \in [Tabs -> Seq(Commands)]
  BY DEF TypeOK, Tab
<1>2. CASE /\ tab' = [tab EXCEPT ![t] = s]
           /\ wire' = w
           /\ controllers' = cs
           /\ posted' = posted
  BY <1>1, <1>2
<1>3. CASE /\ s.queue # <<>>
           /\ tab' = [tab EXCEPT ![t] = Drained(s)]
           /\ wire' = Sent(w, Head(s.queue), t)
           /\ controllers' = Registered(cs, t, Head(s.queue))
           /\ posted' = [posted EXCEPT ![t] = Append(@, Head(s.queue))]
  <2>1. Head(s.queue) \in Commands /\ Head(s.queue) \in Requests /\ t \in Keys
    BY <1>3, DrainedFields DEF Requests, Keys
  <2>2. tab' \in [Tabs -> Tab] /\ tab'[t].identity = s.identity
    BY <1>1, <1>3, DrainedFields
  <2>3. wire' \in [Requests -> Wire]
    BY <1>3, <2>1, SentFields
  <2>4. controllers' \in [Keys -> Commands \cup {None}]
    BY <1>3, <2>1 DEF Registered
  <2>5. posted' \in [Tabs -> Seq(Commands)]
    BY <1>1, <1>3, <2>1
  <2>. QED
    BY <1>1, <1>3, <2>2, <2>3, <2>4, <2>5
<1>. QED
  BY <1>2, <1>3, Continued

LEMMA SettleTypes ==
  ASSUME TypeOK, NEW w, NEW cs, NEW t \in Tabs, NEW s \in Tab, Settle(w, cs, t, s)
  PROVE  /\ tab' \in [Tabs -> Tab]
         /\ wire' = w
         /\ controllers' = cs
         /\ posted' = posted
         /\ tab'[t] = s
         /\ \A u \in Tabs \ {t} : tab'[u] = tab[u]
  BY DEF TypeOK, Tab, Settle

\* continueQueue keeps the parts above, for a tab that has no turn.
LEMMA ContinueParts ==
  ASSUME TypeOK, CreationOK, WaitingOK, TurnOK,
         NEW w \in [Requests -> Wire], NEW t \in Tabs, NEW s \in Tab,
         NEW cs \in [Keys -> Commands \cup {None}], ContinueQueue(w, cs, t, s),
         \A r \in Requests : outbound[r] = None => w[r].phase = "unsent",
         s.turn = "idle" \/ s.turn = "failed", s.identity = "remote",
         s.queue = tab[t].queue, outbound' = outbound, creating' \subseteq creating
  PROVE  CreationOK' /\ LogOK' /\ WaitingOK' /\ TurnOK'
<1>. DEFINE c == Head(s.queue)
<1>1. \A u \in Tabs \ {t} : tab'[u] = tab[u]
  BY ContinueTypes
<1>2. tab'[t].identity = "remote" /\ creating \subseteq Tabs /\ None \notin Tabs
  BY ContinueTypes, IdsDisjoint DEF TypeOK
<1>3. CreationOK'
  BY <1>1, <1>2 DEF CreationOK
<1>4. CASE tab' = [tab EXCEPT ![t] = s] /\ wire' = w
  <2>1. tab'[t] = s
    BY <1>4 DEF TypeOK
  <2>2. LogOK'
    BY <1>4 DEF LogOK
  <2>3. WaitingOK'
    BY <1>1, <2>1 DEF WaitingOK
  <2>4. TurnOK'
    BY <1>1, <2>1 DEF TurnOK
  <2>. QED
    BY <1>3, <2>2, <2>3, <2>4
<1>5. CASE s.queue # <<>> /\ tab' = [tab EXCEPT ![t] = Drained(s)] /\ wire' = Sent(w, c, t)
  <2>1. tab'[t] = Drained(s) /\ t \in Keys
    BY <1>5 DEF TypeOK, Keys
  <2>2. /\ c \in Commands /\ c \in Requests
        /\ tab'[t].turn = "thinking" /\ tab'[t].req = c /\ tab'[t].queue = Tail(s.queue)
    BY <1>5, <2>1, DrainedFields DEF Requests
  <2>3. /\ c = s.queue[1]
        /\ 1 \in 1..Len(s.queue)
        /\ Len(Tail(s.queue)) = Len(s.queue) - 1
        /\ \A i \in 1..Len(Tail(s.queue)) :
              Tail(s.queue)[i] = s.queue[i + 1] /\ i + 1 \in 1..Len(s.queue)
    BY <1>5 DEF Tab
  <2>4. outbound[c] = t
    BY <2>3 DEF WaitingOK
  <2>5. LogOK'
    <3>1. \A r \in Requests \ {c} : wire'[r] = w[r]
      BY <1>5, <2>1, <2>2, SentFields
    <3>2. outbound'[c] # None
      BY <1>2, <2>4
    <3>. QED
      BY <3>1, <3>2 DEF LogOK
  <2>6. WaitingOK'
    <3>1. \A i \in 1..Len(tab'[t].queue) : outbound'[tab'[t].queue[i]] = t
      BY <2>2, <2>3 DEF WaitingOK
    <3>2. \A u \in Tabs \ {t} : \A i \in 1..Len(tab'[u].queue) : outbound'[tab'[u].queue[i]] = u
      BY <1>1 DEF WaitingOK
    <3>. QED
      BY <3>1, <3>2 DEF WaitingOK
  <2>7. TurnOK'
    BY <1>1, <1>2, <2>2, <2>4 DEF TurnOK
  <2>. QED
    BY <1>3, <2>5, <2>6, <2>7
<1>. QED
  BY <1>4, <1>5, Continued

LEMMA SettleParts ==
  ASSUME TypeOK, CreationOK, WaitingOK, TurnOK,
         NEW w \in [Requests -> Wire], NEW cs, NEW t \in Tabs, NEW s \in Tab,
         Settle(w, cs, t, s),
         \A r \in Requests : outbound[r] = None => w[r].phase = "unsent",
         s.turn \in {"idle", "failed", "awaiting"}, s.identity = "remote",
         s.queue = tab[t].queue, outbound' = outbound, creating' = creating
  PROVE  CreationOK' /\ LogOK' /\ WaitingOK' /\ TurnOK'
<1>1. /\ \A u \in Tabs \ {t} : tab'[u] = tab[u]
      /\ tab'[t] = s
      /\ wire' = w
  BY SettleTypes
<1>2. CreationOK' /\ LogOK' /\ WaitingOK' /\ TurnOK'
  <2>1. CreationOK'
    BY <1>1 DEF CreationOK, TypeOK
  <2>2. LogOK'
    BY <1>1 DEF LogOK
  <2>3. WaitingOK'
    BY <1>1 DEF WaitingOK
  <2>4. TurnOK'
    BY <1>1 DEF TurnOK
  <2>. QED
    BY <2>1, <2>2, <2>3, <2>4
<1>. QED
  BY <1>2

LEMMA TypeInit == Init => TypeInv
<1>. SUFFICES ASSUME Init PROVE TypeInv
  OBVIOUS
<1>1. \A t \in Tabs : /\ tab[t] \in Tab
                      /\ tab[t].identity \in {"unopened", "remote"}
                      /\ tab[t].turn = "idle"
                      /\ tab[t].queue = <<>>
  <2>1. ASSUME NEW t \in Tabs, NEW i \in {"unopened", "remote"}
        PROVE  /\ Fresh(i) \in Tab /\ Fresh(i).identity = i
               /\ Fresh(i).turn = "idle" /\ Fresh(i).queue = <<>>
    BY FreshFields DEF Identities
  <2>. QED
    BY <2>1 DEF Init
<1>2. tab \in [Tabs -> Tab]
  BY <1>1 DEF Init
<1>3. wire \in [Requests -> Wire] /\ LogOK
  BY DEF Init, Wire, Phases, LogOK
<1>4. asked \in [Tabs -> Seq(Commands)] /\ posted \in [Tabs -> Seq(Commands)]
  <2>1. <<>> \in Seq(Commands)
    OBVIOUS
  <2>. QED
    BY <2>1 DEF Init
<1>5. TypeOK
  BY <1>2, <1>3, <1>4 DEF Init, TypeOK, Tab, Wire
<1>6. CreationOK /\ WaitingOK /\ TurnOK
  BY <1>1 DEF Init, CreationOK, WaitingOK, TurnOK
<1>. QED
  BY <1>3, <1>5, <1>6 DEF TypeInv

\* What the phases of requests have to do with the log of taken requests.
LEMMA TakenRequest ==
  ASSUME TypeInv, NEW r \in Requests, wire[r].phase # "unsent"
  PROVE  outbound[r] \in Tabs
  BY DEF TypeInv, TypeOK, LogOK

\* The parts of the types that the steps of the ports and the user share.
LEMMA TypeUser ==
  TypeInv /\ UserStep => TypeInv'
<1>. SUFFICES ASSUME TypeInv, UserStep PROVE TypeInv'
  OBVIOUS
<1>. USE DEF historyVars, Requests
<1>a. /\ TypeOK /\ CreationOK /\ LogOK /\ WaitingOK /\ TurnOK
      /\ tab \in [Tabs -> Tab] /\ wire \in [Requests -> Wire]
      /\ \A t \in Tabs : tab[t] \in Tab
  BY DEF TypeInv, TypeOK, Tab, Wire
<1>1. ASSUME NEW t \in Tabs, OpenTab(t) PROVE TypeInv'
  <2>1. Fresh("pending") \in Tab /\ Fresh("pending").turn = "idle"
        /\ Fresh("pending").identity = "pending" /\ Fresh("pending").queue = <<>>
    BY FreshFields DEF Identities
  <2>2. /\ tab' \in [Tabs -> Tab]
        /\ tab'[t] = Fresh("pending")
        /\ \A u \in Tabs \ {t} : tab'[u] = tab[u]
    BY <1>a, <1>1, <2>1 DEF OpenTab
  <2>3. t \notin creating
    BY <1>a, <1>1 DEF OpenTab, CreationOK
  <2>4. TypeOK'
    BY <1>a, <1>1, <2>2 DEF OpenTab, TypeOK, Tab, Wire
  <2>5. CreationOK'
    BY <1>a, <1>1, <2>2, <2>3 DEF OpenTab, CreationOK, TypeOK
  <2>6. LogOK'
    BY <1>a, <1>1 DEF OpenTab, LogOK
  <2>7. WaitingOK' /\ TurnOK'
    BY <1>a, <1>1, <2>1, <2>2 DEF OpenTab, WaitingOK, TurnOK
  <2>. QED
    BY <2>4, <2>5, <2>6, <2>7 DEF TypeInv
<1>2. ASSUME NEW t \in Tabs, CloseTab(t) PROVE TypeInv'
  <2>1. Fresh("closed") \in Tab /\ Fresh("closed").turn = "idle"
        /\ Fresh("closed").identity = "closed" /\ Fresh("closed").queue = <<>>
    BY FreshFields DEF Identities
  <2>2. /\ tab' \in [Tabs -> Tab]
        /\ tab'[t] = Fresh("closed")
        /\ \A u \in Tabs \ {t} : tab'[u] = tab[u]
    BY <1>a, <1>2, <2>1 DEF CloseTab
  <2>4. TypeOK'
    BY <1>a, <1>2, <2>2 DEF CloseTab, TypeOK, Tab, Wire
  <2>5. CreationOK'
    BY <1>a, <1>2, <2>1, <2>2 DEF CloseTab, CreationOK, TypeOK
  <2>6. LogOK'
    BY <1>a, <1>2 DEF CloseTab, LogOK
  <2>7. WaitingOK' /\ TurnOK'
    BY <1>a, <1>2, <2>1, <2>2 DEF CloseTab, WaitingOK, TurnOK
  <2>. QED
    BY <2>4, <2>5, <2>6, <2>7 DEF TypeInv
<1>3. ASSUME NEW t \in Tabs, CancelTurn(t) PROVE TypeInv'
  <2>1. tab[t].req \in Requests
    BY <1>a, <1>3 DEF CancelTurn, TurnOK
  <2>2. /\ tab' \in [Tabs -> Tab]
        /\ tab'[t].turn = "idle" /\ tab'[t].identity = "remote"
        /\ tab'[t].queue = tab[t].queue
        /\ \A u \in Tabs \ {t} : tab'[u] = tab[u]
    <3>. DEFINE s == Turn(tab[t], "idle", None)
    <3>1. s \in Tab /\ s.turn = "idle" /\ s.identity = tab[t].identity /\ s.queue = tab[t].queue
      BY <1>a, TabFields DEF TurnKinds
    <3>2. tab' = [tab EXCEPT ![t] = s] /\ tab[t].identity = "remote"
      BY <1>3 DEF CancelTurn
    <3>. HIDE DEF s
    <3>. QED
      BY <1>a, <3>1, <3>2
  <2>3. /\ wire' \in [Requests -> Wire]
        /\ \A r \in Requests :
              wire'[r].phase = wire[r].phase \/ (wire[r].phase = "sent" /\ wire'[r].phase = "aborted")
    <3>1. CASE Victim(t) # None /\ wire[Victim(t)].phase = "sent"
      <4>1. PICK v \in Requests : v = Victim(t)
        BY <1>a, <3>1 DEF Victim, TypeOK
      <4>2. wire' = [wire EXCEPT ![v].phase = "aborted"]
        BY <1>3, <3>1, <4>1 DEF CancelTurn
      <4>3. "aborted" \in Phases
        BY DEF Phases
      <4>4. /\ wire' \in [Requests -> Wire] /\ wire'[v].phase = "aborted"
            /\ \A q \in Requests \ {v} : wire'[q] = wire[q]
        BY <1>a, <4>2, <4>3, PhaseFields
      <4>. QED
        BY <3>1, <4>1, <4>4
    <3>2. CASE ~(Victim(t) # None /\ wire[Victim(t)].phase = "sent")
      <4>1. wire' = wire
        BY <1>3, <3>2 DEF CancelTurn
      <4>. QED
        BY <1>a, <4>1
    <3>. QED
      BY <3>1, <3>2
  <2>4. TypeOK'
    BY <1>a, <1>3, <2>1, <2>2, <2>3 DEF CancelTurn, TypeOK, Tab, Wire
  <2>5. CreationOK'
    BY <1>a, <1>3, <2>2 DEF CancelTurn, CreationOK, TypeOK
  <2>6. LogOK'
    BY <1>a, <1>3, <2>3 DEF CancelTurn, LogOK
  <2>7. WaitingOK' /\ TurnOK'
    BY <1>a, <1>3, <2>2 DEF CancelTurn, WaitingOK, TurnOK
  <2>. QED
    BY <2>4, <2>5, <2>6, <2>7 DEF TypeInv
<1>4. ASSUME NEW t \in Tabs, NEW d \in Decisions, DecideApproval(t, d) PROVE TypeInv'
  <2>1. d \in Requests
    OBVIOUS
  <2>2. /\ tab' \in [Tabs -> Tab]
        /\ tab'[t].turn = "thinking" /\ tab'[t].identity = "remote" /\ tab'[t].req = d
        /\ tab'[t].queue = tab[t].queue
        /\ \A u \in Tabs \ {t} : tab'[u] = tab[u]
    <3>. DEFINE s == Turn(tab[t], "thinking", d)
    <3>1. /\ s \in Tab /\ s.turn = "thinking" /\ s.req = d
          /\ s.identity = tab[t].identity /\ s.queue = tab[t].queue
      BY <1>a, <2>1, TabFields DEF TurnKinds
    <3>2. tab' = [tab EXCEPT ![t] = s] /\ tab[t].identity = "remote"
      BY <1>4 DEF DecideApproval
    <3>. HIDE DEF s
    <3>. QED
      BY <1>a, <3>1, <3>2
  <2>3. /\ wire' \in [Requests -> Wire]
        /\ \A r \in Requests \ {d} : wire'[r] = wire[r]
    BY <1>a, <1>4, <2>1, SentFields DEF DecideApproval
  <2>o. /\ outbound' \in [Requests -> Tabs \cup {None}]
        /\ outbound'[d] = t /\ outbound[d] = None /\ t # None
        /\ \A r \in Requests \ {d} : outbound'[r] = outbound[r]
    BY <1>a, <1>4, <2>1, IdsDisjoint DEF DecideApproval, NewCommand, TypeOK
  <2>4. TypeOK'
    BY <1>a, <1>4, <2>2, <2>3, <2>o DEF DecideApproval, TypeOK, Tab, Wire
  <2>5. CreationOK'
    BY <1>a, <1>4, <2>2 DEF DecideApproval, CreationOK, TypeOK
  <2>6. LogOK'
    BY <1>a, <2>3, <2>o DEF LogOK
  <2>7. WaitingOK'
    <3>1. ASSUME NEW u \in Tabs, NEW i \in 1..Len(tab[u].queue)
          PROVE  outbound'[tab[u].queue[i]] = u
      <4>1. tab[u].queue[i] \in Commands /\ outbound[tab[u].queue[i]] = u
        BY <1>a, <3>1 DEF WaitingOK, Tab
      <4>2. tab[u].queue[i] \in Requests \ {d}
        BY <4>1, IdsDisjoint
      <4>. QED
        BY <2>o, <4>1, <4>2
    <3>. QED
      BY <2>2, <3>1 DEF WaitingOK
  <2>8. TurnOK'
    <3>1. ASSUME NEW u \in Tabs \ {t} PROVE
             /\ tab'[u].turn \in {"thinking", "awaiting"} => tab'[u].identity = "remote"
             /\ tab'[u].turn = "thinking" => tab'[u].req \in Requests /\ outbound'[tab'[u].req] = u
      BY <1>a, <2>2, <2>o, IdsDisjoint DEF TurnOK
    <3>. QED
      BY <2>1, <2>2, <2>o, <3>1 DEF TurnOK
  <2>. QED
    BY <2>4, <2>5, <2>6, <2>7, <2>8 DEF TypeInv
<1>5. ASSUME NEW t \in Tabs, NEW c \in Commands, SubmitTurn(t, c) PROVE TypeInv'
  <2>1. c \in Requests /\ c \in Keys /\ outbound[c] = None /\ t # None
    BY <1>5, IdsDisjoint DEF SubmitTurn, NewCommand, Keys
  <2>o. /\ outbound' \in [Requests -> Tabs \cup {None}]
        /\ outbound'[c] = t
        /\ \A r \in Requests \ {c} : outbound'[r] = outbound[r]
        /\ asked' \in [Tabs -> Seq(Commands)]
        /\ UNCHANGED <<online, applied, cancelled, planned, shown>>
    BY <1>a, <1>5, <2>1 DEF SubmitTurn, Accept, TypeOK
  <2>2. \A u \in Tabs : \A i \in 1..Len(tab[u].queue) : outbound'[tab[u].queue[i]] = u
    <3>1. ASSUME NEW u \in Tabs, NEW i \in 1..Len(tab[u].queue)
          PROVE  outbound'[tab[u].queue[i]] = u
      <4>1. tab[u].queue[i] \in Requests /\ outbound[tab[u].queue[i]] = u /\ u # None
        BY <1>a, <3>1, IdsDisjoint DEF WaitingOK, Tab
      <4>. QED
        BY <2>1, <2>o, <4>1
    <3>. QED
      BY <3>1
  <2>3. ASSUME NEW u \in Tabs, tab[u].turn = "thinking"
        PROVE  tab[u].req \in Requests \ {c} /\ outbound'[tab[u].req] = u
    <3>1. tab[u].req \in Requests /\ outbound[tab[u].req] = u /\ u # None
      BY <1>a, <2>3, IdsDisjoint DEF TurnOK
    <3>. QED
      BY <2>1, <2>o, <3>1
  <2>4. CASE SendNow(t, c) /\ tab[t].identity = "remote"
    <3>1. /\ tab' \in [Tabs -> Tab]
          /\ tab'[t].turn = "thinking" /\ tab'[t].identity = "remote" /\ tab'[t].req = c
          /\ tab'[t].queue = tab[t].queue
          /\ \A u \in Tabs \ {t} : tab'[u] = tab[u]
      <4>. DEFINE s == Turn(tab[t], "thinking", c)
      <4>1. /\ s \in Tab /\ s.turn = "thinking" /\ s.req = c
            /\ s.identity = tab[t].identity /\ s.queue = tab[t].queue
        BY <1>a, <2>1, TabFields DEF TurnKinds
      <4>2. tab' = [tab EXCEPT ![t] = s] /\ tab[t].identity = "remote"
        BY <2>4 DEF SendNow
      <4>. HIDE DEF s
      <4>. QED
        BY <1>a, <4>1, <4>2
    <3>2. /\ wire' \in [Requests -> Wire]
          /\ \A r \in Requests \ {c} : wire'[r] = wire[r]
      <4>1. wire' = Sent(wire, c, c)
        BY <2>4 DEF SendNow
      <4>. QED
        BY <1>a, <2>1, <4>1, SentFields
    <3>3. TypeOK'
      <4>1. posted' \in [Tabs -> Seq(Commands)]
        BY <1>a, <2>4 DEF SendNow, TypeOK
      <4>2. controllers' \in [Keys -> Commands \cup {None}]
        BY <1>a, <2>1, <2>4 DEF SendNow, Registered, TypeOK
      <4>. QED
        BY <1>a, <2>4, <2>o, <3>1, <3>2, <4>1, <4>2 DEF SendNow, TypeOK, Tab, Wire
    <3>4. CreationOK'
      BY <1>a, <2>4, <3>1 DEF SendNow, CreationOK, TypeOK
    <3>5. LogOK'
      BY <1>a, <2>1, <2>o, <3>2 DEF LogOK
    <3>6. WaitingOK'
      BY <2>2, <3>1 DEF WaitingOK
    <3>7. TurnOK'
      <4>1. ASSUME NEW u \in Tabs \ {t} PROVE
               /\ tab'[u].turn \in {"thinking", "awaiting"} => tab'[u].identity = "remote"
               /\ tab'[u].turn = "thinking" => tab'[u].req \in Requests /\ outbound'[tab'[u].req] = u
        BY <1>a, <2>3, <3>1 DEF TurnOK
      <4>. QED
        BY <2>1, <2>o, <3>1, <4>1 DEF TurnOK
    <3>. QED
      BY <3>3, <3>4, <3>5, <3>6, <3>7 DEF TypeInv
  <2>5. CASE /\ Settle(wire, controllers, t, Queued(tab[t], c))
             /\ \/ creating' = creating \cup {t} /\ tab[t].identity = "pending"
                \/ creating' = creating
    <3>1. /\ Queued(tab[t], c) \in Tab
          /\ Queued(tab[t], c).identity = tab[t].identity
          /\ Queued(tab[t], c).turn = tab[t].turn
          /\ Queued(tab[t], c).req = tab[t].req
          /\ Queued(tab[t], c).queue = Append(tab[t].queue, c)
      BY <1>a, QueuedFields
    <3>2. /\ tab' \in [Tabs -> Tab]
          /\ tab'[t] = Queued(tab[t], c)
          /\ \A u \in Tabs \ {t} : tab'[u] = tab[u]
          /\ UNCHANGED <<wire, controllers, posted>>
      BY <1>a, <2>5, <3>1, SettleTypes
    <3>3. /\ tab'[t].queue # <<>>
          /\ Len(tab[t].queue) \in Nat
          /\ Len(tab'[t].queue) = Len(tab[t].queue) + 1
          /\ tab'[t].queue[Len(tab[t].queue) + 1] = c
          /\ \A i \in 1..Len(tab[t].queue) : tab'[t].queue[i] = tab[t].queue[i]
      BY <1>a, <3>1, <3>2 DEF Tab
    <3>4. TypeOK'
      BY <1>a, <2>5, <2>o, <3>2 DEF TypeOK, Tab, Wire
    <3>5. CreationOK'
      <4>1. tab'[t].identity = tab[t].identity /\ tab[t].identity # "unopened"
        BY <1>5, <3>1, <3>2 DEF SubmitTurn, IsOpen
      <4>. QED
        BY <1>a, <2>5, <3>2, <3>3, <4>1 DEF CreationOK, TypeOK
    <3>6. LogOK'
      BY <1>a, <2>1, <2>o, <3>2 DEF LogOK
    <3>7. WaitingOK'
      <4>1. \A i \in 1..Len(tab'[t].queue) : outbound'[tab'[t].queue[i]] = t
        <5>1. ASSUME NEW i \in 1..Len(tab'[t].queue) PROVE outbound'[tab'[t].queue[i]] = t
          <6>1. CASE i = Len(tab[t].queue) + 1
            BY <2>o, <3>3, <6>1
          <6>2. CASE i \in 1..Len(tab[t].queue)
            <7>1. tab'[t].queue[i] = tab[t].queue[i]
              BY <3>3, <6>2
            <7>2. outbound'[tab[t].queue[i]] = t
              BY <2>2, <6>2
            <7>. QED
              BY <7>1, <7>2
          <6>. QED
            BY <3>3, <6>1, <6>2
        <5>. QED
          BY <5>1
      <4>. QED
        BY <2>2, <3>2, <4>1 DEF WaitingOK
    <3>8. TurnOK'
      BY <1>a, <2>3, <3>1, <3>2 DEF TurnOK
    <3>. QED
      BY <3>4, <3>5, <3>6, <3>7, <3>8 DEF TypeInv
  <2>. QED
    BY <1>5, <2>4, <2>5 DEF SubmitTurn
<1>. QED
  BY <1>1, <1>2, <1>3, <1>4, <1>5 DEF UserStep

LEMMA TypeWire ==
  TypeInv /\ WireStep => TypeInv'
<1>. SUFFICES ASSUME TypeInv, WireStep PROVE TypeInv'
  OBVIOUS
<1>. USE DEF historyVars
<1>a. /\ TypeOK /\ CreationOK /\ LogOK /\ WaitingOK /\ TurnOK
      /\ tab \in [Tabs -> Tab] /\ wire \in [Requests -> Wire]
      /\ controllers \in [Keys -> Commands \cup {None}]
      /\ \A t \in Tabs : tab[t] \in Tab
  BY DEF TypeInv, TypeOK, Tab, Wire
<1>1. CASE LinkChanges
  BY <1>a, <1>1 DEF LinkChanges, TypeInv, TypeOK, CreationOK, LogOK, WaitingOK, TurnOK
<1>2. ASSUME NEW t \in Tabs, SessionCreated(t) PROVE TypeInv'
  <2>1. CASE tab[t].identity = "pending"
    <3>. DEFINE s == [tab[t] EXCEPT !.identity = "remote"]
    <3>1. /\ s \in Tab /\ s.identity = "remote" /\ s.turn = tab[t].turn
          /\ s.req = tab[t].req /\ s.queue = tab[t].queue
      BY <1>a DEF Tab, Identities
    <3>2. s.turn = "idle" \/ s.turn = "failed"
      BY <1>a, <2>1, <3>1 DEF TurnOK, Tab, TurnKinds
    <3>3. ContinueQueue(wire, controllers, t, s) /\ creating' = creating \ {t}
      BY <1>2, <2>1 DEF SessionCreated
    <3>4. UNCHANGED <<outbound, online, applied, asked, cancelled, planned, shown>>
      BY <1>2 DEF SessionCreated
    <3>. HIDE DEF s
    <3>5. /\ tab' \in [Tabs -> Tab] /\ wire' \in [Requests -> Wire]
          /\ controllers' \in [Keys -> Commands \cup {None}]
          /\ posted' \in [Tabs -> Seq(Commands)]
      BY <1>a, <3>1, <3>3, ContinueTypes
    <3>6. TypeOK'
      BY <1>a, <3>3, <3>4, <3>5 DEF TypeOK, Tab, Wire
    <3>7. \A r \in Requests : outbound[r] = None => wire[r].phase = "unsent"
      BY <1>a DEF LogOK
    <3>8. creating' \subseteq creating /\ outbound' = outbound
      BY <3>3, <3>4
    <3>9. CreationOK' /\ LogOK' /\ WaitingOK' /\ TurnOK'
      BY <1>a, <3>1, <3>2, <3>3, <3>7, <3>8, ContinueParts
    <3>. QED
      BY <3>6, <3>9 DEF TypeInv
  <2>2. CASE tab[t].identity # "pending"
    BY <1>a, <1>2, <2>2 DEF SessionCreated, TypeInv, TypeOK, CreationOK, LogOK, WaitingOK, TurnOK
  <2>. QED
    BY <2>1, <2>2
<1>3. ASSUME NEW t \in Tabs, CreateFailed(t) PROVE TypeInv'
  <2>1. CASE tab[t].identity = "pending"
    <3>1. tab[t].queue # <<>>
      BY <1>a, <1>3, <2>1 DEF CreateFailed, CreationOK
    <3>2. Head(tab[t].queue) \in Requests
      BY <1>a, <3>1, DrainedFields DEF Requests
    <3>. DEFINE s == Turn(tab[t], "failed", Head(tab[t].queue))
    <3>3. /\ s \in Tab /\ s.turn = "failed" /\ s.identity = tab[t].identity
          /\ s.queue = tab[t].queue
      <4>1. "failed" \in TurnKinds /\ Head(tab[t].queue) \in Requests \cup {None} /\ tab[t] \in Tab
        BY <1>a, <3>2 DEF TurnKinds
      <4>. QED
        BY <4>1, TabFields
    <3>4. tab' = [tab EXCEPT ![t] = s]
      BY <1>3, <2>1 DEF CreateFailed
    <3>. HIDE DEF s
    <3>5. /\ tab' \in [Tabs -> Tab] /\ tab'[t] = s
          /\ \A u \in Tabs \ {t} : tab'[u] = tab[u]
      BY <1>a, <3>3, <3>4
    <3>6. TypeOK'
      BY <1>a, <1>3, <3>5 DEF CreateFailed, TypeOK, Tab, Wire
    <3>7. CreationOK'
      BY <1>a, <1>3, <3>5 DEF CreateFailed, CreationOK, TypeOK
    <3>8. LogOK'
      BY <1>a, <1>3 DEF CreateFailed, LogOK
    <3>9. WaitingOK' /\ TurnOK'
      BY <1>a, <1>3, <3>3, <3>5 DEF CreateFailed, WaitingOK, TurnOK
    <3>. QED
      BY <3>6, <3>7, <3>8, <3>9 DEF TypeInv
  <2>2. CASE tab[t].identity # "pending"
    BY <1>a, <1>3, <2>2 DEF CreateFailed, TypeInv, TypeOK, CreationOK, LogOK, WaitingOK, TurnOK
  <2>. QED
    BY <2>1, <2>2
<1>4. ASSUME NEW r \in Requests, ServerAnswers(r) \/ RequestBreaks(r) PROVE TypeInv'
  <2>1. PICK p \in {"answered", "plan", "refused"} : wire' = [wire EXCEPT ![r].phase = p]
    BY <1>4 DEF ServerAnswers, RequestBreaks
  <2>2. p \in Phases /\ wire[r].phase = "sent"
    BY <1>4 DEF Phases, ServerAnswers, RequestBreaks
  <2>3. /\ wire' \in [Requests -> Wire]
        /\ \A q \in Requests \ {r} : wire'[q] = wire[q]
    BY <1>a, <2>1, <2>2, PhaseFields
  <2>4. UNCHANGED <<tab, outbound, online, creating, controllers, applied, historyVars>>
    BY <1>4 DEF ServerAnswers, RequestBreaks
  <2>5. TypeOK'
    BY <1>a, <2>3, <2>4 DEF TypeOK, Tab, Wire
  <2>6. LogOK'
    BY <1>a, <2>2, <2>3, <2>4 DEF LogOK
  <2>7. CreationOK' /\ WaitingOK' /\ TurnOK'
    BY <1>a, <2>4 DEF CreationOK, WaitingOK, TurnOK
  <2>. QED
    BY <2>5, <2>6, <2>7 DEF TypeInv
<1>. QED
  BY <1>1, <1>2, <1>3, <1>4 DEF WireStep

\* An outcome that is applied and ends the turn, for OutcomeArrives and
\* OutcomeRepeats: w and cs are what is left of the request.
LEMMA TypeCompletes ==
  ASSUME TypeInv, NEW r \in Requests, outbound[r] \in Tabs,
         NEW w \in [Requests -> Wire], NEW cs \in [Keys -> Commands \cup {None}],
         \A q \in Requests : outbound[q] = None => w[q].phase = "unsent",
         tab[outbound[r]].identity = "remote", Completes(w, cs, r),
         applied' \subseteq Requests,
         UNCHANGED <<outbound, online, creating, asked, cancelled>>
  PROVE  TypeInv'
<1>. DEFINE t == outbound[r]
            s == Turn(tab[t], "idle", None)
<1>1. /\ TypeOK /\ CreationOK /\ LogOK /\ WaitingOK /\ TurnOK
      /\ tab[t] \in Tab
  BY DEF TypeInv, TypeOK, Tab
<1>2. /\ s \in Tab /\ s.identity = "remote" /\ s.turn = "idle" /\ s.queue = tab[t].queue
  <2>1. "idle" \in TurnKinds /\ None \in Requests \cup {None}
    BY DEF TurnKinds
  <2>. QED
    BY <1>1, <2>1, TabFields
<1>3. ContinueQueue(w, cs, t, s)
  BY DEF Completes
<1>4. shown' \in [Requests -> Nat] /\ planned' = planned
  BY <1>1 DEF Completes, TypeOK
<1>. HIDE DEF s
<1>5. /\ tab' \in [Tabs -> Tab] /\ wire' \in [Requests -> Wire]
      /\ controllers' \in [Keys -> Commands \cup {None}]
      /\ posted' \in [Tabs -> Seq(Commands)]
  BY <1>1, <1>2, <1>3, ContinueTypes
<1>6. TypeOK'
  BY <1>1, <1>4, <1>5 DEF TypeOK, Tab, Wire
<1>7. creating' \subseteq creating /\ outbound' = outbound
  OBVIOUS
<1>8. CreationOK' /\ LogOK' /\ WaitingOK' /\ TurnOK'
  BY <1>1, <1>2, <1>3, <1>7, ContinueParts
<1>. QED
  BY <1>6, <1>8 DEF TypeInv

\* One that only changes the turn, and one that is dropped.
LEMMA TypeSettles ==
  ASSUME TypeInv, NEW t \in Tabs, NEW s \in Tab,
         NEW w \in [Requests -> Wire], NEW cs \in [Keys -> Commands \cup {None}],
         \A q \in Requests : outbound[q] = None => w[q].phase = "unsent",
         s = tab[t] \/ (/\ s.turn \in {"idle", "failed", "awaiting"}
                       /\ s.identity = "remote" /\ s.queue = tab[t].queue),
         Settle(w, cs, t, s),
         applied' \subseteq Requests, planned' \subseteq Requests,
         shown' \in [Requests -> Nat],
         UNCHANGED <<outbound, online, creating, asked, cancelled>>
  PROVE  TypeInv'
<1>1. TypeOK /\ CreationOK /\ LogOK /\ WaitingOK /\ TurnOK
  BY DEF TypeInv
<1>2. /\ tab' \in [Tabs -> Tab] /\ tab'[t] = s
      /\ \A u \in Tabs \ {t} : tab'[u] = tab[u]
      /\ wire' = w /\ controllers' = cs /\ posted' = posted
  BY <1>1, SettleTypes
<1>3. TypeOK'
  BY <1>1, <1>2 DEF TypeOK, Tab, Wire
<1>4. CASE s = tab[t]
  <2>1. \A u \in Tabs : tab'[u] = tab[u]
    BY <1>2, <1>4
  <2>2. CreationOK'
    BY <1>1, <2>1 DEF CreationOK, TypeOK
  <2>3. LogOK' /\ WaitingOK' /\ TurnOK'
    BY <1>1, <1>2, <2>1 DEF LogOK, WaitingOK, TurnOK
  <2>. QED
    BY <1>3, <2>2, <2>3 DEF TypeInv
<1>5. CASE /\ s.turn \in {"idle", "failed", "awaiting"}
           /\ s.identity = "remote" /\ s.queue = tab[t].queue
  <2>1. creating' = creating /\ outbound' = outbound
    OBVIOUS
  <2>2. CreationOK' /\ LogOK' /\ WaitingOK' /\ TurnOK'
    BY <1>1, <1>5, <2>1, SettleParts
  <2>. QED
    BY <1>3, <2>2 DEF TypeInv
<1>. QED
  BY <1>4, <1>5

LEMMA TypeKernel ==
  TypeInv /\ KernelStep => TypeInv'
<1>. SUFFICES ASSUME TypeInv, KernelStep PROVE TypeInv'
  OBVIOUS
<1>a. /\ TypeOK /\ LogOK
      /\ tab \in [Tabs -> Tab] /\ wire \in [Requests -> Wire]
      /\ controllers \in [Keys -> Commands \cup {None}]
      /\ \A t \in Tabs : tab[t] \in Tab
  BY DEF TypeInv, TypeOK, Tab, Wire
<1>1. ASSUME NEW r \in Requests, OutcomeArrives(r) PROVE TypeInv'
  <2>. DEFINE t == outbound[r]
              w == Over(r, "over")
              cs == Released(r)
  <2>1. t \in Tabs
    BY <1>1, TakenRequest DEF OutcomeArrives, Returned
  <2>2. /\ w \in [Requests -> Wire]
        /\ \A q \in Requests \ {r} : w[q] = wire[q]
    <3>1. "over" \in Phases
      BY DEF Phases
    <3>. QED
      BY <1>a, <3>1, PhaseFields DEF Over
  <2>3. cs \in [Keys -> Commands \cup {None}]
    BY <1>a DEF Released
  <2>4. \A q \in Requests : outbound[q] = None => w[q].phase = "unsent"
    BY <1>a, <2>1, <2>2, IdsDisjoint DEF LogOK
  <2>5. applied' \subseteq Requests /\ UNCHANGED <<outbound, online, creating, asked, cancelled>>
    BY <1>a, <1>1 DEF OutcomeArrives, TypeOK
  <2>6. planned \subseteq Requests /\ shown \in [Requests -> Nat]
        /\ planned \cup {r} \subseteq Requests
        /\ [shown EXCEPT ![r] = @ + 1] \in [Requests -> Nat]
    BY <1>a DEF TypeOK
  <2>. DEFINE a == Turn(tab[t], "awaiting", r)
              f == Turn(tab[t], "failed", r)
  <2>7. /\ a \in Tab /\ a.turn = "awaiting" /\ a.identity = tab[t].identity /\ a.queue = tab[t].queue
        /\ f \in Tab /\ f.turn = "failed" /\ f.identity = tab[t].identity /\ f.queue = tab[t].queue
    BY <1>a, <2>1, TabFields DEF TurnKinds, Requests
  <2>8. CASE Dropped(w, cs, r)
    <3>1. Settle(w, cs, t, tab[t]) /\ planned' = planned /\ shown' = shown /\ tab[t] \in Tab
      BY <1>a, <2>1, <2>8 DEF Dropped
    <3>. HIDE DEF t, w, cs
    <3>. QED
      BY <2>1, <2>2, <2>3, <2>4, <2>5, <2>6, <3>1, TypeSettles
  <2>9. CASE Applies(r) /\ Completes(w, cs, r)
    <3>1. tab[outbound[r]].identity = "remote"
      BY <2>9 DEF Applies
    <3>. HIDE DEF w, cs
    <3>. QED
      BY <2>1, <2>2, <2>3, <2>4, <2>5, <2>9, <3>1, TypeCompletes
  <2>10. CASE Applies(r) /\ Awaits(w, cs, r)
    <3>1. /\ Settle(w, cs, t, a) /\ planned' = planned \cup {r}
          /\ shown' = [shown EXCEPT ![r] = @ + 1] /\ tab[t].identity = "remote"
      BY <2>10 DEF Awaits, Applies
    <3>. HIDE DEF t, w, cs, a
    <3>. QED
      BY <2>1, <2>2, <2>3, <2>4, <2>5, <2>6, <2>7, <3>1, TypeSettles
  <2>11. CASE Applies(r) /\ Fails(w, cs, r)
    <3>1. /\ Settle(w, cs, t, f) /\ planned' = planned /\ shown' = shown
          /\ tab[t].identity = "remote"
      BY <2>11 DEF Fails, Applies
    <3>. HIDE DEF t, w, cs, f
    <3>. QED
      BY <2>1, <2>2, <2>3, <2>4, <2>5, <2>6, <2>7, <3>1, TypeSettles
  <2>. QED
    BY <1>1, <2>8, <2>9, <2>10, <2>11 DEF OutcomeArrives
<1>2. ASSUME NEW r \in Requests, OutcomeRepeats(r) PROVE TypeInv'
  <2>. DEFINE t == outbound[r]
  <2>1. t \in Tabs /\ tab[t] \in Tab
    BY <1>a, <1>2, TakenRequest DEF OutcomeRepeats
  <2>2. \A q \in Requests : outbound[q] = None => wire[q].phase = "unsent"
    BY <1>a DEF LogOK
  <2>3. applied' \subseteq Requests /\ UNCHANGED <<outbound, online, creating, asked, cancelled>>
    BY <1>a, <1>2 DEF OutcomeRepeats, TypeOK
  <2>4. CASE Applies(r)
    <3>1. tab[outbound[r]].identity = "remote" /\ Completes(wire, controllers, r)
      BY <1>2, <2>4 DEF Applies, OutcomeRepeats
    <3>. QED
      BY <1>a, <2>1, <2>2, <2>3, <3>1, TypeCompletes
  <2>5. CASE ~Applies(r)
    <3>1. Settle(wire, controllers, t, tab[t]) /\ planned' = planned /\ shown' = shown
      BY <1>2, <2>5 DEF OutcomeRepeats, Dropped
    <3>2. planned' \subseteq Requests /\ shown' \in [Requests -> Nat]
      BY <1>a, <3>1 DEF TypeOK
    <3>. HIDE DEF t
    <3>. QED
      BY <1>a, <2>1, <2>2, <2>3, <3>1, <3>2, TypeSettles
  <2>. QED
    BY <2>4, <2>5
<1>. QED
  BY <1>1, <1>2 DEF KernelStep

LEMMA TypeNext == TypeInv /\ [Next]_vars => TypeInv'
<1>1. TypeInv /\ UNCHANGED vars => TypeInv'
  BY DEF vars, clientVars, historyVars, TypeInv, TypeOK, CreationOK, LogOK, WaitingOK, TurnOK
<1>. QED
  BY <1>1, TypeUser, TypeWire, TypeKernel DEF Next

LEMMA TypeInvCorrect == Spec => []TypeInv
<1>. QED
  BY TypeInit, TypeNext, PTL DEF Spec

\* Every reachable state is well typed; only the tabs of server sessions have
\* turns, and every request that is under way belongs to the tab it was taken
\* for.
THEOREM TurnsTypeCorrect == Spec => [](TypeOK /\ LogOK /\ TurnOK)
<1>1. TypeInv => TypeOK /\ LogOK /\ TurnOK
  BY DEF TypeInv
<1>. QED
  BY <1>1, TypeInvCorrect, PTL

-----------------------------------------------------------------------------
(* The turn of a tab and the wire *)

\* An outcome is remembered for as long as the client runs.
AppliedOK == \A r \in Requests : r \in applied <=> wire[r].phase = "over"

\* What waits has not been sent, and waits once.
UnsentOK ==
    \A t \in Tabs : \A i \in 1..Len(tab[t].queue) :
        /\ wire[tab[t].queue[i]].phase = "unsent"
        /\ \A j \in 1..Len(tab[t].queue) : tab[t].queue[j] = tab[t].queue[i] => j = i

\* Requests were taken from tabs that had been opened.
OpenedOK ==
    \A r \in Requests : outbound[r] # None => tab[outbound[r]].identity # "unopened"

\* With the phases of w and the stopped requests x, nothing is live for t ...
Quiet(w, x, t) ==
    \A r \in Requests : w[r].phase \in InFlight /\ r \notin x => outbound[r] # t

\* ... and the other tabs agree with the wire.
OthersLive(w, x, t) ==
    /\ \A u \in Tabs \ {t} : tab[u].turn = "thinking" => w[tab[u].req].phase \in InFlight
    /\ \A r \in Requests :
         w[r].phase \in InFlight /\ r \notin x /\ outbound[r] # t /\ IsOpen(outbound[r])
           => tab[outbound[r]].turn = "thinking" /\ tab[outbound[r]].req = r

LiveInv == AppliedOK /\ UnsentOK /\ OpenedOK /\ OneLiveTurn

\* "sent" is in flight, "unsent" and "over" are not.
LEMMA FlightPhases ==
  /\ "sent" \in InFlight /\ "answered" \in InFlight /\ "plan" \in InFlight
  /\ "refused" \in InFlight /\ "aborted" \in InFlight
  /\ "unsent" \notin InFlight /\ "over" \notin InFlight
  BY DEF InFlight, Returned

\* A tab ends its turn, opens or closes.
LEMMA LiveSettled ==
  ASSUME TypeInv, TypeInv', UnsentOK, OpenedOK,
         NEW w \in [Requests -> Wire], NEW t \in Tabs, NEW s \in Tab,
         tab' = [tab EXCEPT ![t] = s], wire' = w,
         s.queue = tab[t].queue \/ s.queue = <<>>,
         s.turn # "thinking", s.identity # "unopened",
         \A r \in Requests : wire[r].phase = "unsent" => w[r].phase = "unsent",
         \A r \in Requests : r \in applied' <=> w[r].phase = "over",
         Quiet(w, cancelled', t) \/ s.identity = "closed", OthersLive(w, cancelled', t),
         outbound' = outbound
  PROVE  LiveInv'
<1>1. /\ TypeOK /\ LogOK
      /\ tab \in [Tabs -> Tab] /\ \A u \in Tabs : tab[u] \in Tab
      /\ \A r \in Requests : outbound[r] # None => outbound[r] \in Tabs
  BY DEF TypeInv, TypeOK, Tab
<1>2. tab'[t] = s /\ \A u \in Tabs \ {t} : tab'[u] = tab[u]
  BY <1>1
<1>3. AppliedOK'
  BY DEF AppliedOK
<1>4. OpenedOK'
  <2>1. ASSUME NEW r \in Requests, outbound[r] # None
        PROVE  tab'[outbound[r]].identity # "unopened"
    <3>1. outbound[r] = t \/ outbound[r] \in Tabs \ {t}
      BY <1>1, <2>1
    <3>2. CASE outbound[r] = t
      BY <1>2, <3>2
    <3>3. CASE outbound[r] \in Tabs \ {t}
      BY <1>2, <2>1, <3>3 DEF OpenedOK
    <3>. QED
      BY <3>1, <3>2, <3>3
  <2>. QED
    BY <2>1 DEF OpenedOK
<1>5. UnsentOK'
  <2>1. \A u \in Tabs : tab'[u].queue = tab[u].queue \/ tab'[u].queue = <<>>
    BY <1>2
  <2>2. \A u \in Tabs : \A i \in 1..Len(tab[u].queue) : tab[u].queue[i] \in Requests
    BY <1>1 DEF Tab, Requests
  <2>. QED
    BY <2>1, <2>2 DEF UnsentOK
<1>6. OneLiveTurn'
  <2>1. \A u \in Tabs : tab'[u].turn = "thinking" => wire'[tab'[u].req].phase \in InFlight
    BY <1>2 DEF OthersLive
  <2>2. ASSUME NEW r \in Requests, wire'[r].phase \in InFlight, r \notin cancelled',
               IsOpen(outbound[r])'
        PROVE  tab'[outbound[r]].turn = "thinking" /\ tab'[outbound[r]].req = r
    <3>1. outbound[r] # None
      BY <2>2, FlightPhases DEF TypeInv, LogOK
    <3>2. outbound[r] \in Tabs \ {t}
      <4>1. outbound[r] # t
        BY <1>2, <2>2 DEF Quiet, IsOpen
      <4>. QED
        BY <1>1, <3>1, <4>1
    <3>3. tab'[outbound[r]] = tab[outbound[r]]
      BY <1>2, <3>2
    <3>. QED
      BY <2>2, <3>2, <3>3 DEF OthersLive, IsOpen
  <2>. QED
    BY <2>1, <2>2 DEF OneLiveTurn, IsOpen
<1>. QED
  BY <1>3, <1>4, <1>5, <1>6 DEF LiveInv

\* A tab that has no live request looks at its queue.
LEMMA LiveContinue ==
  ASSUME TypeInv, TypeInv', UnsentOK, OpenedOK,
         NEW w \in [Requests -> Wire], NEW t \in Tabs, NEW s \in Tab,
         NEW cs \in [Keys -> Commands \cup {None}], ContinueQueue(w, cs, t, s),
         s.queue = tab[t].queue, s.turn # "thinking", s.identity = "remote",
         \A r \in Requests : wire[r].phase = "unsent" => w[r].phase = "unsent",
         \A r \in Requests : r \in applied' <=> w[r].phase = "over",
         Quiet(w, cancelled, t), OthersLive(w, cancelled, t),
         outbound' = outbound, cancelled' = cancelled
  PROVE  LiveInv'
<1>. DEFINE c == Head(s.queue)
<1>a. /\ TypeOK /\ LogOK /\ WaitingOK
      /\ tab \in [Tabs -> Tab] /\ \A u \in Tabs : tab[u] \in Tab
      /\ \A r \in Requests : outbound[r] # None => outbound[r] \in Tabs
  BY DEF TypeInv, TypeOK, Tab
<1>b. /\ \A u \in Tabs \ {t} : tab'[u] = tab[u]
      /\ tab'[t].identity = "remote"
  BY <1>a, ContinueTypes
<1>c. OpenedOK'
  <2>1. ASSUME NEW r \in Requests, outbound[r] # None
        PROVE  tab'[outbound[r]].identity # "unopened"
    <3>1. outbound[r] = t \/ outbound[r] \in Tabs \ {t}
      BY <1>a, <2>1
    <3>2. CASE outbound[r] \in Tabs \ {t}
      BY <1>b, <2>1, <3>2 DEF OpenedOK
    <3>. QED
      BY <1>b, <3>1, <3>2
  <2>. QED
    BY <2>1 DEF OpenedOK
<1>d. \A r \in Requests : wire'[r].phase \in InFlight => outbound[r] \in Tabs
  BY <1>a, FlightPhases DEF TypeInv, LogOK
<1>1. CASE tab' = [tab EXCEPT ![t] = s] /\ wire' = w
  BY <1>1, LiveSettled
<1>2. CASE s.queue # <<>> /\ tab' = [tab EXCEPT ![t] = Drained(s)] /\ wire' = Sent(w, c, t)
  <2>1. /\ c \in Commands /\ c \in Requests /\ t \in Keys
        /\ tab'[t].turn = "thinking" /\ tab'[t].req = c /\ tab'[t].queue = Tail(s.queue)
    <3>1. tab'[t] = Drained(s)
      BY <1>a, <1>2
    <3>. QED
      BY <1>2, <3>1, DrainedFields DEF Requests, Keys
  <2>2. /\ wire'[c].phase = "sent"
        /\ \A r \in Requests \ {c} : wire'[r] = w[r]
    BY <1>2, <2>1, SentFields
  <2>3. /\ c = s.queue[1]
        /\ 1 \in 1..Len(s.queue)
        /\ Len(Tail(s.queue)) = Len(s.queue) - 1
        /\ \A i \in 1..Len(Tail(s.queue)) :
              Tail(s.queue)[i] = s.queue[i + 1] /\ i + 1 \in 1..Len(s.queue) /\ i + 1 # 1
    BY <1>2 DEF Tab
  <2>4. outbound[c] = t /\ wire[c].phase = "unsent" /\ w[c].phase = "unsent"
    BY <1>a, <2>1, <2>3 DEF WaitingOK, UnsentOK
  <2>5. AppliedOK'
    BY <2>2, <2>4 DEF AppliedOK
  <2>6. UnsentOK'
    <3>1. ASSUME NEW u \in Tabs \ {t}, NEW i \in 1..Len(tab[u].queue)
          PROVE  /\ wire'[tab[u].queue[i]].phase = "unsent"
                 /\ \A j \in 1..Len(tab[u].queue) : tab[u].queue[j] = tab[u].queue[i] => j = i
      <4>1. tab[u].queue[i] \in Requests /\ outbound[tab[u].queue[i]] = u
        BY <1>a, <3>1 DEF Tab, Requests, WaitingOK
      <4>2. tab[u].queue[i] # c
        BY <2>4, <4>1
      <4>. QED
        BY <2>2, <3>1, <4>1, <4>2 DEF UnsentOK
    <3>2. ASSUME NEW i \in 1..Len(tab'[t].queue)
          PROVE  /\ wire'[tab'[t].queue[i]].phase = "unsent"
                 /\ \A j \in 1..Len(tab'[t].queue) : tab'[t].queue[j] = tab'[t].queue[i] => j = i
      <4>. DEFINE m == tab[t].queue[i + 1]
      <4>1. tab'[t].queue[i] = m /\ i + 1 \in 1..Len(tab[t].queue) /\ i + 1 # 1
        BY <2>1, <2>3, <3>2
      <4>2. m \in Requests /\ wire[m].phase = "unsent"
        BY <1>a, <4>1 DEF Tab, Requests, UnsentOK
      <4>3. m # c
        BY <2>3, <4>1 DEF UnsentOK
      <4>4. wire'[m].phase = "unsent"
        BY <2>2, <4>2, <4>3
      <4>5. ASSUME NEW j \in 1..Len(tab'[t].queue), tab'[t].queue[j] = m
            PROVE  j = i
        <5>1. tab[t].queue[j + 1] = m /\ j + 1 \in 1..Len(tab[t].queue)
          BY <2>1, <2>3, <4>5
        <5>2. j + 1 = i + 1
          BY <4>1, <5>1 DEF UnsentOK
        <5>. QED
          BY <5>2
      <4>. QED
        BY <4>1, <4>4, <4>5
    <3>3. ASSUME NEW u \in Tabs \ {t}, NEW i \in 1..Len(tab'[u].queue)
          PROVE  /\ wire'[tab'[u].queue[i]].phase = "unsent"
                 /\ \A j \in 1..Len(tab'[u].queue) : tab'[u].queue[j] = tab'[u].queue[i] => j = i
      <4>1. tab'[u] = tab[u]
        BY <1>b
      <4>. QED
        BY <3>1, <3>3, <4>1
    <3>. QED
      BY <3>2, <3>3 DEF UnsentOK
  <2>7. OneLiveTurn'
    <3>1. ASSUME NEW u \in Tabs, tab'[u].turn = "thinking"
          PROVE  wire'[tab'[u].req].phase \in InFlight
      <4>1. CASE u = t
        BY <2>1, <2>2, <4>1, FlightPhases
      <4>2. CASE u # t
        <5>1. tab'[u] = tab[u] /\ w[tab[u].req].phase \in InFlight
          BY <1>b, <3>1, <4>2 DEF OthersLive
        <5>2. tab[u].req \in Requests \ {c}
          BY <2>4, <3>1, <5>1, FlightPhases DEF TypeInv, TurnOK
        <5>. QED
          BY <2>2, <5>1, <5>2
      <4>. QED
        BY <4>1, <4>2
    <3>2. ASSUME NEW r \in Requests, wire'[r].phase \in InFlight, r \notin cancelled,
                 IsOpen(outbound[r])'
          PROVE  tab'[outbound[r]].turn = "thinking" /\ tab'[outbound[r]].req = r
      <4>1. CASE r = c
        BY <2>1, <2>4, <4>1
      <4>2. CASE r # c
        <5>1. w[r].phase \in InFlight
          BY <2>2, <3>2, <4>2
        <5>2. outbound[r] \in Tabs \ {t}
          BY <1>d, <3>2, <5>1 DEF Quiet
        <5>3. tab'[outbound[r]] = tab[outbound[r]]
          BY <1>b, <5>2
        <5>. QED
          BY <3>2, <5>1, <5>2, <5>3 DEF OthersLive, IsOpen
      <4>. QED
        BY <4>1, <4>2
    <3>. QED
      BY <3>1, <3>2 DEF OneLiveTurn, IsOpen
  <2>. QED
    BY <1>c, <2>5, <2>6, <2>7 DEF LiveInv
<1>. QED
  BY <1>1, <1>2, Continued

\* A request that was just taken is sent from a tab without a live one.
LEMMA LiveSent ==
  ASSUME TypeInv, LiveInv, NEW t \in Tabs, NEW r \in Requests, NEW k \in Keys \cup {None},
         tab' = [tab EXCEPT ![t] = Turn(tab[t], "thinking", r)],
         wire' = Sent(wire, r, k), outbound' = [outbound EXCEPT ![r] = t],
         outbound[r] = None, tab[t].turn # "thinking", tab[t].identity = "remote",
         applied' = applied, cancelled' = cancelled
  PROVE  LiveInv'
<1>1. /\ TypeOK /\ LogOK /\ WaitingOK /\ TurnOK
      /\ AppliedOK /\ UnsentOK /\ OpenedOK /\ OneLiveTurn
      /\ tab \in [Tabs -> Tab] /\ wire \in [Requests -> Wire]
      /\ \A u \in Tabs : tab[u] \in Tab
      /\ \A q \in Requests : outbound[q] # None => outbound[q] \in Tabs
      /\ \A u \in Tabs : u # None
  BY IdsDisjoint DEF TypeInv, LiveInv, TypeOK, Tab, Wire
<1>2. /\ tab'[t].turn = "thinking" /\ tab'[t].req = r /\ tab'[t].queue = tab[t].queue
      /\ tab'[t].identity = "remote"
      /\ \A u \in Tabs \ {t} : tab'[u] = tab[u]
  <2>. DEFINE s == Turn(tab[t], "thinking", r)
  <2>1. "thinking" \in TurnKinds /\ r \in Requests \cup {None} /\ tab[t] \in Tab
    BY <1>1 DEF TurnKinds
  <2>2. /\ s \in Tab /\ s.turn = "thinking" /\ s.req = r
        /\ s.identity = tab[t].identity /\ s.queue = tab[t].queue
    BY <2>1, TabFields
  <2>3. tab' = [tab EXCEPT ![t] = s]
    OBVIOUS
  <2>. HIDE DEF s
  <2>4. tab'[t] = s /\ \A u \in Tabs \ {t} : tab'[u] = tab[u]
    BY <1>1, <2>3
  <2>. QED
    BY <2>2, <2>4
<1>3. /\ wire'[r].phase = "sent" /\ wire[r].phase = "unsent"
      /\ \A q \in Requests \ {r} : wire'[q] = wire[q]
  BY <1>1, SentFields DEF LogOK
<1>4. /\ outbound'[r] = t
      /\ \A q \in Requests \ {r} : outbound'[q] = outbound[q]
  BY <1>1 DEF TypeOK
<1>5. AppliedOK'
  BY <1>1, <1>3 DEF AppliedOK
<1>6. OpenedOK'
  <2>1. ASSUME NEW q \in Requests \ {r}, outbound[q] # None
        PROVE  tab'[outbound[q]].identity # "unopened"
    <3>1. CASE outbound[q] = t
      BY <1>2, <3>1
    <3>2. CASE outbound[q] \in Tabs \ {t}
      BY <1>1, <1>2, <2>1, <3>2 DEF OpenedOK
    <3>. QED
      BY <1>1, <2>1, <3>1, <3>2
  <2>. QED
    BY <1>2, <1>4, <2>1 DEF OpenedOK
<1>7. UnsentOK'
  <2>1. \A u \in Tabs : tab'[u].queue = tab[u].queue
    BY <1>2
  <2>2. ASSUME NEW u \in Tabs, NEW i \in 1..Len(tab[u].queue)
        PROVE  wire'[tab[u].queue[i]].phase = "unsent"
    <3>1. tab[u].queue[i] \in Requests /\ outbound[tab[u].queue[i]] = u /\ u # None
      BY <1>1, <2>2 DEF Tab, Requests, WaitingOK
    <3>2. tab[u].queue[i] # r
      BY <3>1
    <3>. QED
      BY <1>1, <1>3, <2>2, <3>1, <3>2 DEF UnsentOK
  <2>. QED
    BY <1>1, <2>1, <2>2 DEF UnsentOK
<1>8. OneLiveTurn'
  <2>1. ASSUME NEW u \in Tabs, tab'[u].turn = "thinking"
        PROVE  wire'[tab'[u].req].phase \in InFlight
    <3>1. CASE u = t
      BY <1>2, <1>3, <3>1, FlightPhases
    <3>2. CASE u # t
      <4>1. tab'[u] = tab[u]
        BY <1>2, <3>2
      <4>2. tab[u].req \in Requests /\ outbound[tab[u].req] = u
        BY <1>1, <2>1, <4>1 DEF TurnOK
      <4>3. wire[tab[u].req].phase \in InFlight /\ tab[u].req # r
        BY <1>1, <2>1, <4>1, <4>2 DEF OneLiveTurn
      <4>. QED
        BY <1>3, <4>1, <4>2, <4>3
    <3>. QED
      BY <3>1, <3>2
  <2>2. ASSUME NEW q \in Requests, wire'[q].phase \in InFlight, q \notin cancelled,
               IsOpen(outbound[q])'
        PROVE  tab'[outbound'[q]].turn = "thinking" /\ tab'[outbound'[q]].req = q
    <3>1. CASE q = r
      BY <1>2, <1>4, <3>1
    <3>2. CASE q # r
      <4>1. outbound'[q] = outbound[q] /\ wire[q].phase \in InFlight
        BY <1>3, <1>4, <2>2, <3>2
      <4>2. outbound[q] \in Tabs
        BY <1>1, <4>1, FlightPhases DEF LogOK
      <4>3. outbound[q] # t
        BY <1>1, <2>2, <4>1 DEF OneLiveTurn, IsOpen
      <4>4. tab'[outbound[q]] = tab[outbound[q]]
        BY <1>2, <4>2, <4>3
      <4>. QED
        BY <1>1, <2>2, <4>1, <4>4 DEF OneLiveTurn, IsOpen
    <3>. QED
      BY <3>1, <3>2
  <2>. QED
    BY <2>1, <2>2 DEF OneLiveTurn, IsOpen
<1>. QED
  BY <1>5, <1>6, <1>7, <1>8 DEF LiveInv

\* A message that has to wait goes to the end of the queue.
LEMMA LiveQueued ==
  ASSUME TypeInv, LiveInv, NEW t \in Tabs, NEW c \in Commands,
         tab' = [tab EXCEPT ![t] = Queued(tab[t], c)],
         wire' = wire, outbound' = [outbound EXCEPT ![c] = t],
         outbound[c] = None, tab[t].identity # "unopened",
         applied' = applied, cancelled' = cancelled
  PROVE  LiveInv'
<1>1. /\ TypeOK /\ LogOK /\ WaitingOK /\ TurnOK
      /\ AppliedOK /\ UnsentOK /\ OpenedOK /\ OneLiveTurn
      /\ tab \in [Tabs -> Tab]
      /\ \A u \in Tabs : tab[u] \in Tab
      /\ \A q \in Requests : outbound[q] # None => outbound[q] \in Tabs
      /\ \A u \in Tabs : u # None
      /\ c \in Requests
  BY IdsDisjoint DEF TypeInv, LiveInv, TypeOK, Tab, Requests
<1>2. /\ tab'[t].turn = tab[t].turn /\ tab'[t].req = tab[t].req
      /\ tab'[t].queue = Append(tab[t].queue, c) /\ tab'[t].identity = tab[t].identity
      /\ \A u \in Tabs \ {t} : tab'[u] = tab[u]
  BY <1>1, QueuedFields
<1>3. /\ outbound'[c] = t /\ wire[c].phase = "unsent"
      /\ \A q \in Requests \ {c} : outbound'[q] = outbound[q]
  BY <1>1 DEF TypeOK, LogOK
<1>4. AppliedOK'
  BY <1>1 DEF AppliedOK
<1>5. OpenedOK'
  <2>1. ASSUME NEW q \in Requests \ {c}, outbound[q] # None
        PROVE  tab'[outbound[q]].identity # "unopened"
    <3>1. CASE outbound[q] = t
      BY <1>2, <3>1
    <3>2. CASE outbound[q] \in Tabs \ {t}
      BY <1>1, <1>2, <2>1, <3>2 DEF OpenedOK
    <3>. QED
      BY <1>1, <2>1, <3>1, <3>2
  <2>. QED
    BY <1>2, <1>3, <2>1 DEF OpenedOK
<1>6. UnsentOK'
  <2>1. ASSUME NEW u \in Tabs \ {t}, NEW i \in 1..Len(tab'[u].queue)
        PROVE  /\ wire'[tab'[u].queue[i]].phase = "unsent"
               /\ \A j \in 1..Len(tab'[u].queue) : tab'[u].queue[j] = tab'[u].queue[i] => j = i
    <3>1. tab'[u] = tab[u]
      BY <1>2
    <3>. QED
      BY <1>1, <2>1, <3>1 DEF UnsentOK
  <2>. DEFINE n == Len(tab[t].queue)
  <2>2. /\ n \in Nat /\ Len(tab'[t].queue) = n + 1 /\ tab'[t].queue[n + 1] = c
        /\ \A i \in 1..n : tab'[t].queue[i] = tab[t].queue[i] /\ tab[t].queue[i] # c
    <3>1. \A i \in 1..Len(tab[t].queue) : tab[t].queue[i] # c
      BY <1>1 DEF WaitingOK
    <3>. QED
      BY <1>1, <1>2, <3>1 DEF Tab
  <2>3. ASSUME NEW i \in 1..Len(tab'[t].queue)
        PROVE  /\ wire'[tab'[t].queue[i]].phase = "unsent"
               /\ \A j \in 1..Len(tab'[t].queue) : tab'[t].queue[j] = tab'[t].queue[i] => j = i
    <3>. HIDE DEF n
    <3>1. CASE i = n + 1
      <4>1. tab'[t].queue[i] = c
        BY <2>2, <3>1
      <4>2. ASSUME NEW j \in 1..Len(tab'[t].queue), tab'[t].queue[j] = c PROVE j = i
        <5>1. j \in 1..n \/ j = n + 1
          BY <2>2, <4>2
        <5>. QED
          BY <2>2, <3>1, <4>2, <5>1
      <4>. QED
        BY <1>3, <4>1, <4>2
    <3>2. CASE i \in 1..n
      <4>1. /\ tab'[t].queue[i] = tab[t].queue[i]
            /\ wire[tab[t].queue[i]].phase = "unsent"
            /\ \A j \in 1..n : tab[t].queue[j] = tab[t].queue[i] => j = i
        BY <1>1, <2>2, <3>2 DEF UnsentOK, n
      <4>2. ASSUME NEW j \in 1..Len(tab'[t].queue), tab'[t].queue[j] = tab'[t].queue[i]
            PROVE  j = i
        <5>1. j \in 1..n \/ j = n + 1
          BY <2>2, <4>2
        <5>. QED
          BY <2>2, <3>2, <4>1, <4>2, <5>1
      <4>. QED
        BY <4>1, <4>2
    <3>3. i = n + 1 \/ i \in 1..n
      BY <2>2, <2>3
    <3>. QED
      BY <3>1, <3>2, <3>3
  <2>. QED
    BY <2>1, <2>3 DEF UnsentOK
<1>7. OneLiveTurn'
  <2>1. \A u \in Tabs : /\ tab'[u].turn = tab[u].turn /\ tab'[u].req = tab[u].req
                        /\ tab'[u].identity = tab[u].identity
    BY <1>2
  <2>2. ASSUME NEW q \in Requests, wire[q].phase \in InFlight
        PROVE  outbound'[q] = outbound[q] /\ outbound[q] \in Tabs
    BY <1>1, <1>3, <2>2, FlightPhases DEF LogOK
  <2>. QED
    BY <1>1, <2>1, <2>2 DEF OneLiveTurn, IsOpen
<1>. QED
  BY <1>4, <1>5, <1>6, <1>7 DEF LiveInv

\* Nothing is live for a tab that has been opened and does not think.
LEMMA QuietTab ==
  ASSUME TypeInv, LiveInv, NEW t \in Tabs, ~(IsOpen(t) /\ tab[t].turn = "thinking"),
         tab[t].identity # "closed"
  PROVE  Quiet(wire, cancelled, t)
<1>1. ASSUME NEW r \in Requests, wire[r].phase \in InFlight, r \notin cancelled, outbound[r] = t
      PROVE  FALSE
  <2>1. t # None
    BY IdsDisjoint
  <2>2. tab[t].identity # "unopened" /\ tab[t].identity \in Identities
    BY <1>1, <2>1 DEF LiveInv, OpenedOK, TypeInv, TypeOK
  <2>3. IsOpen(t)
    BY <2>2 DEF IsOpen, Identities
  <2>. QED
    BY <1>1, <2>3 DEF LiveInv, OneLiveTurn
<1>. QED
  BY <1>1 DEF Quiet

\* The other tabs do not notice what happens to the requests of t.
LEMMA OthersAgree ==
  ASSUME TypeInv, LiveInv, NEW t \in Tabs, NEW w, NEW x, cancelled \subseteq x,
         \A q \in Requests : w[q].phase \in InFlight => wire[q].phase \in InFlight,
         \A q \in Requests : outbound[q] # t /\ wire[q].phase \in InFlight => w[q].phase \in InFlight
  PROVE  OthersLive(w, x, t)
<1>1. ASSUME NEW u \in Tabs \ {t}, tab[u].turn = "thinking" PROVE w[tab[u].req].phase \in InFlight
  <2>1. tab[u].req \in Requests /\ outbound[tab[u].req] = u
    BY <1>1 DEF TypeInv, TurnOK
  <2>2. wire[tab[u].req].phase \in InFlight
    BY <1>1 DEF LiveInv, OneLiveTurn
  <2>. QED
    BY <2>1, <2>2
<1>2. ASSUME NEW r \in Requests, w[r].phase \in InFlight, r \notin x, IsOpen(outbound[r])
      PROVE  tab[outbound[r]].turn = "thinking" /\ tab[outbound[r]].req = r
  BY <1>2 DEF LiveInv, OneLiveTurn
<1>. QED
  BY <1>1, <1>2 DEF OthersLive

\* Nor do they when all that changed is the tab they are not.
LEMMA OthersStay ==
  ASSUME TypeInv, LiveInv, NEW t \in Tabs
  PROVE  OthersLive(wire, cancelled, t)
  BY OthersAgree

LEMMA LiveInit == Init => LiveInv
<1>. SUFFICES ASSUME Init PROVE LiveInv
  OBVIOUS
<1>1. \A t \in Tabs : tab[t].turn = "idle" /\ tab[t].queue = <<>>
  <2>1. ASSUME NEW t \in Tabs PROVE tab[t] \in {Fresh("unopened"), Fresh("remote")}
    BY DEF Init
  <2>2. ASSUME NEW i \in {"unopened", "remote"} PROVE Fresh(i).turn = "idle" /\ Fresh(i).queue = <<>>
    BY FreshFields DEF Identities
  <2>. QED
    BY <2>1, <2>2
<1>2. \A r \in Requests : wire[r].phase = "unsent"
  BY DEF Init
<1>3. AppliedOK /\ UnsentOK /\ OpenedOK
  BY <1>1, <1>2 DEF Init, AppliedOK, UnsentOK, OpenedOK
<1>4. OneLiveTurn
  BY <1>1, <1>2, FlightPhases DEF OneLiveTurn
<1>. QED
  BY <1>3, <1>4 DEF LiveInv

LEMMA LiveUser ==
  TypeInv /\ LiveInv /\ UserStep /\ TypeInv' => LiveInv'
<1>. SUFFICES ASSUME TypeInv, LiveInv, UserStep, TypeInv' PROVE LiveInv'
  OBVIOUS
<1>. USE DEF historyVars
<1>a. /\ TypeOK /\ TurnOK /\ LogOK
      /\ AppliedOK /\ UnsentOK /\ OpenedOK /\ OneLiveTurn
      /\ tab \in [Tabs -> Tab] /\ wire \in [Requests -> Wire]
      /\ \A t \in Tabs : tab[t] \in Tab
  BY DEF TypeInv, LiveInv, TypeOK, Tab, Wire
<1>b. \A r \in Requests : r \in applied <=> wire[r].phase = "over"
  BY <1>a DEF AppliedOK
<1>1. ASSUME NEW t \in Tabs, OpenTab(t) PROVE LiveInv'
  <2>. DEFINE s == Fresh("pending")
  <2>1. "pending" \in Identities
    BY DEF Identities
  <2>2. /\ s \in Tab /\ s.turn = "idle" /\ s.identity = "pending" /\ s.queue = <<>>
    BY <2>1, FreshFields
  <2>3. /\ tab' = [tab EXCEPT ![t] = s] /\ wire' = wire /\ outbound' = outbound
        /\ applied' = applied /\ cancelled' = cancelled /\ tab[t].identity = "unopened"
    BY <1>1 DEF OpenTab
  <2>. HIDE DEF s
  <2>4. Quiet(wire, cancelled', t)
    BY <2>3, QuietTab DEF IsOpen
  <2>5. OthersLive(wire, cancelled', t)
    BY <2>3, OthersStay
  <2>. QED
    BY <1>a, <1>b, <2>2, <2>3, <2>4, <2>5, LiveSettled
<1>2. ASSUME NEW t \in Tabs, CloseTab(t) PROVE LiveInv'
  <2>. DEFINE s == Fresh("closed")
  <2>1. "closed" \in Identities
    BY DEF Identities
  <2>2. /\ s \in Tab /\ s.turn = "idle" /\ s.identity = "closed" /\ s.queue = <<>>
    BY <2>1, FreshFields
  <2>3. /\ tab' = [tab EXCEPT ![t] = s] /\ wire' = wire /\ outbound' = outbound
        /\ applied' = applied /\ cancelled' = cancelled
    BY <1>2 DEF CloseTab
  <2>. HIDE DEF s
  <2>5. OthersLive(wire, cancelled', t)
    BY <2>3, OthersStay
  <2>. QED
    BY <1>a, <1>b, <2>2, <2>3, <2>5, LiveSettled
<1>3. ASSUME NEW t \in Tabs, CancelTurn(t) PROVE LiveInv'
  <2>. DEFINE s == Turn(tab[t], "idle", None)
  <2>1. "idle" \in TurnKinds /\ None \in Requests \cup {None} /\ tab[t] \in Tab
    BY <1>a DEF TurnKinds
  <2>2. /\ s \in Tab /\ s.turn = "idle" /\ s.identity = tab[t].identity /\ s.queue = tab[t].queue
    BY <2>1, TabFields
  <2>3. /\ tab' = [tab EXCEPT ![t] = s] /\ outbound' = outbound
        /\ applied' = applied /\ cancelled' = cancelled \cup {tab[t].req}
        /\ tab[t].identity = "remote"
    BY <1>3 DEF CancelTurn
  <2>. HIDE DEF s
  <2>4. /\ wire' \in [Requests -> Wire]
        /\ \A r \in Requests :
              wire'[r].phase = wire[r].phase \/ (wire[r].phase = "sent" /\ wire'[r].phase = "aborted")
    <3>1. CASE Victim(t) # None /\ wire[Victim(t)].phase = "sent"
      <4>1. PICK v \in Requests : v = Victim(t)
        BY <1>a, <3>1 DEF Victim, TypeOK, Requests
      <4>2. wire' = [wire EXCEPT ![v].phase = "aborted"]
        BY <1>3, <3>1, <4>1 DEF CancelTurn
      <4>3. "aborted" \in Phases
        BY DEF Phases
      <4>4. /\ wire' \in [Requests -> Wire] /\ wire'[v].phase = "aborted"
            /\ \A q \in Requests \ {v} : wire'[q] = wire[q]
        BY <1>a, <4>2, <4>3, PhaseFields
      <4>. QED
        BY <3>1, <4>1, <4>4
    <3>2. CASE ~(Victim(t) # None /\ wire[Victim(t)].phase = "sent")
      <4>1. wire' = wire
        BY <1>3, <3>2 DEF CancelTurn
      <4>. QED
        BY <1>a, <4>1
    <3>. QED
      BY <3>1, <3>2
  <2>5. /\ \A r \in Requests : wire'[r].phase \in InFlight <=> wire[r].phase \in InFlight
        /\ \A r \in Requests : wire[r].phase = "unsent" => wire'[r].phase = "unsent"
        /\ \A r \in Requests : r \in applied' <=> wire'[r].phase = "over"
    BY <1>b, <2>3, <2>4, FlightPhases
  <2>6. Quiet(wire', cancelled', t)
    <3>1. ASSUME NEW r \in Requests, wire'[r].phase \in InFlight, r \notin cancelled', outbound[r] = t
          PROVE  FALSE
      <4>1. IsOpen(outbound[r])
        BY <2>3, <3>1 DEF IsOpen
      <4>2. wire[r].phase \in InFlight /\ r \notin cancelled
        BY <2>3, <2>5, <3>1
      <4>3. tab[t].req = r
        BY <1>a, <3>1, <4>1, <4>2 DEF OneLiveTurn
      <4>. QED
        BY <2>3, <3>1, <4>3
    <3>. QED
      BY <3>1 DEF Quiet
  <2>7. OthersLive(wire', cancelled', t)
    <3>1. cancelled \subseteq cancelled'
      BY <2>3
    <3>. QED
      BY <2>5, <3>1, OthersAgree
  <2>. QED
    BY <1>a, <2>2, <2>3, <2>4, <2>5, <2>6, <2>7, LiveSettled
<1>4. ASSUME NEW t \in Tabs, NEW d \in Decisions, DecideApproval(t, d) PROVE LiveInv'
  <2>1. d \in Requests /\ None \in Keys \cup {None} /\ tab[t].turn \in {"awaiting"}
    BY <1>4 DEF Requests, DecideApproval, MayDecide
  <2>. QED
    BY <1>4, <2>1, LiveSent DEF DecideApproval, NewCommand
<1>5. ASSUME NEW t \in Tabs, NEW c \in Commands, SubmitTurn(t, c) PROVE LiveInv'
  <2>1. /\ c \in Requests /\ c \in Keys \cup {None} /\ outbound[c] = None
        /\ outbound' = [outbound EXCEPT ![c] = t] /\ applied' = applied /\ cancelled' = cancelled
        /\ tab[t].identity # "unopened"
    BY <1>5 DEF Requests, Keys, SubmitTurn, NewCommand, Accept, IsOpen
  <2>2. CASE StartsAtOnce(t) /\ tab[t].identity = "remote" /\ SendNow(t, c)
    <3>1. tab[t].turn # "thinking"
      BY <2>2 DEF StartsAtOnce
    <3>2. tab' = [tab EXCEPT ![t] = Turn(tab[t], "thinking", c)] /\ wire' = Sent(wire, c, c)
      BY <2>2 DEF SendNow
    <3>. QED
      BY <2>1, <2>2, <3>1, <3>2, LiveSent
  <2>3. CASE Settle(wire, controllers, t, Queued(tab[t], c))
    <3>1. tab' = [tab EXCEPT ![t] = Queued(tab[t], c)] /\ wire' = wire
      BY <2>3 DEF Settle
    <3>. QED
      BY <2>1, <3>1, LiveQueued
  <2>. QED
    BY <1>5, <2>2, <2>3 DEF SubmitTurn
<1>. QED
  BY <1>1, <1>2, <1>3, <1>4, <1>5 DEF UserStep

LEMMA LiveWire ==
  TypeInv /\ LiveInv /\ WireStep /\ TypeInv' => LiveInv'
<1>. SUFFICES ASSUME TypeInv, LiveInv, WireStep, TypeInv' PROVE LiveInv'
  OBVIOUS
<1>. USE DEF historyVars
<1>a. /\ TypeOK /\ TurnOK /\ LogOK /\ WaitingOK /\ CreationOK
      /\ AppliedOK /\ UnsentOK /\ OpenedOK /\ OneLiveTurn
      /\ tab \in [Tabs -> Tab] /\ wire \in [Requests -> Wire]
      /\ controllers \in [Keys -> Commands \cup {None}]
      /\ \A t \in Tabs : tab[t] \in Tab
  BY DEF TypeInv, LiveInv, TypeOK, Tab, Wire
<1>b. \A r \in Requests : r \in applied <=> wire[r].phase = "over"
  BY <1>a DEF AppliedOK
<1>c. ASSUME UNCHANGED <<tab, wire, outbound, applied, cancelled>> PROVE LiveInv'
  BY <1>a, <1>c DEF LiveInv, AppliedOK, UnsentOK, OpenedOK, OneLiveTurn, IsOpen
<1>1. CASE LinkChanges
  BY <1>1, <1>c DEF LinkChanges
<1>2. ASSUME NEW t \in Tabs, SessionCreated(t) PROVE LiveInv'
  <2>1. CASE tab[t].identity = "pending"
    <3>. DEFINE s == [tab[t] EXCEPT !.identity = "remote"]
    <3>1. /\ s \in Tab /\ s.identity = "remote" /\ s.turn = tab[t].turn
          /\ s.queue = tab[t].queue
      BY <1>a DEF Tab, Identities
    <3>2. tab[t].turn # "thinking"
      BY <1>a, <2>1 DEF TurnOK
    <3>3. /\ ContinueQueue(wire, controllers, t, s)
          /\ UNCHANGED <<outbound, applied, cancelled>>
      BY <1>2, <2>1 DEF SessionCreated
    <3>4. Quiet(wire, cancelled, t) /\ OthersLive(wire, cancelled, t)
      BY <2>1, <3>2, QuietTab, OthersStay
    <3>. HIDE DEF s
    <3>. QED
      BY <1>a, <1>b, <3>1, <3>2, <3>3, <3>4, LiveContinue
  <2>2. CASE tab[t].identity # "pending"
    BY <1>2, <2>2, <1>c DEF SessionCreated
  <2>. QED
    BY <2>1, <2>2
<1>3. ASSUME NEW t \in Tabs, CreateFailed(t) PROVE LiveInv'
  <2>1. CASE tab[t].identity = "pending"
    <3>1. tab[t].queue # <<>>
      BY <1>a, <1>3, <2>1 DEF CreateFailed, CreationOK
    <3>2. Head(tab[t].queue) \in Requests
      BY <1>a, <3>1, DrainedFields DEF Requests
    <3>. DEFINE s == Turn(tab[t], "failed", Head(tab[t].queue))
    <3>3. /\ s \in Tab /\ s.turn = "failed" /\ s.identity = tab[t].identity
          /\ s.queue = tab[t].queue
      <4>1. "failed" \in TurnKinds /\ Head(tab[t].queue) \in Requests \cup {None} /\ tab[t] \in Tab
        BY <1>a, <3>2 DEF TurnKinds
      <4>. QED
        BY <4>1, TabFields
    <3>4. /\ tab' = [tab EXCEPT ![t] = s] /\ wire' = wire
          /\ outbound' = outbound /\ applied' = applied /\ cancelled' = cancelled
      BY <1>3, <2>1 DEF CreateFailed
    <3>. HIDE DEF s
    <3>5. Quiet(wire, cancelled', t) /\ OthersLive(wire, cancelled', t)
      BY <1>a, <2>1, <3>4, QuietTab, OthersStay DEF TurnOK
    <3>. QED
      BY <1>a, <1>b, <2>1, <3>3, <3>4, <3>5, LiveSettled
  <2>2. CASE tab[t].identity # "pending"
    BY <1>3, <2>2, <1>c DEF CreateFailed
  <2>. QED
    BY <2>1, <2>2
<1>4. ASSUME NEW r \in Requests, ServerAnswers(r) \/ RequestBreaks(r) PROVE LiveInv'
  <2>1. PICK p \in {"answered", "plan", "refused"} : wire' = [wire EXCEPT ![r].phase = p]
    BY <1>4 DEF ServerAnswers, RequestBreaks
  <2>2. p \in Phases /\ wire[r].phase = "sent" /\ p \in InFlight
    BY <1>4, FlightPhases DEF Phases, ServerAnswers, RequestBreaks
  <2>3. /\ wire'[r].phase = p
        /\ \A q \in Requests \ {r} : wire'[q] = wire[q]
    BY <1>a, <2>1, <2>2, PhaseFields
  <2>4. \A q \in Requests :
          /\ wire'[q].phase \in InFlight <=> wire[q].phase \in InFlight
          /\ wire'[q].phase = "unsent" <=> wire[q].phase = "unsent"
          /\ wire'[q].phase = "over" <=> wire[q].phase = "over"
    BY <2>2, <2>3, FlightPhases
  <2>5. UNCHANGED <<tab, outbound, applied, cancelled>>
    BY <1>4 DEF ServerAnswers, RequestBreaks
  <2>6. \A u \in Tabs : \A i \in 1..Len(tab[u].queue) : tab[u].queue[i] \in Requests
    BY <1>a DEF Tab, Requests
  <2>7. AppliedOK' /\ UnsentOK' /\ OpenedOK'
    BY <1>a, <2>4, <2>5, <2>6 DEF AppliedOK, UnsentOK, OpenedOK
  <2>8. OneLiveTurn'
    BY <1>a, <2>4, <2>5 DEF OneLiveTurn, IsOpen, TurnOK
  <2>. QED
    BY <2>7, <2>8 DEF LiveInv
<1>. QED
  BY <1>1, <1>2, <1>3, <1>4 DEF WireStep

\* What arrives for a live request is applied, so a dropped outcome is not one
\* a tab thinks about.
LEMMA DroppedNotLive ==
  ASSUME TypeInv, LiveInv, NEW r \in Requests, wire[r].phase \in InFlight, ~Applies(r)
  PROVE  /\ r \notin cancelled => ~IsOpen(outbound[r])
         /\ \A u \in Tabs : tab[u].turn = "thinking" => tab[u].req # r
<1>1. FirstTime(r)
  BY FlightPhases DEF LiveInv, AppliedOK, FirstTime
<1>2. tab[outbound[r]].identity # "remote" \/ Stale(outbound[r], r)
  BY <1>1 DEF Applies
<1>3. outbound[r] \in Tabs
  BY FlightPhases, TakenRequest
<1>4. ASSUME r \notin cancelled, IsOpen(outbound[r]) PROVE FALSE
  <2>1. tab[outbound[r]].turn = "thinking" /\ tab[outbound[r]].req = r
    BY <1>4 DEF LiveInv, OneLiveTurn
  <2>2. tab[outbound[r]].identity = "remote"
    BY <1>3, <2>1 DEF TypeInv, TurnOK
  <2>. QED
    BY <1>2, <2>1, <2>2 DEF Stale
<1>5. ASSUME NEW u \in Tabs, tab[u].turn = "thinking", tab[u].req = r PROVE FALSE
  <2>1. outbound[r] = u /\ tab[u].identity = "remote"
    BY <1>5 DEF TypeInv, TurnOK
  <2>. QED
    BY <1>2, <1>5, <2>1 DEF Stale
<1>. QED
  BY <1>4, <1>5

\* What is applied ends the only live turn of its tab.
LEMMA AppliedQuiet ==
  ASSUME TypeInv, LiveInv, NEW r \in Requests, outbound[r] \in Tabs, Applies(r),
         NEW w, w[r].phase = "over", \A q \in Requests \ {r} : w[q] = wire[q]
  PROVE  Quiet(w, cancelled, outbound[r]) /\ OthersLive(w, cancelled, outbound[r])
<1>1. ASSUME NEW q \in Requests, w[q].phase \in InFlight, q \notin cancelled,
             outbound[q] = outbound[r]
      PROVE  FALSE
  <2>1. q # r /\ wire[q].phase \in InFlight
    BY <1>1, FlightPhases
  <2>2. IsOpen(outbound[q])
    BY <1>1 DEF Applies, IsOpen
  <2>3. tab[outbound[r]].turn = "thinking" /\ tab[outbound[r]].req = q
    BY <1>1, <2>1, <2>2 DEF LiveInv, OneLiveTurn
  <2>. QED
    BY <2>1, <2>3 DEF Applies, Stale
<1>2. OthersLive(w, cancelled, outbound[r])
  <2>1. /\ \A q \in Requests : w[q].phase \in InFlight => wire[q].phase \in InFlight
        /\ \A q \in Requests :
             outbound[q] # outbound[r] /\ wire[q].phase \in InFlight => w[q].phase \in InFlight
    BY FlightPhases
  <2>. QED
    BY <2>1, OthersAgree
<1>. QED
  BY <1>1, <1>2 DEF Quiet

LEMMA LiveKernel ==
  TypeInv /\ LiveInv /\ KernelStep /\ TypeInv' => LiveInv'
<1>. SUFFICES ASSUME TypeInv, LiveInv, KernelStep, TypeInv' PROVE LiveInv'
  OBVIOUS
<1>a. /\ TypeOK /\ TurnOK /\ LogOK
      /\ AppliedOK /\ UnsentOK /\ OpenedOK /\ OneLiveTurn
      /\ tab \in [Tabs -> Tab] /\ wire \in [Requests -> Wire]
      /\ controllers \in [Keys -> Commands \cup {None}]
      /\ \A t \in Tabs : tab[t] \in Tab
      /\ \A u \in Tabs : \A i \in 1..Len(tab[u].queue) : tab[u].queue[i] \in Requests
  BY DEF TypeInv, LiveInv, TypeOK, Tab, Wire, Requests
<1>1. ASSUME NEW r \in Requests, OutcomeArrives(r) PROVE LiveInv'
  <2>. DEFINE t == outbound[r]
              w == Over(r, "over")
              cs == Released(r)
  <2>1. wire[r].phase \in InFlight /\ wire[r].phase # "unsent"
    BY <1>1 DEF OutcomeArrives, Returned, InFlight
  <2>2. t \in Tabs /\ tab[t] \in Tab
    BY <1>a, <2>1, TakenRequest
  <2>3. /\ w \in [Requests -> Wire] /\ w[r].phase = "over"
        /\ \A q \in Requests \ {r} : w[q] = wire[q]
    <3>1. "over" \in Phases
      BY DEF Phases
    <3>. QED
      BY <1>a, <3>1, PhaseFields DEF Over
  <2>4. cs \in [Keys -> Commands \cup {None}]
    BY <1>a DEF Released
  <2>5. /\ \A q \in Requests : wire[q].phase = "unsent" => w[q].phase = "unsent"
        /\ \A q \in Requests : q \in applied' <=> w[q].phase = "over"
        /\ outbound' = outbound /\ cancelled' = cancelled
    BY <1>a, <1>1, <2>1, <2>3 DEF OutcomeArrives, AppliedOK
  <2>6. CASE ~Applies(r) /\ Dropped(w, cs, r)
    <3>1. tab' = tab /\ wire' = w
      BY <1>a, <2>2, <2>6 DEF Dropped, Settle
    <3>. HIDE DEF w
    <3>2. AppliedOK' /\ UnsentOK' /\ OpenedOK'
      BY <1>a, <2>5, <3>1 DEF AppliedOK, UnsentOK, OpenedOK
    <3>3. /\ r \notin cancelled => ~IsOpen(outbound[r])
          /\ \A u \in Tabs : tab[u].turn = "thinking" => tab[u].req # r
      BY <2>1, <2>6, DroppedNotLive
    <3>4. OneLiveTurn'
      BY <1>a, <2>3, <2>5, <3>1, <3>3, FlightPhases DEF OneLiveTurn, IsOpen, TurnOK
    <3>. QED
      BY <3>2, <3>4 DEF LiveInv
  <2>7. CASE Applies(r)
    <3>1. /\ Quiet(w, cancelled, t) /\ OthersLive(w, cancelled, t)
          /\ tab[t].identity = "remote"
      BY <2>2, <2>3, <2>7, AppliedQuiet DEF Applies
    <3>2. /\ "idle" \in TurnKinds /\ "awaiting" \in TurnKinds /\ "failed" \in TurnKinds
          /\ r \in Requests \cup {None} /\ None \in Requests \cup {None}
      BY DEF TurnKinds
    <3>3. CASE Completes(w, cs, r)
      <4>. DEFINE s == Turn(tab[t], "idle", None)
      <4>1. /\ s \in Tab /\ s.turn = "idle" /\ s.identity = "remote" /\ s.queue = tab[t].queue
        BY <2>2, <3>1, <3>2, TabFields
      <4>2. ContinueQueue(w, cs, t, s)
        BY <3>3 DEF Completes
      <4>. HIDE DEF s, t, w, cs
      <4>. QED
        BY <1>a, <2>2, <2>3, <2>4, <2>5, <3>1, <4>1, <4>2, LiveContinue
    <3>4. CASE Awaits(w, cs, r) \/ Fails(w, cs, r)
      <4>1. PICK k \in {"awaiting", "failed"} : Settle(w, cs, t, Turn(tab[t], k, r))
        BY <3>4 DEF Awaits, Fails
      <4>. DEFINE s == Turn(tab[t], k, r)
      <4>2. /\ s \in Tab /\ s.turn = k /\ s.identity = "remote" /\ s.queue = tab[t].queue
        BY <2>2, <3>1, <3>2, TabFields
      <4>3. tab' = [tab EXCEPT ![t] = s] /\ wire' = w
        BY <4>1 DEF Settle
      <4>. HIDE DEF s, t, w, cs
      <4>. QED
        BY <1>a, <2>2, <2>3, <2>5, <3>1, <4>2, <4>3, LiveSettled
    <3>. QED
      BY <1>1, <2>7, <3>3, <3>4 DEF OutcomeArrives
  <2>. QED
    BY <1>1, <2>6, <2>7 DEF OutcomeArrives
<1>2. ASSUME NEW r \in Requests, OutcomeRepeats(r) PROVE LiveInv'
  <2>1. ~Applies(r)
    BY <1>a, <1>2 DEF OutcomeRepeats, AppliedOK, Applies, FirstTime
  <2>2. outbound[r] \in Tabs
    BY <1>2, TakenRequest DEF OutcomeRepeats
  <2>3. UNCHANGED <<tab, wire, outbound, applied, cancelled>>
    BY <1>a, <1>2, <2>1, <2>2 DEF OutcomeRepeats, Dropped, Settle
  <2>. QED
    BY <1>a, <2>3 DEF LiveInv, AppliedOK, UnsentOK, OpenedOK, OneLiveTurn, IsOpen
<1>. QED
  BY <1>1, <1>2 DEF KernelStep

LEMMA LiveNext == TypeInv /\ LiveInv /\ [Next]_vars /\ TypeInv' => LiveInv'
<1>1. LiveInv /\ UNCHANGED vars => LiveInv'
  BY DEF vars, clientVars, historyVars, LiveInv, AppliedOK, UnsentOK, OpenedOK, OneLiveTurn, IsOpen
<1>. QED
  BY <1>1, LiveUser, LiveWire, LiveKernel DEF Next

LEMMA LiveCorrect == Spec => []LiveInv
<1>. QED
  BY LiveInit, LiveNext, TypeInit, TypeNext, PTL DEF Spec

\* A tab that thinks has its request in flight, and a live request is the one
\* its tab thinks about: for any number of tabs, messages and decisions.
THEOREM OneLiveTurnHolds == Spec => []OneLiveTurn
<1>1. LiveInv => OneLiveTurn
  BY DEF LiveInv
<1>. QED
  BY <1>1, LiveCorrect, PTL

-----------------------------------------------------------------------------
(* Outcomes *)

Both == TypeInv /\ LiveInv

LEMMA BothCorrect == Spec => []Both
<1>1. TypeInv /\ LiveInv => Both
  BY DEF Both
<1>. QED
  BY <1>1, TypeInvCorrect, LiveCorrect, PTL

\* An outcome that comes a second time changes nothing.
LEMMA RepeatsNothing ==
  ASSUME Both, NEW r \in Requests, OutcomeRepeats(r)
  PROVE  UNCHANGED vars
<1>1. ~Applies(r) /\ outbound[r] \in Tabs
  BY TakenRequest DEF Both, OutcomeRepeats, LiveInv, AppliedOK, Applies, FirstTime
<1>2. tab' = tab /\ wire' = wire /\ controllers' = controllers /\ posted' = posted
      /\ planned' = planned /\ shown' = shown
  BY <1>1 DEF OutcomeRepeats, Dropped, Settle, Both, TypeInv, TypeOK
<1>. QED
  BY <1>2 DEF OutcomeRepeats, vars, clientVars, historyVars

\* Plans and the transcript change only with an outcome that arrives.
LEMMA OnlyOutcomes ==
  ASSUME Both, [Next]_vars
  PROVE  \/ \E r \in Requests : OutcomeArrives(r)
         \/ UNCHANGED <<applied, planned, shown>>
<1>1. ASSUME UserStep PROVE UNCHANGED <<applied, planned, shown>>
  BY <1>1 DEF UserStep, OpenTab, CloseTab, CancelTurn, SubmitTurn, Accept, DecideApproval, historyVars
<1>2. ASSUME WireStep PROVE UNCHANGED <<applied, planned, shown>>
  BY <1>2 DEF WireStep, LinkChanges, SessionCreated, CreateFailed, ServerAnswers,
              RequestBreaks, historyVars
<1>3. ASSUME UNCHANGED vars PROVE UNCHANGED <<applied, planned, shown>>
  BY <1>3 DEF vars, clientVars, historyVars
<1>. QED
  BY <1>1, <1>2, <1>3, RepeatsNothing DEF Next, KernelStep

\* What has been shown has been applied.
ShownOK == \A r \in Requests : shown[r] <= 1 /\ (shown[r] # 0 => r \in applied)

LEMMA ShownNext == Both /\ ShownOK /\ [Next]_vars => ShownOK'
<1>. SUFFICES ASSUME Both, ShownOK, [Next]_vars PROVE ShownOK'
  OBVIOUS
<1>a. shown \in [Requests -> Nat]
  BY DEF Both, TypeInv, TypeOK
<1>1. ASSUME NEW r \in Requests, OutcomeArrives(r) PROVE ShownOK'
  <2>1. applied' = applied \cup {r}
    BY <1>1 DEF OutcomeArrives
  <2>2. shown' = shown \/ (shown' = [shown EXCEPT ![r] = @ + 1] /\ r \notin applied)
    BY <1>1 DEF OutcomeArrives, Dropped, Completes, Awaits, Fails, Applies, FirstTime
  <2>3. CASE shown' = shown
    BY <2>1, <2>3 DEF ShownOK
  <2>4. CASE shown' = [shown EXCEPT ![r] = @ + 1] /\ r \notin applied
    <3>1. shown[r] = 0
      BY <1>a, <2>4 DEF ShownOK
    <3>2. shown'[r] = 1 /\ \A q \in Requests \ {r} : shown'[q] = shown[q]
      BY <1>a, <2>4, <3>1
    <3>. QED
      BY <2>1, <3>2 DEF ShownOK
  <2>. QED
    BY <2>2, <2>3, <2>4
<1>2. CASE UNCHANGED <<applied, planned, shown>>
  BY <1>2 DEF ShownOK
<1>. QED
  BY <1>1, <1>2, OnlyOutcomes

\* The transcript shows the outcome of a request at most once, however late it
\* comes and however often.
THEOREM OutcomesShownOnce == Spec => []ShownOnce
<1>1. Init => ShownOK
  BY DEF Init, ShownOK
<1>2. ShownOK /\ Both => ShownOnce
  BY DEF ShownOK, ShownOnce
<1>. QED
  BY <1>1, <1>2, ShownNext, BothCorrect, PTL DEF Spec

\* What an outcome that arrives does to its tab.
LEMMA ArrivalFields ==
  ASSUME Both, NEW r \in Requests, OutcomeArrives(r)
  PROVE  /\ outbound[r] \in Tabs
         /\ \A u \in Tabs \ {outbound[r]} : tab'[u] = tab[u]
         /\ r \notin applied /\ applied' = applied \cup {r}
         /\ outbound' = outbound /\ cancelled' = cancelled
         /\ \/ ~Applies(r) /\ tab' = tab /\ planned' = planned
            \/ /\ Applies(r) /\ planned' = planned
               /\ tab'[outbound[r]].turn # "awaiting"
            \/ /\ Applies(r) /\ planned' = planned \cup {r}
               /\ tab'[outbound[r]].turn = "awaiting"
<1>. DEFINE t == outbound[r]
            w == Over(r, "over")
            cs == Released(r)
<1>1. /\ TypeOK /\ tab \in [Tabs -> Tab] /\ wire \in [Requests -> Wire]
      /\ controllers \in [Keys -> Commands \cup {None}]
  BY DEF Both, TypeInv, TypeOK, Tab, Wire
<1>2. t \in Tabs /\ tab[t] \in Tab
  <2>1. wire[r].phase # "unsent"
    BY DEF OutcomeArrives, Returned
  <2>. QED
    BY <1>1, <2>1, TakenRequest DEF Both
<1>3. w \in [Requests -> Wire] /\ cs \in [Keys -> Commands \cup {None}]
  <2>1. "over" \in Phases
    BY DEF Phases
  <2>. QED
    BY <1>1, <2>1, PhaseFields DEF Over, Released
<1>4. /\ r \notin applied /\ applied' = applied \cup {r}
      /\ outbound' = outbound /\ cancelled' = cancelled
  BY DEF OutcomeArrives, Returned, Both, LiveInv, AppliedOK
<1>5. CASE ~Applies(r) /\ Dropped(w, cs, r)
  <2>1. tab' = tab /\ planned' = planned
    BY <1>1, <1>2, <1>5 DEF Dropped, Settle
  <2>. QED
    BY <1>2, <1>4, <1>5, <2>1
<1>6. CASE Applies(r) /\ Completes(w, cs, r)
  <2>. DEFINE s == Turn(tab[t], "idle", None)
  <2>1. "idle" \in TurnKinds /\ None \in Requests \cup {None}
    BY DEF TurnKinds
  <2>2. s \in Tab /\ s.turn = "idle"
    BY <1>2, <2>1, TabFields
  <2>3. ContinueQueue(w, cs, t, s) /\ planned' = planned
    BY <1>6 DEF Completes
  <2>. HIDE DEF s, w, cs
  <2>4. \A u \in Tabs \ {t} : tab'[u] = tab[u]
    BY <1>1, <1>2, <1>3, <2>2, <2>3, ContinueTypes
  <2>5. tab'[t].turn # "awaiting"
    <3>1. CASE tab' = [tab EXCEPT ![t] = s]
      BY <1>1, <1>2, <2>2, <3>1
    <3>2. CASE s.queue # <<>> /\ tab' = [tab EXCEPT ![t] = Drained(s)]
      <4>1. tab'[t] = Drained(s)
        BY <1>1, <1>2, <3>2
      <4>. QED
        BY <2>2, <3>2, <4>1, DrainedFields
    <3>. QED
      BY <2>3, <3>1, <3>2, Continued
  <2>. QED
    BY <1>2, <1>4, <1>6, <2>3, <2>4, <2>5
<1>7. CASE Applies(r) /\ Awaits(w, cs, r)
  <2>. DEFINE s == Turn(tab[t], "awaiting", r)
  <2>1. "awaiting" \in TurnKinds /\ r \in Requests \cup {None}
    BY DEF TurnKinds
  <2>2. s.turn = "awaiting"
    BY <1>2, <2>1, TabFields
  <2>3. tab' = [tab EXCEPT ![t] = s] /\ planned' = planned \cup {r}
    BY <1>7 DEF Awaits, Settle
  <2>. HIDE DEF s
  <2>. QED
    BY <1>1, <1>2, <1>4, <1>7, <2>2, <2>3
<1>8. CASE Applies(r) /\ Fails(w, cs, r)
  <2>. DEFINE s == Turn(tab[t], "failed", r)
  <2>1. "failed" \in TurnKinds /\ r \in Requests \cup {None}
    BY DEF TurnKinds
  <2>2. s.turn = "failed"
    BY <1>2, <2>1, TabFields
  <2>3. tab' = [tab EXCEPT ![t] = s] /\ planned' = planned
    BY <1>8 DEF Fails, Settle
  <2>. HIDE DEF s
  <2>. QED
    BY <1>1, <1>2, <1>4, <1>8, <2>2, <2>3
<1>. QED
  BY <1>5, <1>6, <1>7, <1>8 DEF OutcomeArrives

-----------------------------------------------------------------------------
(* Approvals *)

\* A step changes one tab, to x.
Becomes(t, x) == tab'[t] = x /\ \A u \in Tabs \ {t} : tab'[u] = tab[u]

\* The user opens no approval; one goes by a decision or with its tab.
LEMMA UserAwaiting ==
  ASSUME Both, UserStep, NEW u \in Tabs
  PROVE  /\ tab'[u].turn = "awaiting" => tab[u].turn = "awaiting"
         /\ tab[u].turn = "awaiting" /\ tab'[u].turn # "awaiting"
              => \/ tab'[u].identity = "closed"
                 \/ \E d \in Decisions : DecideApproval(u, d) /\ tab'[u].req = d
<1>a. /\ tab \in [Tabs -> Tab] /\ \A t \in Tabs : tab[t] \in Tab
      /\ TurnOK
  BY DEF Both, TypeInv, TypeOK, Tab
<1>1. ASSUME NEW t \in Tabs, NEW i \in {"pending", "closed"},
             Becomes(t, Fresh(i))
      PROVE  /\ tab'[t].turn = "idle" /\ tab'[t].identity = i
             /\ \A v \in Tabs \ {t} : tab'[v] = tab[v]
  <2>1. i \in Identities
    BY DEF Identities
  <2>. QED
    BY <1>1, <2>1, FreshFields DEF Becomes
<1>2. ASSUME NEW t \in Tabs, NEW k \in TurnKinds, NEW r \in Requests \cup {None},
             Becomes(t, Turn(tab[t], k, r))
      PROVE  /\ tab'[t].turn = k /\ tab'[t].req = r
             /\ \A v \in Tabs \ {t} : tab'[v] = tab[v]
  BY <1>a, <1>2, TabFields DEF Becomes
<1>3. ASSUME NEW t \in Tabs, OpenTab(t) \/ CloseTab(t)
      PROVE  /\ tab'[u].turn = "awaiting" => tab[u].turn = "awaiting"
             /\ tab[u].turn = "awaiting" /\ tab'[u].turn # "awaiting" => tab'[u].identity = "closed"
  <2>1. CASE OpenTab(t)
    <3>1. Becomes(t, Fresh("pending")) /\ tab[t].turn # "awaiting"
      BY <1>a, <2>1 DEF OpenTab, TurnOK, Becomes
    <3>. QED
      BY <1>1, <3>1
  <2>2. CASE CloseTab(t)
    <3>1. Becomes(t, Fresh("closed"))
      BY <1>a, <2>2 DEF CloseTab, Becomes
    <3>. QED
      BY <1>1, <3>1
  <2>. QED
    BY <1>3, <2>1, <2>2
<1>4. ASSUME NEW t \in Tabs, CancelTurn(t)
      PROVE  tab'[u].turn = "awaiting" <=> tab[u].turn = "awaiting"
  <2>1. Becomes(t, Turn(tab[t], "idle", None)) /\ tab[t].turn = "thinking"
    BY <1>a, <1>4 DEF CancelTurn, Becomes
  <2>2. "idle" \in TurnKinds /\ None \in Requests \cup {None}
    BY DEF TurnKinds
  <2>. QED
    BY <1>2, <2>1, <2>2
<1>5. ASSUME NEW t \in Tabs, NEW d \in Decisions, DecideApproval(t, d)
      PROVE  /\ tab'[u].turn = "awaiting" => tab[u].turn = "awaiting"
             /\ tab[u].turn = "awaiting" /\ tab'[u].turn # "awaiting" => u = t /\ tab'[u].req = d
  <2>1. Becomes(t, Turn(tab[t], "thinking", d))
    BY <1>a, <1>5 DEF DecideApproval, Becomes
  <2>2. "thinking" \in TurnKinds /\ d \in Requests \cup {None}
    BY DEF TurnKinds, Requests
  <2>. QED
    BY <1>2, <2>1, <2>2
<1>6. ASSUME NEW t \in Tabs, NEW c \in Commands, SubmitTurn(t, c)
      PROVE  tab'[u].turn = "awaiting" <=> tab[u].turn = "awaiting"
  <2>1. CASE StartsAtOnce(t) /\ SendNow(t, c)
    <3>1. Becomes(t, Turn(tab[t], "thinking", c)) /\ tab[t].turn = "idle"
      BY <1>a, <2>1 DEF SendNow, StartsAtOnce, Becomes
    <3>2. "thinking" \in TurnKinds /\ c \in Requests \cup {None}
      BY DEF TurnKinds, Requests
    <3>. QED
      BY <1>2, <3>1, <3>2
  <2>2. CASE Settle(wire, controllers, t, Queued(tab[t], c))
    <3>1. tab'[t] = Queued(tab[t], c) /\ \A v \in Tabs \ {t} : tab'[v] = tab[v]
      BY <1>a, <2>2 DEF Settle
    <3>2. tab'[t].turn = tab[t].turn
      BY <1>a, <3>1, QueuedFields
    <3>. QED
      BY <3>1, <3>2
  <2>. QED
    BY <1>6, <2>1, <2>2 DEF SubmitTurn
<1>. QED
  BY <1>3, <1>4, <1>5, <1>6 DEF UserStep

\* Neither the link nor the creation of a session touches an approval.
LEMMA WireAwaiting ==
  ASSUME Both, WireStep, NEW u \in Tabs
  PROVE  tab'[u].turn = "awaiting" <=> tab[u].turn = "awaiting"
<1>a. /\ tab \in [Tabs -> Tab] /\ \A t \in Tabs : tab[t] \in Tab
      /\ wire \in [Requests -> Wire] /\ controllers \in [Keys -> Commands \cup {None}]
      /\ TypeOK /\ TurnOK /\ CreationOK
  BY DEF Both, TypeInv, TypeOK, Tab, Wire
<1>1. ASSUME NEW t \in Tabs, SessionCreated(t), tab[t].identity = "pending"
      PROVE  tab'[u].turn = "awaiting" <=> tab[u].turn = "awaiting"
  <2>. DEFINE s == [tab[t] EXCEPT !.identity = "remote"]
  <2>0. tab[t].turn # "awaiting"
    BY <1>a, <1>1 DEF TurnOK
  <2>1. s \in Tab /\ s.turn = tab[t].turn /\ s.queue = tab[t].queue
    BY <1>a DEF Tab, Identities
  <2>2. ContinueQueue(wire, controllers, t, s)
    BY <1>1 DEF SessionCreated
  <2>. HIDE DEF s
  <2>3. \A v \in Tabs \ {t} : tab'[v] = tab[v]
    BY <1>a, <2>1, <2>2, ContinueTypes
  <2>4. tab'[t].turn # "awaiting"
    <3>1. CASE tab' = [tab EXCEPT ![t] = s]
      BY <1>a, <2>0, <2>1, <3>1
    <3>2. CASE s.queue # <<>> /\ tab' = [tab EXCEPT ![t] = Drained(s)]
      <4>1. tab'[t] = Drained(s)
        BY <1>a, <3>2
      <4>. QED
        BY <2>1, <3>2, <4>1, DrainedFields
    <3>. QED
      BY <2>2, <3>1, <3>2, Continued
  <2>. QED
    BY <2>0, <2>3, <2>4
<1>2. ASSUME NEW t \in Tabs, CreateFailed(t), tab[t].identity = "pending"
      PROVE  tab'[u].turn = "awaiting" <=> tab[u].turn = "awaiting"
  <2>1. tab[t].queue # <<>> /\ tab[t].turn # "awaiting"
    BY <1>a, <1>2 DEF CreateFailed, CreationOK, TurnOK
  <2>2. Head(tab[t].queue) \in Requests
    BY <1>a, <2>1, DrainedFields DEF Requests
  <2>. DEFINE s == Turn(tab[t], "failed", Head(tab[t].queue))
  <2>3. "failed" \in TurnKinds /\ Head(tab[t].queue) \in Requests \cup {None} /\ tab[t] \in Tab
    BY <1>a, <2>2 DEF TurnKinds
  <2>4. s.turn = "failed" /\ tab' = [tab EXCEPT ![t] = s]
    BY <1>2, <2>3, TabFields DEF CreateFailed
  <2>. HIDE DEF s
  <2>. QED
    BY <1>a, <2>1, <2>4
<1>3. ASSUME tab' = tab PROVE tab'[u].turn = "awaiting" <=> tab[u].turn = "awaiting"
  BY <1>3
<1>. QED
  BY <1>1, <1>2, <1>3 DEF WireStep, LinkChanges, SessionCreated, CreateFailed,
                         ServerAnswers, RequestBreaks

LEMMA ApprovalStep ==
  Both /\ [Next]_vars =>
    \A t \in Tabs :
      tab[t].turn = "awaiting" /\ tab'[t].turn # "awaiting"
        => \/ tab'[t].identity = "closed"
           \/ tab'[t].req \in {d \in Decisions : outbound[d] = None}
           \/ \E r \in cancelled : outbound[r] = t /\ r \in applied' \ applied
<1>. SUFFICES ASSUME Both, [Next]_vars, NEW t \in Tabs,
                     tab[t].turn = "awaiting", tab'[t].turn # "awaiting"
              PROVE  \/ tab'[t].identity = "closed"
                     \/ tab'[t].req \in {d \in Decisions : outbound[d] = None}
                     \/ \E r \in cancelled : outbound[r] = t /\ r \in applied' \ applied
  OBVIOUS
<1>1. CASE UserStep
  BY <1>1, UserAwaiting DEF DecideApproval, NewCommand
<1>2. CASE WireStep
  BY <1>2, WireAwaiting
<1>3. ASSUME NEW r \in Requests, OutcomeArrives(r)
      PROVE  \E q \in cancelled : outbound[q] = t /\ q \in applied' \ applied
  <2>1. outbound[r] = t /\ Applies(r)
    BY <1>3, ArrivalFields
  <2>2. wire[r].phase \in InFlight
    BY <1>3 DEF OutcomeArrives, Returned, InFlight
  <2>3. r \in cancelled
    BY <2>1, <2>2 DEF Both, LiveInv, OneLiveTurn, Applies, IsOpen
  <2>4. r \in applied' \ applied
    BY <1>3, ArrivalFields
  <2>. QED
    BY <2>1, <2>3, <2>4
<1>4. ASSUME NEW r \in Requests, OutcomeRepeats(r) PROVE FALSE
  BY <1>4, RepeatsNothing DEF vars, clientVars
<1>5. CASE UNCHANGED vars
  BY <1>5 DEF vars, clientVars
<1>. QED
  BY <1>1, <1>2, <1>3, <1>4, <1>5 DEF Next, KernelStep

\* An approval that waits for the user goes away by a decision, with its tab, or
\* by the late outcome of a request of the same tab that the user had stopped, and
\* in no other way.
THEOREM ApprovalsKept == Spec => AwaitingKept
<1>1. Both /\ [Next]_vars =>
        [\A t \in Tabs :
           tab[t].turn = "awaiting" /\ tab'[t].turn # "awaiting"
             => \/ tab'[t].identity = "closed"
                \/ tab'[t].req \in {d \in Decisions : outbound[d] = None}
                \/ \E r \in cancelled : outbound[r] = t /\ r \in applied' \ applied]_vars
  BY ApprovalStep
<1>. QED
  BY <1>1, BothCorrect, PTL DEF Spec, AwaitingKept

DecisionsOf(t) == {d \in Decisions : outbound[d] = t}
PlansOf(t)     == {r \in planned : outbound[r] = t}

\* A plan came from an outcome, and a tab that waits for the user has a plan
\* more than it has sent decisions.
PlansOK ==
    /\ planned \subseteq applied
    /\ \A t \in Tabs :
         /\ IsFiniteSet(DecisionsOf(t)) /\ IsFiniteSet(PlansOf(t))
         /\ Cardinality(DecisionsOf(t)) <= Cardinality(PlansOf(t))
         /\ tab[t].turn = "awaiting" => Cardinality(DecisionsOf(t)) < Cardinality(PlansOf(t))

\* Once taken, a request stays with its tab.
LEMMA LogStays ==
  ASSUME Both, UserStep, NEW r \in Requests, outbound[r] # None
  PROVE  outbound'[r] = outbound[r]
<1>1. outbound \in [Requests -> Tabs \cup {None}]
  BY DEF Both, TypeInv, TypeOK
<1>. QED
  BY <1>1 DEF UserStep, OpenTab, CloseTab, CancelTurn, SubmitTurn, Accept, NewCommand,
              DecideApproval

\* The user sends a decision only for an approval.
LEMMA UserDecides ==
  ASSUME Both, UserStep, NEW u \in Tabs
  PROVE  \/ DecisionsOf(u)' = DecisionsOf(u)
         \/ /\ \E d \in Decisions : d \notin DecisionsOf(u) /\ DecisionsOf(u)' = DecisionsOf(u) \cup {d}
            /\ tab[u].turn = "awaiting" /\ tab'[u].turn # "awaiting"
<1>1. /\ outbound \in [Requests -> Tabs \cup {None}] /\ None \notin Tabs
      /\ tab \in [Tabs -> Tab]
      /\ \A d \in Decisions : d \in Requests /\ d \notin Commands
  BY IdsDisjoint DEF Both, TypeInv, TypeOK, Requests, Tab
<1>2. ASSUME outbound' = outbound PROVE DecisionsOf(u)' = DecisionsOf(u)
  BY <1>2 DEF DecisionsOf
<1>3. ASSUME NEW t \in Tabs, NEW c \in Commands, SubmitTurn(t, c)
      PROVE  DecisionsOf(u)' = DecisionsOf(u)
  BY <1>1, <1>3 DEF SubmitTurn, Accept, DecisionsOf
<1>4. ASSUME NEW t \in Tabs, NEW d \in Decisions, DecideApproval(t, d)
      PROVE  \/ DecisionsOf(u)' = DecisionsOf(u)
             \/ /\ d \notin DecisionsOf(u) /\ DecisionsOf(u)' = DecisionsOf(u) \cup {d}
                /\ tab[u].turn = "awaiting" /\ tab'[u].turn # "awaiting"
  <2>1. /\ outbound' = [outbound EXCEPT ![d] = t] /\ outbound[d] = None
        /\ tab[t].turn = "awaiting" /\ tab' = [tab EXCEPT ![t] = Turn(tab[t], "thinking", d)]
    BY <1>4 DEF DecideApproval, NewCommand, MayDecide
  <2>2. /\ outbound'[d] = t /\ \A q \in Decisions \ {d} : outbound'[q] = outbound[q]
    BY <1>1, <2>1
  <2>3. CASE u = t
    <3>1. tab'[t].turn = "thinking"
      <4>1. "thinking" \in TurnKinds /\ d \in Requests \cup {None} /\ tab[t] \in Tab
        BY <1>1 DEF TurnKinds
      <4>2. tab'[t] = Turn(tab[t], "thinking", d)
        BY <1>1, <2>1
      <4>. QED
        BY <4>1, <4>2, TabFields
    <3>2. d \notin DecisionsOf(u)
      BY <1>1, <2>1 DEF DecisionsOf
    <3>3. DecisionsOf(u)' = DecisionsOf(u) \cup {d}
      BY <1>1, <2>2, <2>3 DEF DecisionsOf
    <3>. QED
      BY <2>1, <2>3, <3>1, <3>2, <3>3
  <2>4. CASE u # t
    BY <1>1, <2>1, <2>2, <2>4 DEF DecisionsOf
  <2>. QED
    BY <2>3, <2>4
<1>. QED
  BY <1>2, <1>3, <1>4 DEF UserStep, OpenTab, CloseTab, CancelTurn

LEMMA PlansNext == Both /\ PlansOK /\ [Next]_vars => PlansOK'
<1>. SUFFICES ASSUME Both, PlansOK, [Next]_vars PROVE PlansOK'
  OBVIOUS
<1>a. /\ planned \subseteq applied /\ planned \subseteq Requests
      /\ \A r \in planned : outbound[r] # None
      /\ \A t \in Tabs : /\ IsFiniteSet(DecisionsOf(t)) /\ IsFiniteSet(PlansOf(t))
                         /\ Cardinality(DecisionsOf(t)) \in Nat /\ Cardinality(PlansOf(t)) \in Nat
  <2>1. planned \subseteq applied /\ planned \subseteq Requests
    BY DEF PlansOK, Both, TypeInv, TypeOK
  <2>2. \A r \in planned : outbound[r] # None
    BY <2>1 DEF Both, TypeInv, LogOK, LiveInv, AppliedOK
  <2>. QED
    BY <2>1, <2>2, FS_CardinalityType DEF PlansOK
<1>1. CASE UserStep
  <2>1. planned' = planned /\ applied' = applied
    BY <1>1 DEF UserStep, OpenTab, CloseTab, CancelTurn, SubmitTurn, Accept, DecideApproval, historyVars
  <2>2. \A r \in planned : outbound'[r] = outbound[r]
    BY <1>1, <1>a, LogStays
  <2>3. \A t \in Tabs : PlansOf(t)' = PlansOf(t)
    BY <2>1, <2>2 DEF PlansOf
  <2>4. ASSUME NEW t \in Tabs
        PROVE  /\ IsFiniteSet(DecisionsOf(t)') /\ IsFiniteSet(PlansOf(t)')
               /\ Cardinality(DecisionsOf(t)') <= Cardinality(PlansOf(t)')
               /\ tab'[t].turn = "awaiting" =>
                    Cardinality(DecisionsOf(t)') < Cardinality(PlansOf(t)')
    <3>1. tab'[t].turn = "awaiting" => tab[t].turn = "awaiting"
      BY <1>1, UserAwaiting
    <3>2. CASE DecisionsOf(t)' = DecisionsOf(t)
      BY <2>3, <3>1, <3>2 DEF PlansOK
    <3>3. CASE /\ \E d \in Decisions : d \notin DecisionsOf(t) /\ DecisionsOf(t)' = DecisionsOf(t) \cup {d}
               /\ tab[t].turn = "awaiting" /\ tab'[t].turn # "awaiting"
      <4>1. IsFiniteSet(DecisionsOf(t)') /\ Cardinality(DecisionsOf(t)') = Cardinality(DecisionsOf(t)) + 1
        BY <1>a, <3>3, FS_AddElement
      <4>2. Cardinality(DecisionsOf(t)) < Cardinality(PlansOf(t))
        BY <3>3 DEF PlansOK
      <4>. QED
        BY <1>a, <2>3, <3>3, <4>1, <4>2
    <3>. QED
      BY <1>1, <3>2, <3>3, UserDecides
  <2>. QED
    BY <1>a, <2>1, <2>4 DEF PlansOK
<1>2. ASSUME UNCHANGED <<planned, applied, outbound>>,
             \A t \in Tabs : tab'[t].turn = "awaiting" => tab[t].turn = "awaiting"
      PROVE  PlansOK'
  BY <1>2 DEF PlansOK, PlansOf, DecisionsOf
<1>3. CASE WireStep
  <2>1. UNCHANGED <<planned, applied, outbound>>
    BY <1>3 DEF WireStep, LinkChanges, SessionCreated, CreateFailed, ServerAnswers,
                RequestBreaks, historyVars
  <2>. QED
    BY <1>2, <1>3, <2>1, WireAwaiting
<1>4. ASSUME NEW r \in Requests, OutcomeArrives(r) PROVE PlansOK'
  <2>1. /\ outbound[r] \in Tabs /\ outbound' = outbound
        /\ \A u \in Tabs \ {outbound[r]} : tab'[u] = tab[u]
        /\ r \notin applied /\ applied' = applied \cup {r}
    BY <1>4, ArrivalFields
  <2>2. CASE /\ planned' = planned
             /\ \A t \in Tabs : tab'[t].turn = "awaiting" => tab[t].turn = "awaiting"
    BY <2>1, <2>2 DEF PlansOK, PlansOf, DecisionsOf
  <2>3. CASE planned' = planned \cup {r}
    <3>1. \A t \in Tabs : DecisionsOf(t)' = DecisionsOf(t)
      BY <2>1 DEF DecisionsOf
    <3>. PICK o \in Tabs : o = outbound[r]
      BY <2>1
    <3>2. r \notin PlansOf(o) /\ PlansOf(o)' = PlansOf(o) \cup {r}
      BY <1>a, <2>1, <2>3 DEF PlansOf
    <3>3. \A t \in Tabs \ {o} : PlansOf(t)' = PlansOf(t)
      BY <2>1, <2>3 DEF PlansOf
    <3>4. IsFiniteSet(PlansOf(o)') /\ Cardinality(PlansOf(o)') = Cardinality(PlansOf(o)) + 1
      BY <1>a, <3>2, FS_AddElement
    <3>5. ASSUME NEW t \in Tabs
          PROVE  /\ IsFiniteSet(DecisionsOf(t)') /\ IsFiniteSet(PlansOf(t)')
                 /\ Cardinality(DecisionsOf(t)') <= Cardinality(PlansOf(t)')
                 /\ tab'[t].turn = "awaiting" =>
                      Cardinality(DecisionsOf(t)') < Cardinality(PlansOf(t)')
      <4>1. CASE t = o
        <5>1. Cardinality(DecisionsOf(t)) <= Cardinality(PlansOf(t))
          BY DEF PlansOK
        <5>. QED
          BY <1>a, <3>1, <3>4, <4>1, <5>1
      <4>2. CASE t # o
        BY <2>1, <3>1, <3>3, <4>2 DEF PlansOK
      <4>. QED
        BY <4>1, <4>2
    <3>. QED
      BY <1>a, <2>1, <2>3, <3>5 DEF PlansOK
  <2>. QED
    BY <1>4, <2>1, <2>2, <2>3, ArrivalFields
<1>5. CASE UNCHANGED vars
  BY <1>2, <1>5 DEF vars, clientVars, historyVars
<1>. QED
  BY <1>1, <1>3, <1>4, <1>5, RepeatsNothing DEF Next, KernelStep

LEMMA PlansInit == Init => PlansOK
<1>. SUFFICES ASSUME Init PROVE PlansOK
  OBVIOUS
<1>1. planned = {} /\ applied = {} /\ \A r \in Requests : outbound[r] = None
  BY DEF Init
<1>2. \A t \in Tabs : DecisionsOf(t) = {} /\ PlansOf(t) = {}
  BY <1>1, IdsDisjoint DEF DecisionsOf, PlansOf, Requests
<1>3. \A t \in Tabs : tab[t].turn # "awaiting"
  <2>1. ASSUME NEW t \in Tabs PROVE tab[t] \in {Fresh("unopened"), Fresh("remote")}
    BY DEF Init
  <2>2. ASSUME NEW i \in {"unopened", "remote"} PROVE Fresh(i).turn = "idle"
    BY FreshFields DEF Identities
  <2>. QED
    BY <2>1, <2>2
<1>. QED
  BY <1>1, <1>2, <1>3, FS_EmptySet DEF PlansOK

\* No tab sends more decisions than its turns have opened approvals: a plan is
\* not decided twice, however many decisions the user types.
THEOREM PlansDecidedOnce == Spec => []OneDecisionPerPlan
<1>1. PlansOK => OneDecisionPerPlan
  BY DEF PlansOK, OneDecisionPerPlan, DecisionsOf, PlansOf
<1>. QED
  BY <1>1, PlansInit, PlansNext, BothCorrect, PTL DEF Spec

-----------------------------------------------------------------------------
(* The order of the messages *)

\* The head of a queue moves to the end of what was posted ...
LEMMA MoveHead ==
  ASSUME NEW p \in Seq(Commands), NEW q \in Seq(Commands), q # <<>>
  PROVE  Append(p, Head(q)) \o Tail(q) = p \o q
<1>1. /\ Head(q) = q[1] /\ Tail(q) \in Seq(Commands) /\ Len(Tail(q)) = Len(q) - 1
      /\ Append(p, Head(q)) \in Seq(Commands) /\ Len(q) \in Nat \ {0} /\ Len(p) \in Nat
      /\ Len(Append(p, Head(q))) = Len(p) + 1
      /\ \A i \in 1..Len(Tail(q)) : Tail(q)[i] = q[i + 1]
      /\ \A i \in 1..Len(p) : Append(p, Head(q))[i] = p[i]
      /\ Append(p, Head(q))[Len(p) + 1] = q[1]
  BY HeadTailProperties, EmptySeq, LenProperties
<1>. DEFINE l == Append(p, Head(q)) \o Tail(q)
            m == p \o q
<1>2. /\ l \in Seq(Commands) /\ Len(l) = Len(p) + Len(q)
      /\ m \in Seq(Commands) /\ Len(m) = Len(p) + Len(q)
  BY <1>1, ConcatProperties
<1>3. ASSUME NEW i \in 1..Len(l) PROVE l[i] = m[i]
  <2>1. CASE i \in 1..Len(p)
    BY <1>1, <1>2, <2>1, ConcatProperties
  <2>2. CASE i = Len(p) + 1
    BY <1>1, <1>2, <2>2, ConcatProperties
  <2>3. CASE i \in (Len(p) + 2)..(Len(p) + Len(q))
    BY <1>1, <1>2, <2>3, ConcatProperties
  <2>. QED
    BY <1>1, <1>2, <1>3, <2>1, <2>2, <2>3
<1>. HIDE DEF l, m
<1>4. l = m
  BY <1>2, <1>3, SeqEqual
<1>. QED
  BY <1>4 DEF l, m

\* ... and a message that is taken goes behind what waits.
LEMMA AppendBehind ==
  ASSUME NEW p \in Seq(Commands), NEW q \in Seq(Commands), NEW c \in Commands
  PROVE  Append(p \o q, c) = p \o Append(q, c)
<1>1. /\ p \o q \in Seq(Commands) /\ <<c>> \in Seq(Commands)
      /\ Append(p \o q, c) = (p \o q) \o <<c>> /\ Append(q, c) = q \o <<c>>
  BY ConcatProperties
<1>. QED
  BY <1>1, ConcatAssociative

\* Before a tab is opened nothing was asked of it.
OrderOK ==
    \A t \in Tabs :
        /\ IsOpen(t) => asked[t] = posted[t] \o tab[t].queue
        /\ tab[t].identity = "unopened" => asked[t] = <<>> /\ posted[t] = <<>>

\* A step that leaves the messages alone, or closes the tab.
LEMMA OrderStays ==
  ASSUME Both, OrderOK, asked' = asked, posted' = posted,
         \A u \in Tabs : \/ tab'[u].identity \notin {"unopened", "pending", "remote"}
                         \/ tab'[u].identity = tab[u].identity /\ tab'[u].queue = tab[u].queue
                         \/ IsOpen(u) /\ tab'[u].identity = "remote" /\ tab'[u].queue = tab[u].queue
                         \/ /\ tab[u].identity = "unopened"
                            /\ tab'[u].identity = "pending" /\ tab'[u].queue = <<>>
  PROVE  OrderOK'
<1>1. <<>> \in Seq(Commands) /\ <<>> \o <<>> = <<>>
  BY ConcatEmptySeq
<1>. QED
  BY <1>1 DEF OrderOK, IsOpen

LEMMA OrderContinue ==
  ASSUME Both, OrderOK, NEW w \in [Requests -> Wire], NEW t \in Tabs, NEW s \in Tab,
         NEW cs \in [Keys -> Commands \cup {None}], ContinueQueue(w, cs, t, s),
         IsOpen(t), s.identity = "remote", s.queue = tab[t].queue, asked' = asked
  PROVE  OrderOK'
<1>1. /\ TypeOK /\ tab \in [Tabs -> Tab] /\ posted \in [Tabs -> Seq(Commands)]
      /\ s.queue \in Seq(Commands)
  BY DEF Both, TypeInv, TypeOK, Tab
<1>2. tab'[t].identity = "remote" /\ \A u \in Tabs \ {t} : tab'[u] = tab[u]
  BY <1>1, ContinueTypes
<1>3. CASE tab' = [tab EXCEPT ![t] = s] /\ posted' = posted
  <2>1. tab'[t] = s
    BY <1>1, <1>3
  <2>. QED
    BY <1>2, <1>3, <2>1, OrderStays
<1>4. CASE /\ s.queue # <<>> /\ tab' = [tab EXCEPT ![t] = Drained(s)]
           /\ posted' = [posted EXCEPT ![t] = Append(@, Head(s.queue))]
  <2>1. /\ tab'[t].queue = Tail(s.queue)
        /\ posted'[t] = Append(posted[t], Head(s.queue))
        /\ \A u \in Tabs \ {t} : posted'[u] = posted[u]
    <3>1. tab'[t] = Drained(s)
      BY <1>1, <1>4
    <3>. QED
      BY <1>1, <1>4, <3>1, DrainedFields
  <2>2. asked[t] = posted'[t] \o tab'[t].queue
    <3>1. Append(posted[t], Head(s.queue)) \o Tail(s.queue) = posted[t] \o s.queue
      BY <1>1, <1>4, MoveHead
    <3>2. asked[t] = posted[t] \o s.queue
      BY DEF OrderOK
    <3>. QED
      BY <2>1, <3>1, <3>2
  <2>. QED
    BY <1>2, <2>1, <2>2 DEF OrderOK, IsOpen
<1>. QED
  BY <1>3, <1>4, Continued

LEMMA OrderUser == Both /\ OrderOK /\ UserStep => OrderOK'
<1>. SUFFICES ASSUME Both, OrderOK, UserStep PROVE OrderOK'
  OBVIOUS
<1>. USE DEF historyVars
<1>a. /\ tab \in [Tabs -> Tab] /\ \A t \in Tabs : tab[t] \in Tab
      /\ asked \in [Tabs -> Seq(Commands)] /\ posted \in [Tabs -> Seq(Commands)]
  BY DEF Both, TypeInv, TypeOK, Tab
<1>1. ASSUME NEW t \in Tabs, OpenTab(t) PROVE OrderOK'
  <2>1. "pending" \in Identities
    BY DEF Identities
  <2>2. /\ tab'[t].identity = "pending" /\ tab'[t].queue = <<>>
        /\ tab[t].identity = "unopened"
        /\ \A u \in Tabs \ {t} : tab'[u] = tab[u]
    BY <1>a, <1>1, <2>1, FreshFields DEF OpenTab
  <2>. QED
    BY <1>1, <2>2, OrderStays DEF OpenTab
<1>2. ASSUME NEW t \in Tabs, CloseTab(t) PROVE OrderOK'
  <2>1. "closed" \in Identities
    BY DEF Identities
  <2>2. tab'[t].identity = "closed" /\ \A u \in Tabs \ {t} : tab'[u] = tab[u]
    BY <1>a, <1>2, <2>1, FreshFields DEF CloseTab
  <2>. QED
    BY <1>2, <2>2, OrderStays DEF CloseTab
<1>3. ASSUME NEW t \in Tabs, NEW k \in TurnKinds, NEW r \in Requests \cup {None},
             tab' = [tab EXCEPT ![t] = Turn(tab[t], k, r)]
      PROVE  \A u \in Tabs : tab'[u].identity = tab[u].identity /\ tab'[u].queue = tab[u].queue
  <2>1. tab'[t] = Turn(tab[t], k, r) /\ \A u \in Tabs \ {t} : tab'[u] = tab[u]
    BY <1>a, <1>3
  <2>2. tab'[t].identity = tab[t].identity /\ tab'[t].queue = tab[t].queue
    BY <1>a, <2>1, TabFields
  <2>. QED
    BY <2>1, <2>2
<1>4. ASSUME NEW t \in Tabs, CancelTurn(t) PROVE OrderOK'
  <2>1. "idle" \in TurnKinds /\ None \in Requests \cup {None}
    BY DEF TurnKinds
  <2>. QED
    BY <1>3, <1>4, <2>1, OrderStays DEF CancelTurn
<1>5. ASSUME NEW t \in Tabs, NEW d \in Decisions, DecideApproval(t, d) PROVE OrderOK'
  <2>1. "thinking" \in TurnKinds /\ d \in Requests \cup {None}
    BY DEF TurnKinds, Requests
  <2>. QED
    BY <1>3, <1>5, <2>1, OrderStays DEF DecideApproval
<1>6. ASSUME NEW t \in Tabs, NEW c \in Commands, SubmitTurn(t, c) PROVE OrderOK'
  <2>1. /\ asked'[t] = Append(asked[t], c) /\ \A u \in Tabs \ {t} : asked'[u] = asked[u]
        /\ asked[t] = posted[t] \o tab[t].queue /\ tab[t].identity # "unopened"
    BY <1>a, <1>6 DEF SubmitTurn, Accept, OrderOK, IsOpen
  <2>2. CASE StartsAtOnce(t) /\ SendNow(t, c)
    <3>1. "thinking" \in TurnKinds /\ c \in Requests \cup {None}
      BY DEF TurnKinds, Requests
    <3>2. \A u \in Tabs : tab'[u].identity = tab[u].identity /\ tab'[u].queue = tab[u].queue
      BY <1>3, <2>2, <3>1 DEF SendNow
    <3>3. posted'[t] = Append(posted[t], c) /\ \A u \in Tabs \ {t} : posted'[u] = posted[u]
      BY <1>a, <2>2 DEF SendNow
    <3>4. tab[t].queue = <<>>
      BY <2>2 DEF StartsAtOnce
    <3>5. asked'[t] = posted'[t] \o tab'[t].queue
      <4>1. posted[t] \o <<>> = posted[t]
        BY <1>a, ConcatEmptySeq
      <4>2. Append(posted[t], c) \in Seq(Commands)
        BY <1>a
      <4>3. Append(posted[t], c) \o <<>> = Append(posted[t], c)
        BY <4>2, ConcatEmptySeq
      <4>. QED
        BY <2>1, <3>2, <3>3, <3>4, <4>1, <4>3
    <3>. QED
      BY <2>1, <3>2, <3>3, <3>5 DEF OrderOK, IsOpen
  <2>3. CASE Settle(wire, controllers, t, Queued(tab[t], c))
    <3>1. /\ tab'[t] = Queued(tab[t], c) /\ posted' = posted
          /\ \A u \in Tabs \ {t} : tab'[u] = tab[u]
      BY <1>a, <2>3 DEF Settle
    <3>2. tab'[t].identity = tab[t].identity /\ tab'[t].queue = Append(tab[t].queue, c)
      BY <1>a, <3>1, QueuedFields
    <3>3. asked'[t] = posted'[t] \o tab'[t].queue
      <4>1. posted[t] \in Seq(Commands) /\ tab[t].queue \in Seq(Commands)
        BY <1>a DEF Tab
      <4>. QED
        BY <2>1, <3>1, <3>2, <4>1, AppendBehind
    <3>. QED
      BY <2>1, <3>1, <3>2, <3>3 DEF OrderOK, IsOpen
  <2>. QED
    BY <1>6, <2>2, <2>3 DEF SubmitTurn
<1>. QED
  BY <1>1, <1>2, <1>4, <1>5, <1>6 DEF UserStep

LEMMA OrderWire == Both /\ OrderOK /\ WireStep => OrderOK'
<1>. SUFFICES ASSUME Both, OrderOK, WireStep PROVE OrderOK'
  OBVIOUS
<1>a. /\ tab \in [Tabs -> Tab] /\ \A t \in Tabs : tab[t] \in Tab
      /\ wire \in [Requests -> Wire] /\ controllers \in [Keys -> Commands \cup {None}]
      /\ CreationOK
  BY DEF Both, TypeInv, TypeOK, Tab, Wire
<1>1. ASSUME NEW t \in Tabs, SessionCreated(t), tab[t].identity = "pending" PROVE OrderOK'
  <2>. DEFINE s == [tab[t] EXCEPT !.identity = "remote"]
  <2>1. s \in Tab /\ s.queue = tab[t].queue /\ s.identity = "remote"
    BY <1>a DEF Tab, Identities
  <2>2. ContinueQueue(wire, controllers, t, s) /\ asked' = asked /\ IsOpen(t)
    BY <1>1 DEF SessionCreated, IsOpen
  <2>. HIDE DEF s
  <2>. QED
    BY <1>a, <2>1, <2>2, OrderContinue
<1>2. ASSUME NEW t \in Tabs, CreateFailed(t), tab[t].identity = "pending" PROVE OrderOK'
  <2>1. tab[t].queue # <<>>
    BY <1>a, <1>2 DEF CreateFailed, CreationOK
  <2>2. Head(tab[t].queue) \in Requests
    BY <1>a, <2>1, DrainedFields DEF Requests
  <2>. DEFINE s == Turn(tab[t], "failed", Head(tab[t].queue))
  <2>3. "failed" \in TurnKinds /\ Head(tab[t].queue) \in Requests \cup {None} /\ tab[t] \in Tab
    BY <1>a, <2>2 DEF TurnKinds
  <2>4. /\ s.identity = tab[t].identity /\ s.queue = tab[t].queue
        /\ tab' = [tab EXCEPT ![t] = s] /\ asked' = asked /\ posted' = posted
    BY <1>2, <2>3, TabFields DEF CreateFailed, historyVars
  <2>. HIDE DEF s
  <2>5. tab'[t] = s /\ \A u \in Tabs \ {t} : tab'[u] = tab[u]
    BY <1>a, <2>4
  <2>. QED
    BY <2>4, <2>5, OrderStays
<1>3. ASSUME UNCHANGED <<tab, asked, posted>> PROVE OrderOK'
  BY <1>3 DEF OrderOK, IsOpen
<1>. QED
  BY <1>1, <1>2, <1>3 DEF WireStep, LinkChanges, SessionCreated, CreateFailed,
                         ServerAnswers, RequestBreaks, historyVars

LEMMA OrderKernel == Both /\ OrderOK /\ KernelStep => OrderOK'
<1>. SUFFICES ASSUME Both, OrderOK, KernelStep PROVE OrderOK'
  OBVIOUS
<1>a. /\ tab \in [Tabs -> Tab] /\ wire \in [Requests -> Wire]
      /\ controllers \in [Keys -> Commands \cup {None}]
  BY DEF Both, TypeInv, TypeOK, Tab, Wire
<1>1. ASSUME NEW r \in Requests, OutcomeArrives(r) PROVE OrderOK'
  <2>. DEFINE t == outbound[r]
              w == Over(r, "over")
              cs == Released(r)
  <2>1. t \in Tabs /\ tab[t] \in Tab /\ asked' = asked
    BY <1>a, <1>1, ArrivalFields DEF OutcomeArrives, Both
  <2>2. w \in [Requests -> Wire] /\ cs \in [Keys -> Commands \cup {None}]
    <3>1. "over" \in Phases
      BY DEF Phases
    <3>. QED
      BY <1>a, <3>1, PhaseFields DEF Over, Released
  <2>3. CASE Dropped(w, cs, r)
    <3>1. tab' = tab /\ posted' = posted
      BY <1>a, <2>1, <2>3 DEF Dropped, Settle
    <3>. QED
      BY <2>1, <3>1 DEF OrderOK, IsOpen
  <2>4. CASE Applies(r) /\ Completes(w, cs, r)
    <3>. DEFINE s == Turn(tab[t], "idle", None)
    <3>1. "idle" \in TurnKinds /\ None \in Requests \cup {None} /\ tab[t].identity = "remote"
      BY <2>4 DEF TurnKinds, Applies
    <3>2. s \in Tab /\ s.queue = tab[t].queue /\ s.identity = "remote"
      BY <2>1, <3>1, TabFields
    <3>3. ContinueQueue(w, cs, t, s) /\ IsOpen(t)
      BY <2>4, <3>1 DEF Completes, IsOpen
    <3>. HIDE DEF s, t, w, cs
    <3>. QED
      BY <2>1, <2>2, <3>2, <3>3, OrderContinue
  <2>5. CASE Applies(r) /\ (Awaits(w, cs, r) \/ Fails(w, cs, r))
    <3>1. PICK k \in {"awaiting", "failed"} : Settle(w, cs, t, Turn(tab[t], k, r))
      BY <2>5 DEF Awaits, Fails
    <3>. DEFINE s == Turn(tab[t], k, r)
    <3>2. k \in TurnKinds /\ r \in Requests \cup {None}
      BY DEF TurnKinds
    <3>3. s.identity = tab[t].identity /\ s.queue = tab[t].queue
      BY <2>1, <3>2, TabFields
    <3>4. tab' = [tab EXCEPT ![t] = s] /\ posted' = posted
      BY <3>1 DEF Settle
    <3>. HIDE DEF s, t
    <3>5. tab'[t] = s /\ \A u \in Tabs \ {t} : tab'[u] = tab[u]
      BY <1>a, <2>1, <3>4
    <3>. QED
      BY <2>1, <3>3, <3>4, <3>5, OrderStays
  <2>. QED
    BY <1>1, <2>3, <2>4, <2>5 DEF OutcomeArrives
<1>2. ASSUME NEW r \in Requests, OutcomeRepeats(r) PROVE OrderOK'
  BY <1>2, RepeatsNothing DEF vars, clientVars, historyVars, OrderOK, IsOpen
<1>. QED
  BY <1>1, <1>2 DEF KernelStep

LEMMA OrderInit == Init => OrderOK
<1>. SUFFICES ASSUME Init PROVE OrderOK
  OBVIOUS
<1>1. \A t \in Tabs : asked[t] = <<>> /\ posted[t] = <<>> /\ tab[t].queue = <<>>
  <2>1. ASSUME NEW t \in Tabs PROVE tab[t] \in {Fresh("unopened"), Fresh("remote")}
    BY DEF Init
  <2>2. ASSUME NEW i \in {"unopened", "remote"} PROVE Fresh(i).queue = <<>>
    BY FreshFields DEF Identities
  <2>. QED
    BY <2>1, <2>2 DEF Init
<1>2. <<>> \in Seq(Commands) /\ <<>> \o <<>> = <<>>
  BY ConcatEmptySeq
<1>. QED
  BY <1>1, <1>2 DEF OrderOK

\* Every message the client took is posted or still waits, once and in the order
\* it was typed: for any number of tabs and messages, and whatever is stopped,
\* fails, is adopted or comes back late in between.
THEOREM MessagesInOrder == Spec => []NothingLost
<1>1. Both /\ OrderOK /\ [Next]_vars => OrderOK'
  <2>1. OrderOK /\ UNCHANGED vars => OrderOK'
    BY DEF vars, clientVars, historyVars, OrderOK, IsOpen
  <2>. QED
    BY <2>1, OrderUser, OrderWire, OrderKernel DEF Next
<1>2. OrderOK => NothingLost
  BY DEF OrderOK, NothingLost
<1>. QED
  BY <1>1, <1>2, OrderInit, BothCorrect, PTL DEF Spec

-----------------------------------------------------------------------------
(* What a waiting message waits for *)

\* The tab of a waiting message without a turn: its session is being created, or
\* one of its requests is on the wire.
WaitsOn(t) ==
    /\ tab[t].identity = "pending" => t \in creating
    /\ tab[t].identity = "remote" =>
         \E r \in Requests : outbound[r] = t /\ wire[r].phase \in InFlight

IdleOK == \A t \in Tabs : tab[t].turn = "idle" /\ tab[t].queue # <<>> => WaitsOn(t)

\* A stop turns at most a sent request into an aborted one.
LEMMA CancelWire ==
  ASSUME Both, NEW t \in Tabs, CancelTurn(t), NEW r \in Requests
  PROVE  wire'[r].phase = wire[r].phase \/ (wire[r].phase = "sent" /\ wire'[r].phase = "aborted")
<1>a. wire \in [Requests -> Wire] /\ TypeOK
  BY DEF Both, TypeInv, TypeOK, Wire
<1>1. CASE Victim(t) # None /\ wire[Victim(t)].phase = "sent"
  <2>1. PICK v \in Requests : v = Victim(t)
    BY <1>a, <1>1 DEF Victim, TypeOK, Requests
  <2>2. wire' = [wire EXCEPT ![v].phase = "aborted"] /\ "aborted" \in Phases
    BY <1>1, <2>1 DEF CancelTurn, Phases
  <2>3. wire'[v].phase = "aborted" /\ \A q \in Requests \ {v} : wire'[q] = wire[q]
    BY <1>a, <2>2, PhaseFields
  <2>. QED
    BY <1>1, <2>1, <2>3
<1>2. CASE ~(Victim(t) # None /\ wire[Victim(t)].phase = "sent")
  BY <1>2 DEF CancelTurn
<1>. QED
  BY <1>1, <1>2

\* Nothing the user does takes a request off the wire: a stopped one comes back
\* as an abort.
LEMMA FlightUser ==
  ASSUME Both, UserStep, NEW r \in Requests, wire[r].phase \in InFlight
  PROVE  wire'[r].phase \in InFlight
<1>a. wire \in [Requests -> Wire] /\ TypeOK
  BY DEF Both, TypeInv, TypeOK, Wire
<1>1. ASSUME NEW t \in Tabs, CancelTurn(t) PROVE wire'[r].phase \in InFlight
  BY <1>1, CancelWire, FlightPhases
<1>2. ASSUME NEW q \in Requests, NEW k \in Keys \cup {None}, wire' = Sent(wire, q, k)
      PROVE  wire'[r].phase \in InFlight
  BY <1>a, <1>2, SentFields, FlightPhases
<1>3. ASSUME NEW t \in Tabs, NEW c \in Commands, SubmitTurn(t, c)
      PROVE  wire'[r].phase \in InFlight
  <2>1. wire' = wire \/ wire' = Sent(wire, c, c)
    BY <1>3 DEF SubmitTurn, SendNow, Settle
  <2>2. c \in Requests /\ c \in Keys
    BY DEF Requests, Keys
  <2>. QED
    BY <1>2, <2>1, <2>2
<1>4. ASSUME NEW t \in Tabs, NEW d \in Decisions, DecideApproval(t, d)
      PROVE  wire'[r].phase \in InFlight
  <2>1. wire' = Sent(wire, d, None) /\ d \in Requests
    BY <1>4 DEF DecideApproval, Requests
  <2>. QED
    BY <1>2, <2>1
<1>. QED
  BY <1>1, <1>3, <1>4 DEF UserStep, OpenTab, CloseTab

\* Nor does the wire itself: it only turns a sent request into an answer.
LEMMA FlightWire ==
  ASSUME Both, WireStep, NEW r \in Requests, wire[r].phase \in InFlight
  PROVE  wire'[r].phase \in InFlight
<1>a. wire \in [Requests -> Wire] /\ CreationOK /\ \A t \in Tabs : tab[t] \in Tab
  BY DEF Both, TypeInv, TypeOK, Tab, Wire
<1>1. ASSUME NEW t \in Tabs, SessionCreated(t), tab[t].identity = "pending"
      PROVE  wire'[r].phase \in InFlight
  <2>. DEFINE s == [tab[t] EXCEPT !.identity = "remote"]
  <2>1. s \in Tab
    BY <1>a DEF Tab, Identities
  <2>2. ContinueQueue(wire, controllers, t, s)
    BY <1>1 DEF SessionCreated
  <2>. HIDE DEF s
  <2>3. wire' = wire \/ (s.queue # <<>> /\ wire' = Sent(wire, Head(s.queue), t))
    BY <2>2, Continued
  <2>4. CASE s.queue # <<>> /\ wire' = Sent(wire, Head(s.queue), t)
    <3>1. Head(s.queue) \in Requests /\ t \in Keys
      BY <2>1, <2>4, DrainedFields DEF Requests, Keys
    <3>. QED
      BY <1>a, <2>4, <3>1, SentFields, FlightPhases
  <2>. QED
    BY <2>3, <2>4
<1>2. ASSUME NEW q \in Requests, NEW p \in {"answered", "plan", "refused"},
             wire' = [wire EXCEPT ![q].phase = p]
      PROVE  wire'[r].phase \in InFlight
  <2>1. p \in Phases /\ p \in InFlight
    BY FlightPhases DEF Phases
  <2>. QED
    BY <1>a, <1>2, <2>1, PhaseFields
<1>3. ASSUME wire' = wire PROVE wire'[r].phase \in InFlight
  BY <1>3
<1>. QED
  BY <1>1, <1>2, <1>3 DEF WireStep, LinkChanges, SessionCreated, CreateFailed,
                         ServerAnswers, RequestBreaks

\* An outcome that arrives takes only its own request off the wire.
LEMMA FlightArrival ==
  ASSUME Both, NEW q \in Requests, OutcomeArrives(q),
         NEW r \in Requests \ {q}, wire[r].phase \in InFlight
  PROVE  wire'[r].phase \in InFlight
<1>. DEFINE t == outbound[q]
            w == Over(q, "over")
            s == Turn(tab[t], "idle", None)
<1>1. wire \in [Requests -> Wire] /\ t \in Tabs /\ tab[t] \in Tab /\ t \in Keys
  BY ArrivalFields DEF Both, TypeInv, TypeOK, Tab, Wire, Keys
<1>2. w \in [Requests -> Wire] /\ w[r] = wire[r]
  <2>1. "over" \in Phases
    BY DEF Phases
  <2>. QED
    BY <1>1, <2>1, PhaseFields DEF Over
<1>3. s \in Tab
  <2>1. "idle" \in TurnKinds /\ None \in Requests \cup {None}
    BY DEF TurnKinds
  <2>. QED
    BY <1>1, <2>1, TabFields
<1>4. wire' = w \/ ContinueQueue(w, Released(q), t, s)
  BY DEF OutcomeArrives, Dropped, Awaits, Fails, Settle, Completes
<1>. HIDE DEF s, w
<1>5. wire' = w \/ (s.queue # <<>> /\ wire' = Sent(w, Head(s.queue), t))
  BY <1>4, Continued
<1>6. CASE s.queue # <<>> /\ wire' = Sent(w, Head(s.queue), t)
  <2>1. Head(s.queue) \in Requests
    BY <1>3, <1>6, DrainedFields DEF Requests
  <2>. QED
    BY <1>1, <1>2, <1>6, <2>1, SentFields, FlightPhases
<1>. QED
  BY <1>2, <1>5, <1>6

\* continueQueue leaves no idle tab with a message, when what waits is unsent.
LEMMA ContinueServes ==
  ASSUME TypeOK, NEW w, NEW cs, NEW t \in Tabs, NEW s \in Tab, ContinueQueue(w, cs, t, s),
         s.queue # <<>> => w[Head(s.queue)].phase \notin InFlight
  PROVE  tab'[t].turn = "thinking" \/ tab'[t].queue = <<>>
<1>1. tab \in [Tabs -> Tab]
  BY DEF TypeOK, Tab
<1>2. CASE s.queue = <<>> /\ tab' = [tab EXCEPT ![t] = s]
  BY <1>1, <1>2
<1>3. CASE s.queue # <<>> /\ tab' = [tab EXCEPT ![t] = Drained(s)]
  <2>1. tab'[t] = Drained(s)
    BY <1>1, <1>3
  <2>. QED
    BY <1>3, <2>1, DrainedFields
<1>. QED
  BY <1>2, <1>3, Continued

\* The head of a queue is not on the wire.
LEMMA HeadUnsent ==
  ASSUME Both, NEW t \in Tabs, tab[t].queue # <<>>
  PROVE  Head(tab[t].queue) \in Requests /\ wire[Head(tab[t].queue)].phase = "unsent"
<1>1. tab[t].queue \in Seq(Commands)
  BY DEF Both, TypeInv, TypeOK
<1>2. Head(tab[t].queue) = tab[t].queue[1] /\ 1 \in 1..Len(tab[t].queue)
      /\ Head(tab[t].queue) \in Commands
  BY <1>1
<1>. QED
  BY <1>2 DEF Both, LiveInv, UnsentOK, Requests

\* A tab that a step leaves alone goes on waiting for what it waited for.
LEMMA StaysWoken ==
  ASSUME IdleOK, NEW t \in Tabs, tab'[t] = tab[t], t \in creating => t \in creating',
         \A r \in Requests : outbound[r] = t /\ wire[r].phase \in InFlight
                               => outbound'[r] = t /\ wire'[r].phase \in InFlight,
         tab'[t].turn = "idle", tab'[t].queue # <<>>
  PROVE  WaitsOn(t)'
<1>1. WaitsOn(t)
  BY DEF IdleOK
<1>. QED
  BY <1>1 DEF WaitsOn

LEMMA IdleUser == Both /\ IdleOK /\ UserStep => IdleOK'
<1>. SUFFICES ASSUME Both, IdleOK, UserStep PROVE IdleOK'
  OBVIOUS
<1>a. /\ tab \in [Tabs -> Tab] /\ \A t \in Tabs : tab[t] \in Tab
      /\ OneLiveTurn /\ TurnOK /\ None \notin Tabs
  BY IdsDisjoint DEF Both, TypeInv, LiveInv, TypeOK, Tab
<1>b. ASSUME NEW t \in Tabs, NEW r \in Requests, outbound[r] = t, wire[r].phase \in InFlight
      PROVE  outbound'[r] = t /\ wire'[r].phase \in InFlight
  BY <1>a, <1>b, LogStays, FlightUser
<1>1. ASSUME NEW u \in Tabs, NEW t \in Tabs, tab'[t] = tab[t] \/ t = u,
             creating \subseteq creating',
             tab'[u].turn = "idle" /\ tab'[u].queue # <<>> => WaitsOn(u)',
             tab'[t].turn = "idle", tab'[t].queue # <<>>
      PROVE  WaitsOn(t)'
  BY <1>b, <1>1, StaysWoken
<1>2. ASSUME NEW t \in Tabs, NEW i \in Identities, tab' = [tab EXCEPT ![t] = Fresh(i)],
             creating' = creating
      PROVE  IdleOK'
  <2>1. tab'[t].queue = <<>> /\ \A u \in Tabs \ {t} : tab'[u] = tab[u]
    BY <1>a, <1>2, FreshFields
  <2>. QED
    BY <1>1, <1>2, <2>1 DEF IdleOK
<1>3. ASSUME NEW t \in Tabs, OpenTab(t) PROVE IdleOK'
  BY <1>2, <1>3 DEF OpenTab, Identities
<1>4. ASSUME NEW t \in Tabs, CloseTab(t) PROVE IdleOK'
  BY <1>2, <1>4 DEF CloseTab, Identities
<1>5. ASSUME NEW t \in Tabs, CancelTurn(t) PROVE IdleOK'
  <2>1. /\ tab[t].req \in Requests /\ outbound[tab[t].req] = t
        /\ wire[tab[t].req].phase \in InFlight /\ tab[t].identity = "remote"
    BY <1>a, <1>5 DEF CancelTurn, TurnOK, OneLiveTurn
  <2>2. tab' = [tab EXCEPT ![t] = Turn(tab[t], "idle", None)] /\ creating' = creating
    BY <1>5 DEF CancelTurn
  <2>3. "idle" \in TurnKinds /\ None \in Requests \cup {None}
    BY DEF TurnKinds
  <2>4. /\ tab'[t] = Turn(tab[t], "idle", None) /\ \A u \in Tabs \ {t} : tab'[u] = tab[u]
    BY <1>a, <2>2
  <2>5. tab'[t].identity = "remote"
    BY <1>a, <2>1, <2>3, <2>4, TabFields
  <2>6. WaitsOn(t)'
    BY <1>b, <2>1, <2>5 DEF WaitsOn
  <2>. QED
    BY <1>1, <2>2, <2>4, <2>6 DEF IdleOK
<1>6. ASSUME NEW t \in Tabs, NEW d \in Decisions, DecideApproval(t, d) PROVE IdleOK'
  <2>1. tab' = [tab EXCEPT ![t] = Turn(tab[t], "thinking", d)] /\ creating' = creating
    BY <1>6 DEF DecideApproval
  <2>2. "thinking" \in TurnKinds /\ d \in Requests \cup {None}
    BY DEF TurnKinds, Requests
  <2>3. /\ tab'[t] = Turn(tab[t], "thinking", d) /\ \A u \in Tabs \ {t} : tab'[u] = tab[u]
    BY <1>a, <2>1
  <2>4. tab'[t].turn = "thinking"
    BY <1>a, <2>2, <2>3, TabFields
  <2>. QED
    BY <1>1, <2>1, <2>3, <2>4 DEF IdleOK
<1>7. ASSUME NEW t \in Tabs, NEW c \in Commands, SubmitTurn(t, c) PROVE IdleOK'
  <2>1. CASE SendNow(t, c)
    <3>1. tab' = [tab EXCEPT ![t] = Turn(tab[t], "thinking", c)] /\ creating' = creating
      BY <2>1 DEF SendNow
    <3>2. "thinking" \in TurnKinds /\ c \in Requests \cup {None}
      BY DEF TurnKinds, Requests
    <3>3. /\ tab'[t] = Turn(tab[t], "thinking", c) /\ \A u \in Tabs \ {t} : tab'[u] = tab[u]
      BY <1>a, <3>1
    <3>4. tab'[t].turn = "thinking"
      BY <1>a, <3>2, <3>3, TabFields
    <3>. QED
      BY <1>1, <3>1, <3>3, <3>4 DEF IdleOK
  <2>2. CASE /\ Settle(wire, controllers, t, Queued(tab[t], c))
             /\ \/ /\ StartsAtOnce(t) /\ tab[t].identity = "pending"
                   /\ creating' = creating \cup {t}
                \/ ~StartsAtOnce(t) /\ creating' = creating
    <3>1. tab'[t] = Queued(tab[t], c) /\ \A u \in Tabs \ {t} : tab'[u] = tab[u]
      BY <1>a, <2>2 DEF Settle
    <3>2. tab'[t].turn = tab[t].turn /\ tab'[t].identity = tab[t].identity
      BY <1>a, <3>1, QueuedFields
    <3>3. ASSUME tab'[t].turn = "idle" PROVE WaitsOn(t)'
      <4>1. CASE tab[t].identity = "pending" /\ t \in creating'
        BY <3>2, <4>1 DEF WaitsOn
      <4>2. CASE ~StartsAtOnce(t) /\ creating' = creating
        <5>1. WaitsOn(t)
          BY <3>2, <3>3, <4>2 DEF StartsAtOnce, IdleOK
        <5>. QED
          BY <1>b, <3>2, <4>2, <5>1 DEF WaitsOn
      <4>. QED
        BY <2>2, <4>1, <4>2
    <3>4. creating \subseteq creating'
      BY <2>2
    <3>. QED
      BY <1>1, <3>1, <3>3, <3>4 DEF IdleOK
  <2>. QED
    BY <1>7, <2>1, <2>2 DEF SubmitTurn
<1>. QED
  BY <1>3, <1>4, <1>5, <1>6, <1>7 DEF UserStep

LEMMA IdleWire == Both /\ IdleOK /\ WireStep => IdleOK'
<1>. SUFFICES ASSUME Both, IdleOK, WireStep PROVE IdleOK'
  OBVIOUS
<1>a. /\ TypeOK /\ tab \in [Tabs -> Tab] /\ \A t \in Tabs : tab[t] \in Tab
      /\ wire \in [Requests -> Wire] /\ CreationOK
  BY DEF Both, TypeInv, TypeOK, Tab, Wire
<1>b. outbound' = outbound
  BY DEF WireStep, LinkChanges, SessionCreated, CreateFailed, ServerAnswers, RequestBreaks
<1>c. \A r \in Requests : wire[r].phase \in InFlight => wire'[r].phase \in InFlight
  BY FlightWire
<1>1. ASSUME NEW u \in Tabs, creating' = creating \ {u},
             \A t \in Tabs \ {u} : tab'[t] = tab[t],
             tab'[u].turn = "idle" /\ tab'[u].queue # <<>> => WaitsOn(u)'
      PROVE  IdleOK'
  <2>1. ASSUME NEW t \in Tabs \ {u}, tab'[t].turn = "idle", tab'[t].queue # <<>>
        PROVE  WaitsOn(t)'
    BY <1>b, <1>c, <1>1, <2>1, StaysWoken
  <2>. QED
    BY <1>1, <2>1 DEF IdleOK
<1>2. ASSUME NEW t \in Tabs, tab' = tab, tab[t].identity # "pending",
             tab'[t].turn = "idle", tab'[t].queue # <<>>
      PROVE  WaitsOn(t)'
  BY <1>b, <1>c, <1>2 DEF IdleOK, WaitsOn
<1>3. ASSUME NEW t \in Tabs, SessionCreated(t) PROVE IdleOK'
  <2>1. creating' = creating \ {t} /\ t \in creating
    BY <1>3 DEF SessionCreated
  <2>2. CASE tab[t].identity = "pending"
    <3>. DEFINE s == [tab[t] EXCEPT !.identity = "remote"]
    <3>1. s \in Tab /\ s.queue = tab[t].queue /\ ContinueQueue(wire, controllers, t, s)
      BY <1>a, <1>3, <2>2 DEF Tab, Identities, SessionCreated
    <3>2. s.queue # <<>> => wire[Head(s.queue)].phase \notin InFlight
      BY <3>1, HeadUnsent, FlightPhases
    <3>3. controllers \in [Keys -> Commands \cup {None}]
      BY <1>a DEF TypeOK
    <3>. HIDE DEF s
    <3>4. tab'[t].turn = "thinking" \/ tab'[t].queue = <<>>
      BY <1>a, <3>1, <3>2, ContinueServes
    <3>5. \A u \in Tabs \ {t} : tab'[u] = tab[u]
      BY <1>a, <3>1, <3>3, ContinueTypes
    <3>. QED
      BY <1>1, <2>1, <3>4, <3>5
  <2>3. CASE tab[t].identity # "pending"
    <3>1. tab' = tab
      BY <1>3, <2>3 DEF SessionCreated
    <3>. QED
      BY <1>1, <1>2, <2>1, <2>3, <3>1
  <2>. QED
    BY <2>2, <2>3
<1>4. ASSUME NEW t \in Tabs, CreateFailed(t) PROVE IdleOK'
  <2>1. creating' = creating \ {t} /\ t \in creating
    BY <1>4 DEF CreateFailed
  <2>2. CASE tab[t].identity = "pending"
    <3>1. Head(tab[t].queue) \in Requests \cup {None} /\ "failed" \in TurnKinds
      BY <1>a, <2>1, <2>2, HeadUnsent DEF CreationOK, TurnKinds
    <3>2. tab' = [tab EXCEPT ![t] = Turn(tab[t], "failed", Head(tab[t].queue))]
      BY <1>4, <2>2 DEF CreateFailed
    <3>3. /\ tab'[t] = Turn(tab[t], "failed", Head(tab[t].queue))
          /\ \A u \in Tabs \ {t} : tab'[u] = tab[u]
      BY <1>a, <3>2
    <3>4. tab'[t].turn = "failed"
      BY <1>a, <3>1, <3>3, TabFields
    <3>. QED
      BY <1>1, <2>1, <3>3, <3>4
  <2>3. CASE tab[t].identity # "pending"
    <3>1. tab' = tab
      BY <1>4, <2>3 DEF CreateFailed
    <3>. QED
      BY <1>1, <1>2, <2>1, <2>3, <3>1
  <2>. QED
    BY <2>2, <2>3
<1>5. ASSUME UNCHANGED <<tab, creating>> PROVE IdleOK'
  <2>1. ASSUME NEW t \in Tabs, tab'[t].turn = "idle", tab'[t].queue # <<>>
        PROVE  WaitsOn(t)'
    BY <1>b, <1>c, <1>5, <2>1, StaysWoken
  <2>. QED
    BY <2>1 DEF IdleOK
<1>. QED
  BY <1>3, <1>4, <1>5 DEF WireStep, LinkChanges, ServerAnswers, RequestBreaks

LEMMA IdleArrival ==
  ASSUME Both, IdleOK, NEW r \in Requests, OutcomeArrives(r)
  PROVE  IdleOK'
<1>t. PICK t \in Tabs : t = outbound[r]
  BY ArrivalFields
<1>. DEFINE w == Over(r, "over")
            cs == Released(r)
            s == Turn(tab[t], "idle", None)
<1>a. /\ TypeOK /\ TurnOK /\ tab \in [Tabs -> Tab] /\ wire \in [Requests -> Wire]
      /\ tab[t] \in Tab /\ outbound' = outbound /\ creating' = creating
      /\ r \notin applied /\ wire[r].phase # "unsent" /\ outbound[r] = t
  BY <1>t, ArrivalFields DEF Both, TypeInv, TypeOK, Tab, Wire, OutcomeArrives, Returned
<1>b. ASSUME NEW u \in Tabs \ {t}, tab'[u].turn = "idle", tab'[u].queue # <<>>
      PROVE  WaitsOn(u)'
  <2>1. tab'[u] = tab[u]
    BY <1>a, ArrivalFields
  <2>2. \A q \in Requests : outbound[q] = u /\ wire[q].phase \in InFlight
                              => outbound'[q] = u /\ wire'[q].phase \in InFlight
    BY <1>a, FlightArrival
  <2>. QED
    BY <1>a, <1>b, <2>1, <2>2, StaysWoken
<1>1. CASE ~Applies(r) /\ Dropped(w, cs, r)
  <2>1. tab' = tab
    BY <1>a, <1>1 DEF Dropped, Settle
  <2>2. ASSUME tab'[t].turn = "idle", tab'[t].queue # <<>> PROVE WaitsOn(t)'
    <3>1. tab[t].identity # "remote"
      BY <1>a, <1>1, <2>1, <2>2 DEF Applies, FirstTime, Stale
    <3>. QED
      BY <1>a, <2>1, <2>2, <3>1 DEF IdleOK, WaitsOn
  <2>. QED
    BY <1>b, <2>2 DEF IdleOK
<1>2. CASE Completes(w, cs, r)
  <2>1. "idle" \in TurnKinds /\ None \in Requests \cup {None} /\ "over" \in Phases
    BY DEF TurnKinds, Phases
  <2>2. s \in Tab /\ s.queue = tab[t].queue
    BY <1>a, <2>1, TabFields
  <2>3. ContinueQueue(w, cs, t, s)
    BY <1>a, <1>2 DEF Completes
  <2>4. s.queue # <<>> => w[Head(s.queue)].phase \notin InFlight
    <3>1. \A q \in Requests \ {r} : w[q] = wire[q]
      BY <1>a, <2>1, PhaseFields DEF Over
    <3>. QED
      BY <1>a, <2>2, <3>1, HeadUnsent, FlightPhases
  <2>. HIDE DEF s, w, cs
  <2>5. tab'[t].turn = "thinking" \/ tab'[t].queue = <<>>
    BY <1>a, <2>2, <2>3, <2>4, ContinueServes
  <2>. QED
    BY <1>b, <2>5 DEF IdleOK
<1>3. CASE Awaits(w, cs, r) \/ Fails(w, cs, r)
  <2>1. PICK k \in {"awaiting", "failed"} : tab' = [tab EXCEPT ![t] = Turn(tab[t], k, r)]
    BY <1>a, <1>3 DEF Awaits, Fails, Settle
  <2>2. k \in TurnKinds /\ r \in Requests \cup {None}
    BY DEF TurnKinds
  <2>3. tab'[t] = Turn(tab[t], k, r)
    BY <1>a, <2>1
  <2>4. tab'[t].turn = k
    BY <1>a, <2>2, <2>3, TabFields
  <2>. QED
    BY <1>b, <2>4 DEF IdleOK
<1>. QED
  BY <1>1, <1>2, <1>3 DEF OutcomeArrives

\* What a tab that thinks waits for is the outcome of its own request.
LEMMA ThinkingWaits ==
  ASSUME Both, NEW t \in Tabs, tab[t].turn = "thinking"
  PROVE  \E r \in Requests : Wakes(t, r)
<1>1. /\ tab[t].req \in Requests /\ outbound[tab[t].req] = t
      /\ wire[tab[t].req].phase \in InFlight /\ tab[t].identity = "remote"
  BY DEF Both, TypeInv, TurnOK, LiveInv, OneLiveTurn
<1>2. tab[t].req \notin applied
  BY <1>1, FlightPhases DEF Both, LiveInv, AppliedOK
<1>. QED
  BY <1>1, <1>2 DEF Wakes, Applies, FirstTime, Stale

\* No message waits for nothing: a queue that neither a plan nor a failed turn
\* holds has a session on the way, or a request on the wire whose outcome will
\* go on with it.  It is what is left to fairness: every request is answered and
\* every creation ends, and then the queue moves.
THEOREM QueuesAreServed == Spec => []NoQueueStranded
<1>1. Init => IdleOK
  <2>1. ASSUME Init, NEW t \in Tabs PROVE tab[t].queue = <<>>
    <3>1. tab[t] \in {Fresh("unopened"), Fresh("remote")}
      BY <2>1 DEF Init
    <3>. QED
      BY <3>1, FreshFields DEF Identities
  <2>. QED
    BY <2>1 DEF IdleOK
<1>2. Both /\ IdleOK /\ [Next]_vars => IdleOK'
  <2>1. IdleOK /\ UNCHANGED vars => IdleOK'
    BY DEF vars, clientVars, IdleOK, WaitsOn
  <2>2. Both /\ IdleOK /\ KernelStep => IdleOK'
    BY <2>1, IdleArrival, RepeatsNothing DEF KernelStep
  <2>. QED
    BY <2>1, <2>2, IdleUser, IdleWire DEF Next
<1>3. Both /\ IdleOK => NoQueueStranded
  <2>. SUFFICES ASSUME Both, IdleOK, NEW t \in Tabs, IsOpen(t), tab[t].queue # <<>>,
                       tab[t].turn \notin {"awaiting", "failed"},
                       ~(tab[t].identity = "pending" /\ t \in creating)
                PROVE  \E r \in Requests : Wakes(t, r)
    BY DEF NoQueueStranded
  <2>1. tab[t].turn \in TurnKinds
    BY DEF Both, TypeInv, TypeOK
  <2>2. CASE tab[t].turn = "idle"
    <3>1. WaitsOn(t) /\ tab[t].identity = "remote"
      BY <2>2 DEF IdleOK, WaitsOn, IsOpen
    <3>2. PICK r \in Requests : outbound[r] = t /\ wire[r].phase \in InFlight
      BY <3>1 DEF WaitsOn
    <3>3. r \notin applied
      BY <3>2, FlightPhases DEF Both, LiveInv, AppliedOK
    <3>. QED
      BY <2>2, <3>1, <3>2, <3>3 DEF Wakes, Applies, FirstTime, Stale
  <2>. QED
    BY <2>1, <2>2, ThinkingWaits DEF TurnKinds
<1>. QED
  BY <1>1, <1>2, <1>3, BothCorrect, PTL DEF Spec

-----------------------------------------------------------------------------
(* The contract of the client *)

\* The mapped variables.
StageOf   == [t \in Tabs |-> Stage(tab[t])]
InboxOf   == [t \in Tabs |-> tab[t].queue]
ServingOf == [t \in Tabs |-> Serving(tab[t])]
HeldOf    == [t \in Tabs |-> tab[t].turn = "awaiting"]
ServedOf  == {r \in Requests : wire[r].phase # "unsent"}

\* Requests are sent from sessions of the server only.
SentOK == \A r \in Requests :
            wire[r].phase # "unsent" => tab[outbound[r]].identity \in {"remote", "closed"}

LEMMA StageMoves ==
  ASSUME NEW t \in Tabs, NEW s, Becomes(t, s)
  PROVE  StageOf' = [StageOf EXCEPT ![t] = Stage(s)]
  BY DEF Becomes, StageOf

LEMMA InboxMoves ==
  ASSUME NEW t \in Tabs, NEW s, Becomes(t, s)
  PROVE  InboxOf' = [InboxOf EXCEPT ![t] = s.queue]
  BY DEF Becomes, InboxOf

LEMMA ServingMoves ==
  ASSUME NEW t \in Tabs, NEW s, Becomes(t, s)
  PROVE  ServingOf' = [ServingOf EXCEPT ![t] = Serving(s)]
  BY DEF Becomes, ServingOf

LEMMA HeldMoves ==
  ASSUME NEW t \in Tabs, NEW s, Becomes(t, s)
  PROVE  HeldOf' = [HeldOf EXCEPT ![t] = (s.turn = "awaiting")]
  BY DEF Becomes, HeldOf

LEMMA ViewsStay ==
  ASSUME tab' = tab
  PROVE  StageOf' = StageOf /\ InboxOf' = InboxOf /\ ServingOf' = ServingOf /\ HeldOf' = HeldOf
  BY DEF StageOf, InboxOf, ServingOf, HeldOf

LEMMA ViewFields ==
  ASSUME NEW t \in Tabs
  PROVE  /\ StageOf[t] = Stage(tab[t]) /\ InboxOf[t] = tab[t].queue
         /\ ServingOf[t] = Serving(tab[t]) /\ HeldOf[t] = (tab[t].turn = "awaiting")
  BY DEF StageOf, InboxOf, ServingOf, HeldOf

\* A tab that stays what the contract sees of it.
LEMMA StageKept ==
  ASSUME NEW t \in Tabs, NEW s, Becomes(t, s),
         Stage(s) = Stage(tab[t])
  PROVE  StageOf' = StageOf
<1>1. \A u \in Tabs : Stage(tab'[u]) = Stage(tab[u])
  BY DEF Becomes
<1>. QED
  BY <1>1 DEF StageOf

LEMMA InboxKept ==
  ASSUME NEW t \in Tabs, NEW s, Becomes(t, s),
         s.queue = tab[t].queue
  PROVE  InboxOf' = InboxOf
<1>1. \A u \in Tabs : tab'[u].queue = tab[u].queue
  BY DEF Becomes
<1>. QED
  BY <1>1 DEF InboxOf

LEMMA ServingKept ==
  ASSUME NEW t \in Tabs, NEW s, Becomes(t, s),
         Serving(s) = Serving(tab[t])
  PROVE  ServingOf' = ServingOf
<1>1. \A u \in Tabs : Serving(tab'[u]) = Serving(tab[u])
  BY DEF Becomes
<1>. QED
  BY <1>1 DEF ServingOf

LEMMA HeldKept ==
  ASSUME NEW t \in Tabs, NEW s, Becomes(t, s),
         s.turn = "awaiting" <=> tab[t].turn = "awaiting"
  PROVE  HeldOf' = HeldOf
<1>1. \A u \in Tabs : (tab'[u].turn = "awaiting") = (tab[u].turn = "awaiting")
  BY DEF Becomes
<1>. QED
  BY <1>1 DEF HeldOf

LEMMA ServedStays ==
  ASSUME \A q \in Requests : wire'[q].phase = "unsent" <=> wire[q].phase = "unsent"
  PROVE  ServedOf' = ServedOf
  BY DEF ServedOf

LEMMA ServedGrows ==
  ASSUME NEW w \in [Requests -> Wire], NEW c \in Requests, NEW k \in Keys \cup {None},
         wire' = Sent(w, c, k),
         \A q \in Requests : w[q].phase = "unsent" <=> wire[q].phase = "unsent"
  PROVE  ServedOf' = ServedOf \cup {c}
<1>1. wire'[c].phase = "sent" /\ \A q \in Requests \ {c} : wire'[q] = w[q]
  BY SentFields
<1>. QED
  BY <1>1 DEF ServedOf

LEMMA SentKept ==
  ASSUME Both, SentOK,
         \A t \in Tabs : tab[t].identity \in {"remote", "closed"}
                           => tab'[t].identity \in {"remote", "closed"},
         \A r \in Requests :
            wire'[r].phase # "unsent" =>
               \/ wire[r].phase # "unsent" /\ outbound'[r] = outbound[r]
               \/ tab'[outbound'[r]].identity = "remote"
  PROVE  SentOK'
<1>1. ASSUME NEW r \in Requests, wire'[r].phase # "unsent",
             wire[r].phase # "unsent", outbound'[r] = outbound[r]
      PROVE  tab'[outbound'[r]].identity \in {"remote", "closed"}
  BY <1>1, TakenRequest DEF Both, SentOK
<1>. QED
  BY <1>1 DEF SentOK

\* A tab that was never opened has neither messages nor a turn.
LEMMA NewTab ==
  ASSUME Both, NEW t \in Tabs, tab[t].identity = "unopened"
  PROVE  tab[t].queue = <<>> /\ tab[t].turn \notin {"thinking", "awaiting"}
<1>1. ASSUME tab[t].queue # <<>> PROVE FALSE
  <2>1. tab[t].queue \in Seq(Commands)
    BY DEF Both, TypeInv, TypeOK
  <2>2. tab[t].queue[1] \in Commands /\ 1 \in 1..Len(tab[t].queue)
    BY <1>1, <2>1
  <2>3. outbound[tab[t].queue[1]] = t /\ tab[t].queue[1] \in Requests
    BY <2>2 DEF Both, TypeInv, WaitingOK, Requests
  <2>. QED
    BY <2>3, IdsDisjoint DEF Both, LiveInv, OpenedOK
<1>. QED
  BY <1>1 DEF Both, TypeInv, TurnOK

LEMMA ContractUser ==
  ASSUME Both, SentOK, UserStep
  PROVE  SentOK' /\ [Contract!Next]_(Contract!contractVars)
<1>. USE DEF historyVars
<1>a. /\ TypeOK /\ tab \in [Tabs -> Tab] /\ \A t \in Tabs : tab[t] \in Tab
      /\ wire \in [Requests -> Wire] /\ outbound \in [Requests -> Tabs \cup {None}]
      /\ TurnOK /\ LogOK /\ None \notin Tabs /\ None \notin Requests
      /\ Commands \subseteq Requests /\ Decisions \subseteq Requests
  BY IdsDisjoint DEF Both, TypeInv, TypeOK, Tab, Wire, Requests
<1>b. tab \in [Tabs -> Tab]
  BY <1>a
<1>1. ASSUME NEW t \in Tabs, OpenTab(t) PROVE SentOK' /\ Contract!Open(t)
  <2>. DEFINE s == Fresh("pending")
  <2>1. /\ s.identity = "pending" /\ s.turn = "idle" /\ s.queue = <<>>
    BY FreshFields DEF Identities
  <2>2. /\ tab' = [tab EXCEPT ![t] = s] /\ tab[t].identity = "unopened"
        /\ outbound' = outbound /\ wire' = wire /\ applied' = applied
        /\ cancelled' = cancelled
    BY <1>1 DEF OpenTab
  <2>b. Becomes(t, s)
    BY <1>b, <2>2 DEF Becomes
  <2>. HIDE DEF s
  <2>3. Stage(tab[t]) = "new" /\ Stage(s) = "open" /\ Serving(s) = None /\ Serving(tab[t]) = None
        /\ tab[t].queue = s.queue /\ tab[t].turn # "awaiting" /\ s.turn # "awaiting"
    BY <2>1, <2>2, NewTab DEF Stage, Serving
  <2>4. /\ StageOf' = [StageOf EXCEPT ![t] = "open"] /\ StageOf[t] = "new"
        /\ InboxOf' = InboxOf /\ ServingOf' = ServingOf /\ HeldOf' = HeldOf
    <3>1. StageOf' = [StageOf EXCEPT ![t] = "open"]
      BY <2>b, <2>3, StageMoves
    <3>2. StageOf[t] = "new"
      BY <2>3, ViewFields
    <3>3. InboxOf' = InboxOf
      BY <2>b, <2>3, InboxKept
    <3>4. ServingOf' = ServingOf
      BY <2>b, <2>3, ServingKept
    <3>5. HeldOf' = HeldOf
      BY <2>b, <2>3, HeldKept
    <3>. QED
      BY <3>1, <3>2, <3>3, <3>4, <3>5
  <2>5. ServedOf' = ServedOf
    BY <2>2, ServedStays
  <2>6. Contract!Open(t)
    BY <2>2, <2>4, <2>5 DEF Contract!Open, StageOf, InboxOf, ServingOf, HeldOf, ServedOf
  <2>7. \A u \in Tabs \ {t} : tab'[u] = tab[u]
    BY <1>a, <2>2
  <2>8. SentOK'
    BY <2>2, <2>7, SentKept
  <2>. QED
    BY <2>6, <2>8
<1>2. ASSUME NEW t \in Tabs, CloseTab(t) PROVE SentOK' /\ Contract!Close(t)
  <2>. DEFINE s == Fresh("closed")
  <2>1. s.identity = "closed" /\ s.turn = "idle" /\ s.queue = <<>>
    BY FreshFields DEF Identities
  <2>2. /\ tab' = [tab EXCEPT ![t] = s] /\ tab[t].identity \in {"pending", "remote"}
        /\ outbound' = outbound /\ wire' = wire /\ applied' = applied
        /\ cancelled' = cancelled
    BY <1>2 DEF CloseTab, IsOpen
  <2>b. Becomes(t, s)
    BY <1>b, <2>2 DEF Becomes
  <2>. HIDE DEF s
  <2>3. Stage(tab[t]) = "open" /\ Stage(s) = "gone" /\ Serving(s) = None
        /\ (s.turn = "awaiting") = FALSE
    BY <2>1, <2>2 DEF Stage, Serving
  <2>4. /\ StageOf' = [StageOf EXCEPT ![t] = "gone"] /\ StageOf[t] = "open"
        /\ InboxOf' = [InboxOf EXCEPT ![t] = <<>>]
        /\ ServingOf' = [ServingOf EXCEPT ![t] = None]
        /\ HeldOf' = [HeldOf EXCEPT ![t] = FALSE]
    <3>1. StageOf' = [StageOf EXCEPT ![t] = "gone"]
      BY <2>b, <2>3, StageMoves
    <3>5. StageOf[t] = "open"
      BY <2>3, ViewFields
    <3>2. InboxOf' = [InboxOf EXCEPT ![t] = <<>>]
      BY <2>b, <2>1, InboxMoves
    <3>3. ServingOf' = [ServingOf EXCEPT ![t] = None]
      BY <2>b, <2>3, ServingMoves
    <3>4. HeldOf' = [HeldOf EXCEPT ![t] = FALSE]
      BY <2>b, <2>3, HeldMoves
    <3>. QED
      BY <3>1, <3>2, <3>3, <3>4, <3>5
  <2>5. ServedOf' = ServedOf
    BY <2>2, ServedStays
  <2>6. Contract!Close(t)
    BY <2>2, <2>4, <2>5 DEF Contract!Close, StageOf, InboxOf, ServingOf, HeldOf, ServedOf
  <2>7. tab'[t] = s /\ \A u \in Tabs \ {t} : tab'[u] = tab[u]
    BY <1>a, <2>2
  <2>8. SentOK'
    BY <2>1, <2>2, <2>7, SentKept
  <2>. QED
    BY <2>6, <2>8
<1>3. ASSUME NEW t \in Tabs, CancelTurn(t) PROVE SentOK' /\ Contract!Stop(t)
  <2>. DEFINE s == Turn(tab[t], "idle", None)
  <2>1. /\ s \in Tab /\ s.identity = tab[t].identity /\ s.turn = "idle"
        /\ s.queue = tab[t].queue
    BY <1>a, TabFields DEF TurnKinds
  <2>2. /\ tab' = [tab EXCEPT ![t] = s] /\ tab[t].turn = "thinking"
        /\ outbound' = outbound /\ applied' = applied
        /\ cancelled' = cancelled \cup {tab[t].req}
    BY <1>3 DEF CancelTurn
  <2>3. \A r \in Requests : wire'[r].phase = "unsent" <=> wire[r].phase = "unsent"
    BY <1>3, CancelWire
  <2>b. Becomes(t, s)
    BY <1>b, <2>2 DEF Becomes
  <2>. HIDE DEF s
  <2>4. /\ Stage(s) = Stage(tab[t]) /\ Serving(s) = None
        /\ Serving(tab[t]) = tab[t].req /\ tab[t].req # None
        /\ (s.turn = "awaiting" <=> tab[t].turn = "awaiting")
    BY <1>a, <2>1, <2>2 DEF Stage, Serving, TurnOK
  <2>5. /\ ServingOf' = [ServingOf EXCEPT ![t] = None] /\ ServingOf[t] # None /\ ServingOf[t] = tab[t].req
        /\ StageOf' = StageOf /\ InboxOf' = InboxOf /\ HeldOf' = HeldOf
    <3>1. ServingOf' = [ServingOf EXCEPT ![t] = None] /\ ServingOf[t] # None
          /\ ServingOf[t] = tab[t].req
      BY <2>b, <2>4, ServingMoves, ViewFields
    <3>2. StageOf' = StageOf
      BY <2>b, <2>4, StageKept
    <3>3. InboxOf' = InboxOf
      BY <2>b, <2>1, InboxKept
    <3>4. HeldOf' = HeldOf
      BY <2>b, <2>4, HeldKept
    <3>. QED
      BY <3>1, <3>2, <3>3, <3>4
  <2>6. ServedOf' = ServedOf
    BY <2>3, ServedStays
  <2>7. Contract!Stop(t)
    BY <2>2, <2>5, <2>6 DEF Contract!Stop, StageOf, InboxOf, ServingOf, HeldOf, ServedOf
  <2>8. tab'[t] = s /\ \A u \in Tabs \ {t} : tab'[u] = tab[u]
    BY <1>a, <2>2
  <2>9. SentOK'
    BY <2>1, <2>2, <2>3, <2>8, SentKept
  <2>. QED
    BY <2>7, <2>9
<1>4. ASSUME NEW t \in Tabs, NEW d \in Decisions, DecideApproval(t, d)
      PROVE  SentOK' /\ Contract!Decide(t, d)
  <2>. DEFINE s == Turn(tab[t], "thinking", d)
  <2>1. /\ s \in Tab /\ s.identity = tab[t].identity /\ s.turn = "thinking" /\ s.req = d
        /\ s.queue = tab[t].queue /\ d \in Requests
    <3>1. "thinking" \in TurnKinds /\ d \in Requests
      BY <1>a DEF TurnKinds
    <3>. QED
      BY <1>a, <3>1, TabFields
  <2>2. /\ tab' = [tab EXCEPT ![t] = s] /\ tab[t].turn = "awaiting" /\ tab[t].identity = "remote"
        /\ outbound[d] = None /\ outbound' = [outbound EXCEPT ![d] = t] /\ applied' = applied
        /\ cancelled' = cancelled
        /\ wire' = Sent(wire, d, None)
    BY <1>4 DEF DecideApproval, MayDecide, NewCommand
  <2>b. Becomes(t, s)
    BY <1>b, <2>2 DEF Becomes
  <2>. HIDE DEF s
  <2>3. /\ Stage(s) = Stage(tab[t]) /\ Stage(tab[t]) = "open" /\ Serving(s) = d
        /\ (s.turn = "awaiting") = FALSE
    BY <2>1, <2>2 DEF Stage, Serving
  <2>4. /\ ServingOf' = [ServingOf EXCEPT ![t] = d] /\ StageOf[t] = "open"
        /\ StageOf' = StageOf /\ InboxOf' = InboxOf
        /\ HeldOf' = [HeldOf EXCEPT ![t] = FALSE] /\ HeldOf[t]
    <3>1. ServingOf' = [ServingOf EXCEPT ![t] = d] /\ StageOf[t] = "open"
      BY <2>b, <2>3, ServingMoves, ViewFields
    <3>2. HeldOf' = [HeldOf EXCEPT ![t] = FALSE] /\ HeldOf[t]
      BY <2>b, <2>2, <2>3, HeldMoves, ViewFields
    <3>3. StageOf' = StageOf
      BY <2>b, <2>3, StageKept
    <3>4. InboxOf' = InboxOf
      BY <2>b, <2>1, InboxKept
    <3>. QED
      BY <3>1, <3>2, <3>3, <3>4
  <2>5. ServedOf' = ServedOf \cup {d} /\ d \notin ServedOf
    <3>1. ServedOf' = ServedOf \cup {d}
      BY <1>a, <2>1, <2>2, ServedGrows
    <3>. QED
      BY <1>a, <2>1, <2>2, <3>1 DEF ServedOf, LogOK
  <2>6. Contract!Decide(t, d)
    BY <2>2, <2>4, <2>5 DEF Contract!Decide, Contract!Take, Contract!Serve,
       StageOf, InboxOf, ServingOf, HeldOf, ServedOf
  <2>7. tab'[t] = s /\ \A u \in Tabs \ {t} : tab'[u] = tab[u]
    BY <1>a, <2>2
  <2>8. \A q \in Requests \ {d} : wire'[q] = wire[q] /\ outbound'[q] = outbound[q]
    BY <1>a, <2>1, <2>2, SentFields
  <2>9. outbound'[d] = t /\ tab'[t].identity = "remote"
    BY <1>a, <2>1, <2>2, <2>7
  <2>10. SentOK'
    BY <2>1, <2>7, <2>8, <2>9, SentKept
  <2>. QED
    BY <2>6, <2>10
<1>5. ASSUME NEW t \in Tabs, NEW c \in Commands, SubmitTurn(t, c)
      PROVE  SentOK' /\ (Contract!Put(t, c) \/ Contract!Say(t, c))
  <2>0. /\ IsOpen(t) /\ outbound[c] = None /\ c \in Requests
        /\ outbound' = [outbound EXCEPT ![c] = t] /\ applied' = applied
        /\ cancelled' = cancelled
    BY <1>5, <1>a DEF SubmitTurn, NewCommand, Accept
  <2>1. /\ \A q \in Requests \ {c} : outbound'[q] = outbound[q]
        /\ outbound'[c] = t /\ c \notin ServedOf /\ wire[c].phase = "unsent"
    BY <1>a, <2>0 DEF LogOK, ServedOf
  <2>2. Stage(tab[t]) = "open"
    BY <2>0 DEF IsOpen, Stage
  <2>3. CASE SendNow(t, c) /\ StartsAtOnce(t) /\ tab[t].identity = "remote"
    <3>. DEFINE s == Turn(tab[t], "thinking", c)
    <3>1. /\ s \in Tab /\ s.identity = tab[t].identity /\ s.turn = "thinking" /\ s.req = c
          /\ s.queue = tab[t].queue
      <4>1. "thinking" \in TurnKinds
        BY DEF TurnKinds
      <4>. QED
        BY <1>a, <2>0, <4>1, TabFields
    <3>2. /\ tab' = [tab EXCEPT ![t] = s] /\ wire' = Sent(wire, c, c) /\ c \in Keys
          /\ tab[t].turn = "idle" /\ tab[t].queue = <<>>
      BY <2>3 DEF SendNow, StartsAtOnce, Keys
    <3>b. Becomes(t, s)
      BY <1>b, <3>2 DEF Becomes
    <3>. HIDE DEF s
    <3>3. /\ Stage(s) = Stage(tab[t]) /\ Serving(s) = c /\ Serving(tab[t]) = None
          /\ s.turn # "awaiting" /\ tab[t].turn # "awaiting"
      BY <3>1, <3>2 DEF Stage, Serving
    <3>4. /\ ServingOf' = [ServingOf EXCEPT ![t] = c] /\ ServingOf[t] = None
          /\ StageOf' = StageOf /\ StageOf[t] = "open"
          /\ InboxOf' = InboxOf /\ InboxOf[t] = <<>> /\ HeldOf' = HeldOf /\ ~HeldOf[t]
      <4>1. ServingOf' = [ServingOf EXCEPT ![t] = c]
        BY <3>b, <3>3, ServingMoves
      <4>2. ServingOf[t] = None /\ StageOf[t] = "open" /\ InboxOf[t] = <<>> /\ ~HeldOf[t]
        BY <2>2, <3>2, <3>3, ViewFields
      <4>3. StageOf' = StageOf
        BY <3>b, <3>3, StageKept
      <4>4. InboxOf' = InboxOf
        BY <3>b, <3>1, InboxKept
      <4>5. HeldOf' = HeldOf
        BY <3>b, <3>3, HeldKept
      <4>. QED
        BY <4>1, <4>2, <4>3, <4>4, <4>5
    <3>5. ServedOf' = ServedOf \cup {c}
      BY <1>a, <2>0, <3>2, ServedGrows
    <3>6. Contract!Say(t, c)
      BY <2>0, <2>1, <3>4, <3>5
         DEF Contract!Say, Contract!Free, Contract!Take, Contract!Serve,
             StageOf, InboxOf, ServingOf, HeldOf, ServedOf
    <3>7. tab'[t] = s /\ \A u \in Tabs \ {t} : tab'[u] = tab[u]
      BY <1>a, <3>2
    <3>8. \A q \in Requests \ {c} : wire'[q] = wire[q]
      BY <1>a, <2>0, <3>2, SentFields
    <3>9. SentOK'
      BY <2>1, <2>3, <3>1, <3>7, <3>8, SentKept
    <3>. QED
      BY <3>6, <3>9
  <2>4. CASE Settle(wire, controllers, t, Queued(tab[t], c))
    <3>. DEFINE s == Queued(tab[t], c)
    <3>1. /\ s.identity = tab[t].identity /\ s.turn = tab[t].turn /\ s.req = tab[t].req
          /\ s.queue = Append(tab[t].queue, c)
      BY <1>a, QueuedFields
    <3>2. tab' = [tab EXCEPT ![t] = s] /\ wire' = wire
      BY <2>4 DEF Settle
    <3>b. Becomes(t, s)
      BY <1>b, <3>2 DEF Becomes
    <3>. HIDE DEF s
    <3>3. /\ Stage(s) = Stage(tab[t]) /\ Serving(s) = Serving(tab[t])
          /\ (s.turn = "awaiting" <=> tab[t].turn = "awaiting")
      BY <3>1 DEF Stage, Serving
    <3>4. /\ InboxOf' = [InboxOf EXCEPT ![t] = Append(InboxOf[t], c)]
          /\ StageOf' = StageOf /\ StageOf[t] = "open"
          /\ ServingOf' = ServingOf /\ HeldOf' = HeldOf
      <4>1. InboxOf' = [InboxOf EXCEPT ![t] = s.queue] /\ InboxOf[t] = tab[t].queue
            /\ StageOf[t] = "open"
        BY <3>b, <2>2, InboxMoves, ViewFields
      <4>2. StageOf' = StageOf
        BY <3>b, <3>3, StageKept
      <4>3. ServingOf' = ServingOf
        BY <3>b, <3>3, ServingKept
      <4>4. HeldOf' = HeldOf
        BY <3>b, <3>3, HeldKept
      <4>. QED
        BY <3>1, <4>1, <4>2, <4>3, <4>4
    <3>5. ServedOf' = ServedOf
      BY <3>2, ServedStays
    <3>6. Contract!Put(t, c)
      BY <2>0, <3>4, <3>5 DEF Contract!Put, Contract!Take, StageOf, InboxOf, ServingOf, HeldOf, ServedOf
    <3>7. tab'[t] = s /\ \A u \in Tabs \ {t} : tab'[u] = tab[u]
      BY <1>a, <3>2
    <3>8. SentOK'
      BY <2>1, <3>1, <3>2, <3>7, SentKept
    <3>. QED
      BY <3>6, <3>8
  <2>. QED
    BY <1>5, <2>3, <2>4 DEF SubmitTurn
<1>6. SentOK'
  BY <1>1, <1>2, <1>3, <1>4, <1>5 DEF UserStep
<1>7. Contract!Next
  BY <1>1, <1>2, <1>3, <1>4, <1>5 DEF UserStep, Contract!Next
<1>. QED
  BY <1>6, <1>7

\* The queue goes on: its head is served, and waits no more.
LEMMA HeadServed ==
  ASSUME Both, NEW t \in Tabs, NEW w \in [Requests -> Wire], NEW cs, NEW s \in Tab,
         ContinueQueue(w, cs, t, s), s.queue = tab[t].queue, s.queue # <<>>,
         s.identity = "remote", tab[t].identity \in {"pending", "remote"},
         \A q \in Requests : w[q].phase = "unsent" <=> wire[q].phase = "unsent"
  PROVE  /\ tab' = [tab EXCEPT ![t] = Drained(s)]
         /\ wire' = Sent(w, Head(s.queue), t)
         /\ Contract!ServeHead(t)
         /\ StageOf' = StageOf
<1>a. tab \in [Tabs -> Tab]
  BY DEF Both, TypeInv, TypeOK, Tab
<1>1. PICK c \in Commands : c = Head(s.queue)
  BY DrainedFields
<1>2. c \in Requests /\ wire[c].phase = "unsent" /\ w[c].phase \notin InFlight /\ t \in Keys
  BY <1>1, HeadUnsent, FlightPhases DEF Requests, Keys
<1>3. tab' = [tab EXCEPT ![t] = Drained(s)] /\ wire' = Sent(w, c, t)
  BY <1>1, <1>2, Continued
<1>. DEFINE d == Drained(s)
<1>4. d.identity = "remote" /\ d.turn = "thinking" /\ d.req = c /\ d.queue = Tail(tab[t].queue)
  BY <1>1, DrainedFields
<1>5. tab' = [tab EXCEPT ![t] = d]
  BY <1>3
<1>b. Becomes(t, d)
  BY <1>a, <1>5 DEF Becomes
<1>. HIDE DEF d
<1>6. Stage(d) = Stage(tab[t]) /\ Serving(d) = c
  BY <1>4 DEF Stage, Serving
<1>7. StageOf' = StageOf
  BY <1>b, <1>6, StageKept
<1>8. InboxOf' = [InboxOf EXCEPT ![t] = Tail(InboxOf[t])]
  <2>1. InboxOf' = [InboxOf EXCEPT ![t] = d.queue]
    BY <1>b, InboxMoves
  <2>2. InboxOf[t] = tab[t].queue
    BY ViewFields
  <2>. QED
    BY <1>4, <2>1, <2>2
<1>9. ServingOf' = [ServingOf EXCEPT ![t] = c]
  <2>1. ServingOf' = [ServingOf EXCEPT ![t] = Serving(d)]
    BY <1>b, ServingMoves
  <2>. QED
    BY <1>6, <2>1
<1>10. ServedOf' = ServedOf \cup {c} /\ c \notin ServedOf
  <2>1. ServedOf' = ServedOf \cup {c}
    BY <1>2, <1>3, ServedGrows
  <2>. QED
    BY <1>2, <2>1 DEF ServedOf
<1>11. InboxOf[t] # <<>> /\ Head(InboxOf[t]) = c
  BY <1>1, ViewFields
<1>12. Contract!ServeHead(t)
  BY <1>8, <1>9, <1>10, <1>11
     DEF Contract!ServeHead, Contract!Serve, StageOf, InboxOf, ServingOf, HeldOf, ServedOf
<1>. QED
  BY <1>1, <1>3, <1>7, <1>12

\* A step the contract does not see.
LEMMA ContractStutters ==
  ASSUME StageOf' = StageOf, InboxOf' = InboxOf, ServingOf' = ServingOf, HeldOf' = HeldOf,
         ServedOf' = ServedOf, outbound' = outbound, applied' = applied, cancelled' = cancelled
  PROVE  UNCHANGED Contract!contractVars
  BY DEF Contract!contractVars, StageOf, InboxOf, ServingOf, HeldOf, ServedOf

LEMMA ContractWire ==
  ASSUME Both, SentOK, WireStep
  PROVE  SentOK' /\ [Contract!Next]_(Contract!contractVars)
<1>. USE DEF historyVars
<1>a. /\ tab \in [Tabs -> Tab] /\ \A t \in Tabs : tab[t] \in Tab
      /\ wire \in [Requests -> Wire] /\ CreationOK /\ WaitingOK /\ TurnOK
  BY DEF Both, TypeInv, TypeOK, Tab, Wire
<1>b. outbound' = outbound /\ applied' = applied /\ cancelled' = cancelled
  BY DEF WireStep, LinkChanges, SessionCreated, CreateFailed, ServerAnswers, RequestBreaks
<1>1. ASSUME tab' = tab,
             \A q \in Requests : wire'[q].phase = "unsent" <=> wire[q].phase = "unsent"
      PROVE  SentOK' /\ UNCHANGED Contract!contractVars
  <2>1. SentOK'
    BY <1>b, <1>1, SentKept
  <2>2. ServedOf' = ServedOf
    BY <1>1, ServedStays
  <2>3. StageOf' = StageOf /\ InboxOf' = InboxOf /\ ServingOf' = ServingOf /\ HeldOf' = HeldOf
    BY <1>1, ViewsStay
  <2>. QED
    BY <1>b, <2>1, <2>2, <2>3, ContractStutters
<1>2. ASSUME NEW t \in Tabs, SessionCreated(t), tab[t].identity = "pending"
      PROVE  SentOK' /\ Contract!Begin(t)
  <2>. DEFINE s == [tab[t] EXCEPT !.identity = "remote"]
  <2>1. s \in Tab /\ s.queue = tab[t].queue /\ s.identity = "remote" /\ s.queue # <<>>
        /\ ContinueQueue(wire, controllers, t, s)
    BY <1>a, <1>2 DEF Tab, Identities, SessionCreated, CreationOK
  <2>. HIDE DEF s
  <2>2. /\ tab' = [tab EXCEPT ![t] = Drained(s)]
        /\ wire' = Sent(wire, Head(s.queue), t)
        /\ Contract!ServeHead(t) /\ StageOf' = StageOf
    BY <1>a, <1>2, <2>1, HeadServed
  <2>3. PICK c \in Requests : c = Head(s.queue) /\ outbound[c] = t
    <3>1. Head(s.queue) = tab[t].queue[1] /\ 1 \in 1..Len(tab[t].queue)
          /\ Head(s.queue) \in Commands
      BY <1>a, <2>1 DEF Tab
    <3>. QED
      BY <1>a, <3>1 DEF WaitingOK, Requests
  <2>4. /\ \A q \in Requests \ {c} : wire'[q] = wire[q]
        /\ tab'[t].identity = "remote" /\ \A u \in Tabs \ {t} : tab'[u] = tab[u]
    <3>1. t \in Keys \cup {None}
      BY DEF Keys
    <3>2. \A q \in Requests \ {c} : wire'[q] = wire[q]
      BY <1>a, <2>2, <2>3, <3>1, SentFields
    <3>3. tab'[t] = Drained(s) /\ \A u \in Tabs \ {t} : tab'[u] = tab[u]
      BY <1>a, <2>2
    <3>4. tab'[t].identity = "remote"
      BY <2>1, <3>3, DrainedFields
    <3>. QED
      BY <3>2, <3>3, <3>4
  <2>5. SentOK'
    BY <1>b, <2>3, <2>4, SentKept
  <2>6. Drained(s).turn # "awaiting" /\ tab[t].turn \notin {"thinking", "awaiting"}
    BY <1>a, <1>2, <2>1, DrainedFields DEF TurnOK
  <2>b. Becomes(t, Drained(s))
    BY <1>a, <2>2 DEF Becomes
  <2>7. HeldOf' = HeldOf
    BY <2>b, <2>6, HeldKept
  <2>8. ServingOf[t] = None /\ ~HeldOf[t]
    BY <2>6, ViewFields DEF Serving
  <2>9. Contract!Begin(t)
    BY <1>b, <2>2, <2>7, <2>8
       DEF Contract!Begin, Contract!Free, StageOf, InboxOf, ServingOf, HeldOf, ServedOf
  <2>. QED
    BY <2>5, <2>9
<1>3. ASSUME NEW t \in Tabs, CreateFailed(t), tab[t].identity = "pending"
      PROVE  SentOK' /\ UNCHANGED Contract!contractVars
  <2>1. Head(tab[t].queue) \in Requests \cup {None} /\ "failed" \in TurnKinds
    BY <1>a, <1>3, HeadUnsent DEF CreationOK, CreateFailed, TurnKinds
  <2>. DEFINE s == Turn(tab[t], "failed", Head(tab[t].queue))
  <2>2. s.identity = tab[t].identity /\ s.turn = "failed" /\ s.queue = tab[t].queue
    BY <1>a, <2>1, TabFields
  <2>3. tab' = [tab EXCEPT ![t] = s] /\ wire' = wire
    BY <1>3 DEF CreateFailed
  <2>b. Becomes(t, s)
    BY <1>a, <2>3 DEF Becomes
  <2>. HIDE DEF s
  <2>4. Stage(s) = Stage(tab[t]) /\ Serving(s) = Serving(tab[t])
        /\ (s.turn = "awaiting" <=> tab[t].turn = "awaiting")
    BY <1>a, <1>3, <2>2 DEF Stage, Serving, TurnOK
  <2>5. StageOf' = StageOf
    BY <2>b, <2>4, StageKept
  <2>6. InboxOf' = InboxOf
    BY <2>b, <2>2, InboxKept
  <2>7. ServingOf' = ServingOf
    BY <2>b, <2>4, ServingKept
  <2>8. HeldOf' = HeldOf
    BY <2>b, <2>4, HeldKept
  <2>9. ServedOf' = ServedOf
    BY <2>3, ServedStays
  <2>10. UNCHANGED Contract!contractVars
    BY <1>b, <2>5, <2>6, <2>7, <2>8, <2>9, ContractStutters
  <2>11. tab'[t] = s /\ \A u \in Tabs \ {t} : tab'[u] = tab[u]
    BY <1>a, <2>3
  <2>12. SentOK'
    BY <1>b, <2>2, <2>3, <2>11, SentKept
  <2>. QED
    BY <2>10, <2>12
<1>4. ASSUME NEW q \in Requests, NEW p \in {"answered", "plan", "refused"},
             wire[q].phase = "sent", wire' = [wire EXCEPT ![q].phase = p]
      PROVE  \A r \in Requests : wire'[r].phase = "unsent" <=> wire[r].phase = "unsent"
  <2>1. p \in Phases /\ p # "unsent"
    BY DEF Phases
  <2>. QED
    BY <1>a, <1>4, <2>1, PhaseFields
<1>5. CASE \E t \in Tabs : SessionCreated(t) /\ tab[t].identity = "pending"
  BY <1>2, <1>5 DEF Contract!Next
<1>6. CASE \E t \in Tabs : CreateFailed(t) /\ tab[t].identity = "pending"
  BY <1>3, <1>6
<1>7. CASE tab' = tab /\ \A q \in Requests : wire'[q].phase = "unsent" <=> wire[q].phase = "unsent"
  BY <1>1, <1>7
<1>8. ASSUME NEW t \in Tabs, SessionCreated(t) \/ CreateFailed(t), tab[t].identity # "pending"
      PROVE  tab' = tab /\ wire' = wire
  BY <1>8 DEF SessionCreated, CreateFailed
<1>. QED
  BY <1>4, <1>5, <1>6, <1>7, <1>8 DEF WireStep, LinkChanges, ServerAnswers, RequestBreaks

LEMMA ContractArrival ==
  ASSUME Both, SentOK, NEW r \in Requests, OutcomeArrives(r)
  PROVE  SentOK' /\ [Contract!Next]_(Contract!contractVars)
<1>1. PICK t \in Tabs : t = outbound[r]
  BY ArrivalFields
<1>a. /\ tab \in [Tabs -> Tab] /\ tab[t] \in Tab /\ TypeOK /\ TurnOK /\ WaitingOK
      /\ wire \in [Requests -> Wire] /\ None \notin Requests
  BY IdsDisjoint DEF Both, TypeInv, TypeOK, Tab, Wire, Requests
<1>b. /\ r \notin applied /\ applied' = applied \cup {r} /\ outbound' = outbound
      /\ cancelled' = cancelled /\ wire[r].phase \in InFlight
      /\ wire[r].phase # "unsent" /\ tab[t].identity \in {"remote", "closed"}
  BY <1>1, ArrivalFields DEF OutcomeArrives, Returned, InFlight, SentOK
<1>. DEFINE w == Over(r, "over")
            cs == Released(r)
            s(k, q) == Turn(tab[t], k, q)
<1>c. /\ w \in [Requests -> Wire]
      /\ \A q \in Requests : w[q].phase = "unsent" <=> wire[q].phase = "unsent"
  <2>1. "over" \in Phases
    BY DEF Phases
  <2>. QED
    BY <1>a, <1>b, <2>1, PhaseFields DEF Over
<1>d. \/ ~Applies(r) /\ tab' = [tab EXCEPT ![t] = tab[t]] /\ wire' = w
      \/ Applies(r) /\ ContinueQueue(w, cs, t, s("idle", None))
      \/ Applies(r) /\ tab' = [tab EXCEPT ![t] = s("awaiting", r)] /\ wire' = w
      \/ Applies(r) /\ tab' = [tab EXCEPT ![t] = s("failed", r)] /\ wire' = w
  BY <1>1 DEF OutcomeArrives, Dropped, Completes, Awaits, Fails, Settle
<1>e. Applies(r) <=> tab[t].identity = "remote" /\ (tab[t].turn = "thinking" => tab[t].req = r)
  BY <1>1, <1>b DEF Applies, FirstTime, Stale
<1>f. /\ r \in ServedOf /\ outbound[r] = t
      /\ tab[t].identity = "remote" /\ r \notin cancelled
           => tab[t].turn = "thinking" /\ tab[t].req = r
  BY <1>1, <1>b DEF ServedOf, Both, LiveInv, OneLiveTurn, IsOpen
<1>. HIDE DEF w, cs
<1>2. ASSUME wire' = w PROVE ServedOf' = ServedOf
  BY <1>c, <1>2, ServedStays
<1>3. ASSUME wire' = w, NEW x, tab' = [tab EXCEPT ![t] = x], x.identity = tab[t].identity
      PROVE  SentOK'
  <2>1. tab'[t] = x /\ \A u \in Tabs \ {t} : tab'[u] = tab[u]
    BY <1>a, <1>3
  <2>. QED
    BY <1>b, <1>c, <1>3, <2>1, SentKept
<1>4. CASE ~Applies(r) /\ tab' = [tab EXCEPT ![t] = tab[t]] /\ wire' = w
  <2>1. SentOK'
    BY <1>3, <1>4
  <2>2. tab' = tab
    BY <1>a, <1>4
  <2>3. StageOf' = StageOf /\ InboxOf' = InboxOf /\ ServingOf' = ServingOf /\ HeldOf' = HeldOf
    BY <2>2, ViewsStay
  <2>4. StageOf[t] = "gone" \/ (r \in cancelled /\ ServingOf[t] \notin {None, r})
    BY <1>a, <1>b, <1>e, <1>f, <1>4, ViewFields DEF Stage, Serving, TurnOK
  <2>5. Contract!Ignore(t, r)
    BY <1>2, <1>b, <1>f, <1>4, <2>3, <2>4
       DEF Contract!Ignore, Contract!Ends, StageOf, InboxOf, ServingOf, HeldOf, ServedOf
  <2>. QED
    BY <2>1, <2>5 DEF Contract!Next, Requests
<1>5. ASSUME Applies(r)
      PROVE  /\ StageOf[t] = "open"
             /\ ServingOf[t] = r \/ (ServingOf[t] = None /\ r \in cancelled)
  BY <1>e, <1>f, <1>5, ViewFields DEF Stage, Serving
<1>g. ASSUME Applies(r), StageOf' = StageOf, Contract!Resumes(t)
      PROVE  Contract!Next
  <2>1. Contract!Ends(t, r)
    BY <1>b, <1>f, <1>g
       DEF Contract!Ends, StageOf, InboxOf, ServingOf, HeldOf, ServedOf
  <2>2. \/ Contract!End(t, r) \/ Contract!EndLate(t, r) \/ Contract!Overtake(t, r)
    BY <2>1, <1>5, <1>g
       DEF Contract!End, Contract!EndLate, Contract!Overtake, Contract!Free,
           StageOf, InboxOf, ServingOf, HeldOf, ServedOf
  <2>. QED
    BY <2>2 DEF Contract!Next, Requests
<1>6. ASSUME Applies(r), wire' = w, NEW k \in {"idle", "awaiting", "failed"},
             NEW q \in Requests \cup {None}, tab' = [tab EXCEPT ![t] = s(k, q)]
      PROVE  SentOK' /\ Contract!Next
  <2>1. k \in TurnKinds
    BY DEF TurnKinds
  <2>2. s(k, q).identity = tab[t].identity /\ s(k, q).turn = k /\ s(k, q).queue = tab[t].queue
    BY <1>a, <2>1, TabFields
  <2>b. Becomes(t, s(k, q))
    BY <1>a, <1>6 DEF Becomes
  <2>. HIDE DEF s
  <2>3. /\ Stage(s(k, q)) = Stage(tab[t]) /\ Serving(s(k, q)) = None
        /\ (s(k, q).turn = "awaiting") = (k = "awaiting")
    BY <2>2 DEF Stage, Serving
  <2>4. StageOf' = StageOf
    BY <2>b, <2>3, StageKept
  <2>5. InboxOf' = InboxOf
    BY <2>b, <2>2, InboxKept
  <2>6. ServingOf' = [ServingOf EXCEPT ![t] = None]
    BY <2>b, <2>3, ServingMoves
  <2>7. HeldOf' = [HeldOf EXCEPT ![t] = (k = "awaiting")]
    <3>1. HeldOf' = [HeldOf EXCEPT ![t] = (s(k, q).turn = "awaiting")]
      BY <2>b, HeldMoves
    <3>. QED
      BY <2>3, <3>1
  <2>8. HeldOf' = [HeldOf EXCEPT ![t] = TRUE] \/ HeldOf' = [HeldOf EXCEPT ![t] = FALSE]
    BY <2>7
  <2>9. ServedOf' = ServedOf
    BY <1>2, <1>6
  <2>10. Contract!Resumes(t)
    BY <2>5, <2>6, <2>8, <2>9
       DEF Contract!Resumes, StageOf, InboxOf, ServingOf, HeldOf, ServedOf
  <2>11. SentOK'
    BY <1>3, <1>6, <2>2
  <2>. QED
    BY <1>6, <1>g, <2>4, <2>10, <2>11
<1>7. ASSUME Applies(r), ContinueQueue(w, cs, t, s("idle", None)), tab[t].queue # <<>>
      PROVE  SentOK' /\ Contract!Next
  <2>. DEFINE x == s("idle", None)
  <2>1. /\ x \in Tab /\ x.identity = "remote" /\ x.queue = tab[t].queue
        /\ tab[t].identity = "remote"
    <3>1. "idle" \in TurnKinds /\ None \in Requests \cup {None}
      BY DEF TurnKinds
    <3>. QED
      BY <1>a, <1>e, <1>7, <3>1, TabFields
  <2>2. ContinueQueue(w, cs, t, x)
    BY <1>7
  <2>. HIDE DEF x, s
  <2>3. /\ tab' = [tab EXCEPT ![t] = Drained(x)]
        /\ wire' = Sent(w, Head(x.queue), t)
        /\ Contract!ServeHead(t) /\ StageOf' = StageOf
    BY <1>c, <1>7, <2>1, <2>2, HeadServed
  <2>4. PICK c \in Requests : c = Head(x.queue) /\ outbound[c] = t
    <3>1. Head(x.queue) = tab[t].queue[1] /\ 1 \in 1..Len(tab[t].queue)
          /\ Head(x.queue) \in Commands
      BY <1>a, <1>7, <2>1 DEF Tab
    <3>. QED
      BY <1>a, <3>1 DEF WaitingOK, Requests
  <2>5. tab'[t] = Drained(x) /\ \A u \in Tabs \ {t} : tab'[u] = tab[u]
    BY <1>a, <2>3
  <2>6. Drained(x).turn = "thinking" /\ Drained(x).identity = "remote"
    BY <1>7, <2>1, DrainedFields
  <2>7. SentOK'
    <3>1. t \in Keys \cup {None}
      BY DEF Keys
    <3>2. \A q \in Requests \ {c} : wire'[q] = w[q]
      BY <1>c, <2>3, <2>4, <3>1, SentFields
    <3>. QED
      BY <1>b, <1>c, <2>4, <2>5, <2>6, <3>2, SentKept
  <2>b. Becomes(t, Drained(x))
    BY <1>a, <2>3 DEF Becomes
  <2>8. HeldOf' = [HeldOf EXCEPT ![t] = FALSE]
    <3>1. HeldOf' = [HeldOf EXCEPT ![t] = (Drained(x).turn = "awaiting")]
      BY <2>b, HeldMoves
    <3>. QED
      BY <2>6, <3>1
  <2>9. Contract!Resumes(t)
    BY <2>3, <2>8 DEF Contract!Resumes, StageOf, InboxOf, ServingOf, HeldOf, ServedOf
  <2>. QED
    BY <1>7, <1>g, <2>3, <2>7, <2>9
<1>8. CASE Applies(r) /\ ContinueQueue(w, cs, t, s("idle", None))
  <2>1. s("idle", None).queue = tab[t].queue
    <3>1. "idle" \in TurnKinds /\ None \in Requests \cup {None}
      BY DEF TurnKinds
    <3>. QED
      BY <1>a, <3>1, TabFields
  <2>2. CASE tab[t].queue = <<>>
    <3>1. tab' = [tab EXCEPT ![t] = s("idle", None)] /\ wire' = w
      BY <1>8, <2>1, <2>2 DEF ContinueQueue, Settle
    <3>. QED
      BY <1>6, <1>8, <3>1
  <2>3. CASE tab[t].queue # <<>>
    BY <1>7, <1>8, <2>3
  <2>. QED
    BY <2>2, <2>3
<1>9. CASE Applies(r) /\ wire' = w
           /\ \E k \in {"awaiting", "failed"} : tab' = [tab EXCEPT ![t] = s(k, r)]
  BY <1>6, <1>9
<1>. HIDE DEF s
<1>. QED
  BY <1>d, <1>4, <1>8, <1>9

\* The client keeps the contract of a conversation: whatever is stopped, refused,
\* answered late or twice, adopted or closed, a session serves one request at a
\* time and its oldest message first, a request is served and ended at most once,
\* and a running turn is ended by its own outcome or by the user.  The outcome of a
\* stopped request is ignored while another request is served, taken by a session
\* that is free, and takes the place of a plan that waits (Overtake); that of any
\* other request comes in its turn.
THEOREM ClientKeepsContract == Spec => KeepsContract
<1>1. Init => Contract!Init /\ SentOK
  <2>. SUFFICES ASSUME Init PROVE Contract!Init /\ SentOK
    OBVIOUS
  <2>1. \A t \in Tabs : tab[t] \in {Fresh("unopened"), Fresh("remote")}
    BY DEF Init
  <2>2. ASSUME NEW t \in Tabs
        PROVE  /\ tab[t].identity \in {"unopened", "remote"} /\ tab[t].turn = "idle"
               /\ tab[t].queue = <<>>
    BY <2>1, FreshFields DEF Identities
  <2>3. ASSUME NEW t \in Tabs
        PROVE  Stage(tab[t]) \in {"new", "open"} /\ Serving(tab[t]) = None
    BY <2>2 DEF Stage, Serving
  <2>4. \A r \in Requests : wire[r].phase = "unsent"
    BY DEF Init
  <2>5. StageOf \in [Tabs -> {"new", "open"}]
    BY <2>3 DEF StageOf
  <2>6. InboxOf = [t \in Tabs |-> <<>>] /\ HeldOf = [t \in Tabs |-> FALSE]
    BY <2>2 DEF InboxOf, HeldOf
  <2>7. ServingOf = [t \in Tabs |-> None] /\ ServedOf = {}
    BY <2>3, <2>4 DEF ServingOf, ServedOf
  <2>8. outbound = [r \in Commands \cup Decisions |-> None] /\ applied = {} /\ cancelled = {}
    BY DEF Init, Requests
  <2>. QED
    BY <2>4, <2>5, <2>6, <2>7, <2>8
       DEF Contract!Init, SentOK, StageOf, InboxOf, ServingOf, HeldOf, ServedOf
<1>2. Both /\ SentOK /\ [Next]_vars => SentOK' /\ [Contract!Next]_(Contract!contractVars)
  <2>. SUFFICES ASSUME Both, SentOK, [Next]_vars
                PROVE  SentOK' /\ [Contract!Next]_(Contract!contractVars)
    OBVIOUS
  <2>1. ASSUME UNCHANGED vars PROVE SentOK' /\ UNCHANGED Contract!contractVars
    <3>1. /\ tab' = tab /\ wire' = wire /\ outbound' = outbound /\ applied' = applied
          /\ cancelled' = cancelled
      BY <2>1 DEF vars, clientVars, historyVars
    <3>2. StageOf' = StageOf /\ InboxOf' = InboxOf /\ ServingOf' = ServingOf /\ HeldOf' = HeldOf
      BY <3>1, ViewsStay
    <3>3. ServedOf' = ServedOf
      BY <3>1, ServedStays
    <3>4. SentOK'
      BY <3>1 DEF SentOK
    <3>. QED
      BY <3>1, <3>2, <3>3, <3>4, ContractStutters
  <2>2. CASE UserStep
    BY <2>2, ContractUser
  <2>3. CASE WireStep
    BY <2>3, ContractWire
  <2>4. CASE KernelStep
    BY <2>1, <2>4, ContractArrival, RepeatsNothing DEF KernelStep
  <2>. QED
    BY <2>1, <2>2, <2>3, <2>4 DEF Next
<1>. QED
  BY <1>1, <1>2, BothCorrect, PTL DEF Spec, KeepsContract, Contract!Spec

=============================================================================
