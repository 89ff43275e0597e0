-------------------------- MODULE ClientFeedProofs --------------------------
(***************************************************************************)
(* Theorems about ClientFeed: types, the groups of the open sessions, and  *)
(* the chunks, for every bound of the model.                               *)
(***************************************************************************)
EXTENDS ClientFeed, TLAPS

LEMMA TypeInit == Init => TypeOK
<1>. SUFFICES ASSUME Init PROVE TypeOK
  OBVIOUS
<1>1. feed \in Seq({"established"}) /\ lane \in Seq(SUBSET Tabs)
  BY DEF Init
<1>. QED
  BY <1>1 DEF Init, TypeOK, Hubs

LEMMA TypeHub ==
  ASSUME TypeOK, HubStep
  PROVE  TypeOK'
<1>. USE DEF TypeOK, hubVars, laneVars, chunkVars
<1>1. CASE Attempt
  BY <1>1 DEF Attempt, Hubs
<1>2. CASE HubStarts
  <2>1. sub' \in Subs \cup {NoSub}
    BY <1>2 DEF HubStarts, Subs
  <2>2. lapses' \subseteq Lapses
    BY <1>2 DEF HubStarts, Lapses
  <2>3. feed' \in Seq({"established"})
    BY <1>2 DEF HubStarts
  <2>. QED
    BY <1>2, <2>1, <2>2, <2>3 DEF HubStarts, Hubs, RejoinAll
<1>3. CASE HubFails \/ HubRefused
  BY <1>3 DEF HubFails, HubRefused, AfterFailure, Hubs
<1>4. CASE HubDrops \/ HubCloses \/ Stop
  BY <1>4 DEF HubDrops, HubCloses, Stop, Hubs, Lapses
<1>5. CASE HubReturns
  <2>1. feed' \in Seq({"established"})
    BY <1>5 DEF HubReturns
  <2>. QED
    BY <1>5, <2>1 DEF HubReturns, Hubs
<1>6. ASSUME NEW t \in Tabs, RejoinOne(t) PROVE TypeOK'
  BY <1>6 DEF RejoinOne, Member, Lapses
<1>. QED
  BY <1>1, <1>2, <1>3, <1>4, <1>5, <1>6 DEF HubStep

LEMMA TypeKernel ==
  ASSUME TypeOK, KernelStep
  PROVE  TypeOK'
<1>. USE DEF TypeOK, hubVars, laneVars, chunkVars
<1>1. CASE KernelHears
  <2>1. feed' \in Seq({"established"}) /\ lane' \in Seq(SUBSET Tabs)
    BY <1>1 DEF KernelHears, Subscribe
  <2>. QED
    BY <1>1, <2>1 DEF KernelHears, Subscribe
<1>2. ASSUME NEW sessions \in SUBSET Tabs, Restore(sessions) PROVE TypeOK'
  BY <1>2 DEF Restore, Lapses
<1>3. ASSUME NEW t \in Tabs, OpenTab(t) \/ CloseTab(t) PROVE TypeOK'
  <2>1. open' \subseteq Tabs
    BY <1>3 DEF OpenTab, CloseTab
  <2>2. lane' \in Seq(SUBSET Tabs)
    <3>1. lane' = Append(lane, open')
      BY <1>3 DEF OpenTab, CloseTab, Subscribe
    <3>2. open' \in SUBSET Tabs /\ lane \in Seq(SUBSET Tabs)
      BY <2>1
    <3>. QED
      BY <3>1, <3>2
  <2>. QED
    BY <1>3, <2>1, <2>2 DEF OpenTab, CloseTab, Subscribe
<1>4. CASE SubBegins
  <2>1. Head(lane) \subseteq Tabs /\ lane' \in Seq(SUBSET Tabs)
    BY <1>4 DEF SubBegins
  <2>2. sub' \in Subs \cup {NoSub}
    <3>. DEFINE e == [wanted |-> Head(lane), join |-> Head(lane) \ joined,
                      leave |-> joined \ Head(lane), old |-> FALSE]
    <3>1. e \in Subs
      <4>1. /\ Head(lane) \in SUBSET Tabs /\ Head(lane) \ joined \in SUBSET Tabs
            /\ joined \ Head(lane) \in SUBSET Tabs
        BY <2>1
      <4>. QED
        BY <4>1 DEF Subs
    <3>2. sub' = sub \/ sub' = e
      BY <1>4 DEF SubBegins, Leaves
    <3>. QED
      BY <3>1, <3>2
  <2>. QED
    BY <1>4, <2>1, <2>2 DEF SubBegins
<1>5. CASE SubEnds
  <2>1. joined' \subseteq Tabs /\ sub' = NoSub
    BY <1>5 DEF SubEnds, Subs
  <2>. QED
    BY <1>5, <2>1 DEF SubEnds
<1>6. ASSUME NEW t \in Tabs, SubJoins(t) \/ SubLeaves(t) PROVE TypeOK'
  <2>1. sub' \in Subs
    BY <1>6 DEF SubJoins, SubLeaves, Subs
  <2>2. groups' \subseteq Tabs /\ lapses' \subseteq Lapses
    BY <1>6 DEF SubJoins, SubLeaves, Lapses
  <2>. QED
    BY <1>6, <2>1, <2>2 DEF SubJoins, SubLeaves
<1>. QED
  BY <1>1, <1>2, <1>3, <1>4, <1>5, <1>6 DEF KernelStep

-----------------------------------------------------------------------------
(* Chunks *)

\* A chunk is a session, a turn and a number.
LEMMA ChunkShape ==
  ASSUME NEW c \in Chunks
  PROVE  \E u \in Tabs, i \in 1..MaxTurns, l \in 0..MaxChunks : c = <<u, i, l>>
  BY DEF Chunks

LEMMA SeenAreChunks ==
  ASSUME TypeOK
  PROVE  rendered \subseteq Chunks /\ lost \subseteq Chunks
  BY DEF TypeOK

\* The stream of a session is within its bounds; what was rendered came from it,
\* and the number the adapter remembers is that of a rendered chunk of the last turn
\* that has one; what was lost is not above it.
StreamAt(t) ==
    /\ stream[t].turn \in 1..MaxTurns
    /\ stream[t].next \in 0..(MaxChunks + 1)
    /\ \A k \in 1..MaxTurns, n \in 0..MaxChunks :
         <<t, k, n>> \in rendered =>
            /\ n + 1 <= lastSeq[t]
            /\ k <= stream[t].turn
            /\ k = stream[t].turn => n < stream[t].next
    /\ \A k \in 1..MaxTurns, n \in 0..MaxChunks :
         <<t, k, n>> \in lost => n + 1 <= lastSeq[t]
    /\ lastSeq[t] # 0 =>
         \E k \in 1..MaxTurns, n \in 0..MaxChunks :
             /\ lastSeq[t] = n + 1 /\ <<t, k, n>> \in rendered
             /\ \A j \in 1..MaxTurns, m \in 0..MaxChunks :
                  <<t, j, m>> \in rendered => j <= k

StreamOK == \A t \in Tabs : StreamAt(t)

ChunkInv == TypeOK /\ StreamOK /\ RenderedOnce /\ NoGapInTurn

LEMMA ChunkUnchanged ==
  ASSUME ChunkInv, TypeOK', UNCHANGED chunkVars
  PROVE  ChunkInv'
  BY DEF ChunkInv, StreamOK, StreamAt, RenderedOnce, NoGapInTurn, chunkVars

LEMMA ChunkNextTurn ==
  ASSUME ChunkInv, NEW t \in Tabs, NextTurn(t)
  PROVE  ChunkInv'
<1>1. /\ stream' = [stream EXCEPT ![t] = [turn |-> stream[t].turn + 1, next |-> 0]]
      /\ stream[t].turn < MaxTurns
      /\ UNCHANGED <<hooked, hubVars, laneVars, lastSeq, rendered, twice, lost, online, lapses>>
      /\ TypeOK /\ StreamOK
  BY DEF NextTurn, ChunkInv
<1>2. /\ stream'[t] = [turn |-> stream[t].turn + 1, next |-> 0]
      /\ \A u \in Tabs \ {t} : stream'[u] = stream[u]
      /\ stream[t].turn \in 1..MaxTurns
      /\ stream' \in [Tabs -> [turn : Nat, next : Nat]]
  BY <1>1, Bounds DEF TypeOK, StreamOK, StreamAt
<1>3. TypeOK'
  BY <1>1, <1>2 DEF TypeOK, hubVars, laneVars
<1>4. ASSUME NEW u \in Tabs \ {t} PROVE StreamAt(u)'
  BY <1>1, <1>2, <1>4 DEF StreamOK, StreamAt
<1>5. StreamAt(t)'
  <2>1. /\ stream'[t].turn \in 1..MaxTurns /\ stream'[t].next \in 0..(MaxChunks + 1)
    BY <1>1, <1>2, Bounds
  <2>2. ASSUME NEW k \in 1..MaxTurns, NEW n \in 0..MaxChunks, <<t, k, n>> \in rendered
        PROVE  /\ n + 1 <= lastSeq[t] /\ k <= stream'[t].turn
               /\ k = stream'[t].turn => n < stream'[t].next
    <3>1. n + 1 <= lastSeq[t] /\ k <= stream[t].turn /\ stream'[t].turn = stream[t].turn + 1
      BY <1>1, <1>2, <2>2 DEF StreamOK, StreamAt
    <3>. QED
      BY <1>2, <3>1, Bounds
  <2>3. /\ \A k \in 1..MaxTurns, n \in 0..MaxChunks :
             <<t, k, n>> \in lost => n + 1 <= lastSeq[t]
        /\ lastSeq[t] # 0 =>
             \E k \in 1..MaxTurns, n \in 0..MaxChunks :
                 /\ lastSeq[t] = n + 1 /\ <<t, k, n>> \in rendered
                 /\ \A j \in 1..MaxTurns, m \in 0..MaxChunks :
                      <<t, j, m>> \in rendered => j <= k
    BY <1>1 DEF StreamOK, StreamAt
  <2>4. rendered' = rendered /\ lost' = lost /\ lastSeq' = lastSeq
    BY <1>1
  <2>. QED
    BY <2>1, <2>2, <2>3, <2>4 DEF StreamAt
<1>6. StreamOK'
  BY <1>4, <1>5 DEF StreamOK
<1>. QED
  BY <1>1, <1>3, <1>6 DEF ChunkInv, RenderedOnce, NoGapInTurn

\* A chunk of the current turn is handed over: it is above all that were.
LEMMA ChunkRenders ==
  ASSUME ChunkInv, NEW t \in Tabs, NEW n \in 0..MaxChunks,
         ~Repeated(t, n), Receives(t, stream[t].turn, n),
         stream' \in [Tabs -> [turn : Nat, next : Nat]],
         stream'[t].turn = stream[t].turn,
         stream'[t].next \in 0..(MaxChunks + 1),
         n < stream'[t].next, stream[t].next <= stream'[t].next,
         \A u \in Tabs \ {t} : stream'[u] = stream[u],
         UNCHANGED <<hooked, hubVars, laneVars, online, lapses>>
  PROVE  ChunkInv'
<1>. DEFINE k == stream[t].turn
            c == <<t, k, n>>
<1>1. TypeOK /\ StreamOK /\ k \in 1..MaxTurns /\ lastSeq[t] \in Nat /\ c \in Chunks
  BY DEF ChunkInv, StreamOK, StreamAt, TypeOK, Chunks
<1>2. lastSeq[t] < n + 1
  BY <1>1 DEF Repeated
<1>3. c \notin rendered
  BY <1>1, <1>2 DEF StreamOK, StreamAt
<1>4. /\ lastSeq' = [lastSeq EXCEPT ![t] = n + 1]
      /\ rendered' = rendered \cup {c} /\ twice' = twice /\ lost' = lost
  BY <1>3 DEF Receives, Remembered
<1>5. /\ lastSeq'[t] = n + 1 /\ \A u \in Tabs \ {t} : lastSeq'[u] = lastSeq[u]
  BY <1>1, <1>4 DEF TypeOK
<1>6. TypeOK'
  <2>1. rendered' \subseteq Chunks
    BY <1>1, <1>4 DEF TypeOK
  <2>2. lastSeq' \in [Tabs -> Nat]
    BY <1>1, <1>4 DEF TypeOK
  <2>. QED
    BY <1>1, <1>4, <2>1, <2>2 DEF TypeOK, hubVars, laneVars
<1>7. ASSUME NEW u \in Tabs
      PROVE  /\ stream'[u].turn \in 1..MaxTurns
             /\ stream'[u].next \in 0..(MaxChunks + 1)
             /\ \A j \in 1..MaxTurns, m \in 0..MaxChunks :
                  <<u, j, m>> \in rendered' =>
                     /\ m + 1 <= lastSeq'[u]
                     /\ j <= stream'[u].turn
                     /\ j = stream'[u].turn => m < stream'[u].next
             /\ \A j \in 1..MaxTurns, m \in 0..MaxChunks :
                  <<u, j, m>> \in lost' => m + 1 <= lastSeq'[u]
             /\ lastSeq'[u] # 0 =>
                  \E j \in 1..MaxTurns, m \in 0..MaxChunks :
                      /\ lastSeq'[u] = m + 1 /\ <<u, j, m>> \in rendered'
                      /\ \A i \in 1..MaxTurns, l \in 0..MaxChunks :
                           <<u, i, l>> \in rendered' => i <= j
  <2>1. CASE u = t
    <3>1. ASSUME NEW j \in 1..MaxTurns, NEW m \in 0..MaxChunks, <<t, j, m>> \in rendered'
          PROVE  /\ m + 1 <= n + 1
                 /\ j <= stream'[t].turn
                 /\ j = stream'[t].turn => m < stream'[t].next
      <4>1. CASE <<t, j, m>> = c
        BY <1>1, <4>1
      <4>2. CASE <<t, j, m>> \in rendered
        <5>1. m + 1 <= lastSeq[t] /\ j <= k /\ (j = k => m < stream[t].next)
          BY <1>1, <4>2 DEF StreamOK, StreamAt
        <5>2. stream[t].next \in Nat /\ stream'[t].next \in Nat
          BY <1>1, Bounds DEF StreamOK, StreamAt
        <5>. QED
          BY <1>1, <1>2, <5>1, <5>2, Bounds
      <4>. QED
        BY <1>4, <3>1, <4>1, <4>2
    <3>2. <<t, k, n>> \in rendered' /\ stream'[t].turn = k
      BY <1>4
    <3>3. ASSUME NEW j \in 1..MaxTurns, NEW m \in 0..MaxChunks, <<t, j, m>> \in lost'
          PROVE  m + 1 <= n + 1
      <4>1. m + 1 <= lastSeq[t]
        BY <1>1, <1>4, <3>3 DEF StreamOK, StreamAt
      <4>. QED
        BY <1>1, <1>2, <4>1, Bounds
    <3>. QED
      BY <1>1, <1>5, <2>1, <3>1, <3>2, <3>3
  <2>2. CASE u # t
    <3>1. \A j \in 1..MaxTurns, m \in 0..MaxChunks :
             <<u, j, m>> \in rendered' <=> <<u, j, m>> \in rendered
      BY <1>4, <2>2
    <3>. QED
      BY <1>1, <1>4, <1>5, <2>2, <3>1 DEF StreamOK, StreamAt
  <2>. QED
    BY <2>1, <2>2
<1>8. StreamOK'
  BY <1>7 DEF StreamOK, StreamAt
<1>9. NoGapInTurn'
  <2>1. ASSUME NEW e \in lost, c[1] = e[1], c[2] = e[2] PROVE e[3] < n
    <3>1. PICK u \in Tabs, j \in 1..MaxTurns, m \in 0..MaxChunks : e = <<u, j, m>>
      BY <1>1, SeenAreChunks, ChunkShape
    <3>2. <<t, j, m>> \in lost /\ e[3] = m
      BY <2>1, <3>1
    <3>3. m + 1 <= lastSeq[t]
      BY <1>1, <3>2 DEF StreamOK, StreamAt
    <3>. QED
      BY <1>1, <1>2, <3>2, <3>3, Bounds
  <2>2. c[3] = n
    OBVIOUS
  <2>. QED
    BY <1>4, <2>1, <2>2 DEF ChunkInv, NoGapInTurn
<1>. QED
  BY <1>4, <1>6, <1>8, <1>9 DEF ChunkInv, RenderedOnce

\* A chunk that is dropped was rendered, or nothing of its turn was.
LEMMA ChunkDropped ==
  ASSUME ChunkInv, NEW t \in Tabs, NEW n \in 0..MaxChunks,
         n + 1 >= stream[t].next,
         Repeated(t, n), Receives(t, stream[t].turn, n),
         stream' \in [Tabs -> [turn : Nat, next : Nat]],
         stream'[t].turn = stream[t].turn,
         stream'[t].next \in 0..(MaxChunks + 1), stream[t].next <= stream'[t].next,
         \A u \in Tabs \ {t} : stream'[u] = stream[u],
         UNCHANGED <<hooked, hubVars, laneVars, online, lapses>>
  PROVE  ChunkInv'
<1>. DEFINE k == stream[t].turn
            c == <<t, k, n>>
<1>1. /\ TypeOK /\ StreamOK /\ k \in 1..MaxTurns /\ lastSeq[t] \in Nat /\ c \in Chunks
      /\ stream[t].next \in Nat
  BY Bounds DEF ChunkInv, StreamOK, StreamAt, TypeOK, Chunks
<1>2. /\ lost' = IF c \in rendered THEN lost ELSE lost \cup {c}
      /\ UNCHANGED <<lastSeq, rendered, twice>>
  BY DEF Receives
<1>3. PICK j \in 1..MaxTurns, m \in 0..MaxChunks :
         /\ lastSeq[t] = m + 1 /\ <<t, j, m>> \in rendered
         /\ \A i \in 1..MaxTurns, l \in 0..MaxChunks : <<t, i, l>> \in rendered => i <= j
  BY <1>1 DEF StreamOK, StreamAt, Repeated
<1>4. m >= n /\ j <= k /\ (j = k => m < stream[t].next)
  BY <1>1, <1>3 DEF Repeated, StreamOK, StreamAt
<1>5. c \in rendered \/ j < k
  BY <1>1, <1>3, <1>4, Bounds
<1>6. NoGapInTurn'
  <2>1. ASSUME c \notin rendered, NEW d \in rendered, d[1] = c[1], d[2] = c[2] PROVE FALSE
    <3>1. PICK u \in Tabs, i \in 1..MaxTurns, l \in 0..MaxChunks : d = <<u, i, l>>
      BY <1>1, SeenAreChunks, ChunkShape
    <3>2. <<t, k, l>> \in rendered
      BY <2>1, <3>1
    <3>. QED
      BY <1>1, <1>3, <1>5, <2>1, <3>2
  <2>. QED
    BY <1>2, <2>1 DEF ChunkInv, NoGapInTurn
<1>7. TypeOK'
  BY <1>1, <1>2 DEF TypeOK, hubVars, laneVars
<1>8. StreamOK'
  <2>1. ASSUME NEW u \in Tabs, NEW i \in 1..MaxTurns, NEW l \in 0..MaxChunks,
               <<u, i, l>> \in lost'
        PROVE  l + 1 <= lastSeq[u]
    <3>1. CASE <<u, i, l>> = c
      BY <3>1 DEF Repeated
    <3>2. CASE <<u, i, l>> \in lost
      BY <1>1, <3>2 DEF StreamOK, StreamAt
    <3>. QED
      BY <1>2, <2>1, <3>1, <3>2
  <2>2. ASSUME NEW u \in Tabs
        PROVE  /\ stream'[u].turn \in 1..MaxTurns
               /\ stream'[u].next \in 0..(MaxChunks + 1)
               /\ \A i \in 1..MaxTurns, l \in 0..MaxChunks :
                    <<u, i, l>> \in rendered =>
                       /\ l + 1 <= lastSeq[u]
                       /\ i <= stream'[u].turn
                       /\ i = stream'[u].turn => l < stream'[u].next
    <3>1. stream'[u].turn = stream[u].turn /\ stream[u].next <= stream'[u].next
          /\ stream'[u].next \in 0..(MaxChunks + 1)
      BY <1>1, Bounds DEF StreamOK, StreamAt
    <3>. QED
      BY <1>1, <3>1, Bounds DEF StreamOK, StreamAt
  <2>3. \A u \in Tabs :
           lastSeq[u] # 0 =>
             \E i \in 1..MaxTurns, l \in 0..MaxChunks :
                 /\ lastSeq[u] = l + 1 /\ <<u, i, l>> \in rendered
                 /\ \A g \in 1..MaxTurns, h \in 0..MaxChunks :
                      <<u, g, h>> \in rendered => g <= i
    BY <1>1 DEF StreamOK, StreamAt
  <2>. HIDE DEF c
  <2>. QED
    BY <1>2, <2>1, <2>2, <2>3 DEF StreamOK, StreamAt
<1>. QED
  BY <1>2, <1>6, <1>7, <1>8 DEF ChunkInv, RenderedOnce

LEMMA ChunkStream ==
  ASSUME ChunkInv, NEW t \in Tabs, NextTurn(t) \/ ChunkArrives(t) \/ ChunkRepeats(t)
  PROVE  ChunkInv'
<1>1. /\ TypeOK /\ StreamOK /\ stream \in [Tabs -> [turn : Nat, next : Nat]]
      /\ stream[t].next \in 0..(MaxChunks + 1) /\ stream[t].turn \in Nat
  BY DEF ChunkInv, TypeOK, StreamOK, StreamAt
<1>2. CASE ChunkArrives(t)
  <2>. DEFINE n == stream[t].next
  <2>1. /\ n \in 0..MaxChunks
        /\ stream' = [stream EXCEPT ![t].next = n + 1]
        /\ UNCHANGED <<hooked, hubVars, laneVars, online, lapses>>
    BY <1>1, <1>2, Bounds DEF ChunkArrives
  <2>2. /\ stream' \in [Tabs -> [turn : Nat, next : Nat]]
        /\ stream'[t].turn = stream[t].turn /\ stream'[t].next = n + 1
        /\ \A u \in Tabs \ {t} : stream'[u] = stream[u]
    BY <1>1, <2>1, Bounds
  <2>3. n + 1 \in 0..(MaxChunks + 1) /\ n < n + 1 /\ n <= n + 1 /\ n + 1 >= n
    BY <2>1, Bounds
  <2>4. CASE Receives(t, stream[t].turn, n)
    <3>1. CASE Repeated(t, n)
      BY <2>1, <2>2, <2>3, <2>4, <3>1, ChunkDropped
    <3>2. CASE ~Repeated(t, n)
      BY <2>1, <2>2, <2>3, <2>4, <3>2, ChunkRenders
    <3>. QED
      BY <3>1, <3>2
  <2>5. CASE UNCHANGED <<lastSeq, rendered, twice, lost>>
    <3>1. TypeOK'
      BY <1>1, <2>1, <2>2, <2>5 DEF TypeOK, hubVars, laneVars
    <3>2. StreamOK'
      <4>1. ASSUME NEW k \in 1..MaxTurns, NEW m \in 0..MaxChunks, <<t, k, m>> \in rendered
            PROVE  /\ m + 1 <= lastSeq[t] /\ k <= stream[t].turn
                   /\ k = stream[t].turn => m < n + 1
        BY <1>1, <2>1, <4>1 DEF StreamOK, StreamAt
      <4>. HIDE DEF n
      <4>. QED
        BY <1>1, <2>2, <2>3, <2>5, <4>1 DEF StreamOK, StreamAt
    <3>. QED
      BY <2>5, <3>1, <3>2 DEF ChunkInv, RenderedOnce, NoGapInTurn
  <2>. QED
    BY <1>2, <2>4, <2>5 DEF ChunkArrives
<1>3. CASE ChunkRepeats(t)
  <2>. DEFINE n == stream[t].next - 1
  <2>1. /\ n \in 0..MaxChunks /\ n < stream[t].next /\ n + 1 >= stream[t].next
        /\ Receives(t, stream[t].turn, n)
        /\ stream' = stream
        /\ UNCHANGED <<hooked, hubVars, laneVars, online, lapses>>
    BY <1>1, <1>3, Bounds DEF ChunkRepeats
  <2>2. /\ stream' \in [Tabs -> [turn : Nat, next : Nat]]
        /\ stream'[t].turn = stream[t].turn
        /\ stream'[t].next \in 0..(MaxChunks + 1) /\ stream[t].next <= stream'[t].next
        /\ n < stream'[t].next
        /\ \A u \in Tabs \ {t} : stream'[u] = stream[u]
    BY <1>1, <2>1, Bounds
  <2>. HIDE DEF n
  <2>3. CASE Repeated(t, n)
    BY <2>1, <2>2, <2>3, ChunkDropped
  <2>4. CASE ~Repeated(t, n)
    BY <2>1, <2>2, <2>4, ChunkRenders
  <2>. QED
    BY <2>3, <2>4
<1>. QED
  BY <1>2, <1>3, ChunkNextTurn

LEMMA ChunkInit == Init => ChunkInv
<1>. SUFFICES ASSUME Init PROVE ChunkInv
  OBVIOUS
<1>1. TypeOK
  BY TypeInit
<1>2. StreamOK
  BY Bounds DEF Init, StreamOK, StreamAt
<1>. QED
  BY <1>1, <1>2 DEF Init, ChunkInv, RenderedOnce, NoGapInTurn

LEMMA ChunkNext == ChunkInv /\ [Next]_vars => ChunkInv'
<1>. SUFFICES ASSUME ChunkInv, [Next]_vars PROVE ChunkInv'
  OBVIOUS
<1>1. CASE HubStep
  <2>1. UNCHANGED chunkVars
    BY <1>1 DEF HubStep, Attempt, HubStarts, HubFails, HubRefused, HubDrops, HubReturns,
                HubCloses, Stop, RejoinOne
  <2>. QED
    BY <1>1, <2>1, TypeHub, ChunkUnchanged DEF ChunkInv
<1>2. CASE KernelStep
  <2>1. UNCHANGED chunkVars
    BY <1>2 DEF KernelStep, KernelHears, Restore, OpenTab, CloseTab, SubBegins, SubEnds,
                SubJoins, SubLeaves
  <2>. QED
    BY <1>2, <2>1, TypeKernel, ChunkUnchanged DEF ChunkInv
<1>3. CASE StreamStep
  BY <1>3, Bounds, ChunkStream DEF StreamStep
<1>4. CASE UNCHANGED vars
  <2>1. TypeOK' /\ UNCHANGED chunkVars
    BY <1>4 DEF ChunkInv, vars, hubVars, laneVars, chunkVars, TypeOK
  <2>. QED
    BY <2>1, ChunkUnchanged
<1>. QED
  BY <1>1, <1>2, <1>3, <1>4 DEF Next

\* Every reachable state of the feed is well typed, for every bound.
THEOREM FeedTypeCorrect == Spec => []TypeOK
<1>1. ChunkInv => TypeOK
  BY DEF ChunkInv
<1>. QED
  BY <1>1, ChunkInit, ChunkNext, PTL DEF Spec

\* A chunk is handed to the kernel at most once: for any number of sessions,
\* turns and chunks, and whatever the server repeats.
THEOREM ChunksRenderedOnce == Spec => []RenderedOnce
<1>1. ChunkInv => RenderedOnce
  BY DEF ChunkInv
<1>. QED
  BY <1>1, ChunkInit, ChunkNext, PTL DEF Spec

\* Once a chunk of a turn is shown, no later chunk of that turn is taken for a
\* repeat: for any number of sessions, turns and chunks, whatever comes twice or
\* not at all.
THEOREM TurnsStreamOn == Spec => []NoGapInTurn
<1>1. ChunkInv => NoGapInTurn
  BY DEF ChunkInv
<1>. QED
  BY <1>1, ChunkInit, ChunkNext, PTL DEF Spec

-----------------------------------------------------------------------------
(* Groups *)

\* The set of sessions the adapter was asked for last.
Latest ==
    IF lane # <<>> THEN lane[Len(lane)] ELSE IF sub # NoSub THEN sub.wanted ELSE joined

\* A connection that was made is known to the adapter, and announced.
AnnouncedOK == hub \in {"live", "dropped"} => bound /\ (online \/ feed # <<>>)

\* The kernel asked last for what is open.
LatestOK == online /\ restored /\ "restore" \notin lapses => Latest = open

\* Until memberships are lost, what is not in its group yet is about to join.
JoinedOK ==
    /\ hub = "live" /\ "drop" \notin lapses /\ "join" \notin lapses =>
         IF sub = NoSub
           THEN joined \subseteq groups \cup rejoin
           ELSE ~sub.old /\ sub.wanted \subseteq groups \cup rejoin \cup sub.join
    /\ hub = "dropped" => "drop" \in lapses

\* An effect does not leave what it wants.
LeaveOK == sub # NoSub => sub.leave \cap sub.wanted = {}

GroupInv == TypeOK /\ AnnouncedOK /\ LatestOK /\ JoinedOK /\ LeaveOK

LEMMA GroupHub == GroupInv /\ HubStep => AnnouncedOK' /\ LatestOK' /\ JoinedOK' /\ LeaveOK'
<1>. SUFFICES ASSUME GroupInv, HubStep PROVE AnnouncedOK' /\ LatestOK' /\ JoinedOK' /\ LeaveOK'
  OBVIOUS
<1>. USE DEF GroupInv, laneVars
<1>1. CASE Attempt \/ HubFails \/ HubRefused
  BY <1>1 DEF Attempt, HubFails, HubRefused, AfterFailure, AnnouncedOK, LatestOK, JoinedOK,
              LeaveOK, Latest
<1>2. CASE HubStarts
  <2>1. /\ hub' = "live" /\ bound' = TRUE /\ groups' = {} /\ rejoin' = joined
        /\ feed' = Append(feed, "established")
        /\ sub' = (IF sub = NoSub THEN NoSub ELSE [sub EXCEPT !.old = TRUE])
        /\ lapses' = (IF sub = NoSub THEN lapses \cap {"restore"} ELSE lapses \cup {"join"})
        /\ UNCHANGED <<joined, open, restored, lane, online>>
    BY <1>2 DEF HubStarts, RejoinAll
  <2>2. feed \in Seq({"established"}) /\ sub \in Subs \cup {NoSub}
    BY DEF TypeOK
  <2>3. AnnouncedOK'
    BY <2>1, <2>2 DEF AnnouncedOK
  <2>4. CASE sub = NoSub
    <3>1. sub' = NoSub /\ ("restore" \notin lapses' => "restore" \notin lapses)
      BY <2>1, <2>4
    <3>. QED
      BY <2>1, <2>3, <2>4, <3>1 DEF LatestOK, JoinedOK, LeaveOK, Latest
  <2>5. CASE sub # NoSub
    <3>1. /\ sub' = [sub EXCEPT !.old = TRUE] /\ sub' \in Subs
          /\ sub'.wanted = sub.wanted /\ sub'.leave = sub.leave
          /\ "join" \in lapses' /\ ("restore" \notin lapses' => "restore" \notin lapses)
      BY <2>1, <2>2, <2>5 DEF Subs
    <3>2. sub' # NoSub
      BY <3>1, NoSubIsNone
    <3>. QED
      BY <2>1, <2>3, <2>5, <3>1, <3>2 DEF LatestOK, JoinedOK, LeaveOK, Latest
  <2>. QED
    BY <2>4, <2>5
<1>3. CASE HubDrops \/ HubCloses \/ Stop
  <2>1. /\ "drop" \in lapses' /\ ("restore" \in lapses' <=> "restore" \in lapses)
        /\ UNCHANGED <<joined, open, restored, lane, sub, online, feed>>
        /\ hub' \in {"dropped", "waiting", "dead", "stopped"}
        /\ hub' = "dropped" => hub = "live" /\ bound' = bound
    BY <1>3 DEF HubDrops, HubCloses, Stop
  <2>. QED
    BY <2>1 DEF AnnouncedOK, LatestOK, JoinedOK, LeaveOK, Latest
<1>4. CASE HubReturns
  <2>1. /\ hub = "dropped" /\ feed \in Seq({"established"})
        /\ feed' = feed \/ feed' = Append(feed, "established")
        /\ UNCHANGED <<bound, groups, rejoin, laneVars, online, lapses>>
    BY <1>4 DEF HubReturns, TypeOK
  <2>2. AnnouncedOK'
    BY <2>1 DEF AnnouncedOK
  <2>3. LatestOK' /\ LeaveOK'
    BY <2>1 DEF LatestOK, LeaveOK, Latest
  <2>4. JoinedOK'
    BY <2>1 DEF JoinedOK
  <2>. QED
    BY <2>2, <2>3, <2>4
<1>5. ASSUME NEW t \in Tabs, RejoinOne(t)
      PROVE  AnnouncedOK' /\ LatestOK' /\ JoinedOK' /\ LeaveOK'
  <2>1. AnnouncedOK' /\ LatestOK' /\ LeaveOK'
    BY <1>5 DEF RejoinOne, AnnouncedOK, LatestOK, LeaveOK, Latest
  <2>2. JoinedOK'
    BY <1>5 DEF RejoinOne, Member, JoinedOK
  <2>. QED
    BY <2>1, <2>2
<1>. QED
  BY <1>1, <1>2, <1>3, <1>4, <1>5 DEF HubStep

LEMMA GroupKernel == GroupInv /\ KernelStep => AnnouncedOK' /\ LatestOK' /\ JoinedOK' /\ LeaveOK'
<1>. SUFFICES ASSUME GroupInv, KernelStep PROVE AnnouncedOK' /\ LatestOK' /\ JoinedOK' /\ LeaveOK'
  OBVIOUS
<1>. USE DEF GroupInv, hubVars
<1>a. /\ lane \in Seq(SUBSET Tabs) /\ sub \in Subs \cup {NoSub}
  BY DEF TypeOK
<1>1. ASSUME NEW o \in SUBSET Tabs, lane' = Append(lane, o)
      PROVE  lane' # <<>> /\ lane'[Len(lane')] = o
  BY <1>a, <1>1
<1>2. CASE KernelHears
  <2>1. /\ lane' = Append(lane, open) /\ open \in SUBSET Tabs /\ online' = TRUE
        /\ ("drop" \in lapses <=> "drop" \in lapses') /\ ("join" \in lapses <=> "join" \in lapses')
        /\ UNCHANGED <<hub, bound, groups, rejoin, joined, open, restored, sub>>
    BY <1>2 DEF KernelHears, Subscribe, TypeOK
  <2>2. Latest' = open'
    BY <1>1, <2>1 DEF Latest
  <2>. QED
    BY <2>1, <2>2 DEF AnnouncedOK, LatestOK, JoinedOK, LeaveOK
<1>3. ASSUME NEW sessions \in SUBSET Tabs, Restore(sessions)
      PROVE  AnnouncedOK' /\ LatestOK' /\ JoinedOK' /\ LeaveOK'
  <2>1. /\ UNCHANGED <<hub, bound, groups, rejoin, feed, joined, lane, sub, online>>
        /\ online => "restore" \in lapses'
        /\ ("drop" \in lapses <=> "drop" \in lapses') /\ ("join" \in lapses <=> "join" \in lapses')
    BY <1>3 DEF Restore
  <2>. QED
    BY <2>1 DEF AnnouncedOK, LatestOK, JoinedOK, LeaveOK
<1>4. ASSUME NEW t \in Tabs, OpenTab(t) \/ CloseTab(t)
      PROVE  AnnouncedOK' /\ LatestOK' /\ JoinedOK' /\ LeaveOK'
  <2>1. /\ lane' = Append(lane, open') /\ open' \in SUBSET Tabs
        /\ ("drop" \in lapses <=> "drop" \in lapses') /\ ("join" \in lapses <=> "join" \in lapses')
        /\ UNCHANGED <<hub, bound, groups, rejoin, feed, joined, restored, sub, online>>
    BY <1>4 DEF OpenTab, CloseTab, Subscribe, TypeOK
  <2>2. Latest' = open'
    BY <1>1, <2>1 DEF Latest
  <2>. QED
    BY <2>1, <2>2 DEF AnnouncedOK, LatestOK, JoinedOK, LeaveOK
<1>5. CASE SubBegins
  <2>. DEFINE h == Head(lane)
              e == [wanted |-> h, join |-> h \ joined, leave |-> joined \ h, old |-> FALSE]
  <2>1. /\ lane # <<>> /\ sub = NoSub /\ lane' = Tail(lane)
        /\ UNCHANGED <<hub, bound, groups, rejoin, feed, open, restored, online, lapses>>
    BY <1>5 DEF SubBegins
  <2>2. /\ h \in SUBSET Tabs /\ joined \in SUBSET Tabs
        /\ Tail(lane) = <<>> => h = lane[Len(lane)]
        /\ Tail(lane) # <<>> => Tail(lane)[Len(Tail(lane))] = lane[Len(lane)]
    <3>1. Len(lane) \in Nat \ {0} /\ h = lane[1] /\ h \in SUBSET Tabs
      BY <1>a, <2>1
    <3>2. /\ Tail(lane) \in Seq(SUBSET Tabs) /\ Len(Tail(lane)) = Len(lane) - 1
          /\ \A i \in 1..Len(Tail(lane)) : Tail(lane)[i] = lane[i + 1]
      BY <1>a, <2>1
    <3>3. CASE Tail(lane) = <<>>
      <4>1. Len(lane) = 1
        <5>. DEFINE l == Tail(lane)
        <5>1. l = <<>> /\ Len(l) = Len(lane) - 1
          BY <3>2, <3>3
        <5>. HIDE DEF l
        <5>2. Len(l) = 0
          BY <5>1
        <5>. QED
          BY <3>1, <5>1, <5>2
      <4>. QED
        BY <3>1, <3>3, <4>1 DEF TypeOK
    <3>4. CASE Tail(lane) # <<>>
      <4>1. Len(Tail(lane)) \in 1..Len(Tail(lane))
        BY <3>2, <3>4
      <4>2. Tail(lane)[Len(Tail(lane))] = lane[Len(Tail(lane)) + 1]
        BY <3>2, <4>1
      <4>. QED
        BY <3>1, <3>2, <3>4, <4>2 DEF TypeOK
    <3>. QED
      BY <3>3, <3>4
  <2>3. CASE bound /\ sub' = e /\ joined' = joined
    <3>1. e \in Subs /\ e.wanted = h /\ e.join = h \ joined /\ e.leave = joined \ h /\ e.old = FALSE
      <4>1. h \ joined \in SUBSET Tabs /\ joined \ h \in SUBSET Tabs
        BY <2>2
      <4>. HIDE DEF h
      <4>. QED
        BY <2>2, <4>1 DEF Subs
    <3>. HIDE DEF e
    <3>2. sub' # NoSub
      BY <2>3, <3>1, NoSubIsNone
    <3>3. LatestOK'
      BY <2>1, <2>2, <2>3, <3>1, <3>2 DEF LatestOK, Latest
    <3>4. JoinedOK' /\ LeaveOK'
      BY <2>1, <2>3, <3>1, <3>2 DEF JoinedOK, LeaveOK
    <3>. QED
      BY <2>1, <3>3, <3>4 DEF AnnouncedOK
  <2>4. CASE ~bound /\ sub' = sub /\ joined' = h
    <3>1. hub # "live"
      BY <2>4 DEF AnnouncedOK
    <3>2. LatestOK'
      BY <2>1, <2>2, <2>4 DEF LatestOK, Latest
    <3>. QED
      BY <2>1, <2>4, <3>1, <3>2 DEF AnnouncedOK, JoinedOK, LeaveOK
  <2>. QED
    BY <1>5, <2>3, <2>4 DEF SubBegins, Leaves
<1>6. CASE SubEnds
  <2>1. /\ sub # NoSub /\ sub.join = {} /\ joined' = sub.wanted /\ sub' = NoSub
        /\ UNCHANGED <<hub, bound, groups, rejoin, feed, open, restored, lane, online, lapses>>
    BY <1>6 DEF SubEnds
  <2>. QED
    BY <2>1 DEF AnnouncedOK, LatestOK, JoinedOK, LeaveOK, Latest
<1>7. ASSUME NEW t \in Tabs, SubJoins(t) \/ SubLeaves(t)
      PROVE  AnnouncedOK' /\ LatestOK' /\ JoinedOK' /\ LeaveOK'
  <2>1. sub \in Subs /\ sub # NoSub
    BY <1>a, <1>7 DEF SubJoins, SubLeaves
  <2>2. /\ UNCHANGED <<hub, bound, rejoin, feed, joined, open, restored, lane, online>>
        /\ sub' \in Subs /\ sub'.wanted = sub.wanted /\ sub'.old = sub.old
        /\ sub'.leave \subseteq sub.leave
        /\ ("drop" \in lapses <=> "drop" \in lapses') /\ ("join" \in lapses => "join" \in lapses')
        /\ ("restore" \in lapses <=> "restore" \in lapses')
    BY <1>7, <2>1 DEF SubJoins, SubLeaves, Subs
  <2>3. sub' # NoSub
    BY <2>2, NoSubIsNone
  <2>4. AnnouncedOK' /\ LatestOK' /\ LeaveOK'
    BY <2>1, <2>2, <2>3 DEF AnnouncedOK, LatestOK, LeaveOK, Latest
  <2>5. CASE SubJoins(t)
    <3>1. /\ sub'.join = sub.join \ {t}
          /\ groups' = (IF Reaches THEN groups \cup {t} ELSE groups)
          /\ lapses' = (IF Reaches THEN lapses ELSE lapses \cup {"join"})
      BY <2>1, <2>5 DEF SubJoins, Subs
    <3>. QED
      BY <2>1, <2>2, <2>3, <2>4, <3>1 DEF JoinedOK
  <2>6. CASE SubLeaves(t)
    <3>1. /\ sub'.join = sub.join /\ t \notin sub.wanted /\ lapses' = lapses
          /\ groups' = groups \/ groups' = groups \ {t}
      BY <2>1, <2>6 DEF SubLeaves, Subs, LeaveOK
    <3>. QED
      BY <2>1, <2>2, <2>3, <2>4, <3>1 DEF JoinedOK
  <2>. QED
    BY <1>7, <2>5, <2>6
<1>. QED
  BY <1>2, <1>3, <1>4, <1>5, <1>6, <1>7 DEF KernelStep

LEMMA GroupInit == Init => GroupInv
<1>1. Init => AnnouncedOK /\ LatestOK /\ JoinedOK /\ LeaveOK
  BY DEF Init, AnnouncedOK, LatestOK, JoinedOK, LeaveOK
<1>. QED
  BY <1>1, TypeInit DEF GroupInv

LEMMA GroupNext == GroupInv /\ TypeOK' /\ [Next]_vars => GroupInv'
<1>1. GroupInv /\ UNCHANGED <<hubVars, laneVars, online, lapses>>
        => AnnouncedOK' /\ LatestOK' /\ JoinedOK' /\ LeaveOK'
  BY DEF GroupInv, hubVars, laneVars, AnnouncedOK, LatestOK, JoinedOK, LeaveOK, Latest
<1>2. StreamStep \/ UNCHANGED vars => UNCHANGED <<hubVars, laneVars, online, lapses>>
  BY DEF StreamStep, NextTurn, ChunkArrives, ChunkRepeats, vars
<1>. QED
  BY <1>1, <1>2, GroupHub, GroupKernel DEF Next, GroupInv

\* When the feed is at rest the live connection is in the group of every open
\* session, unless memberships were lost under the adapter, a join failed, or
\* the workspace was read too late: for any number of sessions and any length
\* of the queues.
THEOREM OpenStaysSubscribed == Spec => []OpenIsSubscribed
<1>1. GroupInv => OpenIsSubscribed
  BY DEF GroupInv, AnnouncedOK, LatestOK, JoinedOK, Latest, OpenIsSubscribed, Settled
<1>. QED
  BY <1>1, GroupInit, GroupNext, FeedTypeCorrect, PTL DEF Spec
=============================================================================
