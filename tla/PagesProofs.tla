---------------------------- MODULE PagesProofs -----------------------------
(***************************************************************************)
(* Theorems about the pages of the web interface and the API behind them:  *)
(* the live updates that their tabs follow, and the page of the rule       *)
(* groups.                                                                 *)
(***************************************************************************)
EXTENDS LiveUpdates, RulesPage, FiniteSetTheorems, WellFoundedInduction, TLAPS

-----------------------------------------------------------------------------
(***************************************************************************)
(* LiveUpdates, for any tabs, items and bounds: no two tabs that can hear  *)
(* each other stream at once, a tab that streams shows what is in the      *)
(* tables once nothing is on its way, and what an engine recorded is not   *)
(* forgotten.                                                              *)
(***************************************************************************)

(* The inductive invariant: types.                                         *)

Known == Nat \cup {Unread}
Versions == [Topics -> Known]
Flush == [pc : {"idle", "logs", "metrics"}, items : SUBSET Items, rest : SUBSET Items]
Budget == [records : Nat, stops : Nat, writes : Nat, faults : Nat, acts : Nat,
           ties : Nat, views : SUBSET SUBSET Topics]
Hub == [pending : SUBSET Topics, version : [Topics -> Nat], polled : BOOLEAN,
        seen : Versions, reading : Seq(Versions), baseline : Versions, run : Nat]
Client == [on : BOOLEAN, topics : SUBSET Topics, snapshot : BOOLEAN, blocked : BOOLEAN,
           missed : SUBSET Topics]
TopicEvent == [topic : Topics, version : Nat]
WireEvent == TopicEvent \cup {Ready}
Tab == [open : BOOLEAN, visible : BOOLEAN, wanted : SUBSET Topics, stream : BOOLEAN,
        leader : Tabs \cup {Nobody}, issued : Nat]
Shown == [pc : {"new", "asked", "answered", "idle"}, at : Known, live : Known, run : Nat,
          loaded : BOOLEAN, again : BOOLEAN, adopted : Known]
Message == [type : {"leader", "release"}, from : Tabs, issued : Nat]

EngineTyped ==
  /\ buffer \subseteq Items /\ flush \in Flush /\ copies \in [Items -> Nat]
  /\ written \in [Topics -> Nat] /\ posts \subseteq Topics
HubTyped == api \in Hub /\ client \in [Tabs -> Client] /\ wire \in [Tabs -> Seq(WireEvent)]
TabsTyped ==
  /\ tabs \in [Tabs -> Tab] /\ page \in [Tabs -> [Topics -> Shown]]
  /\ mail \in [Tabs -> Seq(Message)] /\ clock \in Nat
LeftTyped == left \in Budget
Typed == EngineTyped /\ HubTyped /\ TabsTyped /\ LeftTyped

-----------------------------------------------------------------------------
(* The inductive invariant: the telemetry.                                 *)

\* Only the metrics are left once the logs of a flush are written, and what is
\* not left has been written.
FlushInOrder ==
  /\ flush.pc = "idle" => flush = NoFlush
  /\ flush.pc = "logs" => flush.rest = flush.items \cap Metrics
  /\ flush.pc = "metrics" => \A i \in flush.items \ flush.rest : copies[i] > 0

-----------------------------------------------------------------------------
(* The inductive invariant: the election.                                  *)

\* A tab streams only while it leads, and the hub serves it what it wants.
Served ==
  \A t \in Tabs :
    /\ tabs[t].stream => Leads(t)
    /\ client[t].on => tabs[t].stream /\ client[t].topics = tabs[t].wanted

\* No lease is from the future, and no tab hears itself.
Leases ==
  \A t \in Tabs :
    /\ tabs[t].issued <= clock
    /\ \A i \in 1..Len(mail[t]) : mail[t][i].issued <= clock /\ mail[t][i].from # t

\* A claim on its way to the tab that will make it yield.
Unseated(t) ==
  \E i \in 1..Len(mail[t]) : mail[t][i].type = "leader" /\ mail[t][i].issued >= tabs[t].issued
\* Of two that take themselves for the leader one is about to yield.
Contested ==
  \A t, u \in Tabs :
    t # u /\ tabs[t].open /\ tabs[u].open /\ IsLeader(t) /\ IsLeader(u)
      => Unseated(t) \/ Unseated(u)

-----------------------------------------------------------------------------
(* The inductive invariant: the versions of the archive.                   *)

Current(t) == page[t]["archive"].run = api.run /\ page[t]["archive"].live = api.version["archive"]

\* The polls have read the past.
Polls ==
  \A topic \in Topics :
    /\ api.seen[topic] <= written[topic]
    /\ \A i \in 1..Len(api.reading) : api.reading[i][topic] <= written[topic]

\* A page knows of runs and versions that there have been.
Heard(t) ==
  /\ page[t]["archive"].run <= api.run
  /\ page[t]["archive"].run = api.run => page[t]["archive"].live <= api.version["archive"]

\* The versions of a stream grow, from the one that its page heard last to the
\* one that counts now.
Growing(t) ==
  \A i \in 1..Len(wire[t]) : wire[t][i].topic = "archive" =>
    /\ wire[t][i].version <= api.version["archive"]
    /\ page[t]["archive"].run = api.run => page[t]["archive"].live <= wire[t][i].version
    /\ \A j \in 1..Len(wire[t]) :
         i < j /\ wire[t][j].topic = "archive" => wire[t][i].version <= wire[t][j].version

\* Until the first poll of the API every stream waits for its snapshot.
Waits(t) == client[t].on /\ ~api.polled => client[t].snapshot

\* A page that rests has loaded, and loads what it was asked to load again.
Rested(t) == \A topic \in Topics :
  page[t][topic].pc = "idle" => page[t][topic].loaded /\ ~page[t][topic].again

Streams(t, topic) ==
  tabs[t].stream /\ client[t].on /\ topic \in client[t].topics \ client[t].missed

\* A change the hub still has to announce.
News == \/ "archive" \in api.pending \/ ~api.polled
        \/ api.seen["archive"] # written["archive"]

\* The page that streams knows the version that counts, or is about to hear it.
Told(t) == Streams(t, "archive") =>
  \/ client[t].snapshot \/ Current(t)
  \/ \E i \in 1..Len(wire[t]) :
       wire[t][i].topic = "archive" /\ wire[t][i].version = api.version["archive"]

\* A page that knows the version that counts has what it shows from after the
\* change, but for the two changes that were taken for what it showed.
UpToDate(t) == LET p == page[t]["archive"] IN
  Current(t) /\ p.pc \in {"answered", "idle"} /\ ~p.again =>
    \/ p.at = written["archive"] \/ News
    \/ written["archive"] \in {api.baseline["archive"], p.adopted}

\* The log page loads again at every event: it has what the table holds, loads
\* it, or will be told.
LogsFollowed(t) == Streams(t, "logs") =>
  \/ page[t]["logs"].pc \in {"new", "asked"} \/ page[t]["logs"].at = written["logs"]
  \/ client[t].snapshot \/ "logs" \in api.pending
  \/ api.polled /\ api.seen["logs"] # written["logs"]
  \/ \E i \in 1..Len(wire[t]) : wire[t][i].topic \in {"logs", "ready"}

Follows(t) ==
  Heard(t) /\ Growing(t) /\ Waits(t) /\ Rested(t) /\ Told(t) /\ UpToDate(t) /\ LogsFollowed(t)

Elected == Served /\ Leases /\ Contested
Fresh == Polls /\ \A t \in Tabs : Follows(t)
LiveInv == Typed /\ FlushInOrder /\ Elected /\ Fresh

-----------------------------------------------------------------------------
(* What a stream is given.                                                 *)

\* A finite set becomes a sequence of its members that leaves none out.
LEMMA ListsAll ==
  ASSUME NEW S, IsFiniteSet(S)
  PROVE  /\ SetToSeq(S) \in Seq(S)
         /\ \A x \in S : \E i \in 1..Len(SetToSeq(S)) : SetToSeq(S)[i] = x
<1> DEFINE n == Cardinality(S)
           s == SetToSeq(S)
<1>1. n \in Nat /\ ExistsBijection(1..n, S)
  BY FS_CardinalityType
<1>2. PICK f : f \in Bijection(1..n, S)
  BY <1>1 DEF ExistsBijection
<1>3. f \in [1..n -> S] /\ IsInjective(f)
  BY <1>2 DEF Bijection, Injection, IsInjective
<1>4. s \in [1..n -> S] /\ IsInjective(s)
  BY <1>3 DEF SetToSeq
<1>5. s \in Injection(1..n, S)
  BY <1>4 DEF Injection, IsInjective
<1>6. Cardinality(1..n) = n
  BY <1>1, FS_Interval
<1>7. s \in Surjection(1..n, S)
  BY <1>5, <1>6, FS_Injection
<1>8. Len(s) = n /\ s \in Seq(S)
  BY <1>1, <1>4
<1>9. \A x \in S : \E i \in 1..n : s[i] = x
  BY <1>7 DEF Surjection
<1> QED
  BY <1>8, <1>9

\* The events written to a stream come after the ones it holds, and are one for
\* each of the topics the client asked for, with the version that counts.
LEMMA WrittenEvents ==
  ASSUME NEW t \in Tabs, NEW topics \in SUBSET Topics, HubTyped, api' \in Hub
  PROVE  LET w == Written(t, topics) IN
         /\ w \in Seq(WireEvent) /\ Len(w) >= Len(wire[t])
         /\ \A i \in 1..Len(wire[t]) : w[i] = wire[t][i]
         /\ \A i \in 1..Len(w) : i > Len(wire[t]) =>
              /\ w[i].topic \in topics \cap client[t].topics
              /\ w[i].version = api'.version[w[i].topic]
         /\ \A topic \in topics \cap client[t].topics : \E i \in 1..Len(w) :
              w[i].topic = topic /\ w[i].version = api'.version[topic]
<1> DEFINE T == topics \cap client[t].topics
           E == {Event(topic) : topic \in T}
           new == SetToSeq(E)
           w == wire[t] \o new
<1> DEFINE both == ({} \cup {Event("archive")}) \cup {Event("logs")}
<1>1. IsFiniteSet({} \cup {Event("archive")})
  BY FS_EmptySet, FS_AddElement
<1>2. IsFiniteSet(both)
  BY <1>1, FS_AddElement
<1>3. IsFiniteSet(E)
  <2>1. E \subseteq both
    BY DEF Topics
  <2> QED
    BY <1>2, <2>1, FS_Subset
<1>4. new \in Seq(E) /\ \A e \in E : \E i \in 1..Len(new) : new[i] = e
  BY <1>3, ListsAll
<1>5. \A e \in E : e.topic \in T /\ e.version = api'.version[e.topic] /\ e \in TopicEvent
  BY DEF Event, Hub, TopicEvent
<1>6. new \in Seq(TopicEvent)
  <2>1. E \subseteq TopicEvent
    BY <1>5
  <2> QED
    BY <1>4, <2>1
<1>7. wire[t] \in Seq(WireEvent)
  BY DEF HubTyped
<1>8. w \in Seq(WireEvent) /\ Len(w) = Len(wire[t]) + Len(new) /\ Len(new) \in Nat /\ Len(wire[t]) \in Nat
  BY <1>6, <1>7 DEF WireEvent
<1>9. \A i \in 1..Len(w) : w[i] = IF i <= Len(wire[t]) THEN wire[t][i] ELSE new[i - Len(wire[t])]
  BY <1>6, <1>7
<1>10. \A i \in 1..Len(w) : i > Len(wire[t]) => w[i] \in E
  <2> SUFFICES ASSUME NEW i \in 1..Len(w), i > Len(wire[t]) PROVE w[i] \in E
    OBVIOUS
  <2> HIDE DEF w, new, E
  <2>1. i - Len(wire[t]) \in 1..Len(new)
    BY <1>8
  <2>2. new[i - Len(wire[t])] \in E
    BY <1>4, <2>1
  <2>3. w[i] = new[i - Len(wire[t])]
    BY <1>8, <1>9
  <2> QED
    BY <2>2, <2>3
<1>11. \A topic \in T : \E i \in 1..Len(w) : w[i] = Event(topic)
  <2> SUFFICES ASSUME NEW topic \in T PROVE \E i \in 1..Len(w) : w[i] = Event(topic)
    OBVIOUS
  <2>1. PICK k \in 1..Len(new) : new[k] = Event(topic)
    BY <1>4
  <2>2. k + Len(wire[t]) \in 1..Len(w) /\ w[k + Len(wire[t])] = new[k]
    BY <1>8, <1>9
  <2> QED
    BY <2>1, <2>2
<1>12. \A topic : Event(topic).topic = topic /\ Event(topic).version = api'.version[topic]
  BY DEF Event
<1>13. w = Written(t, topics)
  BY DEF Written
<1> HIDE DEF w, new
<1>14. w \in Seq(WireEvent) /\ Len(w) >= Len(wire[t])
  BY <1>8
<1>15. \A i \in 1..Len(wire[t]) : w[i] = wire[t][i]
  BY <1>8, <1>9
<1>16. \A i \in 1..Len(w) : i > Len(wire[t]) =>
         w[i].topic \in T /\ w[i].version = api'.version[w[i].topic]
  BY <1>5, <1>10
<1>17. \A topic \in T : \E i \in 1..Len(w) :
         w[i].topic = topic /\ w[i].version = api'.version[topic]
  BY <1>11, <1>12
<1> QED
  BY <1>13, <1>14, <1>15, <1>16, <1>17

-----------------------------------------------------------------------------
(* Type correctness.                                                       *)

Counted == {"records", "stops", "writes", "faults", "acts", "ties"}

LEMMA SpendTyped ==
  ASSUME LeftTyped, NEW event \in Counted, Spend(event) PROVE LeftTyped'
BY DEF Counted, LeftTyped, Budget, Spend

LEMMA FlushesTyped ==
  ASSUME EngineTyped, NEW held \in SUBSET Items, Flushes(held)
  PROVE  buffer' \subseteq Items /\ flush' \in Flush
BY DEF EngineTyped, Flushes, Flush, Items

LEMMA EngineTypes ==
  ASSUME Typed, EngineNext PROVE EngineTyped' /\ LeftTyped'
<1> USE DEF Typed
<1>1. ASSUME NEW i \in Items, Record(i) PROVE EngineTyped' /\ LeftTyped'
  <2>1. buffer' \subseteq Items /\ flush' \in Flush
    BY <1>1, FlushesTyped DEF Record, EngineTyped
  <2> QED
    BY <1>1, <2>1, SpendTyped DEF Counted, Record, EngineTyped
<1>2. ASSUME NEW i \in Items, WriteMetric(i) PROVE EngineTyped' /\ LeftTyped'
  BY <1>2 DEF WriteMetric, EngineTyped, Flush, NoFlush, LeftTyped
<1>3. CASE TimerFires
  <2>1. buffer' \subseteq Items /\ flush' \in Flush
    BY <1>3, FlushesTyped DEF TimerFires, EngineTyped
  <2> QED
    BY <1>3, <2>1 DEF TimerFires, EngineTyped, LeftTyped
<1>4. CASE WriteLogs
  BY <1>4 DEF WriteLogs, EngineTyped, Flush, NoFlush, LeftTyped, Topics
<1>5. CASE FlushFails
  BY <1>5, SpendTyped DEF Counted, FlushFails, PutBack, Restored, EngineTyped, Flush, NoFlush
<1>6. ASSUME NEW topic \in Topics, Changes(topic) PROVE EngineTyped' /\ LeftTyped'
  BY <1>6, SpendTyped DEF Counted, Changes, EngineTyped
<1>7. CASE StopEngine
  <2>1. buffer' \subseteq Items /\ flush' \in Flush
    BY <1>7, FlushesTyped DEF StopEngine, EngineTyped
  <2> QED
    BY <1>7, <2>1, SpendTyped DEF Counted, StopEngine, EngineTyped
<1>8. CASE EngineExits
  BY <1>8 DEF EngineExits, Gone, EngineTyped, Flush, NoFlush, LeftTyped
<1>9. CASE EngineDies
  BY <1>9, SpendTyped DEF Counted, EngineDies, Gone, EngineTyped, Flush, NoFlush
<1>10. CASE EngineStarts
  BY <1>10 DEF EngineStarts, EngineTyped, LeftTyped
<1> QED
  BY <1>1, <1>2, <1>3, <1>4, <1>5, <1>6, <1>7, <1>8, <1>9, <1>10 DEF EngineNext

LEMMA HubTypes ==
  ASSUME Typed, HubNext PROVE EngineTyped' /\ HubTyped' /\ LeftTyped'
<1> USE DEF Typed
<1>1. ASSUME NEW delivered \in SUBSET posts, PostEvents(delivered)
      PROVE  EngineTyped' /\ HubTyped' /\ LeftTyped'
  <2>1. api' \in Hub
    BY <1>1 DEF PostEvents, EngineTyped, HubTyped, Hub
  <2> QED
    BY <1>1, <2>1, SpendTyped DEF Counted, PostEvents, EngineTyped, HubTyped, LeftTyped
<1>2. ASSUME NEW slow \in SUBSET Tabs, Broadcast(slow)
      PROVE  EngineTyped' /\ HubTyped' /\ LeftTyped'
  <2> USE DEF HubTyped
  <2>1. api' \in Hub
    <3> DEFINE next == [topic \in Topics |->
                          api.version[topic] + (IF topic \in api.pending THEN 1 ELSE 0)]
    <3>1. next \in [Topics -> Nat]
      BY DEF Hub
    <3>2. api' = [api EXCEPT !.pending = {}, !.version = next]
      BY <1>2 DEF Broadcast
    <3> QED
      BY <3>1, <3>2 DEF Hub
  <2>2. client' \in [Tabs -> Client]
    BY <1>2 DEF Broadcast, Client, NoClient, Hub
  <2>3. wire' \in [Tabs -> Seq(WireEvent)]
    <3>1. api.pending \in SUBSET Topics
      BY DEF Hub
    <3>2. \A t \in Tabs : Written(t, api.pending) \in Seq(WireEvent)
      BY <2>1, <3>1, WrittenEvents
    <3>3. wire' = [t \in Tabs |-> wire'[t]] /\ \A t \in Tabs :
            wire'[t] \in {<<>>, wire[t], Written(t, api.pending)}
      BY <1>2, Zenon DEF Broadcast
    <3>4. \A t \in Tabs : wire'[t] \in Seq(WireEvent)
      <4> HIDE DEF HubTyped
      <4> SUFFICES ASSUME NEW t \in Tabs PROVE wire'[t] \in Seq(WireEvent)
        OBVIOUS
      <4>1. wire[t] \in Seq(WireEvent) /\ <<>> \in Seq(WireEvent)
        BY DEF HubTyped
      <4> QED
        BY <3>2, <3>3, <4>1, Zenon
    <3> QED
      BY <3>3, <3>4, Zenon
  <2>4. EngineTyped' /\ LeftTyped'
    BY <1>2, SpendTyped DEF Counted, Broadcast, telemetryVars, EngineTyped, LeftTyped
  <2> QED
    BY <2>1, <2>2, <2>3, <2>4
<1>3. CASE PollReads
  <2>1. api' \in Hub
    <3> DEFINE read == [topic \in Topics |-> IF topic \in Watched THEN written[topic] ELSE Unread]
    <3>1. read \in Versions
      BY DEF Versions, Known, EngineTyped
    <3>2. <<read>> \in Seq(Versions)
      BY <3>1
    <3> QED
      BY <1>3, <3>2 DEF PollReads, HubTyped, Hub
  <2> QED
    BY <1>3, <2>1 DEF PollReads, telemetryVars, EngineTyped, HubTyped, LeftTyped
<1>4. CASE PollEmits
  <2> USE DEF HubTyped
  <2>1. api.reading[1] \in Versions
    BY <1>4 DEF PollEmits, Hub
  <2>2. api' \in Hub
    <3> DEFINE read == api.reading[1]
               new == IF api.polled THEN Differs(read) ELSE {}
               seen == IF api.polled THEN [topic \in Topics |->
                                             IF topic \in new THEN read[topic] ELSE api.seen[topic]]
                       ELSE read
    <3>1. seen \in Versions /\ new \subseteq Topics
      BY <2>1 DEF Hub, Versions, Differs
    <3>2. <<>> \in Seq(Versions)
      OBVIOUS
    <3>3. api' = [api EXCEPT !.reading = <<>>, !.polled = TRUE, !.seen = seen,
                    !.baseline = IF api.polled THEN api.baseline ELSE read,
                    !.pending = api.pending \cup new]
      BY <1>4 DEF PollEmits
    <3> HIDE DEF seen, new
    <3> QED
      BY <2>1, <3>1, <3>2, <3>3 DEF Hub
  <2>3. client' \in [Tabs -> Client]
    BY <1>4 DEF PollEmits, Client
  <2>4. wire' \in [Tabs -> Seq(WireEvent)]
    <3>1. \A t \in Tabs : Written(t, Topics) \in Seq(WireEvent)
      BY <2>2, WrittenEvents
    <3> QED
      BY <1>4, <3>1 DEF PollEmits
  <2> QED
    BY <1>4, <2>2, <2>3, <2>4 DEF PollEmits, telemetryVars, EngineTyped, LeftTyped
<1>5. CASE ApiRestarts
  <2>1. api' \in Hub
    <3>1. Unpolled \in Versions /\ <<>> \in Seq(Versions)
      BY DEF Unpolled, Unread, Versions, Known
    <3>2. NewApi \in Hub
      BY <3>1 DEF NewApi, Hub
    <3> QED
      <4>1. api' = [NewApi EXCEPT !.run = api.run + 1]
        BY <1>5 DEF ApiRestarts
      <4>2. api.run + 1 \in Nat
        BY DEF Hub, HubTyped
      <4> QED
        BY <3>2, <4>1, <4>2 DEF Hub
  <2>2. client' \in [Tabs -> Client] /\ wire' \in [Tabs -> Seq(WireEvent)]
    BY <1>5 DEF ApiRestarts, NoClient, Client
  <2> QED
    BY <1>5, <2>1, <2>2, SpendTyped DEF Counted, ApiRestarts, telemetryVars, EngineTyped, HubTyped
<1> QED
  BY <1>1, <1>2, <1>3, <1>4, <1>5 DEF HubNext

LEMMA StreamOpens ==
  ASSUME HubTyped, NEW t \in Tabs, NEW topics \in SUBSET Topics, StreamTo(t, topics)
  PROVE  /\ HubTyped' /\ api' = api
         /\ \A u \in Tabs \ {t} : client'[u] = client[u] /\ wire'[u] = wire[u]
         /\ client'[t] = IF topics = {} THEN NoClient ELSE Opened(topics)
         /\ wire'[t] = IF topics = {} THEN <<>> ELSE <<Ready>>
<1>1. NoClient \in Client /\ Opened(topics) \in Client
  BY DEF NoClient, Opened, Client
<1>2. <<>> \in Seq(WireEvent) /\ <<Ready>> \in Seq(WireEvent)
  BY DEF WireEvent
<1>3. client' = [client EXCEPT ![t] = IF topics = {} THEN NoClient ELSE Opened(topics)]
      /\ wire' = [wire EXCEPT ![t] = IF topics = {} THEN <<>> ELSE <<Ready>>] /\ api' = api
  BY DEF StreamTo
<1> QED
  BY <1>1, <1>2, <1>3 DEF HubTyped

LEMMA SentTyped ==
  ASSUME TabsTyped, clock' \in Nat, NEW t \in Tabs, NEW type \in {"leader", "release"}
  PROVE  Sent(t, type) \in [Tabs -> Seq(Message)]
<1>1. [type |-> type, from |-> t, issued |-> clock'] \in Message
  BY DEF Message
<1>2. \A u \in Tabs : Append(mail[u], [type |-> type, from |-> t, issued |-> clock']) \in Seq(Message)
  BY <1>1 DEF TabsTyped
<1> QED
  BY <1>2 DEF Sent, TabsTyped

\* What a claim does to the tabs and to their mail.
LEMMA ClaimsGive ==
  ASSUME TabsTyped, HubTyped, NEW t \in Tabs, NEW now \in Tab, NEW tick \in {0, 1},
         Claims(t, now, tick)
  PROVE  /\ clock' \in Nat /\ clock' >= clock
         /\ tabs' \in [Tabs -> Tab] /\ mail' \in [Tabs -> Seq(Message)] /\ HubTyped'
<1>1. clock' \in Nat /\ clock' >= clock
  BY DEF Claims, TabsTyped
<1>2. tabs' \in [Tabs -> Tab]
  BY <1>1 DEF Claims, TabsTyped, Tab
<1>3. mail' = Sent(t, "leader")
  BY DEF Claims
<1>4. mail' \in [Tabs -> Seq(Message)]
  BY <1>1, <1>3, SentTyped
<1>5. HubTyped'
  <2>1. now.wanted \in SUBSET Topics /\ StreamTo(t, now.wanted)
    BY DEF Claims, Tab
  <2> QED
    BY <2>1, StreamOpens
<1> QED
  BY <1>1, <1>2, <1>4, <1>5

LEMMA HearsTyped ==
  ASSUME Typed, NEW p \in Shown, NEW topic \in Topics, NEW version \in Known
  PROVE  Hears(p, topic, version) \in Shown
<1>1. api.run \in Nat /\ written["archive"] \in Known
  BY DEF Typed, HubTyped, EngineTyped, Hub, Known, Topics
<1>2. Load(p) \in Shown
  BY DEF Load, Shown
<1>3. HearsArchive(p, version) \in Shown
  BY <1>1 DEF HearsArchive, AfterLoading, Deferred, Load, Shown
<1> QED
  BY <1>2, <1>3 DEF Hears

LEMMA ReplayedTyped ==
  ASSUME Typed, NEW t \in Tabs, NEW wanted
  PROVE  Replayed(t, wanted) \in [Topics -> Shown]
<1>1. \A topic \in Topics : page[t][topic] \in Shown /\ Unread \in Known
  BY DEF Typed, TabsTyped, Known
<1>2. \A topic \in Topics : Hears(page[t][topic], topic, Unread) \in Shown
  BY <1>1, HearsTyped
<1> QED
  BY <1>1, <1>2 DEF Replayed

LEMMA NewPageTyped == [topic \in Topics |-> NewPage] \in [Topics -> Shown]
BY DEF NewPage, Shown, Known, Unread

LEMMA ActsTyped ==
  ASSUME LeftTyped, NEW tick \in {0, 1}, Acts(tick) PROVE LeftTyped'
BY DEF LeftTyped, Budget, Acts

LEMMA FrameTyped ==
  ASSUME EngineTyped, UNCHANGED telemetryVars PROVE EngineTyped'
BY DEF EngineTyped, telemetryVars

LEMMA HubFrame ==
  ASSUME HubTyped, UNCHANGED hubVars PROVE HubTyped'
BY DEF HubTyped, hubVars

LEMMA PageTypes ==
  ASSUME Typed, NEW t \in Tabs, NEW topic \in Topics,
         Begins(t, topic) \/ Answered(t, topic) \/ Shows(t, topic)
  PROVE  Typed'
<1>1. page' \in [Tabs -> [Topics -> Shown]]
  <2>1. page[t] \in [Topics -> Shown] /\ page[t][topic] \in Shown /\ written[topic] \in Known
    BY DEF Typed, TabsTyped, EngineTyped, Known
  <2>2. page'[t] \in [Topics -> Shown] /\ page' = [page EXCEPT ![t] = page'[t]]
    <3>1. CASE Begins(t, topic)
      BY <2>1, <3>1 DEF Begins, Load, Shown, Typed, TabsTyped
    <3>2. CASE Answered(t, topic)
      BY <2>1, <3>2 DEF Answered, Shown, Typed, TabsTyped
    <3>3. CASE Shows(t, topic)
      BY <2>1, <3>3 DEF Shows, Load, Shown, Typed, TabsTyped
    <3> QED
      BY <3>1, <3>2, <3>3
  <2> QED
    BY <2>2 DEF Typed, TabsTyped
<1>2. UNCHANGED <<tabs, mail, clock, hubVars, left, telemetryVars>>
  BY DEF Begins, Answered, Shows
<1> QED
  BY <1>1, <1>2, FrameTyped, HubFrame DEF Typed, TabsTyped, LeftTyped

LEMMA ClaimTypes ==
  ASSUME Typed, NEW t \in Tabs, NEW tick \in {0, 1},
         \/ \E wanted \in left.views : OpenTab(t, wanted, tick)
         \/ Focus(t, tick)
         \/ EnsureLeader(t, tick)
  PROVE  Typed'
<1> USE DEF Typed
<1>1. ASSUME NEW wanted \in left.views, OpenTab(t, wanted, tick) PROVE Typed'
  <2> DEFINE now == [Closed EXCEPT !.open = TRUE, !.visible = TRUE, !.wanted = wanted]
  <2>1. now \in Tab
    BY DEF LeftTyped, Budget, Closed, Tab
  <2>2. page' \in [Tabs -> [Topics -> Shown]]
    BY <1>1, NewPageTyped DEF OpenTab, TabsTyped
  <2>3. clock' \in Nat /\ tabs' \in [Tabs -> Tab] /\ mail' \in [Tabs -> Seq(Message)] /\ HubTyped'
    BY <1>1, <2>1, ClaimsGive DEF OpenTab
  <2> QED
    BY <1>1, <2>2, <2>3, FrameTyped, ActsTyped DEF OpenTab, TabsTyped
<1>2. CASE Focus(t, tick)
  <2>1. page' \in [Tabs -> [Topics -> Shown]]
    BY <1>2, ReplayedTyped DEF Focus, TabsTyped
  <2>2. clock' \in Nat /\ tabs' \in [Tabs -> Tab] /\ mail' \in [Tabs -> Seq(Message)] /\ HubTyped'
    BY <1>2, ClaimsGive DEF Focus, TabsTyped
  <2> QED
    BY <1>2, <2>1, <2>2, FrameTyped, ActsTyped DEF Focus, TabsTyped
<1>3. CASE EnsureLeader(t, tick)
  <2>1. page' \in [Tabs -> [Topics -> Shown]]
    BY <1>3, ReplayedTyped DEF EnsureLeader, TabsTyped
  <2>2. clock' \in Nat /\ tabs' \in [Tabs -> Tab] /\ mail' \in [Tabs -> Seq(Message)] /\ HubTyped'
    BY <1>3, ClaimsGive DEF EnsureLeader, TabsTyped
  <2>3. LeftTyped'
    BY <1>3, SpendTyped DEF EnsureLeader, Counted, LeftTyped
  <2> QED
    BY <1>3, <2>1, <2>2, <2>3, FrameTyped DEF EnsureLeader, TabsTyped
<1> QED
  BY <1>1, <1>2, <1>3

LEMMA MailTyped ==
  ASSUME TabsTyped, NEW t \in Tabs, mail[t] # <<>>
  PROVE  Head(mail[t]) \in Message /\ Tail(mail[t]) \in Seq(Message)
BY DEF TabsTyped

LEMMA LeaveTypes ==
  ASSUME Typed, NEW t \in Tabs, NEW now \in Tab, NEW tells \in BOOLEAN, Leaves(t, now, tells)
  PROVE  Typed'
<1> USE DEF Typed
<1>1. HubTyped'
  BY StreamOpens DEF Leaves
<1>2. clock' \in Nat /\ tabs' \in [Tabs -> Tab]
  BY DEF Leaves, TabsTyped
<1>3. Sent(t, "release") \in [Tabs -> Seq(Message)]
  BY <1>2, SentTyped
<1>4. mail' \in [Tabs -> Seq(Message)]
  BY <1>3 DEF Leaves, TabsTyped
<1>5. page' \in [Tabs -> [Topics -> Shown]]
  BY NewPageTyped DEF Leaves, TabsTyped
<1>6. LeftTyped' /\ EngineTyped'
  BY ActsTyped, FrameTyped DEF Leaves
<1> QED
  BY <1>1, <1>2, <1>4, <1>5, <1>6 DEF TabsTyped

LEMMA TabTypes ==
  ASSUME Typed, NEW t \in Tabs,
         \/ \E wanted \in left.views : Navigate(t, wanted)
         \/ \E tells \in BOOLEAN : CloseTab(t, tells)
         \/ Hide(t) \/ Show(t) \/ Heartbeat(t) \/ Receive(t) \/ Arrives(t) \/ Reconnects(t)
  PROVE  Typed'
<1> USE DEF Typed
<1>1. ASSUME NEW wanted \in left.views, Navigate(t, wanted) PROVE Typed'
  <2>1. wanted \in SUBSET Topics
    BY DEF LeftTyped, Budget
  <2>2. HubTyped'
    BY <1>1, <2>1, StreamOpens, HubFrame DEF Navigate
  <2>3. tabs' \in [Tabs -> Tab]
    <3> DEFINE streams == Leads(t) /\ wanted # {}
    <3>1. [tabs[t] EXCEPT !.wanted = wanted, !.stream = streams] \in Tab
      <4>1. streams \in BOOLEAN
        OBVIOUS
      <4> HIDE DEF streams
      <4> QED
        BY <2>1, <4>1 DEF TabsTyped, Tab
    <3>2. tabs' = [tabs EXCEPT ![t] = [tabs[t] EXCEPT !.wanted = wanted, !.stream = streams]]
      BY <1>1 DEF Navigate, TabsTyped
    <3> QED
      BY <3>1, <3>2 DEF TabsTyped
  <2>4. page' \in [Tabs -> [Topics -> Shown]]
    <3>1. [topic \in Topics |-> IF topic \in wanted \cap tabs[t].wanted THEN page[t][topic] ELSE NewPage]
            \in [Topics -> Shown]
      BY NewPageTyped DEF TabsTyped
    <3> QED
      BY <1>1, <3>1 DEF Navigate, TabsTyped
  <2> QED
    BY <1>1, <2>2, <2>3, <2>4, ActsTyped, FrameTyped DEF Navigate, TabsTyped
<1>2. ASSUME NEW tells \in BOOLEAN, CloseTab(t, tells) PROVE Typed'
  <2>1. Closed \in Tab
    BY DEF Closed, Tab
  <2> QED
    BY <1>2, <2>1, LeaveTypes DEF CloseTab
<1>3. CASE Hide(t)
  <2>1. [tabs[t] EXCEPT !.visible = FALSE, !.stream = FALSE,
                        !.leader = IF @ = t THEN Nobody ELSE @] \in Tab
    BY DEF TabsTyped, Tab
  <2> QED
    BY <1>3, <2>1, LeaveTypes DEF Hide
<1>4. CASE Show(t)
  <2>1. tabs' \in [Tabs -> Tab]
    BY <1>4 DEF Show, TabsTyped, Tab
  <2> QED
    BY <1>4, <2>1, ActsTyped, FrameTyped, HubFrame DEF Show, TabsTyped
<1>5. CASE Heartbeat(t)
  <2>1. [type |-> "leader", from |-> t, issued |-> tabs[t].issued] \in Message
    BY DEF TabsTyped, Tab, Message
  <2>2. mail' \in [Tabs -> Seq(Message)]
    BY <1>5, <2>1 DEF Heartbeat, TabsTyped
  <2> QED
    BY <1>5, <2>2, FrameTyped, HubFrame DEF Heartbeat, TabsTyped, LeftTyped
<1>6. CASE Receive(t)
  <2>1. Head(mail[t]) \in Message /\ Tail(mail[t]) \in Seq(Message)
    BY <1>6, MailTyped DEF Receive
  <2>2. tabs' \in [Tabs -> Tab] /\ mail' \in [Tabs -> Seq(Message)]
    <3> DEFINE m == Head(mail[t])
    <3>1. m.from \in Tabs /\ m.issued \in Nat
      BY <2>1 DEF Message
    <3>2. [tabs[t] EXCEPT !.leader = m.from, !.issued = m.issued, !.stream = FALSE] \in Tab
          /\ [tabs[t] EXCEPT !.leader = Nobody] \in Tab /\ tabs[t] \in Tab
      BY <3>1 DEF TabsTyped, Tab
    <3>3. tabs' \in [Tabs -> Tab]
      BY <1>6, <3>2 DEF Receive, TabsTyped
    <3>4. mail' \in [Tabs -> Seq(Message)]
      BY <1>6, <2>1 DEF Receive, TabsTyped
    <3> QED
      BY <3>3, <3>4
  <2>3. HubTyped'
    BY <1>6, StreamOpens, HubFrame DEF Receive
  <2> QED
    BY <1>6, <2>2, <2>3, FrameTyped DEF Receive, TabsTyped, LeftTyped
<1>7. CASE Arrives(t)
  <2> DEFINE e == Head(wire[t])
  <2>1. e \in WireEvent /\ Tail(wire[t]) \in Seq(WireEvent)
    BY <1>7 DEF Arrives, HubTyped
  <2>2. HubTyped'
    BY <1>7, <2>1 DEF Arrives, HubTyped
  <2>3. e.topic = "ready" \/ e \in TopicEvent
    BY <2>1 DEF WireEvent, Ready
  <2>4. CASE e \in TopicEvent
    <3>1. e.topic \in Topics /\ e.version \in Known /\ page[t][e.topic] \in Shown
      BY <2>4 DEF TopicEvent, Known, TabsTyped
    <3> DEFINE heard == Hears(page[t][e.topic], e.topic, e.version)
    <3>2. heard \in Shown /\ e.topic # "ready"
      BY <3>1, HearsTyped DEF Topics
    <3>3. page' \in {page, [page EXCEPT ![t] = [page[t] EXCEPT ![e.topic] = heard]]}
      BY <1>7, <3>2 DEF Arrives, TabsTyped
    <3> HIDE DEF heard, e
    <3>4. page' \in [Tabs -> [Topics -> Shown]]
      <4>1. page[t] \in [Topics -> Shown]
        BY DEF TabsTyped
      <4>2. [page[t] EXCEPT ![e.topic] = heard] \in [Topics -> Shown]
        BY <3>2, <4>1
      <4> QED
        BY <3>3, <4>2 DEF TabsTyped
    <3> QED
      BY <1>7, <2>2, <3>4, FrameTyped DEF Arrives, TabsTyped, LeftTyped
  <2>5. CASE e.topic = "ready"
    <3>1. page' \in [Tabs -> [Topics -> Shown]]
      BY <1>7, <2>5, ReplayedTyped DEF Arrives, TabsTyped
    <3> QED
      BY <1>7, <2>2, <3>1, FrameTyped DEF Arrives, TabsTyped, LeftTyped
  <2> QED
    BY <2>3, <2>4, <2>5
<1>8. CASE Reconnects(t)
  <2>1. HubTyped'
    BY <1>8, StreamOpens DEF Reconnects, TabsTyped, Tab
  <2> QED
    BY <1>8, <2>1, FrameTyped DEF Reconnects, browserVars, TabsTyped, LeftTyped
<1> QED
  BY <1>1, <1>2, <1>3, <1>4, <1>5, <1>6, <1>7, <1>8

LEMMA TypesKept == ASSUME Typed, [Next]_vars PROVE Typed'
<1>1. CASE EngineNext /\ UNCHANGED <<hubVars, browserVars>>
  BY <1>1, EngineTypes, HubFrame DEF Typed, TabsTyped, browserVars
<1>2. CASE HubNext /\ UNCHANGED browserVars
  BY <1>2, HubTypes DEF Typed, TabsTyped, browserVars
<1>3. CASE BrowserNext
  BY <1>3, PageTypes, ClaimTypes, TabTypes DEF BrowserNext
<1>4. CASE UNCHANGED vars
  BY <1>4, FrameTyped, HubFrame DEF vars, Typed, TabsTyped, browserVars, LeftTyped
<1> QED
  BY <1>1, <1>2, <1>3, <1>4 DEF Next

-----------------------------------------------------------------------------
(* Nothing that was recorded is forgotten.                                 *)

\* A flush begins with what is held, or leaves all of it in the buffer.
LEMMA FlushesHold ==
  ASSUME EngineTyped, FlushInOrder, NEW held \in SUBSET Items, buffer \subseteq held, Flushes(held)
  PROVE  /\ Held \subseteq buffer' \cup flush'.items
         /\ flush'.pc = "idle" => flush' = NoFlush
         /\ flush'.pc = "logs" => flush'.rest = flush'.items \cap Metrics
         /\ flush'.pc = "metrics" => flush'.rest = flush'.items \/ flush' = flush
<1>1. CASE flush # NoFlush \/ held = {}
  BY <1>1 DEF Flushes, Held, FlushInOrder
<1>2. CASE ~(flush # NoFlush \/ held = {})
  <2>1. Held = buffer
    BY <1>2 DEF Held, NoFlush
  <2>2. flush' = [pc |-> IF held \cap Logs # {} THEN "logs" ELSE "metrics",
                  items |-> held, rest |-> held \cap Metrics]
    BY <1>2 DEF Flushes
  <2>3. held \cap Logs = {} => held \cap Metrics = held
    BY DEF Items
  <2> QED
    BY <2>1, <2>2, <2>3
<1> QED
  BY <1>1, <1>2

LEMMA FlushStep ==
  ASSUME Typed, FlushInOrder, EngineNext PROVE FlushInOrder'
<1> USE DEF Typed
<1>1. ASSUME NEW held \in SUBSET Items, buffer \subseteq held, Flushes(held), copies' = copies
      PROVE  FlushInOrder'
  BY <1>1, FlushesHold DEF FlushInOrder
<1>2. ASSUME UNCHANGED <<flush, copies>> PROVE FlushInOrder'
  BY <1>2 DEF FlushInOrder
<1>3. ASSUME flush' = NoFlush PROVE FlushInOrder'
  BY <1>3 DEF FlushInOrder, NoFlush
<1>4. ASSUME NEW i \in Items, Record(i) PROVE FlushInOrder'
  <2>1. buffer \cup {i} \in SUBSET Items
    BY DEF EngineTyped
  <2> QED
    BY <1>1, <1>2, <1>4, <2>1 DEF Record
<1>5. ASSUME NEW i \in Items, WriteMetric(i) PROVE FlushInOrder'
  <2>1. CASE flush.rest # {i}
    BY <1>5, <2>1 DEF WriteMetric, FlushInOrder, EngineTyped, Flush
  <2> QED
    BY <1>3, <1>5, <2>1 DEF WriteMetric
<1>6. CASE WriteLogs
  <2>1. CASE flush.rest # {}
    BY <1>6, <2>1 DEF WriteLogs, FlushInOrder, EngineTyped, Flush, Items
  <2> QED
    BY <1>3, <1>6, <2>1 DEF WriteLogs
<1>7. CASE TimerFires \/ StopEngine
  BY <1>1, <1>7 DEF TimerFires, StopEngine, EngineTyped
<1>8. CASE FlushFails \/ EngineExits \/ EngineDies
  BY <1>3, <1>8 DEF FlushFails, EngineExits, EngineDies, Gone
<1>9. CASE EngineStarts \/ \E topic \in Topics : Changes(topic)
  BY <1>2, <1>9 DEF EngineStarts, Changes
<1> QED
  BY <1>4, <1>5, <1>6, <1>7, <1>8, <1>9 DEF EngineNext

Safe(i) == i \in Held \/ copies[i] > 0 \/ i \in lost

LEMMA SafeStep ==
  ASSUME Typed, FlushInOrder, EngineNext, NEW i \in Items, Safe(i) PROVE Safe(i)'
<1> USE DEF Typed
<1>1. ASSUME NEW held \in SUBSET Items, buffer \subseteq held, Flushes(held),
             UNCHANGED <<copies, lost>>
      PROVE  Safe(i)'
  BY <1>1, FlushesHold DEF Safe, Held
<1>2. ASSUME NEW j \in Items, Record(j) PROVE Safe(i)'
  <2>1. buffer \cup {j} \in SUBSET Items
    BY DEF EngineTyped
  <2> QED
    BY <1>1, <1>2, <2>1 DEF Record, Safe, Held
<1>3. ASSUME NEW j \in Items, WriteMetric(j) PROVE Safe(i)'
  BY <1>3 DEF WriteMetric, FlushInOrder, EngineTyped, Flush, NoFlush, Safe, Held
<1>4. CASE WriteLogs
  <2>1. copies'[i] >= copies[i] /\ (i \in flush.items \cap Logs => copies'[i] > 0)
    BY <1>4 DEF WriteLogs, EngineTyped
  <2>2. i \in flush.items => i \in Logs \/ flush.rest # {}
    BY <1>4 DEF WriteLogs, FlushInOrder, Items
  <2>3. flush.rest # {} => flush'.items = flush.items
    BY <1>4 DEF WriteLogs, EngineTyped, Flush
  <2>4. UNCHANGED <<buffer, lost>>
    BY <1>4 DEF WriteLogs
  <2>5. copies'[i] \in Int /\ copies[i] \in Int
    BY <1>4 DEF WriteLogs, EngineTyped
  <2> QED
    BY <2>1, <2>2, <2>3, <2>4, <2>5 DEF Safe, Held
<1>5. CASE TimerFires \/ StopEngine
  BY <1>1, <1>5 DEF TimerFires, StopEngine, EngineTyped
<1>6. CASE FlushFails
  BY <1>6 DEF FlushFails, PutBack, Restored, Safe, Held
<1>7. ASSUME NEW items \in SUBSET Items, Held \subseteq items, Gone(items) PROVE Safe(i)'
  BY <1>7 DEF Gone, Safe, EngineTyped
<1>8. CASE EngineExits
  BY <1>7, <1>8 DEF EngineExits, Held, NoFlush, EngineTyped
<1>9. CASE EngineDies
  BY <1>7, <1>9 DEF EngineDies, Held, EngineTyped, Flush
<1>10. CASE EngineStarts \/ \E topic \in Topics : Changes(topic)
  BY <1>10 DEF EngineStarts, Changes, Safe, Held
<1> QED
  BY <1>2, <1>3, <1>4, <1>5, <1>6, <1>8, <1>9, <1>10 DEF EngineNext

\* No step of the hub or of a browser touches what the engine holds.
LEMMA OthersLeaveTheEngine ==
  ASSUME HubNext \/ BrowserNext
  PROVE  UNCHANGED <<buffer, flush, copies, lost, written>>
<1>1. CASE HubNext
  BY <1>1 DEF HubNext, PostEvents, Broadcast, PollReads, PollEmits, ApiRestarts, telemetryVars
<1>2. CASE BrowserNext
  BY <1>2 DEF BrowserNext, Begins, Answered, Shows, OpenTab, Focus, EnsureLeader, Navigate,
              CloseTab, Hide, Leaves, Show, Heartbeat, Receive, Arrives, Reconnects, telemetryVars
<1> QED
  BY <1>1, <1>2

-----------------------------------------------------------------------------
(* The election.                                                           *)

\* Only what a step does to the acting tab matters to what the hub serves.
LEMMA ServedByTab ==
  ASSUME Served, NEW t \in Tabs,
         \A u \in Tabs \ {t} : tabs'[u] = tabs[u] /\ client'[u] = client[u],
         tabs'[t].stream => Leads(t)',
         client'[t].on => tabs'[t].stream /\ client'[t].topics = tabs'[t].wanted
  PROVE  Served'
BY DEF Served, Leads, IsLeader

\* The hub cuts streams and marks them, and serves no other topics.
LEMMA ElectionFrame ==
  ASSUME Elected, UNCHANGED <<tabs, mail, clock>>,
         \A t \in Tabs : client'[t].on => client[t].on /\ client'[t].topics = client[t].topics
  PROVE  Elected'
BY DEF Elected, Served, Leads, IsLeader, Leases, Contested, Unseated

LEMMA HubElection ==
  ASSUME Typed, Elected, HubNext, UNCHANGED browserVars PROVE Elected'
<1> USE DEF Typed, HubTyped, Client
<1>1. \A t \in Tabs : client'[t].on => client[t].on /\ client'[t].topics = client[t].topics
  <2>1. ASSUME NEW slow \in SUBSET Tabs, Broadcast(slow), NEW t \in Tabs
        PROVE  client'[t].on => client[t].on /\ client'[t].topics = client[t].topics
    BY <2>1 DEF Broadcast, NoClient
  <2>2. CASE PollEmits
    BY <2>2 DEF PollEmits
  <2>3. CASE ApiRestarts
    BY <2>3 DEF ApiRestarts, NoClient
  <2>4. CASE PollReads \/ \E delivered \in SUBSET posts : PostEvents(delivered)
    BY <2>4 DEF PollReads, PostEvents
  <2> QED
    BY <2>1, <2>2, <2>3, <2>4 DEF HubNext
<1> QED
  BY <1>1, ElectionFrame DEF browserVars

LEMMA Unsettled ==
  ASSUME TabsTyped, NEW u \in Tabs, Unseated(u), tabs'[u].issued = tabs[u].issued,
         mail'[u] = mail[u] \/ \E m \in Message : mail'[u] = Append(mail[u], m)
  PROVE  Unseated(u)'
<1>1. PICK i \in 1..Len(mail[u]) :
        mail[u][i].type = "leader" /\ mail[u][i].issued >= tabs[u].issued
  BY DEF Unseated
<1>2. mail[u] \in Seq(Message)
  BY DEF TabsTyped
<1>3. i \in 1..Len(mail'[u]) /\ mail'[u][i] = mail[u][i]
  BY <1>2
<1> QED
  BY <1>1, <1>3 DEF Unseated

LEMMA LeasesGrow ==
  ASSUME TabsTyped, Leases, clock' \in Nat, clock' >= clock,
         \A u \in Tabs : tabs'[u].issued <= clock',
         \A u \in Tabs : \/ mail'[u] = mail[u] \/ mail'[u] = <<>>
                         \/ \E m \in Message : /\ m.issued <= clock' /\ m.from # u
                                               /\ mail'[u] = Append(mail[u], m)
  PROVE  Leases'
<1> SUFFICES ASSUME NEW u \in Tabs, NEW i \in 1..Len(mail'[u])
             PROVE  mail'[u][i].issued <= clock' /\ mail'[u][i].from # u
  BY DEF Leases
<1>1. mail[u] \in Seq(Message)
  BY DEF TabsTyped
<1>2. \A j \in 1..Len(mail[u]) :
        mail[u][j].issued \in Nat /\ mail[u][j].issued <= clock /\ mail[u][j].from # u
  <2>1. \A j \in 1..Len(mail[u]) : mail[u][j] \in Message
    BY <1>1
  <2> QED
    BY <2>1 DEF Leases, Message
<1>3. clock \in Nat
  BY DEF TabsTyped
<1>4. CASE mail'[u] = mail[u]
  BY <1>2, <1>3, <1>4
<1>5. ASSUME NEW m \in Message, m.issued <= clock', m.from # u, mail'[u] = Append(mail[u], m)
      PROVE  mail'[u][i].issued <= clock' /\ mail'[u][i].from # u
  <2>1. CASE i = Len(mail[u]) + 1
    BY <1>1, <1>5, <2>1
  <2>2. CASE i # Len(mail[u]) + 1
    <3>1. i \in 1..Len(mail[u]) /\ mail'[u][i] = mail[u][i]
      BY <1>1, <1>5, <2>2
    <3> QED
      BY <1>2, <1>3, <3>1
  <2> QED
    BY <2>1, <2>2
<1> QED
  BY <1>4, <1>5

LEMMA ClaimElection ==
  ASSUME Typed, Elected, NEW t \in Tabs, NEW now \in Tab, NEW tick \in {0, 1},
         now.open, now.visible, Claims(t, now, tick)
  PROVE  Elected'
<1> USE DEF Typed, Elected
<1> DEFINE m == [type |-> "leader", from |-> t, issued |-> clock']
<1> DEFINE led == [now EXCEPT !.leader = t, !.issued = clock', !.stream = now.wanted # {}]
<1>1. /\ clock' \in Nat /\ clock' >= clock
      /\ tabs' \in [Tabs -> Tab]
      /\ \A u \in Tabs \ {t} : tabs'[u] = tabs[u]
      /\ tabs'[t] = led
      /\ mail'[t] = mail[t]
      /\ \A u \in Tabs \ {t} : mail'[u] = IF tabs[u].open THEN Append(mail[u], m) ELSE mail[u]
  <2>1. TabsTyped /\ HubTyped
    OBVIOUS
  <2>2. clock' \in Nat /\ clock' >= clock /\ tabs' \in [Tabs -> Tab]
    BY <2>1, ClaimsGive
  <2>3. (\A u \in Tabs \ {t} : tabs'[u] = tabs[u]) /\ tabs'[t] = led
    BY DEF Claims, TabsTyped
  <2>4. mail' = Sent(t, "leader")
    BY DEF Claims
  <2>5. mail'[t] = mail[t]
        /\ \A u \in Tabs \ {t} : mail'[u] = IF tabs[u].open THEN Append(mail[u], m) ELSE mail[u]
    BY <2>4 DEF Sent
  <2> QED
    BY <2>2, <2>3, <2>5
<1>2. /\ tabs'[t].open /\ tabs'[t].visible /\ tabs'[t].leader = t /\ tabs'[t].issued = clock'
      /\ tabs'[t].wanted = now.wanted /\ tabs'[t].stream = (now.wanted # {})
  <2>1. tabs'[t] = led
    BY <1>1
  <2> QED
    BY <2>1 DEF Tab
<1>3. m \in Message
  BY <1>1 DEF Message
<1>4. /\ \A u \in Tabs \ {t} : client'[u] = client[u]
      /\ client'[t] = IF now.wanted = {} THEN NoClient ELSE Opened(now.wanted)
  BY StreamOpens DEF Claims, Tab
<1>5. Served'
  <2>1. client'[t].on => tabs'[t].stream /\ client'[t].topics = tabs'[t].wanted
    <3>1. CASE now.wanted = {}
      BY <1>4, <3>1 DEF NoClient
    <3>2. CASE now.wanted # {}
      <4>1. client'[t].topics = now.wanted
        BY <1>4, <3>2 DEF Opened
      <4>2. tabs'[t].wanted = now.wanted /\ tabs'[t].stream
        BY <1>2, <3>2
      <4> QED
        BY <4>1, <4>2
    <3> QED
      BY <3>1, <3>2
  <2>2. Leads(t)'
    BY <1>2 DEF Leads, IsLeader
  <2> QED
    BY <1>1, <1>4, <2>1, <2>2, ServedByTab
<1>6. Leases'
  <2>1. \A u \in Tabs : tabs'[u].issued <= clock'
    <3>1. \A u \in Tabs : tabs[u].issued \in Nat /\ clock \in Nat
      BY DEF TabsTyped, Tab
    <3>2. \A u \in Tabs \ {t} : tabs'[u].issued <= clock'
      BY <1>1, <3>1 DEF Leases
    <3>3. tabs'[t].issued <= clock'
      BY <1>1, <1>2
    <3> QED
      BY <3>2, <3>3
  <2>2. m.issued <= clock' /\ m.from = t
    BY <1>1
  <2> QED
    BY <1>1, <1>3, <2>1, <2>2, LeasesGrow
<1>7. Contested'
  <2> SUFFICES ASSUME NEW u \in Tabs, NEW v \in Tabs, u # v, tabs'[u].open, tabs'[v].open,
                      IsLeader(u)', IsLeader(v)'
               PROVE  Unseated(u)' \/ Unseated(v)'
    BY DEF Contested
  <2>1. ASSUME NEW w \in Tabs \ {t}, tabs[w].open PROVE Unseated(w)'
    <3>1. mail[w] \in Seq(Message) /\ mail'[w] = Append(mail[w], m)
      BY <1>1, <2>1 DEF TabsTyped
    <3>2. Len(mail[w]) + 1 \in 1..Len(mail'[w]) /\ mail'[w][Len(mail[w]) + 1] = m
      BY <1>3, <3>1
    <3>3. tabs'[w].issued <= clock' /\ tabs'[w].issued \in Nat
      BY <1>1, <1>6 DEF Leases, Tab
    <3> QED
      BY <1>1, <3>2, <3>3 DEF Unseated
  <2> QED
    BY <1>1, <2>1
<1> QED
  BY <1>5, <1>6, <1>7

LEMMA LeaveElection ==
  ASSUME Typed, Elected, NEW t \in Tabs, NEW now \in Tab, NEW tells \in BOOLEAN,
         ~now.stream, now.leader # t, now.issued <= clock, Leaves(t, now, tells)
  PROVE  Elected'
<1> USE DEF Typed, Elected
<1>1. clock' = clock /\ clock \in Nat /\ tabs'[t] = now /\ \A u \in Tabs \ {t} : tabs'[u] = tabs[u]
  BY DEF Leaves, TabsTyped
<1>2. client'[t] = NoClient /\ \A u \in Tabs \ {t} : client'[u] = client[u]
  BY StreamOpens DEF Leaves
<1> DEFINE m == [type |-> "release", from |-> t, issued |-> clock']
<1>3. m \in Message
  BY <1>1 DEF Message
<1>4. mail'[t] \in {mail[t], <<>>}
      /\ \A u \in Tabs \ {t} : mail'[u] = mail[u] \/ mail'[u] = Append(mail[u], m)
  BY DEF Leaves, Sent, TabsTyped
<1>5. Served'
  BY <1>1, <1>2, ServedByTab DEF NoClient
<1>6. Leases'
  <2>1. \A u \in Tabs : tabs'[u].issued <= clock'
    BY <1>1 DEF Leases
  <2>2. m.issued <= clock' /\ m.from = t
    BY <1>1
  <2> QED
    BY <1>1, <1>3, <1>4, <2>1, <2>2, LeasesGrow
<1>7. Contested'
  <2> SUFFICES ASSUME NEW u \in Tabs, NEW v \in Tabs, u # v, tabs'[u].open, tabs'[v].open,
                      IsLeader(u)', IsLeader(v)'
               PROVE  Unseated(u)' \/ Unseated(v)'
    BY DEF Contested
  <2>1. u # t /\ v # t
    BY <1>1 DEF IsLeader
  <2>2. Unseated(u) \/ Unseated(v)
    BY <1>1, <2>1 DEF Contested, IsLeader
  <2> QED
    BY <1>1, <1>3, <1>4, <2>1, <2>2, Unsettled
<1> QED
  BY <1>5, <1>6, <1>7

LEMMA ReceiveElection ==
  ASSUME Typed, Elected, NEW t \in Tabs, Receive(t) PROVE Elected'
<1> USE DEF Typed, Elected
<1> DEFINE m == Head(mail[t])
           yields == m.type = "leader"
                     /\ (tabs[t].leader = Nobody \/ MustYield(tabs[t].issued, m.issued))
<1>1. mail[t] \in Seq(Message) /\ mail[t] # <<>> /\ m \in Message /\ m = mail[t][1]
      /\ 1 \in 1..Len(mail[t])
  BY DEF Receive, TabsTyped
<1>2. m.issued <= clock /\ m.from # t
  BY <1>1 DEF Leases
<1>3. clock' = clock /\ clock \in Nat /\ mail'[t] = Tail(mail[t])
      /\ \A u \in Tabs \ {t} : mail'[u] = mail[u] /\ tabs'[u] = tabs[u]
  BY DEF Receive, TabsTyped
<1>4. tabs'[t] = IF yields
                 THEN [tabs[t] EXCEPT !.leader = m.from, !.issued = m.issued, !.stream = FALSE]
                 ELSE IF m.type = "release" /\ tabs[t].leader = m.from
                 THEN [tabs[t] EXCEPT !.leader = Nobody] ELSE tabs[t]
  BY DEF Receive, TabsTyped
<1>5. tabs[t] \in Tab
  BY DEF TabsTyped
<1>6. Served'
  <2>1. CASE yields
    <3>1. client'[t] = NoClient /\ \A u \in Tabs \ {t} : client'[u] = client[u]
      BY <2>1, StreamOpens DEF Receive
    <3>2. ~tabs'[t].stream
      BY <1>4, <1>5, <2>1 DEF Tab
    <3> QED
      BY <1>3, <3>1, <3>2, ServedByTab DEF NoClient
  <2>2. CASE ~yields
    <3>1. client' = client
      BY <2>2 DEF Receive, hubVars
    <3>2. \/ tabs'[t] = tabs[t]
          \/ tabs[t].leader = m.from /\ tabs'[t] = [tabs[t] EXCEPT !.leader = Nobody]
      BY <1>4, <2>2
    <3>3. tabs'[t].stream = tabs[t].stream /\ tabs'[t].wanted = tabs[t].wanted
      BY <1>5, <3>2 DEF Tab
    <3>4. tabs'[t].stream => Leads(t)'
      BY <1>2, <3>2, <3>3 DEF Served, Leads, IsLeader
    <3>5. client'[t].on => tabs'[t].stream /\ client'[t].topics = tabs'[t].wanted
      BY <3>1, <3>3 DEF Served
    <3> QED
      BY <1>3, <3>1, <3>4, <3>5, ServedByTab
  <2> QED
    BY <2>1, <2>2
<1>7. Leases'
  <2>1. \A u \in Tabs : tabs'[u].issued <= clock'
    <3>1. tabs'[t].issued \in {tabs[t].issued, m.issued}
      BY <1>4, <1>5 DEF Tab
    <3> QED
      BY <1>2, <1>3, <3>1 DEF Leases
  <2>2. \A i \in 1..Len(Tail(mail[t])) : i + 1 \in 1..Len(mail[t]) /\ Tail(mail[t])[i] = mail[t][i + 1]
    BY <1>1
  <2>3. \A i \in 1..Len(mail'[t]) : mail'[t][i].issued <= clock /\ mail'[t][i].from # t
    BY <1>3, <2>2 DEF Leases
  <2> QED
    BY <1>3, <2>1, <2>3 DEF Leases
<1>8. Contested'
  <2> SUFFICES ASSUME NEW u \in Tabs, NEW v \in Tabs, u # v, tabs'[u].open, tabs'[v].open,
                      IsLeader(u)', IsLeader(v)'
               PROVE  Unseated(u)' \/ Unseated(v)'
    BY DEF Contested
  <2>1. ASSUME IsLeader(t)' PROVE ~yields /\ tabs'[t] = tabs[t]
    BY <1>2, <1>4, <1>5, <2>1, TabsAssumption DEF IsLeader, Tab
  <2>2. Unseated(u) \/ Unseated(v)
    BY <1>3, <2>1 DEF Contested, IsLeader
  <2>3. ASSUME NEW w \in Tabs, IsLeader(w)', Unseated(w) PROVE Unseated(w)'
    <3>1. CASE w # t
      BY <1>3, <2>3, <3>1 DEF Unseated
    <3>2. CASE w = t
      <4>1. PICK i \in 1..Len(mail[t]) :
              mail[t][i].type = "leader" /\ mail[t][i].issued >= tabs[t].issued
        BY <2>3, <3>2 DEF Unseated
      <4>2. i # 1
        BY <1>1, <2>1, <2>3, <3>2, <4>1 DEF MustYield, Yields
      <4>3. i - 1 \in 1..Len(mail'[t]) /\ mail'[t][i - 1] = mail[t][i]
        BY <1>1, <1>3, <4>2
      <4> QED
        BY <2>1, <2>3, <3>2, <4>1, <4>3 DEF Unseated
    <3> QED
      BY <3>1, <3>2
  <2> QED
    BY <2>2, <2>3
<1> QED
  BY <1>6, <1>7, <1>8

LEMMA TabElection ==
  ASSUME Typed, Elected, NEW t \in Tabs,
         \/ \E wanted \in left.views : Navigate(t, wanted)
         \/ \E tells \in BOOLEAN : CloseTab(t, tells)
         \/ Hide(t) \/ Show(t) \/ Heartbeat(t) \/ Receive(t) \/ Arrives(t) \/ Reconnects(t)
  PROVE  Elected'
<1> USE DEF Typed
<1>0. tabs[t] \in Tab /\ clock \in Nat
  BY DEF TabsTyped
<1>1. ASSUME NEW wanted \in left.views, Navigate(t, wanted) PROVE Elected'
  <2>1. wanted \in SUBSET Topics
    BY DEF LeftTyped, Budget
  <2>2. /\ mail' = mail /\ clock' = clock
        /\ tabs' = [tabs EXCEPT ![t] = [tabs[t] EXCEPT
                      !.wanted = wanted, !.stream = Leads(t) /\ wanted # {}]]
    BY <1>1 DEF Navigate, TabsTyped
  <2>3. \A u \in Tabs : tabs'[u].open = tabs[u].open /\ tabs'[u].leader = tabs[u].leader
                        /\ tabs'[u].issued = tabs[u].issued /\ tabs'[u].visible = tabs[u].visible
    BY <2>2 DEF TabsTyped, Tab
  <2>4. Leases' /\ Contested'
    BY <2>2, <2>3 DEF Elected, Leases, Contested, IsLeader, Unseated
  <2>5. \A u \in Tabs \ {t} : tabs'[u] = tabs[u]
    BY <2>2 DEF TabsTyped
  <2>6. tabs'[t].stream = (Leads(t) /\ wanted # {}) /\ tabs'[t].wanted = wanted
    BY <1>0, <2>2 DEF TabsTyped, Tab
  <2>7. tabs'[t].stream => Leads(t)'
    BY <2>3, <2>6 DEF Leads, IsLeader
  <2>8. Served'
    <3>1. CASE Leads(t)
      <4>1. /\ \A u \in Tabs \ {t} : client'[u] = client[u]
            /\ client'[t] = IF wanted = {} THEN NoClient ELSE Opened(wanted)
        BY <1>1, <2>1, <3>1, StreamOpens DEF Navigate
      <4>2. client'[t].on => tabs'[t].stream /\ client'[t].topics = tabs'[t].wanted
        <5>1. CASE wanted = {}
          BY <4>1, <5>1 DEF NoClient
        <5>2. CASE wanted # {}
          <6>1. client'[t].topics = wanted
            BY <4>1, <5>2 DEF Opened
          <6> QED
            BY <2>6, <3>1, <5>2, <6>1
        <5> QED
          BY <5>1, <5>2
      <4> QED
        BY <2>5, <2>7, <4>1, <4>2, ServedByTab DEF Elected
    <3>2. CASE ~Leads(t)
      <4>1. client' = client
        BY <1>1, <3>2 DEF Navigate, hubVars
      <4>2. ~client[t].on
        BY <3>2 DEF Elected, Served
      <4> QED
        BY <2>5, <2>7, <4>1, <4>2, ServedByTab DEF Elected
    <3> QED
      BY <3>1, <3>2
  <2> QED
    BY <2>4, <2>8 DEF Elected
<1>2. ASSUME NEW tells \in BOOLEAN, CloseTab(t, tells) PROVE Elected'
  <2>1. Closed \in Tab /\ ~Closed.stream /\ Closed.leader # t /\ Closed.issued <= clock
    BY <1>0, TabsAssumption DEF Closed, Tab
  <2> QED
    BY <1>2, <2>1, LeaveElection DEF CloseTab
<1>3. CASE Hide(t)
  <2> DEFINE now == [tabs[t] EXCEPT !.visible = FALSE, !.stream = FALSE,
                                    !.leader = IF @ = t THEN Nobody ELSE @]
  <2>1. now \in Tab /\ ~now.stream /\ now.leader # t /\ now.issued = tabs[t].issued
    BY <1>0, TabsAssumption DEF Tab
  <2>2. now.issued <= clock
    BY <2>1 DEF Elected, Leases
  <2>3. Leaves(t, now, TRUE)
    BY <1>3 DEF Hide
  <2> HIDE DEF now
  <2> QED
    BY <2>1, <2>2, <2>3, LeaveElection
<1>4. CASE Show(t)
  <2>1. mail' = mail /\ clock' = clock /\ client' = client
        /\ tabs' = [tabs EXCEPT ![t] = [tabs[t] EXCEPT !.visible = TRUE]] /\ ~tabs[t].visible
    BY <1>4 DEF Show, hubVars, TabsTyped
  <2>2. \A u \in Tabs : tabs'[u].open = tabs[u].open /\ tabs'[u].leader = tabs[u].leader
                        /\ tabs'[u].issued = tabs[u].issued /\ tabs'[u].stream = tabs[u].stream
    BY <2>1 DEF TabsTyped, Tab
  <2>3. Leases' /\ Contested'
    BY <2>1, <2>2 DEF Elected, Leases, Contested, IsLeader, Unseated
  <2>4. ~tabs[t].stream /\ ~client[t].on
    BY <2>1 DEF Elected, Served, Leads
  <2>5. \A u \in Tabs \ {t} : tabs'[u] = tabs[u]
    BY <2>1 DEF TabsTyped
  <2>6. Served'
    BY <2>1, <2>2, <2>4, <2>5, ServedByTab DEF Elected
  <2> QED
    BY <2>3, <2>6 DEF Elected
<1>5. CASE Heartbeat(t)
  <2> DEFINE m == [type |-> "leader", from |-> t, issued |-> tabs[t].issued]
  <2>1. /\ UNCHANGED <<tabs, clock, client>>
        /\ \A u \in Tabs : mail'[u] = mail[u] \/ (u # t /\ mail'[u] = Append(mail[u], m))
    BY <1>5 DEF Heartbeat, hubVars
  <2>2. m \in Message /\ m.issued <= clock /\ m.from = t
    BY <1>0 DEF Message, Tab, Elected, Leases
  <2> HIDE DEF m
  <2>3. Served'
    BY <2>1 DEF Elected, Served, Leads, IsLeader
  <2>4. \A u \in Tabs : tabs'[u].issued <= clock' /\ tabs'[u].issued = tabs[u].issued
    BY <2>1 DEF Elected, Leases
  <2>5. Leases'
    BY <1>0, <2>1, <2>2, <2>4, LeasesGrow DEF Elected
  <2>6. \A u \in Tabs : Unseated(u) => Unseated(u)'
    BY <2>1, <2>2, <2>4, Unsettled
  <2>7. Contested'
    BY <2>1, <2>6 DEF Elected, Contested, IsLeader
  <2> QED
    BY <2>3, <2>5, <2>7 DEF Elected
<1>6. CASE Receive(t)
  BY <1>6, ReceiveElection
<1>7. CASE Arrives(t)
  BY <1>7, ElectionFrame DEF Arrives
<1>8. CASE Reconnects(t)
  <2>1. UNCHANGED <<tabs, mail, clock>> /\ StreamTo(t, tabs[t].wanted) /\ tabs[t].stream
    BY <1>8 DEF Reconnects, browserVars
  <2>2. /\ \A u \in Tabs \ {t} : client'[u] = client[u]
        /\ client'[t] = IF tabs[t].wanted = {} THEN NoClient ELSE Opened(tabs[t].wanted)
    BY <1>0, <2>1, StreamOpens DEF Tab
  <2>3. client'[t].on => client'[t].topics = tabs[t].wanted
    BY <2>2 DEF NoClient, Opened
  <2>4. Served'
    BY <2>1, <2>2, <2>3, ServedByTab DEF Elected, Served, Leads, IsLeader
  <2> QED
    BY <2>1, <2>4 DEF Elected, Leases, Contested, IsLeader, Unseated
<1> QED
  BY <1>1, <1>2, <1>3, <1>4, <1>5, <1>6, <1>7, <1>8

LEMMA ElectionKept == ASSUME Typed, Elected, [Next]_vars PROVE Elected'
<1>1. CASE EngineNext /\ UNCHANGED <<hubVars, browserVars>>
  BY <1>1, ElectionFrame DEF hubVars, browserVars
<1>2. CASE HubNext /\ UNCHANGED browserVars
  BY <1>2, HubElection
<1>3. CASE BrowserNext
  <2>1. ASSUME NEW t \in Tabs, NEW tick \in {0, 1}, NEW wanted \in left.views, OpenTab(t, wanted, tick)
        PROVE  Elected'
    <3> DEFINE now == [Closed EXCEPT !.open = TRUE, !.visible = TRUE, !.wanted = wanted]
    <3>1. now \in Tab /\ now.open /\ now.visible
      BY DEF Typed, LeftTyped, Budget, Closed, Tab
    <3>2. Claims(t, now, tick)
      BY <2>1 DEF OpenTab
    <3> HIDE DEF now
    <3> QED
      BY <3>1, <3>2, ClaimElection
  <2>2. ASSUME NEW t \in Tabs, NEW tick \in {0, 1}, Focus(t, tick) \/ EnsureLeader(t, tick)
        PROVE  Elected'
    BY <2>2, ClaimElection DEF Focus, EnsureLeader, MustLead, Typed, TabsTyped
  <2>3. ASSUME NEW t \in Tabs, NEW topic \in Topics,
               Begins(t, topic) \/ Answered(t, topic) \/ Shows(t, topic)
        PROVE  Elected'
    BY <2>3, ElectionFrame DEF Begins, Answered, Shows, hubVars
  <2> QED
    BY <1>3, <2>1, <2>2, <2>3, TabElection DEF BrowserNext
<1>4. CASE UNCHANGED vars
  BY <1>4, ElectionFrame DEF vars, hubVars, browserVars
<1> QED
  BY <1>1, <1>2, <1>3, <1>4 DEF Next

-----------------------------------------------------------------------------
(* The tab that streams is up to date.                                     *)

\* What another tab does is nothing to a tab whose stream and page stay.
LEMMA OtherTab ==
  ASSUME NEW t \in Tabs, Follows(t), UNCHANGED <<api, written>>,
         UNCHANGED <<client[t], wire[t], page[t]>>, tabs'[t].stream = tabs[t].stream
  PROVE  Follows(t)'
BY DEF Follows, Heard, Growing, Waits, Rested, Told, UpToDate, LogsFollowed, Streams, News, Current

LEMMA Writes ==
  ASSUME Typed, EngineNext
  PROVE  \A topic \in Topics : written'[topic] \in {written[topic], written[topic] + 1}
BY DEF Typed, EngineTyped, Topics, EngineNext, Record, WriteMetric, TimerFires, WriteLogs,
       FlushFails, Changes, StopEngine, EngineExits, EngineDies, EngineStarts, Gone

LEMMA EngineFresh ==
  ASSUME Typed, Fresh, EngineNext, UNCHANGED <<hubVars, browserVars>> PROVE Fresh'
<1> USE DEF Typed
<1>1. \A topic \in Topics : written'[topic] \in {written[topic], written[topic] + 1}
                            /\ written[topic] \in Nat
  BY Writes DEF EngineTyped
<1>2. UNCHANGED <<api, client, wire, tabs, page>>
  BY DEF hubVars, browserVars
<1>3. \A topic \in Topics : api.seen[topic] \in Int /\ api.seen[topic] <= written[topic]
                            /\ api.reading \in Seq(Versions)
  BY DEF HubTyped, Hub, Versions, Known, Unread, Fresh, Polls
<1>4. Polls'
  <2>1. \A i \in 1..Len(api.reading), topic \in Topics : api.reading[i][topic] \in Int
    BY <1>3 DEF Versions, Known, Unread
  <2> QED
    BY <1>1, <1>2, <1>3, <2>1 DEF Fresh, Polls
<1>5. \A topic \in Topics : api.seen[topic] = written'[topic] => written'[topic] = written[topic]
  BY <1>1, <1>3
<1>6. ASSUME NEW t \in Tabs PROVE Follows(t)'
  <2>1. Follows(t)
    BY DEF Fresh
  <2>2. Heard(t)' /\ Growing(t)' /\ Waits(t)' /\ Rested(t)' /\ Told(t)'
    BY <1>2, <2>1 DEF Follows, Heard, Growing, Waits, Rested, Told, Current, Streams
  <2>3. UpToDate(t)'
    BY <1>2, <1>5, <2>1 DEF Follows, UpToDate, Current, News, Topics
  <2>4. LogsFollowed(t)'
    BY <1>2, <1>5, <2>1 DEF Follows, LogsFollowed, Streams, Waits, Topics
  <2> QED
    BY <2>2, <2>3, <2>4 DEF Follows
<1> QED
  BY <1>4, <1>6 DEF Fresh

LEMMA PageFresh ==
  ASSUME Typed, Fresh, NEW t \in Tabs, NEW topic \in Topics,
         Begins(t, topic) \/ Answered(t, topic) \/ Shows(t, topic)
  PROVE  Fresh'
<1> USE DEF Typed
<1> DEFINE p == page[t][topic]
           q == page'[t][topic]
<1>1. UNCHANGED <<api, client, wire, tabs, written>>
  BY DEF Begins, Answered, Shows, hubVars, telemetryVars
<1>2. /\ \A u \in Tabs \ {t} : page'[u] = page[u]
      /\ \A other \in Topics \ {topic} : page'[t][other] = page[t][other]
      /\ p \in Shown
  BY DEF Begins, Answered, Shows, TabsTyped
<1>3. \/ q = [p EXCEPT !.pc = "asked", !.again = FALSE]
      \/ q = [p EXCEPT !.pc = "asked", !.loaded = TRUE, !.again = FALSE]
      \/ q = [p EXCEPT !.pc = "answered", !.at = written[topic]]
      \/ p.pc = "answered" /\ ~p.again /\ q = [p EXCEPT !.pc = "idle", !.loaded = TRUE]
  <2>1. CASE Begins(t, topic)
    BY <1>2, <2>1 DEF Begins, Load, TabsTyped
  <2>2. CASE Answered(t, topic)
    BY <1>2, <2>2 DEF Answered, TabsTyped, Shown
  <2>3. CASE Shows(t, topic)
    <3>1. p.pc = "answered" /\ q = LET r == [p EXCEPT !.pc = "idle", !.loaded = TRUE]
                                   IN IF p.again THEN Load(r) ELSE r
      BY <1>2, <2>3 DEF Shows, TabsTyped
    <3>2. CASE p.again
      BY <1>2, <3>1, <3>2 DEF Load, Shown
    <3>3. CASE ~p.again
      BY <3>1, <3>3
    <3> QED
      BY <3>2, <3>3
  <2> QED
    BY <2>1, <2>2, <2>3
<1>4. q.run = p.run /\ q.live = p.live /\ q.adopted = p.adopted
  BY <1>2, <1>3 DEF Shown
<1>5. /\ q.pc = "idle" => q.loaded /\ ~q.again
      /\ q.pc = "answered" => q.at = written[topic]
      /\ q.pc = "idle" => p.pc = "answered" /\ q.at = p.at /\ ~p.again
      /\ q.pc \in {"asked", "answered", "idle"}
  BY <1>2, <1>3 DEF Shown
<1>6. Follows(t)
  BY DEF Fresh
<1>7. Heard(t)' /\ Growing(t)' /\ Waits(t)' /\ Told(t)'
  BY <1>1, <1>2, <1>4, <1>6 DEF Follows, Heard, Growing, Waits, Told, Streams, Current, Topics
<1>8. Rested(t)'
  BY <1>2, <1>5, <1>6 DEF Follows, Rested
<1>9. UpToDate(t)'
  <2>1. CASE topic = "archive"
    BY <1>1, <1>4, <1>5, <1>6, <2>1 DEF Follows, UpToDate, Current, News
  <2>2. CASE topic # "archive"
    BY <1>1, <1>2, <1>6, <2>2 DEF Follows, UpToDate, Current, News, Topics
  <2> QED
    BY <2>1, <2>2
<1>10. LogsFollowed(t)'
  <2>1. CASE topic = "logs"
    BY <1>1, <1>5, <1>6, <2>1 DEF Follows, LogsFollowed, Streams
  <2>2. CASE topic # "logs"
    BY <1>1, <1>2, <1>6, <2>2 DEF Follows, LogsFollowed, Streams, Topics
  <2> QED
    BY <2>1, <2>2
<1>11. \A u \in Tabs \ {t} : Follows(u)'
  BY <1>1, <1>2, OtherTab DEF Fresh
<1> QED
  BY <1>1, <1>7, <1>8, <1>9, <1>10, <1>11 DEF Fresh, Polls, Follows

\* A stream that opens anew waits for its snapshot; one that is closed tells
\* nothing.  Meanwhile pages begin anew, or load again.
LEMMA StreamFresh ==
  ASSUME Typed, Fresh, NEW t \in Tabs, UNCHANGED <<api, written>>,
         \A u \in Tabs \ {t} : /\ UNCHANGED <<client[u], wire[u], page[u]>>
                               /\ tabs'[u].stream = tabs[u].stream,
         \/ ~client[t].on /\ UNCHANGED <<client[t], wire[t]>>
         \/ client'[t] = NoClient /\ wire'[t] = <<>>
         \/ \E topics \in SUBSET Topics : client'[t] = Opened(topics) /\ wire'[t] = <<Ready>>,
         page'[t]["archive"] \in {page[t]["archive"], NewPage},
         page'[t]["logs"] \in {page[t]["logs"], NewPage, Load(page[t]["logs"])}
  PROVE  Fresh'
<1> USE DEF Typed
<1>1. Follows(t)
  BY DEF Fresh
<1>2. api.run \in Nat /\ api.version["archive"] \in Nat
  BY DEF HubTyped, Hub, Topics
<1>3. Rested(t)'
  <2>1. page[t]["logs"] \in Shown
    BY DEF TabsTyped, Topics
  <2>2. Load(page[t]["logs"]).pc # "idle" /\ NewPage.pc # "idle"
    BY <2>1 DEF Load, NewPage, Shown
  <2> QED
    BY <1>1, <2>2 DEF Follows, Rested, Topics
<1>4. \A i \in 1..Len(wire'[t]) : wire'[t][i].topic = "archive" => wire'[t] = wire[t]
  BY DEF Ready
<1>5. client'[t].on => client'[t].snapshot
  <2>1. ~NoClient.on /\ \A topics : Opened(topics).snapshot
    BY DEF NoClient, Opened
  <2> QED
    BY <2>1
<1>6. Waits(t)' /\ Told(t)' /\ LogsFollowed(t)'
  BY <1>5 DEF Waits, Told, LogsFollowed, Streams
<1>7. CASE page'[t]["archive"] = page[t]["archive"]
  <2>1. Heard(t)' /\ Growing(t)' /\ UpToDate(t)'
    BY <1>1, <1>4, <1>7 DEF Follows, Heard, Growing, UpToDate, Current, News
  <2> QED
    BY <1>3, <1>6, <2>1, OtherTab DEF Fresh, Polls, Follows
<1>8. CASE page'[t]["archive"] = NewPage
  <2>1. Heard(t)' /\ UpToDate(t)'
    BY <1>2, <1>8 DEF Heard, UpToDate, NewPage, Unread
  <2>2. \A i \in 1..Len(wire[t]) : wire[t][i].topic = "archive" => wire[t][i].version \in Nat
    <3>1. \A i \in 1..Len(wire[t]) : wire[t][i] \in WireEvent
      BY DEF HubTyped
    <3> QED
      BY <3>1 DEF WireEvent, TopicEvent, Ready
  <2>3. Growing(t)'
    <3> SUFFICES ASSUME NEW i \in 1..Len(wire'[t]), wire'[t][i].topic = "archive"
                 PROVE  /\ wire'[t][i].version <= api'.version["archive"]
                        /\ page'[t]["archive"].live <= wire'[t][i].version
                        /\ \A j \in 1..Len(wire'[t]) :
                             i < j /\ wire'[t][j].topic = "archive"
                               => wire'[t][i].version <= wire'[t][j].version
      BY DEF Growing
    <3>1. wire'[t] = wire[t]
      BY <1>4
    <3>2. page'[t]["archive"].live = -1
      BY <1>8 DEF NewPage, Unread
    <3> QED
      BY <1>1, <2>2, <3>1, <3>2 DEF Follows, Growing
  <2> QED
    BY <1>3, <1>6, <2>1, <2>3, OtherTab DEF Fresh, Polls, Follows
<1> QED
  BY <1>7, <1>8

\* What the archive page does with an event: either it knew that version, or it
\* takes what the table holds for what it shows, or it loads again.
LEMMA ArchiveHears ==
  ASSUME Typed, NEW p \in Shown, NEW version \in Nat
  PROVE  LET q == HearsArchive(p, version) IN
         /\ q.run = api.run /\ q.live = version
         /\ q.pc \in {"answered", "idle"} /\ ~q.again => q = p \/ q.adopted = written["archive"]
         /\ (p.pc = "idle" => p.loaded /\ ~p.again) => (q.pc = "idle" => q.loaded /\ ~q.again)
<1> DEFINE r == [p EXCEPT !.live = version, !.run = api.run]
           q == HearsArchive(p, version)
<1>0. version # Unread
  BY DEF Unread
<1>1. CASE version = p.live /\ p.run = api.run
  BY <1>1 DEF HearsArchive
<1>2. CASE ~(version = p.live /\ p.run = api.run) /\ p.live \in {Unread, version}
  <2>1. q = [r EXCEPT !.adopted = written["archive"]]
    BY <1>0, <1>2 DEF HearsArchive
  <2> QED
    BY <2>1 DEF Shown
<1>3. CASE ~(version = p.live /\ p.run = api.run) /\ p.live \notin {Unread, version}
  <2>1. q = IF p.pc = "new" THEN r ELSE IF ~p.loaded THEN AfterLoading(r) ELSE Load(r)
    BY <1>0, <1>3 DEF HearsArchive
  <2>2. CASE p.pc = "new"
    BY <2>1, <2>2 DEF Shown
  <2>3. CASE p.pc # "new" /\ ~p.loaded
    BY <2>1, <2>3 DEF AfterLoading, Deferred, Shown
  <2>4. CASE p.pc # "new" /\ p.loaded
    BY <2>1, <2>4 DEF Load, Shown
  <2> QED
    BY <2>2, <2>3, <2>4
<1> QED
  BY <1>1, <1>2, <1>3

LEMMA ArrivalFresh ==
  ASSUME Typed, Served, Fresh, NEW t \in Tabs, Arrives(t) PROVE Fresh'
<1> USE DEF Typed
<1> DEFINE e == Head(wire[t])
           rest == Tail(wire[t])
<1>1. /\ UNCHANGED <<tabs, api, client, written>>
      /\ wire'[t] = rest /\ \A u \in Tabs \ {t} : wire'[u] = wire[u]
  BY DEF Arrives, telemetryVars, HubTyped
<1>2. wire[t] \in Seq(WireEvent) /\ wire[t] # <<>> /\ e = wire[t][1] /\ e \in WireEvent
      /\ 1 \in 1..Len(wire[t])
  BY DEF Arrives, HubTyped
<1>3. /\ rest \in Seq(WireEvent)
      /\ \A i \in 1..Len(rest) : i + 1 \in 1..Len(wire[t]) /\ rest[i] = wire[t][i + 1]
      /\ \A i \in 1..Len(wire[t]) : i # 1 => i - 1 \in 1..Len(rest) /\ rest[i - 1] = wire[t][i]
  BY <1>2
<1>4. \A u \in Tabs \ {t} : page'[u] = page[u]
  BY DEF Arrives, TabsTyped
<1>5. Follows(t)
  BY DEF Fresh
<1>6. Waits(t)'
  BY <1>1, <1>5 DEF Follows, Waits
<1>7. \A topic \in Topics : page[t][topic] \in Shown
  BY DEF TabsTyped
<1>8. /\ \A i \in 1..Len(rest) : rest[i].topic = "archive" =>
           /\ rest[i].version <= api.version["archive"]
           /\ \A j \in 1..Len(rest) :
                i < j /\ rest[j].topic = "archive" => rest[i].version <= rest[j].version
      /\ \A i \in 1..Len(rest) : rest[i].topic = "archive" /\ page[t]["archive"].run = api.run
           => page[t]["archive"].live <= rest[i].version
  BY <1>3, <1>5 DEF Follows, Growing
<1>9. \A u \in Tabs \ {t} : Follows(u)'
  BY <1>1, <1>4, OtherTab DEF Fresh
<1> HIDE DEF rest
<1>10. SUFFICES Follows(t)'
  BY <1>1, <1>9 DEF Fresh, Polls
<1>11. CASE ~Leads(t)
  <2>1. page'[t] = page[t] /\ ~client'[t].on
    BY <1>1, <1>11 DEF Arrives, Served
  <2>2. Heard(t)' /\ Growing(t)' /\ Rested(t)' /\ UpToDate(t)'
    BY <1>1, <1>5, <1>8, <2>1 DEF Follows, Heard, Growing, Rested, UpToDate, Current, News
  <2>3. Told(t)' /\ LogsFollowed(t)'
    BY <2>1 DEF Told, LogsFollowed, Streams
  <2> QED
    BY <1>6, <2>2, <2>3 DEF Follows
<1>12. CASE Leads(t) /\ e.topic # "archive"
  <2>1. page'[t]["archive"] = page[t]["archive"]
    <3>1. CASE e.topic = "ready"
      BY <1>12, <3>1 DEF Arrives, TabsTyped, Replayed, Hears, HearsArchive, Topics
    <3>2. CASE e.topic # "ready"
      BY <1>12, <3>2 DEF Arrives, TabsTyped, Topics
    <3> QED
      BY <3>1, <3>2
  <2>2. \/ page'[t]["logs"] = page[t]["logs"] /\ "logs" \notin tabs[t].wanted
        \/ page'[t]["logs"] = Load(page[t]["logs"])
    <3>1. CASE e.topic = "ready"
      BY <1>12, <3>1 DEF Arrives, TabsTyped, Replayed, Hears, Topics
    <3>2. CASE e.topic # "ready"
      <4>1. e.topic = "logs"
        BY <1>2, <1>12, <3>2 DEF WireEvent, TopicEvent, Topics, Ready
      <4> QED
        BY <1>12, <4>1 DEF Arrives, TabsTyped, Hears, Topics
    <3> QED
      BY <3>1, <3>2
  <2>3. Load(page[t]["logs"]).pc = "asked"
    BY <1>7 DEF Load, Shown, Topics
  <2>4. Heard(t)' /\ Growing(t)' /\ UpToDate(t)'
    BY <1>1, <1>5, <1>8, <2>1 DEF Follows, Heard, Growing, UpToDate, Current, News
  <2>5. Rested(t)'
    BY <1>5, <2>1, <2>2, <2>3 DEF Follows, Rested, Topics
  <2>6. Told(t)'
    <3>1. ASSUME NEW i \in 1..Len(wire[t]), wire[t][i].topic = "archive"
          PROVE  i - 1 \in 1..Len(rest) /\ rest[i - 1] = wire[t][i]
      BY <1>2, <1>3, <1>12, <3>1
    <3> QED
      BY <1>1, <1>5, <2>1, <3>1 DEF Follows, Told, Streams, Current
  <2>7. LogsFollowed(t)'
    BY <1>1, <2>2, <2>3 DEF LogsFollowed, Streams, Served
  <2> QED
    BY <1>6, <2>4, <2>5, <2>6, <2>7 DEF Follows
<1>13. CASE Leads(t) /\ e.topic = "archive"
  <2> DEFINE p == page[t]["archive"]
             q == page'[t]["archive"]
  <2>1. e.version \in Nat /\ e.version <= api.version["archive"] /\ p \in Shown
    BY <1>2, <1>5, <1>7, <1>13 DEF WireEvent, TopicEvent, Ready, Follows, Growing, Topics
  <2>2. q = HearsArchive(p, e.version) /\ page'[t]["logs"] = page[t]["logs"]
    BY <1>13 DEF Arrives, TabsTyped, Hears, Topics
  <2>3. /\ q.run = api.run /\ q.live = e.version
        /\ q.pc \in {"answered", "idle"} /\ ~q.again => q = p \/ q.adopted = written["archive"]
        /\ (p.pc = "idle" => p.loaded /\ ~p.again) => (q.pc = "idle" => q.loaded /\ ~q.again)
    BY <2>1, <2>2, ArchiveHears
  <2> HIDE DEF q
  <2>4. Heard(t)'
    <3>1. api.run \in Nat
      BY DEF HubTyped, Hub
    <3> QED
      BY <1>1, <2>1, <2>3, <3>1 DEF Heard, q
  <2>5. Growing(t)'
    <3>1. \A i \in 1..Len(rest) : rest[i].topic = "archive" => e.version <= rest[i].version
      <4>1. \A i \in 1..Len(rest) : 1 < i + 1
        BY <1>3
      <4> QED
        BY <1>2, <1>3, <1>5, <1>13, <4>1 DEF Follows, Growing
    <3> QED
      BY <1>1, <1>8, <2>3, <3>1 DEF Growing, q
  <2>6. Rested(t)'
    BY <1>5, <2>2, <2>3 DEF Follows, Rested, Topics, q
  <2>7. UpToDate(t)'
    BY <1>1, <1>5, <2>3 DEF Follows, UpToDate, Current, News, q
  <2>8. Told(t)'
    <3> SUFFICES ASSUME Streams(t, "archive"), ~client[t].snapshot, e.version # api.version["archive"]
                 PROVE  \E i \in 1..Len(rest) :
                          rest[i].topic = "archive" /\ rest[i].version = api.version["archive"]
      BY <1>1, <2>3 DEF Told, Streams, Current, q
    <3>1. ~Current(t)
      BY <1>2, <1>5, <1>13, <2>1 DEF Current, Follows, Growing, HubTyped, Hub, Topics
    <3>2. PICK i \in 1..Len(wire[t]) :
            wire[t][i].topic = "archive" /\ wire[t][i].version = api.version["archive"]
      BY <1>5, <3>1 DEF Follows, Told
    <3>3. i - 1 \in 1..Len(rest) /\ rest[i - 1] = wire[t][i]
      BY <1>2, <1>3, <3>2
    <3> QED
      BY <3>2, <3>3
  <2>9. LogsFollowed(t)'
    <3>1. ASSUME NEW i \in 1..Len(wire[t]), wire[t][i].topic \in {"logs", "ready"}
          PROVE  i - 1 \in 1..Len(rest) /\ rest[i - 1] = wire[t][i]
      BY <1>2, <1>3, <1>13, <3>1
    <3> QED
      BY <1>1, <1>5, <2>2, <3>1 DEF Follows, LogsFollowed, Streams
  <2> QED
    BY <1>6, <2>4, <2>5, <2>6, <2>7, <2>8, <2>9 DEF Follows
<1> QED
  BY <1>11, <1>12, <1>13

\* What the hub writes to a stream keeps its versions in order.
LEMMA WrittenInOrder ==
  ASSUME Typed, HubTyped', NEW t \in Tabs, Follows(t), NEW topics \in SUBSET Topics,
         wire'[t] = Written(t, topics), page'[t] = page[t], api'.run = api.run,
         api'.version["archive"] >= api.version["archive"]
  PROVE  Growing(t)' /\ Heard(t)'
<1> USE DEF Typed
<1> DEFINE n == Len(wire[t])
           old == api.version["archive"]
           now == api'.version["archive"]
           live == page[t]["archive"].live
<1>1. /\ \A i \in 1..n : wire'[t][i] = wire[t][i]
      /\ \A i \in 1..Len(wire'[t]) : i > n => wire'[t][i].version = api'.version[wire'[t][i].topic]
      /\ n \in Nat
  <2>1. HubTyped /\ api' \in Hub /\ wire[t] \in Seq(WireEvent)
    BY DEF HubTyped
  <2>2. \A i \in 1..n : Written(t, topics)[i] = wire[t][i]
    BY <2>1, WrittenEvents
  <2>3. \A i \in 1..Len(Written(t, topics)) : i > n =>
          Written(t, topics)[i].version = api'.version[Written(t, topics)[i].topic]
    BY <2>1, WrittenEvents
  <2> QED
    BY <2>1, <2>2, <2>3
<1>2. old \in Nat /\ now \in Nat /\ live \in Int
  BY DEF HubTyped, Hub, TabsTyped, Shown, Known, Unread, Topics
<1>3. \A i \in 1..n : wire[t][i].topic = "archive" => wire[t][i].version \in Nat
  <2>1. \A i \in 1..n : wire[t][i] \in WireEvent
    BY DEF HubTyped
  <2> QED
    BY <2>1 DEF WireEvent, TopicEvent, Ready
<1>4. Heard(t)'
  BY <1>2 DEF Follows, Heard
<1>5. \A i \in 1..Len(wire'[t]) : wire'[t][i].topic = "archive" =>
        \/ i > n /\ wire'[t][i].version = now
        \/ i \in 1..n /\ wire'[t][i] = wire[t][i] /\ wire[t][i].version <= old
  BY <1>1 DEF Follows, Growing
<1>6. page[t]["archive"].run = api.run => live <= old
  BY DEF Follows, Heard
<1>7. Growing(t)'
  <2> SUFFICES ASSUME NEW i \in 1..Len(wire'[t]), wire'[t][i].topic = "archive"
               PROVE  /\ wire'[t][i].version <= now
                      /\ page[t]["archive"].run = api.run => live <= wire'[t][i].version
                      /\ \A j \in 1..Len(wire'[t]) :
                           i < j /\ wire'[t][j].topic = "archive"
                             => wire'[t][i].version <= wire'[t][j].version
    BY DEF Growing
  <2>1. CASE i > n /\ wire'[t][i].version = now
    <3>1. \A j \in 1..Len(wire'[t]) : i < j /\ wire'[t][j].topic = "archive" => wire'[t][j].version = now
      BY <1>1, <1>5, <2>1
    <3> QED
      BY <1>2, <1>6, <2>1, <3>1
  <2>2. CASE i \in 1..n /\ wire'[t][i] = wire[t][i] /\ wire[t][i].version <= old
    <3>1. wire[t][i].version \in Nat /\ wire[t][i].version <= now
      BY <1>2, <1>3, <2>2
    <3>2. page[t]["archive"].run = api.run => live <= wire[t][i].version
      BY <2>2 DEF Follows, Growing
    <3>3. ASSUME NEW j \in 1..Len(wire'[t]), i < j, wire'[t][j].topic = "archive"
          PROVE  wire'[t][i].version <= wire'[t][j].version
      BY <1>5, <2>2, <3>1, <3>3 DEF Follows, Growing
    <3> QED
      BY <2>2, <3>1, <3>2, <3>3
  <2> QED
    BY <1>5, <2>1, <2>2
<1> QED
  BY <1>4, <1>7

LEMMA BroadcastFresh ==
  ASSUME Typed, HubTyped', Fresh, NEW slow \in SUBSET Tabs, Broadcast(slow), UNCHANGED browserVars
  PROVE  Fresh'
<1> USE DEF Typed
<1>1. /\ UNCHANGED <<tabs, page, written>>
      /\ api'.pending = {} /\ api'.polled = api.polled /\ api'.seen = api.seen
      /\ api'.baseline = api.baseline /\ api'.reading = api.reading /\ api'.run = api.run
      /\ \A topic \in Topics :
           api'.version[topic] = api.version[topic] + (IF topic \in api.pending THEN 1 ELSE 0)
  BY DEF Broadcast, telemetryVars, browserVars, HubTyped, Hub
<1>2. \A topic \in Topics : api.version[topic] \in Nat
  BY DEF HubTyped, Hub
<1>3. api.pending \in SUBSET Topics /\ api' \in Hub
  BY DEF HubTyped, Hub
<1>4. "archive" \in Topics /\ "logs" \in Topics
  BY DEF Topics
<1>5. api'.version["archive"] >= api.version["archive"] /\ api'.version["archive"] \in Nat
  BY <1>1, <1>2, <1>4
<1>6. ASSUME NEW t \in Tabs PROVE Follows(t)'
  <2>1. Follows(t) /\ page'[t] = page[t] /\ client[t] \in Client
    BY <1>1 DEF Fresh, HubTyped
  <2> DEFINE due == client[t].topics \cap api.pending
  <2>2. \/ client'[t] = NoClient /\ wire'[t] = <<>>
        \/ /\ client'[t].on = client[t].on /\ client'[t].topics = client[t].topics
           /\ client'[t].snapshot = client[t].snapshot
           /\ \/ wire'[t] = wire[t] /\ client'[t].missed = client[t].missed \cup due
              \/ wire'[t] = Written(t, api.pending) /\ client'[t].missed = client[t].missed \ due
    <3>1. CASE t \in slow /\ client[t].blocked
      BY <3>1 DEF Broadcast
    <3>2. CASE t \in slow /\ ~client[t].blocked
      BY <2>1, <3>2 DEF Broadcast, Client
    <3>3. CASE t \notin slow
      BY <2>1, <3>3 DEF Broadcast, Client
    <3> QED
      BY <3>1, <3>2, <3>3
  <2>3. Rested(t)'
    BY <2>1 DEF Follows, Rested
  <2>4. UpToDate(t)'
    <3>1. CASE "archive" \in api.pending
      <4>1. page[t]["archive"].run = api.run
              => page[t]["archive"].live <= api.version["archive"] /\ page[t]["archive"].live \in Int
        BY <1>4, <2>1 DEF Follows, Heard, TabsTyped, Shown, Known, Unread
      <4>2. ~Current(t)'
        BY <1>1, <1>2, <1>4, <2>1, <3>1, <4>1 DEF Current
      <4> QED
        BY <4>2 DEF UpToDate
    <3>2. CASE "archive" \notin api.pending
      <4>1. api'.version["archive"] = api.version["archive"]
        BY <1>1, <1>2, <1>4, <3>2
      <4> QED
        BY <1>1, <2>1, <3>2, <4>1 DEF Follows, UpToDate, Current, News
    <3> QED
      BY <3>1, <3>2
  <2>5. CASE client'[t] = NoClient /\ wire'[t] = <<>>
    <3>1. Heard(t)' /\ Growing(t)'
      <4>1. page[t]["archive"].live \in Int
        BY <1>4 DEF TabsTyped, Shown, Known, Unread
      <4> QED
        BY <1>1, <1>2, <1>4, <1>5, <2>1, <2>5, <4>1 DEF Follows, Heard, Growing
    <3>2. Waits(t)' /\ Told(t)' /\ LogsFollowed(t)'
      BY <2>5 DEF Waits, Told, LogsFollowed, Streams, NoClient
    <3> QED
      BY <2>3, <2>4, <3>1, <3>2 DEF Follows
  <2>6. ASSUME client'[t].on = client[t].on, client'[t].topics = client[t].topics,
               client'[t].snapshot = client[t].snapshot, wire'[t] = wire[t],
               client'[t].missed = client[t].missed \cup due
        PROVE  Follows(t)'
    <3>1. Heard(t)' /\ Growing(t)'
      <4>1. page[t]["archive"].live \in Int
        BY <1>4 DEF TabsTyped, Shown, Known, Unread
      <4>2. \A i \in 1..Len(wire[t]) : wire[t][i].topic = "archive" => wire[t][i].version \in Nat
        <5>1. \A i \in 1..Len(wire[t]) : wire[t][i] \in WireEvent
          BY DEF HubTyped
        <5> QED
          BY <5>1 DEF WireEvent, TopicEvent, Ready
      <4> QED
        BY <1>1, <1>2, <1>4, <1>5, <2>1, <2>6, <4>1, <4>2 DEF Follows, Heard, Growing
    <3>2. Waits(t)'
      BY <1>1, <2>1, <2>6 DEF Follows, Waits
    <3>3. Told(t)'
      <4> SUFFICES ASSUME Streams(t, "archive")' PROVE Told(t)'
        BY DEF Told
      <4>1. Streams(t, "archive") /\ "archive" \notin api.pending
        BY <1>1, <2>6 DEF Streams
      <4>2. api'.version["archive"] = api.version["archive"]
        BY <1>1, <1>2, <1>4, <4>1
      <4> QED
        BY <1>1, <2>1, <2>6, <4>1, <4>2 DEF Follows, Told, Current
    <3>4. LogsFollowed(t)'
      <4> SUFFICES ASSUME Streams(t, "logs")' PROVE LogsFollowed(t)'
        BY DEF LogsFollowed
      <4>1. Streams(t, "logs") /\ "logs" \notin api.pending
        BY <1>1, <2>6 DEF Streams
      <4> QED
        BY <1>1, <2>1, <2>6, <4>1 DEF Follows, LogsFollowed
    <3> QED
      BY <2>3, <2>4, <3>1, <3>2, <3>3, <3>4 DEF Follows
  <2>7. ASSUME client'[t].on = client[t].on, client'[t].topics = client[t].topics,
               client'[t].snapshot = client[t].snapshot, wire'[t] = Written(t, api.pending),
               client'[t].missed = client[t].missed \ due
        PROVE  Follows(t)'
    <3>1. Heard(t)' /\ Growing(t)'
      BY <1>1, <1>3, <1>5, <2>1, <2>7, WrittenInOrder
    <3>2. Waits(t)'
      BY <1>1, <2>1, <2>7 DEF Follows, Waits
    <3>3. \A topic \in due : \E i \in 1..Len(wire'[t]) :
            wire'[t][i].topic = topic /\ wire'[t][i].version = api'.version[topic]
      BY <1>3, <2>7, WrittenEvents
    <3>4. wire[t] \in Seq(WireEvent) /\ wire'[t] \in Seq(WireEvent) /\ Len(wire'[t]) >= Len(wire[t])
          /\ \A i \in 1..Len(wire[t]) : wire'[t][i] = wire[t][i]
      <4>1. wire[t] \in Seq(WireEvent) /\ wire'[t] \in Seq(WireEvent)
        BY DEF HubTyped
      <4>2. Len(wire'[t]) >= Len(wire[t]) /\ \A i \in 1..Len(wire[t]) : wire'[t][i] = wire[t][i]
        BY <1>3, <2>7, WrittenEvents
      <4> QED
        BY <4>1, <4>2
    <3>5. \A i \in 1..Len(wire[t]) : i \in 1..Len(wire'[t]) /\ wire'[t][i] = wire[t][i]
      BY <3>4
    <3>6. Told(t)'
      <4> SUFFICES ASSUME Streams(t, "archive")' PROVE Told(t)'
        BY DEF Told
      <4>1. CASE "archive" \in api.pending
        BY <2>7, <3>3, <4>1 DEF Told, Streams
      <4>2. CASE "archive" \notin api.pending
        <5>1. api'.version["archive"] = api.version["archive"]
          BY <1>1, <1>2, <1>4, <4>2
        <5>2. Streams(t, "archive")
          BY <1>1, <2>7, <4>2 DEF Streams
        <5> QED
          BY <1>1, <2>1, <2>7, <3>5, <5>1, <5>2 DEF Follows, Told, Current
      <4> QED
        BY <4>1, <4>2
    <3>7. LogsFollowed(t)'
      <4> SUFFICES ASSUME Streams(t, "logs")' PROVE LogsFollowed(t)'
        BY DEF LogsFollowed
      <4>1. CASE "logs" \in api.pending
        BY <2>7, <3>3, <4>1 DEF LogsFollowed, Streams
      <4>2. CASE "logs" \notin api.pending
        <5>1. Streams(t, "logs")
          BY <1>1, <2>7, <4>2 DEF Streams
        <5> QED
          BY <1>1, <2>1, <2>7, <3>5, <4>2, <5>1 DEF Follows, LogsFollowed
      <4> QED
        BY <4>1, <4>2
    <3> QED
      BY <2>3, <2>4, <3>1, <3>2, <3>6, <3>7 DEF Follows
  <2> QED
    BY <2>2, <2>5, <2>6, <2>7
<1> QED
  BY <1>1, <1>6 DEF Fresh, Polls

LEMMA PollFresh ==
  ASSUME Typed, HubTyped', Fresh, PollEmits, UNCHANGED browserVars PROVE Fresh'
<1> USE DEF Typed
<1> DEFINE read == api.reading[1]
           new == IF api.polled THEN Differs(read) ELSE {}
<1>1. /\ UNCHANGED <<tabs, page, written>>
      /\ api'.pending = api.pending \cup new /\ api'.polled = TRUE /\ api'.reading = <<>>
      /\ api'.seen = (IF api.polled
                      THEN [topic \in Topics |-> IF topic \in new THEN read[topic] ELSE api.seen[topic]]
                      ELSE read)
      /\ api'.baseline = (IF api.polled THEN api.baseline ELSE read)
      /\ api'.version = api.version /\ api'.run = api.run
  BY DEF PollEmits, telemetryVars, browserVars, HubTyped, Hub
<1>2. 1 \in 1..Len(api.reading)
  <2>1. api.reading \in Seq(Versions) /\ api.reading # <<>>
    BY DEF PollEmits, HubTyped, Hub
  <2> QED
    BY <2>1
<1>3. \A topic \in Topics : read[topic] <= written[topic]
  BY <1>2 DEF Fresh, Polls
<1>4. Polls'
  BY <1>1, <1>3 DEF Fresh, Polls
<1>5. "archive" \in Topics /\ "logs" \in Topics /\ Topics \in SUBSET Topics
  BY DEF Topics
<1>6. \A topic \in Topics : api.polled /\ api.seen[topic] # written[topic] =>
        topic \in api'.pending \/ api'.seen[topic] # written[topic]
  BY <1>1
<1>7. api'.version["archive"] >= api.version["archive"]
  BY <1>1, <1>5 DEF HubTyped, Hub
<1>8. ASSUME NEW t \in Tabs PROVE Follows(t)'
  <2>1. Follows(t) /\ page'[t] = page[t]
    BY <1>1 DEF Fresh
  <2>2. /\ client'[t].on = client[t].on /\ client'[t].topics = client[t].topics
        /\ client'[t].missed = client[t].missed /\ ~client'[t].snapshot
        /\ wire'[t] = IF client[t].snapshot THEN Written(t, Topics) ELSE wire[t]
    BY DEF PollEmits, HubTyped, Client
  <2>3. Rested(t)' /\ Waits(t)'
    BY <1>1, <2>1 DEF Follows, Rested, Waits
  <2>4. UpToDate(t)'
    <3> DEFINE p == page[t]["archive"]
    <3> SUFFICES ASSUME Current(t)', p.pc \in {"answered", "idle"}, ~p.again
                 PROVE  \/ p.at = written["archive"] \/ News'
                        \/ written["archive"] \in {api'.baseline["archive"], p.adopted}
      BY <1>1, <2>1 DEF UpToDate
    <3>1. CASE ~api.polled
      BY <1>1, <3>1 DEF News
    <3>2. CASE api.polled
      BY <1>1, <1>5, <1>6, <2>1, <3>2 DEF Follows, UpToDate, Current, News
    <3> QED
      BY <3>1, <3>2
  <2>5. CASE client[t].snapshot
    <3>1. Heard(t)' /\ Growing(t)'
      BY <1>1, <1>5, <1>7, <2>1, <2>2, <2>5, WrittenInOrder
    <3>2. \A topic \in client[t].topics : \E i \in 1..Len(wire'[t]) :
            wire'[t][i].topic = topic /\ wire'[t][i].version = api'.version[topic]
      <4>1. api' \in Hub /\ client[t].topics \subseteq Topics
        BY DEF HubTyped, Client
      <4> QED
        BY <1>5, <2>2, <2>5, <4>1, WrittenEvents
    <3>3. Told(t)' /\ LogsFollowed(t)'
      BY <2>2, <3>2 DEF Told, LogsFollowed, Streams
    <3> QED
      BY <2>3, <2>4, <3>1, <3>3 DEF Follows
  <2>6. CASE ~client[t].snapshot
    <3>1. Heard(t)' /\ Growing(t)' /\ Told(t)'
      BY <1>1, <2>1, <2>2, <2>6 DEF Follows, Heard, Growing, Told, Streams, Current
    <3>2. LogsFollowed(t)'
      BY <1>1, <1>5, <1>6, <2>1, <2>2, <2>6 DEF Follows, LogsFollowed, Streams, Waits
    <3> QED
      BY <2>3, <2>4, <3>1, <3>2 DEF Follows
  <2> QED
    BY <2>5, <2>6
<1> QED
  BY <1>4, <1>8 DEF Fresh

LEMMA HubFresh ==
  ASSUME Typed, HubTyped', Fresh, HubNext, UNCHANGED browserVars PROVE Fresh'
<1> USE DEF Typed
<1>1. ASSUME NEW delivered \in SUBSET posts, PostEvents(delivered) PROVE Fresh'
  <2>1. /\ UNCHANGED <<tabs, page, written, client, wire>>
        /\ api'.pending = api.pending \cup delivered /\ api'.polled = api.polled
        /\ api'.seen = api.seen /\ api'.baseline = api.baseline /\ api'.reading = api.reading
        /\ api'.run = api.run /\ api'.version = api.version
    BY <1>1 DEF PostEvents, browserVars, HubTyped, Hub
  <2>2. \A t \in Tabs : Follows(t) => Follows(t)'
    BY <2>1 DEF Follows, Heard, Growing, Waits, Rested, Told, UpToDate, LogsFollowed, Streams,
                News, Current
  <2> QED
    BY <2>1, <2>2 DEF Fresh, Polls
<1>2. CASE PollReads
  <2> DEFINE read == [topic \in Topics |-> IF topic \in Watched THEN written[topic] ELSE Unread]
  <2>1. /\ UNCHANGED <<tabs, page, written, client, wire>>
        /\ api'.pending = api.pending /\ api'.polled = api.polled
        /\ api'.seen = api.seen /\ api'.baseline = api.baseline /\ api'.reading = <<read>>
        /\ api'.run = api.run /\ api'.version = api.version
    BY <1>2 DEF PollReads, browserVars, telemetryVars, HubTyped, Hub
  <2>2. \A t \in Tabs : Follows(t) => Follows(t)'
    BY <2>1 DEF Follows, Heard, Growing, Waits, Rested, Told, UpToDate, LogsFollowed, Streams,
                News, Current
  <2>3. \A topic \in Topics : read[topic] <= written[topic]
    BY DEF EngineTyped, Unread
  <2>4. Polls'
    BY <2>1, <2>3 DEF Fresh, Polls
  <2> QED
    BY <2>2, <2>4 DEF Fresh
<1>3. CASE ApiRestarts
  <2>1. /\ UNCHANGED <<tabs, page, written>>
        /\ api' = [NewApi EXCEPT !.run = api.run + 1]
        /\ \A t \in Tabs : ~client'[t].on /\ wire'[t] = <<>>
    BY <1>3 DEF ApiRestarts, telemetryVars, browserVars, NoClient
  <2>2. /\ api'.run = api.run + 1 /\ api.run \in Nat /\ api'.reading = <<>>
        /\ \A topic \in Topics : api'.seen[topic] = -1
    BY <2>1 DEF NewApi, Unpolled, Unread, HubTyped, Hub
  <2>3. Polls'
    BY <2>1, <2>2 DEF Polls, EngineTyped
  <2>4. ASSUME NEW t \in Tabs PROVE Follows(t)'
    <3>1. Follows(t) /\ page[t]["archive"].run \in Nat
      BY DEF Fresh, TabsTyped, Shown, Topics
    <3>2. page[t]["archive"].run < api'.run
      BY <2>2, <3>1 DEF Follows, Heard
    <3>3. Heard(t)' /\ UpToDate(t)'
      BY <2>1, <2>2, <3>1, <3>2 DEF Heard, UpToDate, Current
    <3>4. Growing(t)' /\ Waits(t)' /\ Rested(t)' /\ Told(t)' /\ LogsFollowed(t)'
      BY <2>1, <3>1 DEF Follows, Growing, Waits, Rested, Told, LogsFollowed, Streams
    <3> QED
      BY <3>3, <3>4 DEF Follows
  <2> QED
    BY <2>3, <2>4 DEF Fresh
<1> QED
  BY <1>1, <1>2, <1>3, BroadcastFresh, PollFresh DEF HubNext

\* A claim, a leave or a yield touches no page but for replays.
LEMMA ReplayedPages ==
  ASSUME Typed, NEW t \in Tabs, NEW wanted
  PROVE  /\ Replayed(t, wanted)["archive"] = page[t]["archive"]
         /\ Replayed(t, wanted)["logs"] \in {page[t]["logs"], Load(page[t]["logs"])}
BY DEF Replayed, Hears, HearsArchive, Topics

LEMMA ClaimFresh ==
  ASSUME Typed, Fresh, NEW t \in Tabs, NEW now \in Tab, NEW tick \in {0, 1}, Claims(t, now, tick),
         written' = written, NEW next, page' = [page EXCEPT ![t] = next],
         next["archive"] \in {page[t]["archive"], NewPage},
         next["logs"] \in {page[t]["logs"], NewPage, Load(page[t]["logs"])}
  PROVE  Fresh'
<1> USE DEF Typed
<1>1. \A u \in Tabs \ {t} : tabs'[u] = tabs[u]
  BY DEF Claims, TabsTyped
<1>2. now.wanted \in SUBSET Topics /\ StreamTo(t, now.wanted)
  BY DEF Claims, Tab
<1>3. /\ api' = api
      /\ \A u \in Tabs \ {t} : client'[u] = client[u] /\ wire'[u] = wire[u]
      /\ client'[t] = IF now.wanted = {} THEN NoClient ELSE Opened(now.wanted)
      /\ wire'[t] = IF now.wanted = {} THEN <<>> ELSE <<Ready>>
  BY <1>2, StreamOpens
<1>4. page'[t] = next /\ \A u \in Tabs \ {t} : page'[u] = page[u]
  BY DEF TabsTyped
<1>5. \/ client'[t] = NoClient /\ wire'[t] = <<>>
      \/ \E topics \in SUBSET Topics : client'[t] = Opened(topics) /\ wire'[t] = <<Ready>>
  BY <1>2, <1>3
<1> QED
  BY <1>1, <1>3, <1>4, <1>5, StreamFresh

\* What the other tabs hear of a step changes nothing at the hub.
LEMMA MailFresh ==
  ASSUME Fresh, UNCHANGED <<api, written, client, wire, page>>,
         \A t \in Tabs : tabs'[t].stream = tabs[t].stream
  PROVE  Fresh'
BY OtherTab DEF Fresh, Polls

LEMMA TabFresh ==
  ASSUME Typed, Elected, Fresh, NEW t \in Tabs,
         \/ \E wanted \in left.views : Navigate(t, wanted)
         \/ \E tells \in BOOLEAN : CloseTab(t, tells)
         \/ Hide(t) \/ Show(t) \/ Heartbeat(t) \/ Receive(t) \/ Arrives(t) \/ Reconnects(t)
  PROVE  Fresh'
<1> USE DEF Typed
<1> DEFINE Closes == client'[t] = NoClient /\ wire'[t] = <<>>
           OpensTab(topics) == client'[t] = Opened(topics) /\ wire'[t] = <<Ready>>
           Others == \A u \in Tabs \ {t} : client'[u] = client[u] /\ wire'[u] = wire[u]
<1>1. ASSUME NEW topics \in SUBSET Topics, StreamTo(t, topics)
      PROVE  api' = api /\ Others /\ (Closes \/ OpensTab(topics))
  BY <1>1, StreamOpens
<1>2. ASSUME NEW wanted \in left.views, Navigate(t, wanted) PROVE Fresh'
  <2>1. wanted \in SUBSET Topics
    BY DEF LeftTyped, Budget
  <2>2. /\ written' = written
        /\ \A u \in Tabs \ {t} : page'[u] = page[u] /\ tabs'[u] = tabs[u]
        /\ \A topic \in Topics : page'[t][topic] \in {page[t][topic], NewPage}
    BY <1>2 DEF Navigate, telemetryVars, TabsTyped
  <2>3. CASE Leads(t)
    BY <1>1, <1>2, <2>1, <2>2, <2>3, StreamFresh DEF Navigate, Topics
  <2>4. CASE ~Leads(t)
    <3>1. ~client[t].on
      BY <2>4 DEF Elected, Served
    <3>2. UNCHANGED <<api, client, wire>>
      BY <1>2, <2>4 DEF Navigate, hubVars
    <3> QED
      BY <2>2, <3>1, <3>2, StreamFresh DEF Topics
  <2> QED
    BY <2>3, <2>4
<1>3. ASSUME NEW now \in Tab, NEW tells \in BOOLEAN, Leaves(t, now, tells) PROVE Fresh'
  <2>1. /\ written' = written /\ StreamTo(t, {})
        /\ \A u \in Tabs \ {t} : page'[u] = page[u] /\ tabs'[u] = tabs[u]
        /\ \A topic \in Topics : page'[t][topic] \in {page[t][topic], NewPage}
    BY <1>3 DEF Leaves, telemetryVars, TabsTyped
  <2> QED
    BY <1>1, <2>1, StreamFresh DEF Topics
<1>4. ASSUME NEW tells \in BOOLEAN, CloseTab(t, tells) PROVE Fresh'
  <2>1. Closed \in Tab
    BY DEF Closed, Tab
  <2> QED
    BY <1>3, <1>4, <2>1 DEF CloseTab
<1>5. CASE Hide(t)
  <2>1. [tabs[t] EXCEPT !.visible = FALSE, !.stream = FALSE,
                        !.leader = IF @ = t THEN Nobody ELSE @] \in Tab
    BY DEF TabsTyped, Tab
  <2> QED
    BY <1>3, <1>5, <2>1 DEF Hide
<1>6. CASE Show(t)
  <2>1. \A u \in Tabs : tabs'[u].stream = tabs[u].stream
    BY <1>6 DEF Show, TabsTyped, Tab
  <2> QED
    BY <1>6, <2>1, MailFresh DEF Show, hubVars, telemetryVars
<1>7. CASE Heartbeat(t)
  BY <1>7, MailFresh DEF Heartbeat, hubVars, telemetryVars
<1>8. CASE Receive(t)
  <2>1. UNCHANGED <<page, written>> /\ \A u \in Tabs \ {t} : tabs'[u] = tabs[u]
    BY <1>8 DEF Receive, telemetryVars, TabsTyped
  <2>2. CASE StreamTo(t, {})
    BY <1>1, <2>1, <2>2, StreamFresh
  <2>3. CASE ~StreamTo(t, {})
    <3>1. UNCHANGED <<api, client, wire>> /\ tabs'[t].stream = tabs[t].stream
      BY <1>8, <2>3 DEF Receive, hubVars, TabsTyped, Tab
    <3> QED
      BY <2>1, <3>1, MailFresh
  <2> QED
    BY <2>2, <2>3
<1>9. CASE Arrives(t)
  BY <1>9, ArrivalFresh DEF Elected
<1>10. CASE Reconnects(t)
  <2>1. StreamTo(t, tabs[t].wanted) /\ UNCHANGED <<tabs, page, written>>
    BY <1>10 DEF Reconnects, browserVars, telemetryVars
  <2>2. tabs[t].wanted \in SUBSET Topics
    BY DEF TabsTyped, Tab
  <2> QED
    BY <1>1, <2>1, <2>2, StreamFresh
<1> QED
  BY <1>2, <1>4, <1>5, <1>6, <1>7, <1>8, <1>9, <1>10

LEMMA FreshKept ==
  ASSUME Typed, Typed', Elected, Fresh, [Next]_vars PROVE Fresh'
<1> USE DEF Typed
<1>1. CASE EngineNext /\ UNCHANGED <<hubVars, browserVars>>
  BY <1>1, EngineFresh
<1>2. CASE HubNext /\ UNCHANGED browserVars
  BY <1>2, HubFresh
<1>3. CASE BrowserNext
  <2>1. ASSUME NEW t \in Tabs, NEW tick \in {0, 1}, NEW wanted \in left.views, OpenTab(t, wanted, tick)
        PROVE  Fresh'
    <3> DEFINE now == [Closed EXCEPT !.open = TRUE, !.visible = TRUE, !.wanted = wanted]
               next == [topic \in Topics |-> NewPage]
    <3>1. now \in Tab
      BY DEF LeftTyped, Budget, Closed, Tab
    <3>2. Claims(t, now, tick) /\ written' = written /\ page' = [page EXCEPT ![t] = next]
      BY <2>1 DEF OpenTab, telemetryVars
    <3>3. next["archive"] = NewPage /\ next["logs"] = NewPage
      BY DEF Topics
    <3> HIDE DEF now, next
    <3> QED
      BY <3>1, <3>2, <3>3, ClaimFresh
  <2>2. ASSUME NEW t \in Tabs, NEW tick \in {0, 1}, Focus(t, tick) \/ EnsureLeader(t, tick)
        PROVE  Fresh'
    <3> DEFINE next == Replayed(t, tabs[t].wanted)
    <3>1. /\ Claims(t, tabs[t], tick) /\ written' = written /\ page' = [page EXCEPT ![t] = next]
          /\ tabs[t] \in Tab
      BY <2>2 DEF Focus, EnsureLeader, telemetryVars, TabsTyped
    <3>2. next["archive"] = page[t]["archive"]
          /\ next["logs"] \in {page[t]["logs"], Load(page[t]["logs"])}
      BY ReplayedPages
    <3> HIDE DEF next
    <3> QED
      BY <3>1, <3>2, ClaimFresh
  <2> QED
    BY <1>3, <2>1, <2>2, PageFresh, TabFresh DEF BrowserNext
<1>4. CASE UNCHANGED vars
  <2>1. UNCHANGED <<api, written, client, wire, page, tabs>>
    BY <1>4 DEF vars, hubVars, browserVars, telemetryVars
  <2> QED
    BY <2>1, MailFresh
<1> QED
  BY <1>1, <1>2, <1>3, <1>4 DEF Next

LEMMA FlushKept ==
  ASSUME Typed, FlushInOrder, [Next]_vars PROVE FlushInOrder'
<1>1. CASE EngineNext
  BY <1>1, FlushStep
<1>2. CASE HubNext \/ BrowserNext
  BY <1>2, OthersLeaveTheEngine DEF FlushInOrder
<1>3. CASE UNCHANGED vars
  BY <1>3 DEF FlushInOrder, vars, telemetryVars
<1> QED
  BY <1>1, <1>2, <1>3 DEF Next

-----------------------------------------------------------------------------
(* The theorems.                                                           *)

LEMMA LiveStarts == Init => LiveInv
<1> SUFFICES ASSUME Init PROVE LiveInv
  OBVIOUS
<1> USE DEF Init
<1>1. EngineTyped /\ FlushInOrder
  BY DEF TelemetryInit, EngineTyped, FlushInOrder, Flush, NoFlush
<1>2. HubTyped
  <2>1. Unpolled \in Versions /\ <<>> \in Seq(Versions)
    BY DEF Unpolled, Unread, Versions, Known
  <2>2. NewApi \in Hub
    BY <2>1 DEF NewApi, Hub
  <2> QED
    BY <2>2 DEF HubInit, HubTyped, NoClient, Client
<1>3. TabsTyped
  <2>1. Closed \in Tab
    BY DEF Closed, Tab
  <2> QED
    BY <2>1, NewPageTyped DEF BrowserInit, TabsTyped
<1>4. LeftTyped
  BY TelemetryAssumption DEF LeftTyped, Budget
<1>5. Elected
  BY TabsAssumption
     DEF BrowserInit, HubInit, Elected, Served, Leases, Contested, IsLeader, Closed, NoClient
<1>6. Polls
  BY DEF Polls, HubInit, NewApi, Unpolled, Unread, TelemetryInit
<1>7. ASSUME NEW t \in Tabs PROVE Follows(t)
  <2>1. /\ page[t]["archive"] = NewPage /\ page[t]["logs"] = NewPage
        /\ wire[t] = <<>> /\ ~client[t].on /\ api.run = 0 /\ api.version["archive"] = 0
    BY DEF BrowserInit, HubInit, NoClient, NewApi, Topics
  <2>2. Heard(t) /\ UpToDate(t)
    BY <2>1 DEF Heard, UpToDate, NewPage, Unread
  <2>3. Growing(t) /\ Waits(t) /\ Rested(t) /\ Told(t) /\ LogsFollowed(t)
    BY <2>1 DEF Growing, Waits, Rested, Told, LogsFollowed, Streams, NewPage, Topics
  <2> QED
    BY <2>2, <2>3 DEF Follows
<1> QED
  BY <1>1, <1>2, <1>3, <1>4, <1>5, <1>6, <1>7 DEF LiveInv, Typed, Fresh

\* The engine's flushes, the hub, the election of the tabs and their pages stay
\* as the invariant says, whatever is lost, killed or restarted.
THEOREM LiveInvariant == Spec => []LiveInv
<1>1. ASSUME LiveInv, [Next]_vars PROVE LiveInv'
  <2>1. Typed'
    BY <1>1, TypesKept DEF LiveInv
  <2>2. FlushInOrder' /\ Elected' /\ Fresh'
    BY <1>1, <2>1, FlushKept, ElectionKept, FreshKept DEF LiveInv
  <2> QED
    BY <2>1, <2>2 DEF LiveInv
<1> QED
  BY LiveStarts, <1>1, PTL DEF Spec

\* Once the messages between the tabs have arrived at most one of them keeps a
\* stream (live-updates.ts:89-131), for any number of tabs.
THEOREM TabsShareOneStream == Spec => []OneStream
<1>1. LiveInv => OneStream
  <2> SUFFICES ASSUME LiveInv, \A t \in Tabs : mail[t] = <<>>, NEW t \in Tabs, NEW u \in Tabs,
                      tabs[t].stream, tabs[u].stream, t # u
               PROVE  FALSE
    BY DEF OneStream
  <2>1. tabs[t].open /\ tabs[u].open /\ IsLeader(t) /\ IsLeader(u)
    BY DEF LiveInv, Elected, Served, Leads
  <2>2. Unseated(t) \/ Unseated(u)
    BY <2>1 DEF LiveInv, Elected, Contested
  <2> QED
    BY <2>2 DEF Unseated
<1> QED
  BY <1>1, LiveInvariant, PTL

\* When nothing is on its way any more the tab that streams shows its topics as
\* they are in the tables, but for the four cases that FreshWhenQuiet names.
THEOREM StreamingTabIsFresh == Spec => []FreshWhenQuiet
<1>1. LiveInv => FreshWhenQuiet
  <2> SUFFICES ASSUME LiveInv, Quiet, NEW t \in Tabs, tabs[t].stream, client[t].on,
                      NEW topic \in tabs[t].wanted \ client[t].missed, page[t][topic].pc = "idle"
               PROVE  \/ page[t][topic].at = written[topic]
                      \/ /\ topic = "archive"
                         /\ written[topic] \in {api.baseline[topic], page[t][topic].adopted}
    BY DEF FreshWhenQuiet
  <2>1. client[t].topics = tabs[t].wanted /\ topic \in Topics
    BY DEF LiveInv, Elected, Served, Typed, TabsTyped, Tab
  <2>2. Follows(t) /\ Streams(t, topic)
    BY <2>1 DEF LiveInv, Fresh, Streams
  <2>3. topic \in Watched /\ api.seen[topic] = written[topic] /\ api.pending = {} /\ api.polled
        /\ wire[t] = <<>> /\ ~client[t].snapshot
    BY <2>1 DEF Quiet, Watched, Watching
  <2>4. CASE topic = "archive"
    <3>1. Current(t)
      BY <2>2, <2>3, <2>4 DEF Follows, Told
    <3>2. ~News /\ ~page[t]["archive"].again
      BY <2>2, <2>3, <2>4 DEF News, Follows, Rested, Topics
    <3> QED
      BY <2>2, <2>4, <3>1, <3>2 DEF Follows, UpToDate
  <2>5. CASE topic = "logs"
    BY <2>2, <2>3, <2>5 DEF Follows, LogsFollowed
  <2> QED
    BY <2>1, <2>4, <2>5 DEF Topics
<1> QED
  BY <1>1, LiveInvariant, PTL

\* What was recorded is written, held for a flush, or went down with its engine;
\* no flush that fails and none that is joined lets go of it (db.ts:540-576).
THEOREM WhatIsRecordedStays == Spec => NothingIsForgotten
<1>1. ASSUME LiveInv, [Next]_vars PROVE \A i \in Items : Safe(i) => Safe(i)'
  <2>1. CASE EngineNext
    BY <1>1, <2>1, SafeStep DEF LiveInv
  <2>2. CASE HubNext \/ BrowserNext
    BY <2>2, OthersLeaveTheEngine DEF Safe, Held
  <2>3. CASE UNCHANGED vars
    BY <2>3 DEF Safe, Held, vars, telemetryVars
  <2> QED
    BY <1>1, <2>1, <2>2, <2>3 DEF Next
<1>2. ASSUME LiveInv, [Next]_vars
      PROVE  [\A i \in Items : i \in Held \/ copies[i] > 0 \/ i \in lost
                => (i \in Held \/ copies[i] > 0 \/ i \in lost)']_vars
  BY <1>1, <1>2 DEF Safe
<1> QED
  BY LiveInvariant, <1>2, PTL DEF Spec, NothingIsForgotten

-----------------------------------------------------------------------------
(***************************************************************************)
(* RulesPage, for any clients, groups, subscriptions and texts: a          *)
(* subscription follows its group and the site list is the union of the    *)
(* groups' but where a route is known to leave them behind, the built-in   *)
(* steps stay, and no draft is lost.                                       *)
(***************************************************************************)

(* The types.                                                              *)

Waiting == {"read", "done", "refused"}
Running == Waiting \cup {"open"}

CreateRequests ==
    {q \in [op : {"create"}, stage : Running, id : GroupIds \cup {0}, reading : ReadingRows,
            sites : SUBSET Sites, steps : SUBSET Steps, union : SUBSET Sites, late : BOOLEAN] :
       q.id = 0 => q.stage \in {"read", "refused"}}
EditRequests == [op : {"edit"}, stage : Waiting, id : GroupIds, reading : ReadingRows]
RemoveRequests == [op : {"remove"}, stage : Running, id : GroupIds, fallback : GroupIds,
                   seen : ReadingRows \cup {None}, rows : SUBSET Subs, union : SUBSET Sites,
                   late : BOOLEAN]
SitesRequests == [op : {"sites"}, stage : Running, id : GroupIds, sites : SUBSET Sites,
                  union : SUBSET Sites, late : BOOLEAN]
StepsRequests == [op : {"steps"}, stage : Waiting, id : GroupIds, steps : SUBSET Steps]
AllRequests == [op : {"all"}, stage : Running, kept : SUBSET GroupIds, gone : SUBSET GroupIds,
                first : GroupIds, reading : ReadingRows, sites : SUBSET Sites,
                rows : SUBSET Subs, union : SUBSET Sites, late : BOOLEAN]
SubscribeRequests == [op : {"subscribe"}, stage : Waiting, sub : Subs, id : GroupIds,
                      seen : ReadingRows, own : Texts, new : BOOLEAN, paged : BOOLEAN]
Requests == {Idle} \cup CreateRequests \cup EditRequests \cup RemoveRequests \cup SitesRequests
            \cup StepsRequests \cup AllRequests \cup SubscribeRequests

GroupsTyped == groups \in [GroupIds -> GroupRows \cup {None}]
SubsTyped == subs \in [Subs -> SubscriptionRows \cup {None}]

RulesTyped ==
    /\ GroupsTyped
    /\ SubsTyped
    /\ nextGroup \in 1..MaxGroup + 1
    /\ unionSites \in SUBSET Sites
    /\ req \in [Clients -> Requests]
    /\ drifted \in SUBSET Subs
    /\ skewed \in BOOLEAN

DraftTyped(d) == d = None \/ d \in DraftRows

PageTyped ==
    /\ listed \in [GroupIds -> GroupRows \cup {None}]
    /\ draft \in DraftRows \cup {None}
    /\ baseline \in DraftRows \cup {None}
    /\ stashed \in [GroupIds -> StashRows \cup {None}]
    /\ DOMAIN typed = GroupIds
    /\ \A g \in GroupIds : DOMAIN typed[g] = Segments

-----------------------------------------------------------------------------
(* The inductive invariant.                                                *)

Pending(q) == q.stage \in {"read", "open"}
Open(q) == q.stage = "open"

\* The ids of rows an open transaction has inserted.
Reserved == {req[c].id : c \in {d \in Clients : Open(req[d]) /\ req[d].op = "create"}}

\* The ids that were ever seen by anyone.
KnownIds == {g \in GroupIds : g < nextGroup /\ g \notin Reserved}

\* The groups a request may write or hand subscriptions to.
Refs(q) == CASE q.op \in {"edit", "sites", "steps", "subscribe"} -> {q.id}
             [] q.op = "remove" -> {q.id, q.fallback}
             [] q.op = "all" -> q.kept \cup q.gone
             [] OTHER -> {}

IdsKnown ==
    /\ Ids(groups) \subseteq KnownIds
    /\ \A s \in Subs : subs[s] # None => subs[s].group \in KnownIds
    /\ \A c \in Clients : Pending(req[c]) => Refs(req[c]) \subseteq KnownIds

\* A row being inserted has an id of its own.
InsertsApart ==
    /\ \A c \in Clients : Open(req[c]) /\ req[c].op = "create" =>
          req[c].id \in GroupIds /\ req[c].id < nextGroup
    /\ \A c, d \in Clients :
          /\ c # d
          /\ Open(req[c]) /\ req[c].op = "create"
          /\ Open(req[d]) /\ req[d].op = "create"
          => req[c].id # req[d].id

\* What is written to a group leaves its built-in steps as they are.
StepsSafe(q) ==
    /\ q.op = "create" => KindsOf(q.steps) = {}
    /\ q.op = "remove" /\ groups[q.id] # None => ~IsBuiltin(groups[q.id])
    /\ q.op = "steps" /\ groups[q.id] # None => KindsOf(q.steps) = KindsOf(groups[q.id].steps)
    /\ q.op = "all" => \A g \in Ids(groups) \ q.kept : ~IsBuiltin(groups[g])

BuiltinSafe == \A c \in Clients : Pending(req[c]) => StepsSafe(req[c])

LocksApart ==
    \A c, d \in Clients : c # d =>
        /\ Locked(req[c]) \cap Locked(req[d]) = {}
        /\ LockedSubs(req[c]) \cap LockedSubs(req[d]) = {}

\* The subscriptions a transaction has locked stay where it found them.
RowsHeld(q) ==
    /\ q.op = "remove" =>
          /\ q.fallback # q.id
          /\ Open(q) => \A s \in q.rows : subs[s] # None /\ subs[s].group \in {q.id, q.fallback}
    /\ q.op = "all" =>
          /\ q.first \in q.kept
          /\ Open(q) =>
               /\ q.kept \subseteq Ids(groups) /\ q.gone \cap q.kept = {}
               /\ \A s \in q.rows :
                     subs[s] # None
                     /\ (groups[subs[s].group] # None => subs[s].group \in q.kept \cup q.gone)

\* The reading a deletion hands over is still the fallback's, where it matters.
HandOverIsFresh(q) ==
    q.op = "remove" /\ Open(q) =>
        \A s \in q.rows \ drifted :
            subs[s].group = q.fallback =>
                q.seen # None /\ groups[q.fallback] # None /\ groups[q.fallback].reading = q.seen

RowsStay == \A c \in Clients : Pending(req[c]) => RowsHeld(req[c]) /\ HandOverIsFresh(req[c])

\* A union nobody overtook is still the one the transaction's change makes.
UnionsFresh ==
    \A c \in Clients : Open(req[c]) /\ ~req[c].late =>
        req[c].union = SiteUnion(GroupsAfter(req[c]))

RulesInv ==
    /\ RulesTyped
    /\ IdsKnown /\ InsertsApart
    /\ BuiltinSafe
    /\ LocksApart
    /\ RowsStay
    /\ UnionsFresh /\ UnionIsOfTheGroups
    /\ SubscriptionFollowsGroup

\* A group on the page was opened from a baseline; one set aside is filed under
\* its own id.
DraftsFiled ==
    /\ draft # None /\ draft.id # NewId => baseline # None
    /\ \A g \in GroupIds : stashed[g] # None => stashed[g].draft.id = g

\* What is typed and unsaved differs from what was opened.
TypedIsDirty ==
    \A g \in GroupIds, seg \in Segments :
        typed[g][seg] # None =>
            IF draft # None /\ draft.id = g THEN draft[seg] # baseline[seg]
            ELSE stashed[g] # None => stashed[g].draft[seg] # stashed[g].baseline[seg]

PageInv == PageTyped /\ DraftsFiled /\ TypedIsDirty /\ UnsavedDraftStays

-----------------------------------------------------------------------------
(* Operators.                                                              *)

\* Among ids there is a least one.
LEMMA LeastExists ==
  ASSUME NEW S \in SUBSET Nat, S # {}
  PROVE  (CHOOSE h \in S : \A k \in S : h <= k) \in S
<1> DEFINE Less == OpToRel(<, Nat)
<1>1. IsWellFoundedOn(Less, Nat)
  BY NatLessThanWellFounded
<1>2. \A m, n \in Nat : n < m => <<n, m>> \in Less
  BY DEF OpToRel
<1> HIDE DEF Less
<1>3. PICK m \in S : \A n \in S : ~(<<n, m>> \in Less)
  BY <1>1, <1>2, WFMin
<1>4. ASSUME NEW n \in S PROVE m <= n
  <2>1. m \in Nat /\ n \in Nat
    OBVIOUS
  <2>2. ~(n < m)
    BY <2>1, <1>2, <1>3
  <2> QED BY <2>1, <2>2
<1> QED BY <1>3, <1>4

\* The fallback of a deletion is another group that is there.
LEMMA FallbackExists ==
  ASSUME RuleGroupsAssumption, NEW g \in GroupIds, Ids(groups) \ {g} # {}
  PROVE  Fallback(g) \in Ids(groups) \ {g}
<1> DEFINE Rest == Ids(groups) \ {g}
           Built == {h \in Rest : IsBuiltin(groups[h])}
           From == IF Built = {} THEN Rest ELSE Built
<1>1. From \subseteq Rest /\ From # {} /\ From \in SUBSET Nat
  BY DEF Ids, GroupIds, RuleGroupsAssumption
<1>2. Fallback(g) = CHOOSE h \in From : \A k \in From : h <= k
  BY DEF Fallback
<1> HIDE DEF From
<1> QED BY <1>1, <1>2, LeastExists

\* What a request can be, by its operation.
LEMMA RequestKinds ==
  ASSUME NEW q \in Requests
  PROVE  /\ q.op = "create" => q \in CreateRequests
         /\ q.op = "edit" => q \in EditRequests
         /\ q.op = "remove" => q \in RemoveRequests
         /\ q.op = "sites" => q \in SitesRequests
         /\ q.op = "steps" => q \in StepsRequests
         /\ q.op = "all" => q \in AllRequests
         /\ q.op = "subscribe" => q \in SubscribeRequests
         /\ Open(q) => q.op \in {"create", "remove", "sites", "all"}
         /\ Pending(q) => q.op \in {"create", "edit", "remove", "sites", "steps", "all",
                                    "subscribe"}
BY DEF Requests, Idle, CreateRequests, EditRequests, RemoveRequests, SitesRequests,
       StepsRequests, AllRequests, SubscribeRequests, Waiting, Running, Open, Pending

\* The stage a request ends with, and the one it is in while its transaction is open.
LEMMA RequestStages ==
  ASSUME NEW q \in Requests, Pending(q)
  PROVE  /\ q.op # "create" \/ Open(q) => [q EXCEPT !.stage = "done"] \in Requests
         /\ [q EXCEPT !.stage = "refused"] \in Requests
BY RequestKinds
   DEF Requests, CreateRequests, EditRequests, RemoveRequests, SitesRequests,
       StepsRequests, AllRequests, SubscribeRequests, Waiting, Running, Open, Pending

\* A transaction that is overtaken goes on as it was, apart from its mark.
Later(q) == [q EXCEPT !.late = TRUE]

LEMMA LateOnlyMarks ==
  ASSUME NEW q \in Requests, Open(q)
  PROVE  /\ Later(q) \in Requests
         /\ Open(Later(q)) /\ Later(q).late
         /\ Later(q).op = q.op
         /\ Locked(Later(q)) = Locked(q)
         /\ LockedSubs(Later(q)) = LockedSubs(q)
         /\ Refs(Later(q)) = Refs(q)
         /\ q.op = "create" =>
               Later(q).id = q.id /\ Later(q).sites = q.sites /\ Later(q).steps = q.steps
         /\ q.op = "remove" =>
               /\ Later(q).id = q.id /\ Later(q).fallback = q.fallback
               /\ Later(q).seen = q.seen /\ Later(q).rows = q.rows
         /\ q.op = "sites" => Later(q).id = q.id /\ Later(q).sites = q.sites
         /\ q.op = "all" =>
               /\ Later(q).kept = q.kept /\ Later(q).gone = q.gone
               /\ Later(q).first = q.first /\ Later(q).rows = q.rows
<1>1. CASE q.op = "create"
  BY <1>1, RequestKinds
     DEF Later, Requests, CreateRequests, Open, Running, Waiting, Locked, LockedSubs, Refs
<1>2. CASE q.op = "remove"
  BY <1>2, RequestKinds
     DEF Later, Requests, RemoveRequests, Open, Running, Waiting, Locked, LockedSubs, Refs
<1>3. CASE q.op = "sites"
  BY <1>3, RequestKinds
     DEF Later, Requests, SitesRequests, Open, Running, Waiting, Locked, LockedSubs, Refs
<1>4. CASE q.op = "all"
  BY <1>4, RequestKinds
     DEF Later, Requests, AllRequests, Open, Running, Waiting, Locked, LockedSubs, Refs
<1> QED BY <1>1, <1>2, <1>3, <1>4, RequestKinds

\* The sites a group declares, of the groups there are.
SitesAt(gs, g) == IF gs[g] = None THEN {} ELSE gs[g].sites

LEMMA UnionBySites ==
  ASSUME NEW gs, NEW hs, \A g \in GroupIds : SitesAt(gs, g) = SitesAt(hs, g)
  PROVE  SiteUnion(gs) = SiteUnion(hs)
<1>1. SiteUnion(gs) = UNION {SitesAt(gs, g) : g \in GroupIds}
  BY DEF SiteUnion, SitesAt, Ids
<1>2. SiteUnion(hs) = UNION {SitesAt(hs, g) : g \in GroupIds}
  BY DEF SiteUnion, SitesAt, Ids
<1>3. {SitesAt(gs, g) : g \in GroupIds} = {SitesAt(hs, g) : g \in GroupIds}
  OBVIOUS
<1> QED BY <1>1, <1>2, <1>3

LEMMA UnionTyped ==
  ASSUME NEW gs \in [GroupIds -> GroupRows \cup {None}]
  PROVE  SiteUnion(gs) \in SUBSET Sites
BY DEF SiteUnion, Ids, GroupRows

\* The flags of a list without built-in steps, and of one saved with all of them.
LEMMA FlagsKept ==
  ASSUME RuleGroupsAssumption, NEW existing, NEW incoming
  PROVE  /\ KindsOf(WithBuiltinFlags({}, incoming)) = {}
         /\ RemovedBuiltin(existing, WithBuiltinFlags(existing, incoming)) = {} =>
               KindsOf(WithBuiltinFlags(existing, incoming)) = KindsOf(existing)
BY DEF KindsOf, WithBuiltinFlags, RemovedBuiltin, RuleGroupsAssumption

LEMMA FlagsTyped ==
  ASSUME NEW existing, NEW incoming \in SUBSET Steps
  PROVE  WithBuiltinFlags(existing, incoming) \in SUBSET Steps
<1>1. Own \in Steps
  BY DEF Steps
<1>2. \A x \in WithBuiltinFlags(existing, incoming) : x \in incoming \/ x = Own
  BY DEF WithBuiltinFlags
<1> QED BY <1>1, <1>2

\* A copy of a reading is a row, and reads as the reading says.
Reads(s, r) ==
  s.selector = r.selector /\ s.pager = r.pager /\ (r.match # Blank => s.match = r.match)

LEMMA SyncedReads ==
  ASSUME NEW s \in SubscriptionRows, NEW r \in ReadingRows
  PROVE  /\ Synced(s, r) \in SubscriptionRows
         /\ Synced(s, r).group = s.group
         /\ Reads(Synced(s, r), r)
BY DEF Synced, MatchOf, Reads, SubscriptionRows, ReadingRows

LEMMA SubscribedReads ==
  ASSUME NEW g \in GroupIds, NEW r \in ReadingRows, NEW own \in Texts
  PROVE  /\ Subscribed(g, r, own) \in SubscriptionRows
         /\ Subscribed(g, r, own).group = g
         /\ Reads(Subscribed(g, r, own), r)
BY DEF Subscribed, MatchOf, Reads, SubscriptionRows, ReadingRows

LEMMA FollowsReads ==
  SubscriptionFollowsGroup <=>
     \A s \in Subs \ drifted : subs[s] # None =>
        groups[subs[s].group] # None /\ Reads(subs[s], groups[subs[s].group].reading)
BY DEF SubscriptionFollowsGroup, Reads

-----------------------------------------------------------------------------
(* What a step does to the requests it is not about.                       *)

\* A request goes on as it was, or is over.
GoesOn(c) == req'[c] = req[c] \/ (Open(req[c]) /\ req'[c] = Later(req[c]))

QuietStep == req' \in [Clients -> Requests] /\ \A c \in Clients : GoesOn(c) \/ ~Pending(req'[c])

\* Ids are not given twice, and the built-in steps of a group are its own for life.
GroupsGrow ==
    /\ KnownIds \subseteq KnownIds'
    /\ Ids(groups') \subseteq KnownIds'
    /\ \A g \in KnownIds : groups[g] = None => groups'[g] = None
    /\ \A g \in GroupIds :
          /\ groups[g] # None /\ groups'[g] # None =>
                KindsOf(groups'[g].steps) = KindsOf(groups[g].steps)
          /\ groups[g] = None /\ groups'[g] # None => ~IsBuiltin(groups'[g])

\* The rows an open transaction has locked are as it found them.
LocksObeyed(c) ==
    /\ \A s \in LockedSubs(req[c]) : subs'[s] # None /\ subs'[s].group = subs[s].group
    /\ \A g \in Locked(req[c]) : groups[g] # None => groups'[g] # None

\* A subscription whose group was changed outside is known to be left behind.
ChangesSeen(c) ==
    req[c].op = "remove" =>
        \A s \in LockedSubs(req[c]) \ drifted' :
            /\ s \notin drifted
            /\ subs[s].group = req[c].fallback /\ groups[req[c].fallback] # None =>
                  /\ groups'[req[c].fallback] # None
                  /\ groups'[req[c].fallback].reading = groups[req[c].fallback].reading

\* No group declares other sites than before; a row may be inserted without any.
SitesKept ==
    \A g \in GroupIds :
        /\ SitesAt(groups', g) = SitesAt(groups, g)
        /\ g \in KnownIds => (groups'[g] = None <=> groups[g] = None)

LEMMA IdsStayKnown ==
  ASSUME RulesInv, QuietStep, GroupsGrow,
         \A s \in Subs : subs'[s] # None => subs'[s].group \in KnownIds'
  PROVE  IdsKnown'
<1>1. ASSUME NEW c \in Clients, Pending(req'[c]) PROVE Refs(req'[c]) \subseteq KnownIds'
  <2>1. GoesOn(c) /\ req[c] \in Requests
    BY <1>1 DEF QuietStep, RulesInv, RulesTyped
  <2>2. Pending(req[c]) /\ Refs(req'[c]) = Refs(req[c])
    BY <1>1, <2>1, LateOnlyMarks DEF GoesOn, Open, Pending
  <2>3. Refs(req[c]) \subseteq KnownIds
    BY <2>2 DEF RulesInv, IdsKnown
  <2> QED BY <2>2, <2>3 DEF GroupsGrow
<1> QED BY <1>1 DEF IdsKnown, GroupsGrow, Ids, GroupIds

LEMMA InsertsStayApart ==
  ASSUME RulesInv, RulesTyped', QuietStep, nextGroup' >= nextGroup
  PROVE  InsertsApart'
<1>1. ASSUME NEW c \in Clients, Open(req'[c]), req'[c].op = "create"
      PROVE  Open(req[c]) /\ req[c].op = "create" /\ req'[c].id = req[c].id
  <2>1. GoesOn(c) /\ req[c] \in Requests
    BY <1>1 DEF QuietStep, RulesInv, RulesTyped, Open, Pending
  <2> QED BY <1>1, <2>1, LateOnlyMarks DEF GoesOn
<1>2. ASSUME NEW c \in Clients, Open(req'[c]), req'[c].op = "create"
      PROVE  req'[c].id \in GroupIds /\ req'[c].id < nextGroup'
  <2>1. req[c].id \in GroupIds /\ req[c].id < nextGroup
    BY <1>1, <1>2 DEF RulesInv, InsertsApart
  <2>2. req[c].id \in Nat /\ nextGroup \in Nat /\ nextGroup' \in Nat
    BY <2>1 DEF RulesInv, RulesTyped, GroupIds
  <2> QED BY <1>1, <1>2, <2>1, <2>2
<1>3. ASSUME NEW c \in Clients, NEW d \in Clients, c # d,
             Open(req'[c]), req'[c].op = "create", Open(req'[d]), req'[d].op = "create"
      PROVE  req'[c].id # req'[d].id
  BY <1>1, <1>3 DEF RulesInv, InsertsApart
<1> QED BY <1>2, <1>3 DEF InsertsApart, Open, GroupIds

LEMMA BuiltinStaysSafe ==
  ASSUME RulesInv, QuietStep, GroupsGrow
  PROVE  BuiltinSafe'
<1> SUFFICES ASSUME NEW c \in Clients, Pending(req'[c]) PROVE StepsSafe(req[c])'
  BY DEF BuiltinSafe, Pending
<1> DEFINE q == req[c]
           r == req'[c]
<1>1. GoesOn(c) /\ q \in Requests
  BY DEF QuietStep, RulesInv, RulesTyped
<1>2. Pending(q) /\ r.op = q.op
  BY <1>1, LateOnlyMarks DEF GoesOn, Open, Pending
<1>3. StepsSafe(q) /\ Refs(q) \subseteq KnownIds
  BY <1>2 DEF RulesInv, BuiltinSafe, IdsKnown
<1>4. r.op = "create" => KindsOf(r.steps) = {}
  BY <1>1, <1>2, <1>3, LateOnlyMarks DEF GoesOn, StepsSafe
<1>5. ASSUME r.op = "remove", groups'[r.id] # None PROVE ~IsBuiltin(groups'[r.id])
  <2>1. r.id = q.id /\ q.id \in KnownIds
    BY <1>1, <1>2, <1>3, <1>5, LateOnlyMarks DEF GoesOn, Refs
  <2>2. groups[q.id] # None /\ q.id \in GroupIds
    BY <1>5, <2>1 DEF GroupsGrow, KnownIds
  <2> QED BY <1>2, <1>3, <1>5, <2>1, <2>2 DEF GroupsGrow, StepsSafe, IsBuiltin
<1>6. ASSUME r.op = "steps", groups'[r.id] # None
      PROVE  KindsOf(r.steps) = KindsOf(groups'[r.id].steps)
  <2>1. r = q
    BY <1>1, <1>2, <1>6, RequestKinds DEF GoesOn
  <2>2. q.id \in KnownIds
    BY <1>3, <1>6, <2>1 DEF Refs
  <2>3. groups[q.id] # None /\ q.id \in GroupIds
    BY <1>6, <2>1, <2>2 DEF GroupsGrow, KnownIds
  <2> QED BY <1>3, <1>6, <2>1, <2>3 DEF GroupsGrow, StepsSafe
<1>7. ASSUME r.op = "all", NEW g \in Ids(groups') \ r.kept PROVE ~IsBuiltin(groups'[g])
  <2>1. r.kept = q.kept /\ g \in GroupIds /\ groups'[g] # None
    BY <1>1, <1>2, <1>7, LateOnlyMarks DEF GoesOn, Ids
  <2>2. CASE groups[g] = None
    BY <2>1, <2>2 DEF GroupsGrow
  <2>3. CASE groups[g] # None
    <3>1. ~IsBuiltin(groups[g])
      BY <1>2, <1>3, <1>7, <2>1, <2>3 DEF StepsSafe, Ids
    <3> QED BY <2>1, <2>3, <3>1 DEF GroupsGrow, IsBuiltin
  <2> QED BY <2>2, <2>3
<1> QED BY <1>4, <1>5, <1>6, <1>7 DEF StepsSafe, Ids, IsBuiltin, KindsOf, GroupIds

LEMMA LocksStayApart ==
  ASSUME RulesInv, QuietStep
  PROVE  LocksApart'
<1>1. ASSUME NEW c \in Clients
      PROVE  /\ Locked(req'[c]) \subseteq Locked(req[c])
             /\ LockedSubs(req'[c]) \subseteq LockedSubs(req[c])
  <2>1. CASE Pending(req'[c])
    <3>1. GoesOn(c) /\ req[c] \in Requests
      BY <2>1 DEF QuietStep, RulesInv, RulesTyped
    <3>2. CASE req'[c] = req[c]
      BY <3>2
    <3>3. CASE Open(req[c]) /\ req'[c] = Later(req[c])
      BY <3>1, <3>3, LateOnlyMarks
    <3> QED BY <3>1, <3>2, <3>3 DEF GoesOn
  <2>2. CASE ~Pending(req'[c])
    BY <2>2 DEF Locked, LockedSubs, Pending
  <2> QED BY <2>1, <2>2
<1> QED BY <1>1 DEF LocksApart, RulesInv, Locked, LockedSubs

LEMMA RowsStayHeld ==
  ASSUME RulesInv, QuietStep, GroupsGrow,
         \A c \in Clients : Pending(req'[c]) => LocksObeyed(c) /\ ChangesSeen(c)
  PROVE  RowsStay'
<1> SUFFICES ASSUME NEW c \in Clients, Pending(req'[c])
             PROVE  RowsHeld(req[c])' /\ HandOverIsFresh(req[c])'
  BY DEF RowsStay, Pending
<1> DEFINE q == req[c]
           r == req'[c]
<1>1. GoesOn(c) /\ q \in Requests /\ LocksObeyed(c) /\ ChangesSeen(c)
  BY DEF QuietStep, RulesInv, RulesTyped
<1>2. Pending(q) /\ r.op = q.op /\ (Open(r) <=> Open(q))
  BY <1>1, LateOnlyMarks DEF GoesOn, Open, Pending
<1>3. RowsHeld(q) /\ HandOverIsFresh(q) /\ Refs(q) \subseteq KnownIds
  BY <1>2 DEF RulesInv, RowsStay, IdsKnown
<1>4. CASE q.op = "remove"
  <2>1. r.id = q.id /\ r.fallback = q.fallback /\ r.seen = q.seen /\ r.rows = q.rows
    BY <1>1, <1>4, LateOnlyMarks DEF GoesOn
  <2>2. Open(q) => LockedSubs(q) = q.rows
    BY <1>4 DEF LockedSubs, Open
  <2>3. RowsHeld(req[c])'
    BY <1>1, <1>2, <1>3, <1>4, <2>1, <2>2 DEF RowsHeld, LocksObeyed, Open
  <2>4. HandOverIsFresh(req[c])'
    BY <1>1, <1>2, <1>3, <1>4, <2>1, <2>2 DEF HandOverIsFresh, LocksObeyed, ChangesSeen, Open
  <2> QED BY <2>3, <2>4
<1>5. CASE q.op = "all"
  <2>1. r.kept = q.kept /\ r.gone = q.gone /\ r.first = q.first /\ r.rows = q.rows
    BY <1>1, <1>5, LateOnlyMarks DEF GoesOn
  <2>2. Open(q) => LockedSubs(q) = q.rows /\ Locked(q) = q.kept \cup q.gone
    BY <1>5 DEF LockedSubs, Locked, Open
  <2>3. q.kept \subseteq GroupIds /\ q.rows \subseteq Subs
    BY <1>1, <1>5, RequestKinds DEF AllRequests
  <2>4. Open(q) => q.kept \subseteq Ids(groups')
    BY <1>1, <1>3, <1>5, <2>2, <2>3 DEF RowsHeld, LocksObeyed, Ids
  <2>5. ASSUME Open(q), NEW s \in q.rows
        PROVE  /\ subs'[s] # None
               /\ groups'[subs'[s].group] # None => subs'[s].group \in q.kept \cup q.gone
    <3>1. subs[s] # None /\ subs'[s] # None /\ subs'[s].group = subs[s].group
      BY <1>1, <1>3, <1>5, <2>2, <2>5 DEF RowsHeld, LocksObeyed
    <3>2. subs[s].group \in KnownIds
      BY <2>3, <3>1 DEF RulesInv, IdsKnown
    <3>3. groups[subs[s].group] # None => subs[s].group \in q.kept \cup q.gone
      BY <1>3, <1>5, <2>5 DEF RowsHeld
    <3> QED BY <3>1, <3>2, <3>3 DEF GroupsGrow
  <2>6. RowsHeld(req[c])'
    BY <1>2, <1>3, <1>5, <2>1, <2>4, <2>5 DEF RowsHeld, Open, Ids, GroupIds
  <2> QED BY <1>2, <1>5, <2>6 DEF HandOverIsFresh
<1>6. CASE q.op \notin {"remove", "all"}
  BY <1>2, <1>6 DEF RowsHeld, HandOverIsFresh
<1> QED BY <1>4, <1>5, <1>6

LEMMA UnionsStayFresh ==
  ASSUME RulesInv, RulesTyped', QuietStep,
         \A c \in Clients : Open(req'[c]) => req'[c].late \/ SitesKept
  PROVE  UnionsFresh'
<1> SUFFICES ASSUME NEW c \in Clients, Open(req'[c]), ~req'[c].late
             PROVE  req'[c].union = SiteUnion(GroupsAfter(req[c])')
  BY DEF UnionsFresh, Open, SiteUnion, Ids, GroupIds
<1> DEFINE q == req[c]
<1>1. GoesOn(c) /\ q \in Requests
  BY DEF QuietStep, RulesInv, RulesTyped, Open, Pending
<1>2. req'[c] = q /\ Open(q) /\ ~q.late /\ SitesKept
  BY <1>1, LateOnlyMarks DEF GoesOn
<1>3. q.union = SiteUnion(GroupsAfter(q)) /\ Refs(q) \subseteq KnownIds
  BY <1>2 DEF RulesInv, UnionsFresh, IdsKnown, Pending, Open
<1>4. ASSUME NEW g \in GroupIds
      PROVE  SitesAt(GroupsAfter(req[c])', g) = SitesAt(GroupsAfter(q), g)
  <2>1. /\ SitesAt(groups', g) = SitesAt(groups, g)
        /\ g \in KnownIds => (groups'[g] = None <=> groups[g] = None)
        /\ groups \in [GroupIds -> GroupRows \cup {None}]
        /\ groups' \in [GroupIds -> GroupRows \cup {None}]
    BY <1>2, <1>4 DEF SitesKept, RulesInv, RulesTyped, GroupsTyped
  <2>2. CASE q.op = "create"
    BY <1>2, <1>4, <2>1, <2>2 DEF GroupsAfter, Created, SitesAt
  <2>3. CASE q.op = "sites"
    <3>1. q.id \in KnownIds /\ q.id \in GroupIds
      BY <1>3, <2>3 DEF Refs, KnownIds
    <3>2. groups'[q.id] = None <=> groups[q.id] = None
      BY <1>2, <3>1 DEF SitesKept
    <3>3. GroupsAfter(q) = WithSites(q) /\ GroupsAfter(req[c])' = WithSites(req[c])'
      BY <1>2, <2>3 DEF GroupsAfter
    <3>4. CASE groups[q.id] = None
      BY <1>2, <2>1, <3>2, <3>3, <3>4 DEF WithSites
    <3>5. CASE groups[q.id] # None
      <4>1. groups'[q.id] # None /\ groups[q.id] \in GroupRows /\ groups'[q.id] \in GroupRows
        BY <2>1, <3>1, <3>2, <3>5
      <4>2. /\ [groups[q.id] EXCEPT !.sites = q.sites] \in GroupRows
            /\ [groups'[q.id] EXCEPT !.sites = q.sites] \in GroupRows
            /\ [groups[q.id] EXCEPT !.sites = q.sites].sites = q.sites
            /\ [groups'[q.id] EXCEPT !.sites = q.sites].sites = q.sites
        BY <1>1, <2>3, <4>1, RequestKinds DEF GroupRows, SitesRequests
      <4>3. /\ GroupsAfter(q) = [groups EXCEPT ![q.id] = [groups[q.id] EXCEPT !.sites = q.sites]]
            /\ GroupsAfter(req[c])' =
                  [groups' EXCEPT ![q.id] = [groups'[q.id] EXCEPT !.sites = q.sites]]
        BY <1>2, <3>3, <3>5, <4>1 DEF WithSites
      <4>4. CASE g = q.id
        BY <2>1, <3>1, <4>2, <4>3, <4>4, NoneAssumption DEF SitesAt
      <4>5. CASE g # q.id
        BY <1>4, <2>1, <4>3, <4>5 DEF SitesAt
      <4> QED BY <4>4, <4>5
    <3> QED BY <3>4, <3>5
  <2>4. CASE q.op = "remove"
    BY <1>2, <1>4, <2>1, <2>4 DEF GroupsAfter, Deleted, SitesAt
  <2>5. CASE q.op = "all"
    <3>1. q.kept \cup q.gone \subseteq KnownIds
      BY <1>3, <2>5 DEF Refs
    <3>2. /\ GroupsAfter(q)[g] = IF g \in q.kept /\ groups[g] # None
                                 THEN [groups[g] EXCEPT !.reading = q.reading, !.sites = q.sites]
                                 ELSE IF g \in q.gone THEN None ELSE groups[g]
          /\ GroupsAfter(req[c])'[g] = IF g \in q.kept /\ groups'[g] # None
                                 THEN [groups'[g] EXCEPT !.reading = q.reading, !.sites = q.sites]
                                 ELSE IF g \in q.gone THEN None ELSE groups'[g]
      BY <1>2, <1>4, <2>5 DEF GroupsAfter, ReplacedBy, GroupIds
    <3>3. q \in AllRequests
      BY <1>1, <2>5, RequestKinds
    <3>4. CASE g \in q.kept /\ groups[g] # None
      <4>1. groups'[g] # None /\ groups[g] \in GroupRows /\ groups'[g] \in GroupRows
        BY <1>4, <2>1, <3>1, <3>4
      <4>2. /\ [groups[g] EXCEPT !.reading = q.reading, !.sites = q.sites] \in GroupRows
            /\ [groups'[g] EXCEPT !.reading = q.reading, !.sites = q.sites] \in GroupRows
            /\ [groups[g] EXCEPT !.reading = q.reading, !.sites = q.sites].sites = q.sites
            /\ [groups'[g] EXCEPT !.reading = q.reading, !.sites = q.sites].sites = q.sites
        BY <3>3, <4>1 DEF GroupRows, AllRequests
      <4> QED BY <3>2, <3>4, <4>1, <4>2, NoneAssumption DEF SitesAt
    <3>5. CASE ~(g \in q.kept /\ groups[g] # None)
      BY <2>1, <3>1, <3>2, <3>5 DEF SitesAt
    <3> QED BY <3>4, <3>5
  <2> QED BY <1>1, <1>2, <2>2, <2>3, <2>4, <2>5, RequestKinds
<1>5. SiteUnion(GroupsAfter(req[c])') = SiteUnion(GroupsAfter(q))
  BY <1>4, UnionBySites
<1> QED BY <1>2, <1>3, <1>5

\* A step that opens nothing and obeys the locks of what is open.
LEMMA StepKeepsRules ==
  ASSUME NoneAssumption, RulesInv, RulesTyped', QuietStep, GroupsGrow, nextGroup' >= nextGroup,
         \A s \in Subs : subs'[s] # None => subs'[s].group \in KnownIds',
         \A c \in Clients : Pending(req'[c]) => LocksObeyed(c) /\ ChangesSeen(c),
         \A c \in Clients : Open(req'[c]) => req'[c].late \/ SitesKept,
         UnionIsOfTheGroups', SubscriptionFollowsGroup'
  PROVE  RulesInv'
<1>1. IdsKnown'
  BY IdsStayKnown
<1>2. InsertsApart'
  BY InsertsStayApart
<1>3. BuiltinSafe'
  BY BuiltinStaysSafe
<1>4. LocksApart'
  BY LocksStayApart
<1>5. RowsStay'
  BY RowsStayHeld
<1>6. UnionsFresh'
  BY UnionsStayFresh
<1> QED BY <1>1, <1>2, <1>3, <1>4, <1>5, <1>6 DEF RulesInv

Untouched == UNCHANGED <<groups, nextGroup, subs, unionSites, drifted, skewed>>

\* Requests that end: an answer, a refusal, a rollback, or the process that dies.
LEMMA RequestsEnd ==
  ASSUME NoneAssumption, RulesInv, Untouched, req' \in [Clients -> Requests],
         \A c \in Clients : req'[c] = req[c] \/ ~Pending(req'[c])
  PROVE  RulesInv'
<1>1. QuietStep
  BY DEF QuietStep, GoesOn
<1>2. RulesTyped' /\ nextGroup \in Nat
  BY DEF RulesInv, RulesTyped, GroupsTyped, SubsTyped, Untouched
<1>3. Reserved' \subseteq Reserved
  BY DEF Reserved, Open, Pending
<1>4. KnownIds \subseteq KnownIds'
  BY <1>3 DEF KnownIds, Untouched
<1>5. GroupsGrow
  BY <1>4 DEF GroupsGrow, Untouched, RulesInv, IdsKnown
<1>6. \A s \in Subs : subs'[s] # None => subs'[s].group \in KnownIds'
  BY <1>4 DEF RulesInv, IdsKnown, Untouched
<1>7. ASSUME NEW c \in Clients, Pending(req'[c]) PROVE LocksObeyed(c) /\ ChangesSeen(c)
  <2>1. req'[c] = req[c] /\ Pending(req[c]) /\ RowsHeld(req[c])
    BY <1>7 DEF RulesInv, RowsStay
  <2>2. \A s \in LockedSubs(req[c]) : subs[s] # None
    BY <2>1 DEF LockedSubs, RowsHeld, Open
  <2> QED BY <2>2 DEF LocksObeyed, ChangesSeen, Untouched
<1>8. SitesKept
  BY DEF SitesKept, Untouched
<1>9. UnionIsOfTheGroups' /\ SubscriptionFollowsGroup'
  BY DEF RulesInv, UnionIsOfTheGroups, SubscriptionFollowsGroup, Untouched, SiteUnion, Ids,
         GroupIds
<1> QED BY <1>1, <1>2, <1>5, <1>6, <1>7, <1>8, <1>9, StepKeepsRules DEF Untouched

\* A request that is received, and one whose transaction opens: nothing but the
\* request changes, and it fits what is there.
Fits(c, q) ==
    /\ Refs(q) \subseteq KnownIds /\ StepsSafe(q) /\ RowsHeld(q) /\ HandOverIsFresh(q)
    /\ \A d \in Clients \ {c} :
          /\ Locked(q) \cap Locked(req[d]) = {}
          /\ LockedSubs(q) \cap LockedSubs(req[d]) = {}
    /\ Open(q) => q.union = SiteUnion(GroupsAfter(q))

LEMMA RequestGoesForth ==
  ASSUME RuleGroupsAssumption, RulesInv, NEW c \in Clients, NEW q \in Requests, ~Open(req[c]),
         req' = [req EXCEPT ![c] = q],
         UNCHANGED <<groups, subs, unionSites, drifted, skewed>>,
         Pending(q) => Fits(c, q),
         \/ nextGroup' = nextGroup /\ ~(Open(q) /\ q.op = "create")
         \/ /\ nextGroup <= MaxGroup /\ nextGroup' = nextGroup + 1
            /\ Open(q) /\ q.op = "create" /\ q.id = nextGroup
  PROVE  RulesInv'
<1>0. /\ nextGroup \in 1..MaxGroup + 1 /\ MaxGroup \in Nat /\ req \in [Clients -> Requests]
      /\ req' \in [Clients -> Requests] /\ req'[c] = q
      /\ \A d \in Clients \ {c} : req'[d] = req[d]
  BY DEF RulesInv, RulesTyped, RuleGroupsAssumption
<1>1. RulesTyped'
  BY <1>0 DEF RulesInv, RulesTyped, GroupsTyped, SubsTyped
<1>2. \A g \in KnownIds : g \in GroupIds /\ g \in Nat /\ g < nextGroup /\ g \notin Reserved
  BY <1>0 DEF KnownIds, GroupIds
<1>3. ASSUME NEW g \in Reserved', g \notin Reserved PROVE nextGroup' = nextGroup + 1 /\ g = nextGroup
  <2>1. PICK d \in Clients : Open(req'[d]) /\ req'[d].op = "create" /\ g = req'[d].id
    BY <1>3 DEF Reserved, Open
  <2>2. d = c
    BY <1>0, <1>3, <2>1 DEF Reserved
  <2> QED BY <1>0, <2>1, <2>2
<1>4. KnownIds \subseteq KnownIds'
  <2> SUFFICES ASSUME NEW g \in KnownIds PROVE g \in KnownIds'
    OBVIOUS
  <2>1. g < nextGroup'
    BY <1>0, <1>2
  <2>2. g \notin Reserved'
    BY <1>0, <1>2, <1>3
  <2> QED BY <1>2, <2>1, <2>2 DEF KnownIds, GroupIds
<1>5. IdsKnown'
  <2>1. ASSUME NEW d \in Clients, Pending(req'[d]) PROVE Refs(req'[d]) \subseteq KnownIds
    BY <1>0, <2>1 DEF Fits, RulesInv, IdsKnown
  <2> QED BY <1>4, <2>1 DEF RulesInv, IdsKnown, Pending, Refs, Ids, GroupIds
<1>6. InsertsApart'
  <2>1. ASSUME NEW d \in Clients, Open(req'[d]), req'[d].op = "create"
        PROVE  /\ req'[d].id \in GroupIds /\ req'[d].id < nextGroup'
               /\ d # c => Open(req[d]) /\ req[d].op = "create" /\ req'[d].id < nextGroup
    <3>1. CASE d = c
      BY <1>0, <2>1, <3>1 DEF GroupIds
    <3>2. CASE d # c
      <4>1. req[d].id \in GroupIds /\ req[d].id < nextGroup /\ req'[d] = req[d]
        BY <1>0, <2>1, <3>2 DEF RulesInv, InsertsApart
      <4> QED BY <1>0, <2>1, <3>2, <4>1 DEF GroupIds
    <3> QED BY <3>1, <3>2
  <2>2. ASSUME NEW d \in Clients, NEW e \in Clients, d # e,
               Open(req'[d]), req'[d].op = "create", Open(req'[e]), req'[e].op = "create"
        PROVE  req'[d].id # req'[e].id
    <3>1. CASE d # c /\ e # c
      BY <1>0, <2>1, <2>2, <3>1 DEF RulesInv, InsertsApart
    <3>2. CASE d = c
      BY <1>0, <2>1, <2>2, <3>2 DEF GroupIds
    <3>3. CASE e = c
      BY <1>0, <2>1, <2>2, <3>3 DEF GroupIds
    <3> QED BY <3>1, <3>2, <3>3
  <2> QED BY <2>1, <2>2 DEF InsertsApart, Open, GroupIds
<1>7. BuiltinSafe'
  <2>1. ASSUME NEW d \in Clients, Pending(req'[d]) PROVE StepsSafe(req'[d])
    BY <1>0, <2>1 DEF Fits, RulesInv, BuiltinSafe
  <2> QED BY <2>1 DEF BuiltinSafe, StepsSafe, Pending, IsBuiltin, KindsOf, Ids, GroupIds
<1>8. LocksApart'
  <2>1. \A d \in Clients \ {c} : /\ Locked(q) \cap Locked(req[d]) = {}
                                 /\ LockedSubs(q) \cap LockedSubs(req[d]) = {}
    BY DEF Fits, Locked, LockedSubs, Pending
  <2> QED BY <1>0, <2>1 DEF LocksApart, RulesInv, Locked, LockedSubs
<1>9. RowsStay'
  <2>1. ASSUME NEW d \in Clients, Pending(req'[d])
        PROVE  RowsHeld(req'[d]) /\ HandOverIsFresh(req'[d])
    BY <1>0, <2>1 DEF Fits, RulesInv, RowsStay
  <2> QED BY <2>1 DEF RowsStay, RowsHeld, HandOverIsFresh, Pending, Open, Ids, GroupIds
<1>10. UnionsFresh'
  <2>1. ASSUME NEW d \in Clients, Open(req'[d]), ~req'[d].late
        PROVE  req'[d].union = SiteUnion(GroupsAfter(req'[d]))
    BY <1>0, <2>1 DEF Fits, RulesInv, UnionsFresh, Open, Pending
  <2>2. ASSUME NEW d \in Clients PROVE GroupsAfter(req'[d]) = GroupsAfter(req[d])'
    BY DEF GroupsAfter, Created, WithSites, Deleted, ReplacedBy, GroupIds
  <2> QED BY <2>1, <2>2 DEF UnionsFresh, Open, SiteUnion, Ids, GroupIds
<1>11. UnionIsOfTheGroups' /\ SubscriptionFollowsGroup'
  BY DEF RulesInv, UnionIsOfTheGroups, SubscriptionFollowsGroup, SiteUnion, Ids, GroupIds
<1> QED BY <1>1, <1>5, <1>6, <1>7, <1>8, <1>9, <1>10, <1>11 DEF RulesInv

-----------------------------------------------------------------------------
(* Requests that are received.                                             *)

LEMMA RequestTaken ==
  ASSUME RuleGroupsAssumption, RulesInv, NEW c \in Clients, NEW q \in Requests,
         TakeRequest(c, q), ~Open(q),
         Pending(q) => Refs(q) \subseteq KnownIds /\ StepsSafe(q) /\ RowsHeld(q)
  PROVE  RulesInv'
<1>1. ~Open(req[c])
  BY DEF TakeRequest, Idle, Open
<1>2. Pending(q) => Fits(c, q)
  BY DEF Fits, HandOverIsFresh, Locked, LockedSubs, Open
<1> QED BY <1>1, <1>2, RequestGoesForth DEF TakeRequest

LEMMA CreateGroupKeeps ==
  ASSUME RuleGroupsAssumption, RulesInv, NEW c \in Clients, NEW r \in ReadingRows,
         NEW sites \in SUBSET Sites, NEW steps \in SUBSET Steps, CreateGroup(c, r, sites, steps)
  PROVE  RulesInv'
<1> DEFINE q == [op |-> "create", stage |-> "read", id |-> 0, reading |-> r, sites |-> sites,
                 steps |-> WithBuiltinFlags({}, steps), union |-> {}, late |-> FALSE]
           x == [q EXCEPT !.stage = "refused"]
<1>1. WithBuiltinFlags({}, steps) \in SUBSET Steps
  BY FlagsTyped
<1>2. q \in CreateRequests /\ x \in CreateRequests /\ ~Open(q) /\ ~Pending(x) /\ ~Open(x)
  BY <1>1 DEF CreateRequests, Running, Waiting, Open, Pending
<1>3. Refs(q) = {} /\ StepsSafe(q) /\ RowsHeld(q)
  BY FlagsKept DEF Refs, StepsSafe, RowsHeld
<1>4. TakeRequest(c, q) \/ TakeRequest(c, x)
  BY DEF CreateGroup, Refused
<1> QED BY <1>2, <1>3, <1>4, RequestTaken DEF Requests

LEMMA EditGroupKeeps ==
  ASSUME RuleGroupsAssumption, RulesInv, NEW c \in Clients, NEW g \in GroupIds,
         NEW r \in ReadingRows, EditGroup(c, g, r)
  PROVE  RulesInv'
<1> DEFINE q == [op |-> "edit", stage |-> "read", id |-> g, reading |-> r]
           x == [q EXCEPT !.stage = "refused"]
<1>1. q \in EditRequests /\ x \in EditRequests /\ ~Open(q) /\ ~Pending(x) /\ ~Open(x)
  BY DEF EditRequests, Waiting, Open, Pending
<1>2. Refs(q) = {g} /\ StepsSafe(q) /\ RowsHeld(q)
  BY DEF Refs, StepsSafe, RowsHeld
<1>3. (TakeRequest(c, q) /\ groups[g] # None) \/ TakeRequest(c, x)
  BY DEF EditGroup, Refused
<1>4. groups[g] # None => g \in KnownIds
  BY DEF RulesInv, IdsKnown, Ids
<1> QED BY <1>1, <1>2, <1>3, <1>4, RequestTaken DEF Requests

LEMMA RemoveGroupKeeps ==
  ASSUME RuleGroupsAssumption, RulesInv, NEW c \in Clients, NEW g \in GroupIds, RemoveGroup(c, g)
  PROVE  RulesInv'
<1> DEFINE q == [op |-> "remove", stage |-> "read", id |-> g, fallback |-> g,
                 seen |-> None, rows |-> {}, union |-> {}, late |-> FALSE]
           x == [q EXCEPT !.stage = "refused"]
           y == [q EXCEPT !.fallback = Fallback(g)]
<1>1. CASE groups[g] = None \/ IsBuiltin(groups[g]) \/ Ids(groups) = {g}
  <2>1. TakeRequest(c, x)
    BY <1>1 DEF RemoveGroup, Refused
  <2>2. x \in RemoveRequests /\ ~Pending(x) /\ ~Open(x)
    BY DEF RemoveRequests, Running, Waiting, Open, Pending
  <2> QED BY <2>1, <2>2, RequestTaken DEF Requests
<1>2. CASE ~(groups[g] = None \/ IsBuiltin(groups[g]) \/ Ids(groups) = {g})
  <2>1. TakeRequest(c, y)
    BY <1>2 DEF RemoveGroup
  <2>2. Ids(groups) \ {g} # {}
    BY <1>2 DEF Ids
  <2>3. PICK f \in Ids(groups) \ {g} : f = Fallback(g)
    BY <2>2, FallbackExists
  <2>4. f \in GroupIds /\ {g, f} \subseteq KnownIds
    BY <1>2, <2>3 DEF RulesInv, IdsKnown, Ids
  <2>5. /\ y \in RemoveRequests /\ ~Open(y)
        /\ y.op = "remove" /\ y.stage = "read" /\ y.id = g /\ y.fallback = f
    BY <2>3, <2>4 DEF RemoveRequests, Running, Waiting, Open
  <2>6. Refs(y) = {g, f} /\ StepsSafe(y) /\ RowsHeld(y)
    BY <1>2, <2>3, <2>5 DEF Refs, StepsSafe, RowsHeld
  <2>7. y \in Requests
    BY <2>5 DEF Requests
  <2> HIDE DEF y
  <2> QED BY <2>1, <2>4, <2>5, <2>6, <2>7, RequestTaken
<1> QED BY <1>1, <1>2

LEMMA SaveSitesKeeps ==
  ASSUME RuleGroupsAssumption, RulesInv, NEW c \in Clients, NEW g \in GroupIds,
         NEW sites \in SUBSET Sites, SaveSites(c, g, sites)
  PROVE  RulesInv'
<1> DEFINE q == [op |-> "sites", stage |-> "read", id |-> g, sites |-> sites,
                 union |-> {}, late |-> FALSE]
           x == [q EXCEPT !.stage = "refused"]
<1>1. q \in SitesRequests /\ x \in SitesRequests /\ ~Open(q) /\ ~Pending(x) /\ ~Open(x)
  BY DEF SitesRequests, Running, Waiting, Open, Pending
<1>2. Refs(q) = {g} /\ StepsSafe(q) /\ RowsHeld(q)
  BY DEF Refs, StepsSafe, RowsHeld
<1>3. (TakeRequest(c, q) /\ groups[g] # None) \/ TakeRequest(c, x)
  BY DEF SaveSites, Refused
<1>4. groups[g] # None => g \in KnownIds
  BY DEF RulesInv, IdsKnown, Ids
<1> QED BY <1>1, <1>2, <1>3, <1>4, RequestTaken DEF Requests

LEMMA SaveStepsKeeps ==
  ASSUME RuleGroupsAssumption, NoneAssumption, RulesInv, NEW c \in Clients, NEW g \in GroupIds,
         NEW incoming \in SUBSET Steps, SaveSteps(c, g, incoming)
  PROVE  RulesInv'
<1> DEFINE q(steps) == [op |-> "steps", stage |-> "read", id |-> g, steps |-> steps]
           x == [q(incoming) EXCEPT !.stage = "refused"]
           flagged == WithBuiltinFlags(groups[g].steps, incoming)
<1>1. CASE TakeRequest(c, x)
  <2>1. x \in StepsRequests /\ ~Pending(x) /\ ~Open(x)
    BY DEF StepsRequests, Waiting, Open, Pending
  <2> QED BY <1>1, <2>1, RequestTaken DEF Requests
<1>2. CASE TakeRequest(c, q(flagged)) /\ groups[g] # None
                                      /\ RemovedBuiltin(groups[g].steps, flagged) = {}
  <2>1. flagged \in SUBSET Steps
    BY FlagsTyped
  <2>2. q(flagged) \in StepsRequests /\ ~Open(q(flagged))
    BY <2>1 DEF StepsRequests, Waiting, Open
  <2>3. KindsOf(flagged) = KindsOf(groups[g].steps)
    BY <1>2, FlagsKept
  <2>4. Refs(q(flagged)) = {g} /\ StepsSafe(q(flagged)) /\ RowsHeld(q(flagged))
    BY <2>3 DEF Refs, StepsSafe, RowsHeld
  <2>5. g \in KnownIds
    BY <1>2 DEF RulesInv, IdsKnown, Ids
  <2> QED BY <1>2, <2>2, <2>4, <2>5, RequestTaken DEF Requests
<1>3. TakeRequest(c, x) \/ (TakeRequest(c, q(flagged)) /\ groups[g] # None
                            /\ RemovedBuiltin(groups[g].steps, flagged) = {})
  BY DEF SaveSteps, Refused
<1> QED BY <1>1, <1>2, <1>3

LEMMA SaveAllKeeps ==
  ASSUME RuleGroupsAssumption, RulesInv, NEW c \in Clients, NEW kept \in SUBSET Ids(groups),
         NEW first \in GroupIds, NEW r \in ReadingRows, NEW sites \in SUBSET Sites,
         SaveAll(c, kept, first, r, sites)
  PROVE  RulesInv'
<1> DEFINE q == [op |-> "all", stage |-> "read", kept |-> kept, gone |-> {}, first |-> first,
                 reading |-> r, sites |-> sites, rows |-> {}, union |-> {}, late |-> FALSE]
<1>1. q \in AllRequests /\ ~Open(q)
  BY DEF AllRequests, Running, Waiting, Open, Ids
<1>2. Refs(q) = kept /\ StepsSafe(q) /\ RowsHeld(q)
  BY DEF Refs, StepsSafe, RowsHeld, SaveAll, Open
<1>3. kept \subseteq KnownIds
  BY DEF RulesInv, IdsKnown
<1> QED BY <1>1, <1>2, <1>3, RequestTaken DEF Requests, SaveAll

LEMMA AskSubscriptionKeeps ==
  ASSUME RuleGroupsAssumption, NoneAssumption, RulesInv, NEW c \in Clients, NEW s \in Subs,
         NEW g \in GroupIds, NEW own \in Patterns, AskSubscription(c, s, g, own)
  PROVE  RulesInv'
<1> DEFINE q == [op |-> "subscribe", stage |-> "read", sub |-> s, id |-> g,
                 seen |-> groups[g].reading, own |-> own, new |-> subs[s] = None,
                 paged |-> subs[s] # None /\ subs[s].pager]
<1>1. groups[g] # None /\ groups[g] \in GroupRows /\ TakeRequest(c, q)
  BY DEF AskSubscription, Resolves, RulesInv, RulesTyped, GroupsTyped
<1>2. subs[s] # None => subs[s].pager \in BOOLEAN
  BY DEF RulesInv, RulesTyped, SubsTyped, SubscriptionRows
<1>3. q \in SubscribeRequests /\ ~Open(q)
  BY <1>1, <1>2 DEF SubscribeRequests, Waiting, Open, GroupRows, Texts
<1>4. Refs(q) = {g} /\ StepsSafe(q) /\ RowsHeld(q)
  BY DEF Refs, StepsSafe, RowsHeld
<1>5. g \in KnownIds
  BY <1>1 DEF RulesInv, IdsKnown, Ids
<1> QED BY <1>1, <1>3, <1>4, <1>5, RequestTaken DEF Requests

-----------------------------------------------------------------------------
(* Transactions that open.                                                 *)

\* The rows a transaction would leave behind are rows.
LEMMA AfterTyped ==
  ASSUME RulesInv, NEW q \in Requests, q.op \in {"create", "remove", "sites", "all"}
  PROVE  GroupsAfter(q) \in [GroupIds -> GroupRows \cup {None}]
<1>0. groups \in [GroupIds -> GroupRows \cup {None}]
  BY DEF RulesInv, RulesTyped, GroupsTyped
<1>1. CASE q.op = "create"
  <2>1. [reading |-> q.reading, sites |-> q.sites, steps |-> q.steps] \in GroupRows
    BY <1>1, RequestKinds DEF CreateRequests, GroupRows
  <2> QED BY <1>0, <1>1, <2>1 DEF GroupsAfter, Created
<1>2. CASE q.op = "sites"
  <2>1. CASE groups[q.id] = None
    BY <1>0, <1>2, <2>1 DEF GroupsAfter, WithSites
  <2>2. CASE groups[q.id] # None
    <3>1. q.id \in GroupIds /\ q.sites \in SUBSET Sites
      BY <1>2, RequestKinds DEF SitesRequests
    <3>2. groups[q.id] \in GroupRows
      BY <1>0, <2>2, <3>1
    <3>3. [groups[q.id] EXCEPT !.sites = q.sites] \in GroupRows
      BY <3>1, <3>2 DEF GroupRows
    <3>4. GroupsAfter(q) = [groups EXCEPT ![q.id] = [groups[q.id] EXCEPT !.sites = q.sites]]
      BY <1>0, <1>2, <2>2, <3>1 DEF GroupsAfter, WithSites
    <3> QED BY <1>0, <3>3, <3>4
  <2> QED BY <2>1, <2>2
<1>3. CASE q.op = "remove"
  BY <1>0, <1>3 DEF GroupsAfter, Deleted
<1>4. CASE q.op = "all"
  <2>1. q \in AllRequests
    BY <1>4, RequestKinds
  <2>2. ASSUME NEW g \in GroupIds, groups[g] # None
        PROVE  [groups[g] EXCEPT !.reading = q.reading, !.sites = q.sites] \in GroupRows
    <3>1. groups[g] \in GroupRows
      BY <1>0, <2>2
    <3> QED BY <2>1, <3>1 DEF AllRequests, GroupRows
  <2> QED BY <1>0, <1>4, <2>2 DEF GroupsAfter, ReplacedBy
<1> QED BY <1>1, <1>2, <1>3, <1>4

OpenAs(q, u) == [q EXCEPT !.stage = "open", !.union = u]

LEMMA OpenOnlyOpens ==
  ASSUME NEW q \in Requests, q.op \in {"create", "remove", "sites", "all"}, NEW u \in SUBSET Sites,
         q.op = "create" => q.id # 0
  PROVE  /\ OpenAs(q, u) \in Requests
         /\ Open(OpenAs(q, u)) /\ OpenAs(q, u).op = q.op /\ OpenAs(q, u).union = u
         /\ Refs(OpenAs(q, u)) = Refs(q)
         /\ q.op = "create" =>
               /\ OpenAs(q, u).id = q.id /\ OpenAs(q, u).sites = q.sites
               /\ OpenAs(q, u).steps = q.steps /\ OpenAs(q, u).reading = q.reading
         /\ q.op = "remove" =>
               /\ OpenAs(q, u).id = q.id /\ OpenAs(q, u).fallback = q.fallback
               /\ OpenAs(q, u).seen = q.seen /\ OpenAs(q, u).rows = q.rows
         /\ q.op = "sites" => OpenAs(q, u).id = q.id /\ OpenAs(q, u).sites = q.sites
         /\ q.op = "all" =>
               /\ OpenAs(q, u).kept = q.kept /\ OpenAs(q, u).gone = q.gone
               /\ OpenAs(q, u).first = q.first /\ OpenAs(q, u).rows = q.rows
               /\ OpenAs(q, u).reading = q.reading /\ OpenAs(q, u).sites = q.sites
<1>1. CASE q.op = "create"
  BY <1>1, RequestKinds DEF OpenAs, Requests, CreateRequests, Open, Running, Waiting, Refs
<1>2. CASE q.op = "remove"
  BY <1>2, RequestKinds DEF OpenAs, Requests, RemoveRequests, Open, Running, Waiting, Refs
<1>3. CASE q.op = "sites"
  BY <1>3, RequestKinds DEF OpenAs, Requests, SitesRequests, Open, Running, Waiting, Refs
<1>4. CASE q.op = "all"
  BY <1>4, RequestKinds DEF OpenAs, Requests, AllRequests, Open, Running, Waiting, Refs
<1> QED BY <1>1, <1>2, <1>3, <1>4

LEMMA TransactionOpensKeeps ==
  ASSUME RuleGroupsAssumption, RulesInv, NEW c \in Clients, NEW q \in Requests,
         q.op \in {"create", "remove", "sites", "all"},
         req[c].stage = "read", TransactionOpens(c, q),
         \/ nextGroup' = nextGroup /\ q.op # "create"
         \/ /\ nextGroup <= MaxGroup /\ nextGroup' = nextGroup + 1
            /\ q.op = "create" /\ q.id = nextGroup,
         \A u \in SUBSET Sites :
            LET o == OpenAs(q, u)
            IN  /\ Refs(o) \subseteq KnownIds /\ StepsSafe(o) /\ RowsHeld(o) /\ HandOverIsFresh(o)
                /\ \A d \in Clients \ {c} :
                      /\ Locked(o) \cap Locked(req[d]) = {}
                      /\ LockedSubs(o) \cap LockedSubs(req[d]) = {}
  PROVE  RulesInv'
<1> DEFINE u == UnionIn(q)
           o == OpenAs(q, u)
<1>0. q.op = "create" => q.id # 0
  BY DEF RulesInv, RulesTyped, RuleGroupsAssumption
<1>1. u \in SUBSET Sites
  BY AfterTyped, UnionTyped DEF UnionIn
<1>2. /\ o \in Requests /\ Open(o) /\ o.op = q.op /\ o.union = u
      /\ q.op = "create" => o.id = q.id
  BY <1>0, <1>1, OpenOnlyOpens
<1>3. GroupsAfter(o) = GroupsAfter(q)
  <2> HIDE DEF u, o
  <2>1. CASE q.op = "create"
    <3>1. o.op = "create" /\ Created(o) = Created(q)
      BY <1>0, <1>1, <2>1, OpenOnlyOpens DEF Created, o
    <3> QED BY <2>1, <3>1 DEF GroupsAfter
  <2>2. CASE q.op = "remove"
    <3>1. o.op = "remove" /\ Deleted(o) = Deleted(q)
      BY <1>1, <2>2, OpenOnlyOpens DEF Deleted, o
    <3> QED BY <2>2, <3>1 DEF GroupsAfter
  <2>3. CASE q.op = "sites"
    <3>1. o.op = "sites" /\ WithSites(o) = WithSites(q)
      BY <1>1, <2>3, OpenOnlyOpens DEF WithSites, o
    <3> QED BY <2>3, <3>1 DEF GroupsAfter
  <2>4. CASE q.op = "all"
    <3>1. o.op = "all" /\ ReplacedBy(o) = ReplacedBy(q)
      BY <1>1, <2>4, OpenOnlyOpens DEF ReplacedBy, o
    <3> QED BY <2>4, <3>1 DEF GroupsAfter
  <2> QED BY <2>1, <2>2, <2>3, <2>4
<1>4. o.union = SiteUnion(GroupsAfter(o))
  BY <1>2, <1>3 DEF UnionIn
<1>5. Fits(c, o)
  BY <1>1, <1>4 DEF Fits
<1>6. req' = [req EXCEPT ![c] = o] /\ ~Open(req[c])
  BY DEF TransactionOpens, OpenAs, Open
<1>7. UNCHANGED <<groups, subs, unionSites, drifted, skewed>>
  BY DEF TransactionOpens
<1> HIDE DEF o
<1> QED BY <1>2, <1>5, <1>6, <1>7, RequestGoesForth

LEMMA OpenCreateKeeps ==
  ASSUME RuleGroupsAssumption, RulesInv, NEW c \in Clients, OpenCreate(c)
  PROVE  RulesInv'
<1> DEFINE q == [req[c] EXCEPT !.id = nextGroup]
<1>1. req[c] \in CreateRequests /\ nextGroup \in GroupIds /\ StepsSafe(req[c])
  BY RequestKinds DEF OpenCreate, RulesInv, RulesTyped, BuiltinSafe, Pending, GroupIds,
                      RuleGroupsAssumption
<1>2. /\ q \in CreateRequests /\ q.op = "create" /\ q.id = nextGroup /\ q.id # 0
      /\ q.steps = req[c].steps
  BY <1>1 DEF CreateRequests, GroupIds
<1>3. q \in Requests
  BY <1>2 DEF Requests
<1>4. /\ TransactionOpens(c, q) /\ nextGroup <= MaxGroup /\ nextGroup' = nextGroup + 1
      /\ req[c].stage = "read" /\ req[c].op = "create"
  BY DEF OpenCreate
<1> HIDE DEF q
<1>5. ASSUME NEW u \in SUBSET Sites
      PROVE  LET o == OpenAs(q, u)
             IN  /\ Refs(o) \subseteq KnownIds /\ StepsSafe(o) /\ RowsHeld(o) /\ HandOverIsFresh(o)
                 /\ \A d \in Clients \ {c} :
                       /\ Locked(o) \cap Locked(req[d]) = {}
                       /\ LockedSubs(o) \cap LockedSubs(req[d]) = {}
  <2>1. OpenAs(q, u).op = "create" /\ OpenAs(q, u).steps = q.steps
    BY <1>2, <1>3, OpenOnlyOpens
  <2> QED BY <1>1, <1>2, <1>4, <2>1
             DEF Refs, StepsSafe, RowsHeld, HandOverIsFresh, Locked, LockedSubs
<1> QED BY <1>2, <1>3, <1>4, <1>5, TransactionOpensKeeps

LEMMA OpenSitesKeeps ==
  ASSUME RuleGroupsAssumption, RulesInv, NEW c \in Clients, OpenSites(c)
  PROVE  RulesInv'
<1> DEFINE q == req[c]
<1>1. /\ q \in Requests /\ q.op = "sites" /\ q.stage = "read" /\ TransactionOpens(c, q)
      /\ nextGroup' = nextGroup
  BY DEF OpenSites, RulesInv, RulesTyped
<1>2. Refs(q) \subseteq KnownIds
  BY <1>1 DEF RulesInv, IdsKnown, Pending
<1>3. ASSUME NEW u \in SUBSET Sites
      PROVE  LET o == OpenAs(q, u)
             IN  /\ Refs(o) \subseteq KnownIds /\ StepsSafe(o) /\ RowsHeld(o) /\ HandOverIsFresh(o)
                 /\ \A d \in Clients \ {c} :
                       /\ Locked(o) \cap Locked(req[d]) = {}
                       /\ LockedSubs(o) \cap LockedSubs(req[d]) = {}
  <2>1. OpenAs(q, u).op = "sites" /\ OpenAs(q, u).id = q.id /\ Refs(OpenAs(q, u)) = Refs(q)
    BY <1>1, OpenOnlyOpens
  <2>2. Locked(OpenAs(q, u)) \subseteq {q.id} /\ LockedSubs(OpenAs(q, u)) = {}
    BY <2>1 DEF Locked, LockedSubs
  <2>3. \A d \in Clients \ {c} : Locked(req[d]) \cap {q.id} = {}
    BY DEF OpenSites, Free
  <2> QED BY <1>2, <2>1, <2>2, <2>3 DEF StepsSafe, RowsHeld, HandOverIsFresh
<1> QED BY <1>1, <1>3, TransactionOpensKeeps

LEMMA OpenRemoveKeeps ==
  ASSUME RuleGroupsAssumption, NoneAssumption, RulesInv, NEW c \in Clients, OpenRemove(c)
  PROVE  RulesInv'
<1> DEFINE p == req[c]
           rows == Following(p.id) \cup Following(p.fallback)
           seen == IF groups[p.fallback] = None THEN None ELSE groups[p.fallback].reading
           q == [p EXCEPT !.rows = rows, !.seen = seen]
<1>1. /\ p.op = "remove" /\ p.stage = "read" /\ TransactionOpens(c, q) /\ nextGroup' = nextGroup
      /\ Free(c, {p.id}) /\ FreeSubs(c, rows)
  BY DEF OpenRemove
<1>2. p \in RemoveRequests /\ Refs(p) \subseteq KnownIds /\ StepsSafe(p) /\ RowsHeld(p)
  BY <1>1, RequestKinds DEF RulesInv, RulesTyped, IdsKnown, BuiltinSafe, RowsStay, Pending
<1>3. p.id \in GroupIds /\ p.fallback \in GroupIds /\ rows \in SUBSET Subs
  BY <1>2 DEF RemoveRequests, Following
<1>4. seen \in ReadingRows \cup {None}
  BY <1>3 DEF RulesInv, RulesTyped, GroupsTyped, GroupRows
<1>5. /\ q \in RemoveRequests /\ q.op = "remove" /\ q.id = p.id /\ q.fallback = p.fallback
      /\ q.rows = rows /\ q.seen = seen
  BY <1>2, <1>3, <1>4 DEF RemoveRequests
<1>6. q \in Requests
  BY <1>5 DEF Requests
<1>7. ASSUME NEW s \in rows \ drifted, subs[s].group = p.fallback
      PROVE  seen # None /\ groups[p.fallback] # None /\ groups[p.fallback].reading = seen
  <2>1. s \in Subs /\ subs[s] # None
    BY <1>3, <1>7 DEF Following
  <2>2. groups[p.fallback] # None
    BY <1>7, <2>1 DEF RulesInv, SubscriptionFollowsGroup
  <2>3. groups[p.fallback].reading \in ReadingRows
    BY <1>3, <2>2 DEF RulesInv, RulesTyped, GroupsTyped, GroupRows
  <2> QED BY <2>2, <2>3, NoneAssumption
<1> HIDE DEF q, seen
<1>8. ASSUME NEW u \in SUBSET Sites
      PROVE  LET o == OpenAs(q, u)
             IN  /\ Refs(o) \subseteq KnownIds /\ StepsSafe(o) /\ RowsHeld(o) /\ HandOverIsFresh(o)
                 /\ \A d \in Clients \ {c} :
                       /\ Locked(o) \cap Locked(req[d]) = {}
                       /\ LockedSubs(o) \cap LockedSubs(req[d]) = {}
  <2> DEFINE o == OpenAs(q, u)
  <2>1. /\ o.op = "remove" /\ o.id = p.id /\ o.fallback = p.fallback /\ o.rows = rows
        /\ o.seen = seen
    BY <1>5, <1>6, OpenOnlyOpens
  <2> HIDE DEF o
  <2>2. Locked(o) \subseteq {p.id} /\ LockedSubs(o) \subseteq rows
    BY <2>1 DEF Locked, LockedSubs
  <2>3. \A d \in Clients \ {c} : Locked(req[d]) \cap {p.id} = {} /\ LockedSubs(req[d]) \cap rows = {}
    BY <1>1 DEF Free, FreeSubs
  <2>4. Refs(o) \subseteq KnownIds /\ StepsSafe(o)
    BY <1>1, <1>2, <2>1 DEF Refs, StepsSafe
  <2>5. RowsHeld(o)
    BY <1>1, <1>2, <2>1 DEF RowsHeld, Following
  <2>6. HandOverIsFresh(o)
    BY <1>7, <2>1 DEF HandOverIsFresh
  <2> QED BY <2>2, <2>3, <2>4, <2>5, <2>6 DEF o
<1> QED BY <1>1, <1>5, <1>6, <1>8, TransactionOpensKeeps

LEMMA OpenAllKeeps ==
  ASSUME RuleGroupsAssumption, RulesInv, NEW c \in Clients, OpenAll(c)
  PROVE  RulesInv'
<1> DEFINE p == req[c]
           rows == {s \in Subs : subs[s] # None}
           gone == Ids(groups) \ p.kept
           q == [p EXCEPT !.gone = gone, !.rows = rows]
<1>1. /\ p.op = "all" /\ p.stage = "read" /\ TransactionOpens(c, q) /\ nextGroup' = nextGroup
      /\ Free(c, GroupIds) /\ FreeSubs(c, Subs) /\ p.kept \subseteq Ids(groups)
  BY DEF OpenAll
<1>2. p \in AllRequests /\ StepsSafe(p) /\ RowsHeld(p)
  BY <1>1, RequestKinds DEF RulesInv, RulesTyped, BuiltinSafe, RowsStay, Pending
<1>3. gone \in SUBSET GroupIds /\ rows \in SUBSET Subs /\ Ids(groups) \subseteq GroupIds
  BY DEF Ids
<1>4. /\ q \in AllRequests /\ q.op = "all" /\ q.kept = p.kept /\ q.gone = gone
      /\ q.first = p.first /\ q.rows = rows
  BY <1>2, <1>3 DEF AllRequests
<1>5. q \in Requests
  BY <1>4 DEF Requests
<1> HIDE DEF q
<1>6. ASSUME NEW u \in SUBSET Sites
      PROVE  LET o == OpenAs(q, u)
             IN  /\ Refs(o) \subseteq KnownIds /\ StepsSafe(o) /\ RowsHeld(o) /\ HandOverIsFresh(o)
                 /\ \A d \in Clients \ {c} :
                       /\ Locked(o) \cap Locked(req[d]) = {}
                       /\ LockedSubs(o) \cap LockedSubs(req[d]) = {}
  <2> DEFINE o == OpenAs(q, u)
  <2>1. o.op = "all" /\ o.kept = p.kept /\ o.gone = gone /\ o.first = p.first /\ o.rows = rows
    BY <1>4, <1>5, OpenOnlyOpens
  <2> HIDE DEF o
  <2>2. Locked(o) \subseteq Ids(groups) /\ LockedSubs(o) \subseteq Subs
    BY <1>1, <2>1 DEF Locked, LockedSubs
  <2>3. \A d \in Clients \ {c} : Locked(req[d]) \cap GroupIds = {} /\ LockedSubs(req[d]) \cap Subs = {}
    BY <1>1 DEF Free, FreeSubs
  <2>4. Refs(o) \subseteq KnownIds
    BY <1>1, <2>1 DEF Refs, RulesInv, IdsKnown
  <2>5. StepsSafe(o)
    BY <1>1, <1>2, <2>1 DEF StepsSafe
  <2>6. ASSUME NEW s \in rows, groups[subs[s].group] # None
        PROVE  subs[s].group \in p.kept \cup gone
    BY <2>6 DEF Ids, RulesInv, RulesTyped, SubsTyped, SubscriptionRows
  <2>7. RowsHeld(o) /\ HandOverIsFresh(o)
    BY <1>1, <1>2, <2>1, <2>6 DEF RowsHeld, HandOverIsFresh
  <2> QED BY <1>3, <2>2, <2>3, <2>4, <2>5, <2>7 DEF o
<1> QED BY <1>1, <1>4, <1>5, <1>6, TransactionOpensKeeps

-----------------------------------------------------------------------------
(* Transactions that commit.                                               *)

\* The end of a request, whoever sent it.
LEMMA RequestEnds ==
  ASSUME RulesInv, NEW c \in Clients, Pending(req[c])
  PROVE  /\ req[c].op # "create" \/ Open(req[c]) => Finished(c) \in Requests
         /\ ~Pending(Finished(c))
         /\ Refusal(c) \in Requests /\ ~Pending(Refusal(c))
<1>1. req[c] \in Requests
  BY DEF RulesInv, RulesTyped
<1>2. Idle \in Requests /\ ~Pending(Idle)
  BY DEF Requests, Idle, Pending
<1>3. /\ req[c].op # "create" \/ Open(req[c]) => [req[c] EXCEPT !.stage = "done"] \in Requests
      /\ [req[c] EXCEPT !.stage = "refused"] \in Requests
  BY <1>1, RequestStages
<1>4. /\ ~Pending([req[c] EXCEPT !.stage = "done"])
      /\ ~Pending([req[c] EXCEPT !.stage = "refused"])
  BY <1>1, RequestKinds
     DEF Pending, CreateRequests, EditRequests, RemoveRequests, SitesRequests, StepsRequests,
         AllRequests, SubscribeRequests
<1> QED BY <1>2, <1>3, <1>4 DEF Finished, Refusal

\* Every other open transaction is overtaken.
LEMMA CommitOvertakes ==
  ASSUME RulesInv, NEW c \in Clients, Commits(c)
  PROVE  /\ QuietStep /\ ~Pending(req'[c])
         /\ \A d \in Clients : Open(req'[d]) => d # c /\ req'[d].late
         /\ KnownIds \subseteq KnownIds'
         /\ req[c].op = "create" => req[c].id \in KnownIds' \cap GroupIds /\ groups[req[c].id] = None
<1>1. req \in [Clients -> Requests] /\ Open(req[c]) /\ Pending(req[c]) /\ nextGroup' = nextGroup
  BY DEF RulesInv, RulesTyped, Commits, Open, Pending
<1>2. Finished(c) \in Requests /\ ~Pending(Finished(c))
  BY <1>1, RequestEnds
<1>3. /\ req'[c] = Finished(c) /\ DOMAIN req' = Clients
      /\ \A d \in Clients \ {c} : req'[d] = IF Open(req[d]) THEN Later(req[d]) ELSE req[d]
      /\ req' = [d \in Clients |-> req'[d]]
  BY <1>1 DEF Commits, Overtaken, Later, Open
<1>4. \A d \in Clients \ {c} : GoesOn(d) /\ req'[d] \in Requests /\ (Open(req'[d]) => req'[d].late)
  BY <1>1, <1>3, LateOnlyMarks DEF GoesOn
<1>5. QuietStep /\ \A d \in Clients : Open(req'[d]) => d # c /\ req'[d].late
  <2>1. req' \in [Clients -> Requests]
    BY <1>2, <1>3, <1>4
  <2> QED BY <1>2, <1>3, <1>4, <2>1 DEF QuietStep, Pending, Open
<1>6. ASSUME NEW d \in Clients, Open(req'[d]), req'[d].op = "create"
      PROVE  d # c /\ Open(req[d]) /\ req[d].op = "create" /\ req'[d].id = req[d].id
  <2>1. d # c /\ req[d] \in Requests
    BY <1>1, <1>5, <1>6
  <2> QED BY <1>3, <1>6, <2>1, LateOnlyMarks
<1>7. Reserved' \subseteq Reserved
  BY <1>6 DEF Reserved, Open
<1>8. KnownIds \subseteq KnownIds'
  BY <1>1, <1>7 DEF KnownIds
<1>9. ASSUME req[c].op = "create"
      PROVE  req[c].id \in KnownIds' \cap GroupIds /\ groups[req[c].id] = None
  <2>1. req[c].id \in GroupIds /\ req[c].id < nextGroup'
    BY <1>1, <1>9 DEF RulesInv, InsertsApart
  <2>2. req[c].id \notin Reserved'
    BY <1>1, <1>6, <1>9 DEF Reserved, RulesInv, InsertsApart, Open
  <2>3. req[c].id \notin KnownIds
    BY <1>1, <1>9 DEF Reserved, KnownIds
  <2> QED BY <2>1, <2>2, <2>3 DEF KnownIds, RulesInv, IdsKnown, Ids, GroupIds
<1> QED BY <1>2, <1>3, <1>5, <1>8, <1>9

LEMMA CommitGrows ==
  ASSUME NoneAssumption, RulesInv, NEW c \in Clients, Commits(c)
  PROVE  GroupsGrow
<1> DEFINE q == req[c]
<1>1. /\ q \in Requests /\ Open(q) /\ groups' = GroupsAfter(q)
      /\ groups \in [GroupIds -> GroupRows \cup {None}]
  BY DEF RulesInv, RulesTyped, GroupsTyped, Commits, Open
<1>2. q.op \in {"create", "remove", "sites", "all"} /\ StepsSafe(q)
  BY <1>1, RequestKinds DEF RulesInv, BuiltinSafe, Pending, Open
<1>3. KnownIds \subseteq KnownIds' /\ Ids(groups) \subseteq KnownIds'
  BY CommitOvertakes DEF RulesInv, IdsKnown
<1>4. ASSUME \A g \in GroupIds :
               /\ groups[g] = None => groups'[g] = None
               /\ groups[g] # None /\ groups'[g] # None => groups'[g].steps = groups[g].steps
      PROVE  GroupsGrow
  BY <1>3, <1>4 DEF GroupsGrow, Ids, KnownIds
<1>5. CASE q.op = "create"
  <2>1. q.id \in KnownIds' \cap GroupIds /\ groups[q.id] = None /\ KindsOf(q.steps) = {}
    BY <1>2, <1>5, CommitOvertakes DEF StepsSafe
  <2>2. q.id \notin KnownIds
    BY <1>1, <1>5 DEF KnownIds, Reserved
  <2>3. groups' = [groups EXCEPT ![q.id] =
                     [reading |-> q.reading, sites |-> q.sites, steps |-> q.steps]]
    BY <1>1, <1>5 DEF GroupsAfter, Created
  <2>4. \A g \in GroupIds : g # q.id => groups'[g] = groups[g]
    BY <1>1, <2>1, <2>3
  <2>5. groups'[q.id].steps = q.steps
    BY <1>1, <2>1, <2>3
  <2>6. Ids(groups') \subseteq Ids(groups) \cup {q.id}
    BY <2>4 DEF Ids
  <2>7. \A g \in KnownIds : g \in GroupIds /\ g # q.id
    BY <2>2 DEF KnownIds
  <2>8. ~IsBuiltin(groups'[q.id])
    BY <2>1, <2>5 DEF IsBuiltin
  <2> QED BY <1>3, <2>1, <2>4, <2>6, <2>7, <2>8 DEF GroupsGrow
<1>6. CASE q.op = "sites"
  <2>1. CASE groups[q.id] = None
    BY <1>1, <1>4, <1>6, <2>1 DEF GroupsAfter, WithSites
  <2>2. CASE groups[q.id] # None
    <3>1. q.id \in GroupIds /\ groups[q.id] \in GroupRows
      BY <1>1, <1>6, <2>2, RequestKinds DEF SitesRequests
    <3>2. groups' = [groups EXCEPT ![q.id] = [groups[q.id] EXCEPT !.sites = q.sites]]
      BY <1>1, <1>6, <2>2 DEF GroupsAfter, WithSites
    <3>3. [groups[q.id] EXCEPT !.sites = q.sites].steps = groups[q.id].steps
      BY <3>1 DEF GroupRows
    <3> QED BY <1>1, <1>4, <2>2, <3>1, <3>2, <3>3
  <2> QED BY <2>1, <2>2
<1>7. CASE q.op = "remove"
  BY <1>1, <1>4, <1>7 DEF GroupsAfter, Deleted
<1>8. CASE q.op = "all"
  <2>1. ASSUME NEW g \in GroupIds, groups[g] # None
        PROVE  [groups[g] EXCEPT !.reading = q.reading, !.sites = q.sites].steps = groups[g].steps
    BY <1>1, <2>1 DEF GroupRows
  <2> QED BY <1>1, <1>4, <1>8, <2>1 DEF GroupsAfter, ReplacedBy
<1> QED BY <1>2, <1>5, <1>6, <1>7, <1>8

\* What else there is to show of a step that commits.
LEMMA CommitKeeps ==
  ASSUME NoneAssumption, RulesInv, NEW c \in Clients, Commits(c), SubsTyped',
         drifted' \in SUBSET Subs,
         \A s \in Subs : subs'[s] # None => subs'[s].group \in KnownIds,
         \A d \in Clients \ {c} : Open(req[d]) => LocksObeyed(d) /\ ChangesSeen(d),
         SubscriptionFollowsGroup'
  PROVE  RulesInv'
<1> DEFINE q == req[c]
<1>1. /\ q \in Requests /\ Open(q) /\ groups' = GroupsAfter(q) /\ unionSites' = q.union
      /\ skewed' = q.late /\ nextGroup' = nextGroup /\ nextGroup \in 1..MaxGroup + 1
  BY DEF RulesInv, RulesTyped, Commits, Open
<1>2. q.op \in {"create", "remove", "sites", "all"}
  BY <1>1, RequestKinds
<1>3. q.union \in SUBSET Sites /\ q.late \in BOOLEAN
  BY <1>1, <1>2, RequestKinds DEF CreateRequests, RemoveRequests, SitesRequests, AllRequests
<1>4. GroupsTyped'
  BY <1>1, <1>2, AfterTyped DEF GroupsTyped
<1>5. /\ QuietStep /\ ~Pending(req'[c]) /\ KnownIds \subseteq KnownIds'
      /\ \A d \in Clients : Open(req'[d]) => d # c /\ req'[d].late
  BY CommitOvertakes
<1>6. RulesTyped'
  BY <1>1, <1>3, <1>4, <1>5 DEF RulesTyped, QuietStep
<1>7. GroupsGrow
  BY CommitGrows
<1>8. nextGroup' >= nextGroup
  BY <1>1
<1>9. ASSUME NEW d \in Clients, Pending(req'[d]) PROVE LocksObeyed(d) /\ ChangesSeen(d)
  <2>1. CASE Open(req[d])
    BY <1>5, <1>9, <2>1
  <2>2. CASE ~Open(req[d])
    BY <2>2 DEF LocksObeyed, ChangesSeen, Locked, LockedSubs, Open
  <2> QED BY <2>1, <2>2
<1>10. UnionIsOfTheGroups'
  BY <1>1 DEF UnionIsOfTheGroups, RulesInv, UnionsFresh
<1>11. \A s \in Subs : subs'[s] # None => subs'[s].group \in KnownIds'
  BY <1>5
<1> QED BY <1>5, <1>6, <1>7, <1>8, <1>9, <1>10, <1>11, StepKeepsRules

\* No group goes, and none is read another way.
ReadingsKept ==
    \A g \in GroupIds : groups[g] # None =>
        groups'[g] # None /\ groups'[g].reading = groups[g].reading

LEMMA ReadingsKeptObeys ==
  ASSUME RulesInv, ReadingsKept, UNCHANGED <<subs, drifted>>
  PROVE  /\ \A d \in Clients : Pending(req[d]) => LocksObeyed(d) /\ ChangesSeen(d)
         /\ SubscriptionFollowsGroup'
<1>1. ASSUME NEW d \in Clients, Pending(req[d]) PROVE LocksObeyed(d) /\ ChangesSeen(d)
  <2>1. req[d] \in Requests /\ RowsHeld(req[d])
    BY <1>1 DEF RulesInv, RulesTyped, RowsStay
  <2>2. \A s \in LockedSubs(req[d]) : subs[s] # None
    BY <2>1 DEF LockedSubs, RowsHeld, Open
  <2>3. \A g \in Locked(req[d]) : g \in GroupIds
    <3>1. CASE req[d].op = "sites"
      BY <2>1, <3>1, RequestKinds DEF Locked, SitesRequests
    <3>2. CASE req[d].op = "remove"
      BY <2>1, <3>2, RequestKinds DEF Locked, RemoveRequests
    <3>3. CASE req[d].op = "all"
      BY <2>1, <3>3, RequestKinds DEF Locked, AllRequests
    <3>4. CASE req[d].op \notin {"sites", "remove", "all"}
      BY <3>4 DEF Locked
    <3> QED BY <3>1, <3>2, <3>3, <3>4
  <2>4. req[d].op = "remove" => req[d].fallback \in GroupIds
    BY <2>1, RequestKinds DEF RemoveRequests
  <2> QED BY <2>2, <2>3, <2>4 DEF LocksObeyed, ChangesSeen, ReadingsKept
<1>2. ASSUME NEW s \in Subs \ drifted, subs[s] # None
      PROVE  groups'[subs[s].group] # None /\ groups'[subs[s].group].reading = groups[subs[s].group].reading
  <2>1. subs[s].group \in GroupIds /\ groups[subs[s].group] # None
    BY <1>2 DEF RulesInv, RulesTyped, SubsTyped, SubscriptionRows, SubscriptionFollowsGroup
  <2> QED BY <2>1 DEF ReadingsKept
<1>3. SubscriptionFollowsGroup'
  BY <1>2 DEF RulesInv, SubscriptionFollowsGroup
<1> QED BY <1>1, <1>3

LEMMA CommitSitesKeeps ==
  ASSUME NoneAssumption, RulesInv, NEW c \in Clients, CommitSites(c)
  PROVE  RulesInv'
<1> DEFINE q == req[c]
<1>1. /\ Commits(c) /\ UNCHANGED <<subs, drifted>> /\ q.op \in {"create", "sites"}
      /\ q \in Requests /\ groups \in [GroupIds -> GroupRows \cup {None}]
      /\ groups' = GroupsAfter(q)
  BY DEF CommitSites, Commits, RulesInv, RulesTyped, GroupsTyped
<1>2. ReadingsKept
  <2>1. CASE q.op = "create"
    <3>1. groups[q.id] = None
      BY <1>1, <2>1, CommitOvertakes
    <3>2. groups' = [groups EXCEPT ![q.id] =
                       [reading |-> q.reading, sites |-> q.sites, steps |-> q.steps]]
      BY <1>1, <2>1 DEF GroupsAfter, Created
    <3> QED BY <1>1, <3>1, <3>2 DEF ReadingsKept
  <2>2. CASE q.op = "sites" /\ groups[q.id] = None
    BY <1>1, <2>2 DEF GroupsAfter, WithSites, ReadingsKept
  <2>3. CASE q.op = "sites" /\ groups[q.id] # None
    <3>1. q.id \in GroupIds /\ groups[q.id] \in GroupRows /\ q.sites \in SUBSET Sites
      BY <1>1, <2>3, RequestKinds DEF SitesRequests
    <3>2. /\ [groups[q.id] EXCEPT !.sites = q.sites].reading = groups[q.id].reading
          /\ [groups[q.id] EXCEPT !.sites = q.sites] \in GroupRows
      BY <3>1 DEF GroupRows
    <3>3. groups' = [groups EXCEPT ![q.id] = [groups[q.id] EXCEPT !.sites = q.sites]]
      BY <1>1, <2>3 DEF GroupsAfter, WithSites
    <3> QED BY <1>1, <3>1, <3>2, <3>3, NoneAssumption DEF ReadingsKept
  <2> QED BY <1>1, <2>1, <2>2, <2>3
<1>3. SubsTyped' /\ drifted' \in SUBSET Subs
  BY <1>1 DEF RulesInv, RulesTyped, SubsTyped
<1>4. \A s \in Subs : subs'[s] # None => subs'[s].group \in KnownIds
  BY <1>1 DEF RulesInv, IdsKnown
<1>5. /\ \A d \in Clients : Pending(req[d]) => LocksObeyed(d) /\ ChangesSeen(d)
      /\ SubscriptionFollowsGroup'
  BY <1>1, <1>2, ReadingsKeptObeys
<1> QED BY <1>1, <1>3, <1>4, <1>5, CommitKeeps DEF Open, Pending

\* Where nothing of the rows moves, a step that opens nothing and ends requests.
LEMMA QuietChangeKeeps ==
  ASSUME NoneAssumption, RulesInv, RulesTyped', QuietStep, GroupsGrow, nextGroup' >= nextGroup,
         \A s \in Subs : subs'[s] # None => subs'[s].group \in KnownIds',
         \A c \in Clients : Pending(req'[c]) => LocksObeyed(c) /\ ChangesSeen(c),
         SitesKept, UNCHANGED <<unionSites, skewed>>,
         SubscriptionFollowsGroup'
  PROVE  RulesInv'
<1>1. SiteUnion(groups') = SiteUnion(groups)
  BY UnionBySites DEF SitesKept
<1>2. UnionIsOfTheGroups'
  BY <1>1 DEF RulesInv, UnionIsOfTheGroups
<1> QED BY <1>2, StepKeepsRules

\* A request that ends without a transaction of its own left open.
LEMMA OneEnds ==
  ASSUME RulesInv, NEW c \in Clients, NEW q \in Requests, ~Pending(q), ~Open(req[c]),
         req' = [req EXCEPT ![c] = q]
  PROVE  /\ QuietStep /\ Reserved' = Reserved
         /\ \A d \in Clients : Pending(req'[d]) => Pending(req[d])
<1>1. req \in [Clients -> Requests]
  BY DEF RulesInv, RulesTyped
<1>2. req'[c] = q /\ \A d \in Clients \ {c} : req'[d] = req[d]
  BY <1>1
<1>3. QuietStep
  BY <1>1, <1>2 DEF QuietStep, GoesOn
<1>4. \A d \in Clients : (Open(req'[d]) <=> Open(req[d])) /\ (Open(req[d]) => req'[d] = req[d])
  BY <1>2 DEF Open, Pending
<1>5. Reserved' = Reserved
  BY <1>4 DEF Reserved, Open
<1> QED BY <1>2, <1>3, <1>5

LEMMA CommitCreateKeeps ==
  ASSUME RuleGroupsAssumption, NoneAssumption, RulesInv, NEW c \in Clients, CommitCreate(c)
  PROVE  RulesInv'
<1> DEFINE p == req[c]
           q == [p EXCEPT !.id = nextGroup]
           r == IF c = Page THEN [q EXCEPT !.stage = "done"] ELSE Idle
           row == [reading |-> p.reading, sites |-> {}, steps |-> p.steps]
<1>1. /\ p.stage = "read" /\ p.op = "create" /\ p.sites = {} /\ nextGroup <= MaxGroup
      /\ nextGroup' = nextGroup + 1 /\ groups' = Created(q) /\ req' = [req EXCEPT ![c] = r]
      /\ UNCHANGED <<subs, unionSites, drifted, skewed>>
  BY DEF CommitCreate
<1>2. /\ p \in CreateRequests /\ KindsOf(p.steps) = {} /\ nextGroup \in GroupIds
      /\ nextGroup \in Nat /\ groups \in [GroupIds -> GroupRows \cup {None}]
  BY <1>1, RequestKinds
     DEF RulesInv, RulesTyped, GroupsTyped, BuiltinSafe, StepsSafe, Pending, GroupIds,
         RuleGroupsAssumption
<1>3. /\ q \in CreateRequests /\ q.id = nextGroup /\ q.reading = p.reading
      /\ q.sites = {} /\ q.steps = p.steps
  BY <1>1, <1>2 DEF CreateRequests
<1>4. [q EXCEPT !.stage = "done"] \in CreateRequests /\ ~Pending([q EXCEPT !.stage = "done"])
  <2>1. q.id # 0
    BY <1>2, <1>3 DEF GroupIds
  <2> HIDE DEF q
  <2> QED BY <1>3, <2>1 DEF CreateRequests, Running, Waiting, Pending
<1>5. r \in Requests /\ ~Pending(r) /\ ~Open(p)
  BY <1>1, <1>4 DEF Requests, Idle, Pending, Open
<1>6. groups' = [groups EXCEPT ![nextGroup] = row]
  BY <1>1, <1>3 DEF Created
<1>7. row \in GroupRows /\ row # None /\ row.sites = {} /\ row.steps = p.steps
  <2>1. row \in GroupRows
    BY <1>2 DEF GroupRows, CreateRequests
  <2> QED BY <2>1, NoneAssumption
<1>8. nextGroup \notin KnownIds /\ groups[nextGroup] = None
  <2>1. nextGroup \notin KnownIds
    BY <1>2 DEF KnownIds
  <2> QED BY <1>2, <2>1 DEF RulesInv, IdsKnown, Ids
<1> HIDE DEF r, row
<1>9. QuietStep /\ Reserved' = Reserved /\ \A d \in Clients : Pending(req'[d]) => Pending(req[d])
  BY <1>1, <1>5, OneEnds
<1>10. KnownIds' = KnownIds \cup {nextGroup}
  <2>1. nextGroup \notin Reserved
    <3>1. \A x \in Reserved : x < nextGroup
      BY DEF Reserved, RulesInv, InsertsApart
    <3> QED BY <1>2, <3>1
  <2>2. \A g \in GroupIds : g < nextGroup + 1 <=> (g < nextGroup \/ g = nextGroup)
    BY <1>2 DEF GroupIds
  <2> QED BY <1>1, <1>2, <1>9, <2>1, <2>2 DEF KnownIds, GroupIds
<1>11. \A g \in GroupIds : groups'[g] = IF g = nextGroup THEN row ELSE groups[g]
  BY <1>2, <1>6
<1>12. GroupsGrow
  <2>1. Ids(groups') \subseteq Ids(groups) \cup {nextGroup}
    BY <1>11 DEF Ids
  <2>2. ~IsBuiltin(row)
    BY <1>2, <1>7 DEF IsBuiltin
  <2>3. Ids(groups) \subseteq KnownIds /\ KnownIds \subseteq GroupIds
    BY DEF RulesInv, IdsKnown, KnownIds
  <2> QED BY <1>8, <1>10, <1>11, <2>1, <2>2, <2>3 DEF GroupsGrow
<1>13. ReadingsKept
  BY <1>8, <1>11 DEF ReadingsKept
<1>14. SitesKept
  BY <1>7, <1>8, <1>11 DEF SitesKept, SitesAt
<1>15. RulesTyped'
  <2>1. groups' \in [GroupIds -> GroupRows \cup {None}]
    BY <1>2, <1>6, <1>7
  <2>2. nextGroup' \in 1..MaxGroup + 1
    BY <1>1, <1>2 DEF RuleGroupsAssumption
  <2> QED BY <1>1, <1>9, <2>1, <2>2 DEF RulesInv, RulesTyped, GroupsTyped, SubsTyped, QuietStep
<1>16. /\ \A d \in Clients : Pending(req[d]) => LocksObeyed(d) /\ ChangesSeen(d)
       /\ SubscriptionFollowsGroup'
  BY <1>1, <1>13, ReadingsKeptObeys
<1>17. \A s \in Subs : subs'[s] # None => subs'[s].group \in KnownIds'
  BY <1>1, <1>10 DEF RulesInv, IdsKnown
<1>18. nextGroup' >= nextGroup
  BY <1>1, <1>2
<1> QED BY <1>1, <1>9, <1>12, <1>14, <1>15, <1>16, <1>17, <1>18, QuietChangeKeeps

\* Where every id that was known is still all there is to know.
LEMMA RowsStand ==
  ASSUME RulesInv, nextGroup' = nextGroup, Reserved' = Reserved,
         \A g \in GroupIds :
            /\ groups[g] = None => groups'[g] = None
            /\ groups[g] # None /\ groups'[g] # None =>
                  KindsOf(groups'[g].steps) = KindsOf(groups[g].steps)
  PROVE  GroupsGrow /\ KnownIds' = KnownIds /\ nextGroup' >= nextGroup
<1>1. KnownIds' = KnownIds /\ nextGroup \in Nat
  BY DEF KnownIds, RulesInv, RulesTyped
<1>2. Ids(groups') \subseteq Ids(groups) /\ KnownIds \subseteq GroupIds
  BY DEF Ids, KnownIds
<1>3. Ids(groups) \subseteq KnownIds
  BY DEF RulesInv, IdsKnown
<1> QED BY <1>1, <1>2, <1>3 DEF GroupsGrow

LEMMA CommitStepsKeeps ==
  ASSUME NoneAssumption, RulesInv, NEW c \in Clients, CommitSteps(c)
  PROVE  RulesInv'
<1> DEFINE q == req[c]
<1>1. /\ q.stage = "read" /\ q.op = "steps" /\ req' = [req EXCEPT ![c] = Finished(c)]
      /\ UNCHANGED <<nextGroup, subs, unionSites, drifted, skewed>>
  BY DEF CommitSteps
<1>2. Pending(q) /\ ~Open(q) /\ Finished(c) \in Requests /\ ~Pending(Finished(c))
  BY <1>1, RequestEnds DEF Pending, Open
<1>3. QuietStep /\ Reserved' = Reserved /\ \A d \in Clients : Pending(req'[d]) => Pending(req[d])
  BY <1>1, <1>2, OneEnds
<1>4. /\ q \in StepsRequests /\ StepsSafe(q) /\ groups \in [GroupIds -> GroupRows \cup {None}]
      /\ q.id \in GroupIds /\ q.steps \in SUBSET Steps
  BY <1>1, <1>2, RequestKinds
     DEF RulesInv, RulesTyped, GroupsTyped, BuiltinSafe, StepsRequests
<1>5. /\ groups' \in [GroupIds -> GroupRows \cup {None}]
      /\ \A g \in GroupIds :
           /\ groups[g] = None <=> groups'[g] = None
           /\ groups[g] # None =>
                /\ groups'[g].reading = groups[g].reading /\ groups'[g].sites = groups[g].sites
                /\ KindsOf(groups'[g].steps) = KindsOf(groups[g].steps)
  <2>1. CASE groups[q.id] = None
    BY <1>4, <2>1 DEF CommitSteps
  <2>2. CASE groups[q.id] # None
    <3> DEFINE row == [groups[q.id] EXCEPT !.steps = q.steps]
    <3>1. groups[q.id] \in GroupRows
      BY <1>4, <2>2
    <3>2. /\ row \in GroupRows /\ row.reading = groups[q.id].reading
          /\ row.sites = groups[q.id].sites /\ row.steps = q.steps
      BY <1>4, <3>1 DEF GroupRows
    <3>3. groups' = [groups EXCEPT ![q.id] = row]
      BY <2>2 DEF CommitSteps
    <3>4. KindsOf(row.steps) = KindsOf(groups[q.id].steps) /\ row # None
      BY <1>1, <1>4, <2>2, <3>2, NoneAssumption DEF StepsSafe
    <3> HIDE DEF row
    <3> QED BY <1>4, <2>2, <3>2, <3>3, <3>4
  <2> QED BY <2>1, <2>2
<1>6. GroupsGrow /\ KnownIds' = KnownIds /\ nextGroup' >= nextGroup
  BY <1>1, <1>3, <1>5, RowsStand
<1>7. ReadingsKept /\ SitesKept
  BY <1>5 DEF ReadingsKept, SitesKept, SitesAt
<1>8. RulesTyped'
  BY <1>1, <1>3, <1>5 DEF RulesInv, RulesTyped, GroupsTyped, SubsTyped, QuietStep
<1>9. /\ \A d \in Clients : Pending(req[d]) => LocksObeyed(d) /\ ChangesSeen(d)
      /\ SubscriptionFollowsGroup'
  BY <1>1, <1>7, ReadingsKeptObeys
<1>10. \A s \in Subs : subs'[s] # None => subs'[s].group \in KnownIds'
  BY <1>1, <1>6 DEF RulesInv, IdsKnown
<1> QED BY <1>1, <1>3, <1>6, <1>7, <1>8, <1>9, <1>10, QuietChangeKeeps

LEMMA RollBackKeeps ==
  ASSUME NoneAssumption, RulesInv, NEW c \in Clients, RollBack(c)
  PROVE  RulesInv'
<1>1. /\ Pending(req[c]) /\ ~Open(req[c]) /\ req' = [req EXCEPT ![c] = Refusal(c)] /\ Untouched
  BY DEF RollBack, Pending, Open, Untouched
<1>2. Refusal(c) \in Requests /\ ~Pending(Refusal(c)) /\ req \in [Clients -> Requests]
  BY <1>1, RequestEnds DEF RulesInv, RulesTyped
<1> QED BY <1>1, <1>2, RequestsEnd

\* The reading of one row is written, and the rows that do not copy it are known.
LEMMA ReadingWritten ==
  ASSUME NoneAssumption, RulesInv, NEW g \in GroupIds, NEW r \in ReadingRows, groups[g] # None,
         groups' = [groups EXCEPT ![g].reading = r]
  PROVE  /\ groups' \in [GroupIds -> GroupRows \cup {None}]
         /\ \A h \in GroupIds :
              /\ groups[h] = None <=> groups'[h] = None
              /\ groups[h] # None =>
                   groups'[h].sites = groups[h].sites /\ groups'[h].steps = groups[h].steps
              /\ h # g => groups'[h] = groups[h]
         /\ groups'[g].reading = r
         /\ SitesKept
<1> DEFINE row == [groups[g] EXCEPT !.reading = r]
<1>1. groups \in [GroupIds -> GroupRows \cup {None}] /\ groups[g] \in GroupRows
  BY DEF RulesInv, RulesTyped, GroupsTyped
<1>2. /\ row \in GroupRows /\ row.reading = r
      /\ row.sites = groups[g].sites /\ row.steps = groups[g].steps
  BY <1>1 DEF GroupRows
<1>3. groups' = [groups EXCEPT ![g] = row] /\ row # None
  BY <1>2, NoneAssumption
<1> HIDE DEF row
<1>4. \A h \in GroupIds : groups'[h] = IF h = g THEN row ELSE groups[h]
  BY <1>1, <1>3
<1>5. groups' \in [GroupIds -> GroupRows \cup {None}]
  BY <1>1, <1>2, <1>3
<1>6. \A h \in GroupIds :
        /\ groups[h] = None <=> groups'[h] = None
        /\ groups[h] # None =>
             groups'[h].sites = groups[h].sites /\ groups'[h].steps = groups[h].steps
        /\ h # g => groups'[h] = groups[h]
  BY <1>2, <1>3, <1>4
<1>7. SitesKept
  BY <1>6 DEF SitesKept, SitesAt
<1> QED BY <1>2, <1>4, <1>5, <1>6, <1>7

LEMMA CommitEditKeeps ==
  ASSUME NoneAssumption, RulesInv, NEW c \in Clients, CommitEdit(c)
  PROVE  RulesInv'
<1> DEFINE q == req[c]
<1>1. /\ q.stage = "read" /\ q.op = "edit" /\ req' = [req EXCEPT ![c] = Finished(c)]
      /\ UNCHANGED <<nextGroup, unionSites, skewed>>
      /\ FreeSubs(c, Following(q.id)) /\ subs' = SyncSubscriptions(subs, groups', {q.id})
  BY DEF CommitEdit
<1>2. Pending(q) /\ ~Open(q) /\ Finished(c) \in Requests /\ ~Pending(Finished(c))
  BY <1>1, RequestEnds DEF Pending, Open
<1>3. QuietStep /\ Reserved' = Reserved /\ \A d \in Clients : Pending(req'[d]) => Pending(req[d])
  BY <1>1, <1>2, OneEnds
<1>4. /\ groups \in [GroupIds -> GroupRows \cup {None}]
      /\ q.id \in GroupIds /\ q.reading \in ReadingRows
      /\ subs \in [Subs -> SubscriptionRows \cup {None}]
  BY <1>1, RequestKinds DEF RulesInv, RulesTyped, GroupsTyped, SubsTyped, EditRequests
<1>5. CASE groups[q.id] = None
  <2>1. groups' = groups /\ drifted' = drifted
    BY <1>5 DEF CommitEdit
  <2>2. subs' = subs
    BY <1>1, <1>4, <1>5, <2>1 DEF SyncSubscriptions, Ids
  <2> QED BY <1>1, <1>2, <1>4, <2>1, <2>2, RequestsEnd DEF Untouched, RulesInv, RulesTyped
<1>6. CASE groups[q.id] # None
  <2>1. groups' = [groups EXCEPT ![q.id].reading = q.reading] /\ drifted' = drifted \ Following(q.id)
    BY <1>6 DEF CommitEdit
  <2>2. /\ groups' \in [GroupIds -> GroupRows \cup {None}]
        /\ \A h \in GroupIds :
             /\ groups[h] = None <=> groups'[h] = None
             /\ groups[h] # None =>
                  groups'[h].sites = groups[h].sites /\ groups'[h].steps = groups[h].steps
             /\ h # q.id => groups'[h] = groups[h]
        /\ groups'[q.id].reading = q.reading
        /\ SitesKept
    BY <1>4, <1>6, <2>1, ReadingWritten
  <2>3. GroupsGrow /\ KnownIds' = KnownIds /\ nextGroup' >= nextGroup
    BY <1>1, <1>3, <2>2, RowsStand
  <2>4. ASSUME NEW s \in Subs
        PROVE  subs'[s] = IF s \in Following(q.id) THEN Synced(subs[s], q.reading) ELSE subs[s]
    BY <1>1, <1>4, <1>6, <2>2, <2>4 DEF SyncSubscriptions, Following, Ids
  <2>5. ASSUME NEW s \in Subs
        PROVE  /\ subs'[s] \in SubscriptionRows \cup {None}
               /\ subs'[s] = None <=> subs[s] = None
               /\ subs[s] # None => subs'[s].group = subs[s].group
               /\ s \in Following(q.id) => Reads(subs'[s], q.reading)
    <3>1. CASE s \in Following(q.id)
      <4>1. subs[s] \in SubscriptionRows
        BY <1>4, <3>1 DEF Following
      <4>2. /\ Synced(subs[s], q.reading) \in SubscriptionRows
            /\ Synced(subs[s], q.reading).group = subs[s].group
            /\ Reads(Synced(subs[s], q.reading), q.reading)
        BY <1>4, <4>1, SyncedReads
      <4> QED BY <2>4, <3>1, <4>1, <4>2, NoneAssumption
    <3>2. CASE s \notin Following(q.id)
      BY <1>4, <2>4, <3>2
    <3> QED BY <3>1, <3>2
  <2>6. SubsTyped' /\ drifted' \in SUBSET Subs
    <3>1. subs' = [s \in Subs |-> subs'[s]]
      BY <1>1 DEF SyncSubscriptions
    <3> QED BY <2>1, <2>5, <3>1 DEF SubsTyped, RulesInv, RulesTyped
  <2>7. RulesTyped'
    BY <1>1, <1>3, <2>2, <2>6 DEF RulesInv, RulesTyped, GroupsTyped, QuietStep
  <2>8. ASSUME NEW d \in Clients, Pending(req'[d]) PROVE LocksObeyed(d) /\ ChangesSeen(d)
    <3>1. req[d] \in Requests /\ RowsHeld(req[d]) /\ Pending(req[d])
      BY <1>3, <2>8 DEF RulesInv, RulesTyped, RowsStay
    <3>2. CASE ~Open(req[d])
      BY <3>2 DEF LocksObeyed, ChangesSeen, Locked, LockedSubs, Open
    <3>3. CASE Open(req[d])
      <4>1. d # c /\ LockedSubs(req[d]) \cap Following(q.id) = {}
        BY <1>1, <1>2, <3>3 DEF FreeSubs
      <4>2. LockedSubs(req[d]) \subseteq Subs /\ \A s \in LockedSubs(req[d]) : subs[s] # None
        BY <3>1, <3>3, RequestKinds DEF LockedSubs, RowsHeld, RemoveRequests, AllRequests
      <4>3. LocksObeyed(d)
        <5>1. \A g \in Locked(req[d]) : g \in GroupIds
          BY <3>1, <3>3, RequestKinds
             DEF Locked, Open, SitesRequests, RemoveRequests, AllRequests
        <5> QED BY <2>2, <2>5, <4>2, <5>1 DEF LocksObeyed
      <4>4. ChangesSeen(d)
        <5>1. ASSUME req[d].op = "remove", NEW s \in LockedSubs(req[d]) \ drifted'
              PROVE  s \notin drifted /\ req[d].fallback \in GroupIds
                     /\ (subs[s].group = req[d].fallback => req[d].fallback # q.id)
          BY <2>1, <3>1, <4>1, <4>2, <5>1, RequestKinds DEF Following, RemoveRequests
        <5> QED BY <2>2, <5>1 DEF ChangesSeen
      <4> QED BY <4>3, <4>4
    <3> QED BY <3>2, <3>3
  <2>9. SubscriptionFollowsGroup'
    <3> SUFFICES ASSUME NEW s \in Subs \ drifted', subs'[s] # None
                 PROVE  groups'[subs'[s].group] # None
                        /\ Reads(subs'[s], groups'[subs'[s].group].reading)
      BY DEF SubscriptionFollowsGroup, Reads
    <3>1. CASE s \in Following(q.id)
      BY <1>4, <1>6, <2>2, <2>5, <3>1 DEF Following
    <3>2. CASE s \notin Following(q.id)
      <4>1. subs'[s] = subs[s] /\ s \notin drifted /\ subs[s].group \in GroupIds
        BY <1>4, <2>1, <2>4, <3>2 DEF SubscriptionRows
      <4>2. groups[subs[s].group] # None /\ Reads(subs[s], groups[subs[s].group].reading)
        BY <4>1, FollowsReads DEF RulesInv
      <4>3. subs[s].group # q.id
        BY <3>2, <4>1 DEF Following
      <4> QED BY <2>2, <4>1, <4>2, <4>3
    <3> QED BY <3>1, <3>2
  <2>10. \A s \in Subs : subs'[s] # None => subs'[s].group \in KnownIds'
    BY <2>3, <2>5 DEF RulesInv, IdsKnown
  <2> QED BY <1>1, <1>3, <2>2, <2>3, <2>7, <2>8, <2>9, <2>10, QuietChangeKeeps
<1> QED BY <1>5, <1>6

\* The subscriptions an open transaction holds, and the groups.
LEMMA HeldAreThere ==
  ASSUME RulesInv, NEW d \in Clients, Open(req[d])
  PROVE  /\ LockedSubs(req[d]) \subseteq Subs
         /\ \A s \in LockedSubs(req[d]) : subs[s] # None
         /\ Locked(req[d]) \subseteq GroupIds
         /\ req[d].op = "remove" => req[d].fallback \in GroupIds
<1>1. req[d] \in Requests /\ RowsHeld(req[d])
  BY DEF RulesInv, RulesTyped, RowsStay, Open, Pending
<1> QED BY <1>1, RequestKinds
           DEF LockedSubs, Locked, RowsHeld, SitesRequests, RemoveRequests, AllRequests, Open

LEMMA WriteSubscriptionKeeps ==
  ASSUME NoneAssumption, RulesInv, NEW c \in Clients, WriteSubscription(c)
  PROVE  RulesInv'
<1> DEFINE q == req[c]
           fresh == Subscribed(q.id, q.seen, q.own)
           row == IF q.new THEN fresh
                  ELSE [fresh EXCEPT !.scanned = ~q.seen.pager \/ (q.paged /\ subs[q.sub].scanned),
                                     !.scanning = subs[q.sub].scanning]
<1>1. /\ q.stage = "read" /\ q.op = "subscribe" /\ req' = [req EXCEPT ![c] = Idle]
      /\ UNCHANGED <<groups, nextGroup, unionSites, skewed>>
      /\ IF q.new THEN subs[q.sub] = None ELSE FreeSubs(c, {q.sub})
  BY DEF WriteSubscription
<1>2. Pending(q) /\ ~Open(q) /\ Idle \in Requests /\ ~Pending(Idle)
  BY <1>1 DEF Pending, Open, Idle, Requests
<1>3. QuietStep /\ Reserved' = Reserved /\ \A d \in Clients : Pending(req'[d]) => Pending(req[d])
  BY <1>1, <1>2, OneEnds
<1>4. /\ q \in SubscribeRequests /\ Refs(q) \subseteq KnownIds
      /\ groups \in [GroupIds -> GroupRows \cup {None}]
      /\ subs \in [Subs -> SubscriptionRows \cup {None}]
  BY <1>1, <1>2, RequestKinds DEF RulesInv, RulesTyped, GroupsTyped, SubsTyped, IdsKnown
<1>5. /\ q.sub \in Subs /\ q.id \in GroupIds \cap KnownIds /\ q.seen \in ReadingRows
      /\ q.own \in Texts /\ q.new \in BOOLEAN /\ q.paged \in BOOLEAN
  BY <1>1, <1>4 DEF SubscribeRequests, Refs
<1>6. CASE ~q.new /\ subs[q.sub] = None
  <2>1. UNCHANGED <<subs, drifted>>
    BY <1>6 DEF WriteSubscription
  <2> QED BY <1>1, <1>2, <1>4, <2>1, RequestsEnd DEF Untouched, RulesInv, RulesTyped
<1>7. CASE ~(~q.new /\ subs[q.sub] = None)
  <2>1. /\ subs' = [subs EXCEPT ![q.sub] = row]
        /\ drifted' = IF groups[q.id] # None /\ groups[q.id].reading = q.seen
                      THEN drifted \ {q.sub} ELSE drifted \cup {q.sub}
    BY <1>7 DEF WriteSubscription
  <2>2. row \in SubscriptionRows /\ row.group = q.id /\ Reads(row, q.seen)
    <3>1. fresh \in SubscriptionRows /\ fresh.group = q.id /\ Reads(fresh, q.seen)
      BY <1>5, SubscribedReads
    <3>2. CASE q.new
      BY <3>1, <3>2
    <3>3. CASE ~q.new
      <4>1. subs[q.sub] \in SubscriptionRows
        BY <1>4, <1>5, <1>7, <3>3
      <4> HIDE DEF fresh
      <4>2. /\ (~q.seen.pager \/ (q.paged /\ subs[q.sub].scanned)) \in BOOLEAN
            /\ subs[q.sub].scanning \in BOOLEAN
        BY <1>5, <4>1 DEF SubscriptionRows, ReadingRows
      <4> QED BY <3>1, <3>3, <4>2 DEF SubscriptionRows, Reads
    <3> QED BY <1>5, <3>2, <3>3
  <2> HIDE DEF row
  <2>3. \A s \in Subs : subs'[s] = IF s = q.sub THEN row ELSE subs[s]
    BY <1>4, <2>1
  <2>4. row # None
    BY <2>2, NoneAssumption
  <2>5. GroupsGrow /\ KnownIds' = KnownIds /\ nextGroup' >= nextGroup
    BY <1>1, <1>3, RowsStand
  <2>6. RulesTyped'
    <3>1. subs' \in [Subs -> SubscriptionRows \cup {None}]
      BY <1>4, <2>1, <2>2
    <3> QED BY <1>1, <1>3, <1>5, <2>1, <3>1 DEF RulesInv, RulesTyped, GroupsTyped, SubsTyped, QuietStep
  <2>7. ASSUME NEW d \in Clients, Pending(req'[d]) PROVE LocksObeyed(d) /\ ChangesSeen(d)
    <3>1. CASE ~Open(req[d])
      BY <3>1 DEF LocksObeyed, ChangesSeen, Locked, LockedSubs, Open
    <3>2. CASE Open(req[d])
      <4>1. /\ LockedSubs(req[d]) \subseteq Subs
            /\ \A s \in LockedSubs(req[d]) : subs[s] # None
        BY <3>2, HeldAreThere
      <4>2. d # c
        BY <1>2, <3>2
      <4>3. q.sub \notin LockedSubs(req[d])
        BY <1>1, <4>1, <4>2 DEF FreeSubs
      <4>4. \A s \in LockedSubs(req[d]) : subs'[s] = subs[s] /\ (s \in drifted => s \in drifted')
        BY <2>1, <2>3, <4>1, <4>3
      <4> QED BY <1>1, <4>1, <4>4 DEF LocksObeyed, ChangesSeen
    <3> QED BY <3>1, <3>2
  <2>8. SitesKept
    BY <1>1 DEF SitesKept
  <2>9. SubscriptionFollowsGroup'
    <3> SUFFICES ASSUME NEW s \in Subs \ drifted', subs'[s] # None
                 PROVE  groups[subs'[s].group] # None
                        /\ Reads(subs'[s], groups[subs'[s].group].reading)
      BY <1>1 DEF SubscriptionFollowsGroup, Reads
    <3>1. CASE s = q.sub
      BY <1>5, <2>1, <2>2, <2>3, <3>1
    <3>2. CASE s # q.sub
      <4>1. subs'[s] = subs[s] /\ s \notin drifted
        BY <2>1, <2>3, <3>2
      <4> QED BY <4>1, FollowsReads DEF RulesInv
    <3> QED BY <3>1, <3>2
  <2>10. \A s \in Subs : subs'[s] # None => subs'[s].group \in KnownIds'
    BY <1>5, <2>2, <2>3, <2>5 DEF RulesInv, IdsKnown
  <2> QED BY <1>1, <1>3, <2>5, <2>6, <2>7, <2>8, <2>9, <2>10, QuietChangeKeeps
<1> QED BY <1>6, <1>7

LEMMA CommitRemoveKeeps ==
  ASSUME NoneAssumption, RulesInv, NEW c \in Clients, CommitRemove(c)
  PROVE  RulesInv'
<1> DEFINE q == req[c]
           current == q.seen # None /\ groups[q.fallback] # None
                                    /\ groups[q.fallback].reading = q.seen
<1>1. /\ q.op = "remove" /\ Commits(c) /\ Open(q)
      /\ subs' = [s \in Subs |-> IF s \in q.rows THEN HandedOver(subs[s], q) ELSE subs[s]]
      /\ drifted' = IF current
                    THEN (drifted \ q.rows) \cup (Following(q.id) \ q.rows)
                    ELSE drifted \cup Following(q.id)
  BY DEF CommitRemove, Commits, Open
<1>2. /\ q \in RemoveRequests /\ Refs(q) \subseteq KnownIds /\ RowsHeld(q) /\ HandOverIsFresh(q)
      /\ groups \in [GroupIds -> GroupRows \cup {None}]
      /\ subs \in [Subs -> SubscriptionRows \cup {None}]
      /\ drifted \in SUBSET Subs
  BY <1>1, RequestKinds
     DEF RulesInv, RulesTyped, GroupsTyped, SubsTyped, IdsKnown, RowsStay, Pending, Open
<1>3. /\ q.id \in GroupIds /\ q.fallback \in GroupIds \cap KnownIds /\ q.fallback # q.id
      /\ q.rows \in SUBSET Subs /\ q.seen \in ReadingRows \cup {None}
  BY <1>1, <1>2 DEF RemoveRequests, Refs, RowsHeld
<1>4. groups' = [groups EXCEPT ![q.id] = None]
  BY <1>1 DEF Commits, GroupsAfter, Deleted
<1>5. \A g \in GroupIds : groups'[g] = IF g = q.id THEN None ELSE groups[g]
  BY <1>2, <1>4
<1>6. ASSUME NEW s \in q.rows
      PROVE  /\ subs[s] # None /\ subs[s].group \in {q.id, q.fallback}
             /\ subs'[s] \in SubscriptionRows /\ subs'[s].group = q.fallback
             /\ q.seen # None => Reads(subs'[s], q.seen)
  <2>1. subs[s] # None /\ subs[s].group \in {q.id, q.fallback}
    BY <1>1, <1>2, <1>6 DEF RowsHeld
  <2>2. s \in Subs /\ subs[s] \in SubscriptionRows
    BY <1>2, <1>3, <1>6, <2>1
  <2>3. subs'[s] = HandedOver(subs[s], q)
    BY <1>1, <1>6, <2>2
  <2>4. CASE q.seen = None
    <3>1. subs'[s] = [subs[s] EXCEPT !.group = q.fallback]
      BY <2>3, <2>4 DEF HandedOver
    <3> QED BY <1>3, <2>1, <2>2, <2>4, <3>1 DEF SubscriptionRows
  <2>5. CASE q.seen # None
    <3> DEFINE y == Synced(subs[s], q.seen)
    <3>1. y \in SubscriptionRows /\ Reads(y, q.seen)
      BY <1>3, <2>2, <2>5, SyncedReads
    <3>2. subs'[s] = [y EXCEPT !.group = q.fallback]
      BY <2>3, <2>5 DEF HandedOver
    <3> HIDE DEF y
    <3> QED BY <1>3, <2>1, <3>1, <3>2 DEF SubscriptionRows, Reads
  <2> QED BY <2>4, <2>5
<1>7. \A s \in Subs \ q.rows : subs'[s] = subs[s]
  BY <1>1
<1>8. SubsTyped' /\ drifted' \in SUBSET Subs
  <2>1. \A s \in Subs : subs'[s] \in SubscriptionRows \cup {None}
    BY <1>2, <1>6, <1>7
  <2>2. subs' = [s \in Subs |-> subs'[s]]
    BY <1>1
  <2>3. subs' \in [Subs -> SubscriptionRows \cup {None}]
    BY <2>1, <2>2
  <2> QED BY <1>1, <1>2, <2>3 DEF SubsTyped, Following
<1>9. \A s \in Subs : subs'[s] # None => subs'[s].group \in KnownIds
  BY <1>3, <1>6, <1>7 DEF RulesInv, IdsKnown
<1>10. ASSUME NEW d \in Clients \ {c}, Open(req[d]) PROVE LocksObeyed(d) /\ ChangesSeen(d)
  <2>1. /\ LockedSubs(req[d]) \subseteq Subs /\ \A s \in LockedSubs(req[d]) : subs[s] # None
        /\ Locked(req[d]) \subseteq GroupIds
        /\ req[d].op = "remove" => req[d].fallback \in GroupIds
    BY <1>10, HeldAreThere
  <2>2. LockedSubs(req[d]) \cap LockedSubs(q) = {} /\ Locked(req[d]) \cap Locked(q) = {}
    BY DEF RulesInv, LocksApart
  <2>3. LockedSubs(q) = q.rows /\ Locked(q) = {q.id}
    BY <1>1 DEF LockedSubs, Locked, Open
  <2>4. \A s \in LockedSubs(req[d]) : s \in Subs \ q.rows /\ subs'[s] = subs[s]
    BY <1>7, <2>1, <2>2, <2>3
  <2>5. LocksObeyed(d)
    BY <1>5, <2>1, <2>2, <2>3, <2>4 DEF LocksObeyed
  <2>6. ASSUME NEW s \in LockedSubs(req[d]) \ drifted'
        PROVE  s \notin drifted /\ subs[s].group # q.id
    BY <1>1, <2>1, <2>4, <2>6 DEF Following
  <2>7. ChangesSeen(d)
    BY <1>5, <2>1, <2>6 DEF ChangesSeen
  <2> QED BY <2>5, <2>7
<1>11. SubscriptionFollowsGroup'
  <2> SUFFICES ASSUME NEW s \in Subs \ drifted', subs'[s] # None
               PROVE  groups'[subs'[s].group] # None
                      /\ Reads(subs'[s], groups'[subs'[s].group].reading)
    BY DEF SubscriptionFollowsGroup, Reads
  <2>1. CASE s \in q.rows
    <3>1. current
      <4> SUFFICES ASSUME ~current PROVE FALSE
        OBVIOUS
      <4>1. s \notin drifted /\ s \notin Following(q.id)
        BY <1>1
      <4>2. subs[s].group = q.fallback
        BY <1>6, <2>1, <4>1 DEF Following
      <4> QED BY <1>1, <1>2, <2>1, <4>1, <4>2 DEF HandOverIsFresh
    <3>2. groups'[q.fallback] = groups[q.fallback]
      BY <1>3, <1>5
    <3> QED BY <1>6, <2>1, <3>1, <3>2
  <2>2. CASE s \notin q.rows
    <3>1. subs'[s] = subs[s] /\ s \notin drifted /\ s \notin Following(q.id)
      BY <1>1, <1>7, <2>2
    <3>2. subs[s].group \in GroupIds /\ subs[s].group # q.id
      BY <1>2, <3>1 DEF Following, SubscriptionRows
    <3>3. groups[subs[s].group] # None /\ Reads(subs[s], groups[subs[s].group].reading)
      BY <3>1, FollowsReads DEF RulesInv
    <3> QED BY <1>5, <3>1, <3>2, <3>3
  <2> QED BY <2>1, <2>2
<1> QED BY <1>1, <1>8, <1>9, <1>10, <1>11, CommitKeeps

LEMMA CommitAllKeeps ==
  ASSUME NoneAssumption, RulesInv, NEW c \in Clients, CommitAll(c)
  PROVE  RulesInv'
<1> DEFINE q == req[c]
           Kept(s) == IF s.group \in q.gone \/ groups[s.group] = None
                      THEN [s EXCEPT !.group = q.first] ELSE s
<1>1. /\ q.op = "all" /\ Commits(c) /\ Open(q)
      /\ subs' = [s \in Subs |-> IF s \in q.rows THEN Synced(Kept(subs[s]), q.reading)
                                 ELSE subs[s]]
      /\ drifted' = {s \in Subs \ q.rows : subs[s] # None}
  BY DEF CommitAll, Commits, Open
<1>2. /\ q \in AllRequests /\ Refs(q) \subseteq KnownIds /\ RowsHeld(q)
      /\ groups \in [GroupIds -> GroupRows \cup {None}]
      /\ subs \in [Subs -> SubscriptionRows \cup {None}]
  BY <1>1, RequestKinds
     DEF RulesInv, RulesTyped, GroupsTyped, SubsTyped, IdsKnown, RowsStay, Pending, Open
<1>3. /\ q.kept \subseteq Ids(groups) /\ q.kept \subseteq KnownIds /\ q.gone \cap q.kept = {}
      /\ q.first \in q.kept /\ q.first \in GroupIds /\ q.reading \in ReadingRows
      /\ q.sites \in SUBSET Sites /\ q.rows \in SUBSET Subs
  BY <1>1, <1>2 DEF AllRequests, Refs, RowsHeld
<1>4. \A g \in GroupIds :
        groups'[g] = IF g \in q.kept /\ groups[g] # None
                     THEN [groups[g] EXCEPT !.reading = q.reading, !.sites = q.sites]
                     ELSE IF g \in q.gone THEN None ELSE groups[g]
  BY <1>1 DEF Commits, GroupsAfter, ReplacedBy
<1>5. ASSUME NEW s \in q.rows
      PROVE  /\ subs[s] # None /\ subs'[s] \in SubscriptionRows /\ subs'[s].group \in q.kept
             /\ Reads(subs'[s], q.reading)
  <2>1. /\ subs[s] # None /\ s \in Subs
        /\ groups[subs[s].group] # None => subs[s].group \in q.kept \cup q.gone
    BY <1>1, <1>2, <1>3, <1>5 DEF RowsHeld
  <2>2. subs[s] \in SubscriptionRows
    BY <1>2, <2>1
  <2>3. Kept(subs[s]) \in SubscriptionRows /\ Kept(subs[s]).group \in q.kept
    BY <1>3, <2>1, <2>2 DEF SubscriptionRows
  <2>4. subs'[s] = Synced(Kept(subs[s]), q.reading)
    BY <1>1, <2>1
  <2> HIDE DEF Kept
  <2> QED BY <1>3, <2>1, <2>3, <2>4, SyncedReads
<1>6. \A s \in Subs \ q.rows : subs'[s] = subs[s]
  BY <1>1
<1>7. SubsTyped' /\ drifted' \in SUBSET Subs
  <2>1. \A s \in Subs : subs'[s] \in SubscriptionRows \cup {None}
    BY <1>2, <1>5, <1>6
  <2>2. subs' = [s \in Subs |-> subs'[s]]
    BY <1>1
  <2>3. subs' \in [Subs -> SubscriptionRows \cup {None}]
    BY <2>1, <2>2
  <2> QED BY <1>1, <2>3 DEF SubsTyped
<1>8. \A s \in Subs : subs'[s] # None => subs'[s].group \in KnownIds
  BY <1>3, <1>5, <1>6 DEF RulesInv, IdsKnown
<1>9. ASSUME NEW d \in Clients \ {c}, Open(req[d]) PROVE LocksObeyed(d) /\ ChangesSeen(d)
  <2>1. /\ LockedSubs(req[d]) \subseteq Subs /\ \A s \in LockedSubs(req[d]) : subs[s] # None
        /\ Locked(req[d]) \subseteq GroupIds
    BY <1>9, HeldAreThere
  <2>2. LockedSubs(req[d]) \cap LockedSubs(q) = {} /\ Locked(req[d]) \cap Locked(q) = {}
    BY DEF RulesInv, LocksApart
  <2>3. LockedSubs(q) = q.rows /\ Locked(q) = q.kept \cup q.gone
    BY <1>1 DEF LockedSubs, Locked, Open
  <2>4. \A s \in LockedSubs(req[d]) : s \in Subs \ q.rows /\ subs'[s] = subs[s]
    BY <1>6, <2>1, <2>2, <2>3
  <2>5. LocksObeyed(d)
    BY <1>4, <2>1, <2>2, <2>3, <2>4 DEF LocksObeyed
  <2>6. LockedSubs(req[d]) \subseteq drifted'
    BY <1>1, <2>1, <2>4
  <2> QED BY <2>5, <2>6 DEF ChangesSeen
<1>10. SubscriptionFollowsGroup'
  <2> SUFFICES ASSUME NEW s \in Subs \ drifted', subs'[s] # None
               PROVE  groups'[subs'[s].group] # None
                      /\ Reads(subs'[s], groups'[subs'[s].group].reading)
    BY DEF SubscriptionFollowsGroup, Reads
  <2>1. s \in q.rows
    BY <1>1, <1>6
  <2> DEFINE g == subs'[s].group
  <2>2. g \in q.kept /\ g \in GroupIds /\ groups[g] # None /\ Reads(subs'[s], q.reading)
    BY <1>3, <1>5, <2>1 DEF Ids
  <2> HIDE DEF g
  <2>3. groups[g] \in GroupRows
    BY <1>2, <2>2
  <2>4. groups'[g] = [groups[g] EXCEPT !.reading = q.reading, !.sites = q.sites]
    BY <1>4, <2>2
  <2>5. groups'[g] \in GroupRows /\ groups'[g].reading = q.reading
    BY <1>3, <2>3, <2>4 DEF GroupRows
  <2> QED BY <2>2, <2>5, NoneAssumption DEF g
<1> QED BY <1>1, <1>7, <1>8, <1>9, <1>10, CommitKeeps

-----------------------------------------------------------------------------
(* The routes of earlier pages, and the rest of the system.                *)

\* A row whose reading is changed where nobody copies it: its followers are known.
LEMMA EditedOutside ==
  ASSUME NoneAssumption, RulesInv, NEW g \in GroupIds, NEW r \in ReadingRows, groups[g] # None,
         groups' = [groups EXCEPT ![g].reading = r], drifted' = drifted \cup Following(g),
         UNCHANGED <<nextGroup, subs, req>>, unionSites' \in SUBSET Sites, skewed' \in BOOLEAN
  PROVE  /\ RulesTyped' /\ QuietStep /\ GroupsGrow /\ KnownIds' = KnownIds /\ nextGroup' >= nextGroup
         /\ SitesKept
         /\ \A s \in Subs : subs'[s] # None => subs'[s].group \in KnownIds'
         /\ \A d \in Clients : Pending(req'[d]) => LocksObeyed(d) /\ ChangesSeen(d)
         /\ SubscriptionFollowsGroup'
<1>1. /\ groups' \in [GroupIds -> GroupRows \cup {None}]
      /\ \A h \in GroupIds :
           /\ groups[h] = None <=> groups'[h] = None
           /\ groups[h] # None =>
                groups'[h].sites = groups[h].sites /\ groups'[h].steps = groups[h].steps
           /\ h # g => groups'[h] = groups[h]
      /\ SitesKept
  BY ReadingWritten
<1>2. RulesTyped' /\ QuietStep /\ Reserved' = Reserved
  BY <1>1 DEF RulesInv, RulesTyped, GroupsTyped, SubsTyped, QuietStep, GoesOn, Following, Reserved,
              Open
<1>3. GroupsGrow /\ KnownIds' = KnownIds /\ nextGroup' >= nextGroup
  BY <1>1, <1>2, RowsStand
<1>4. \A s \in Subs : subs'[s] # None => subs'[s].group \in KnownIds'
  BY <1>3 DEF RulesInv, IdsKnown
<1>5. ASSUME NEW d \in Clients, Pending(req'[d]) PROVE LocksObeyed(d) /\ ChangesSeen(d)
  <2>1. CASE ~Open(req[d])
    BY <2>1 DEF LocksObeyed, ChangesSeen, Locked, LockedSubs, Open
  <2>2. CASE Open(req[d])
    <3>1. /\ LockedSubs(req[d]) \subseteq Subs /\ \A s \in LockedSubs(req[d]) : subs[s] # None
          /\ Locked(req[d]) \subseteq GroupIds
          /\ req[d].op = "remove" => req[d].fallback \in GroupIds
      BY <2>2, HeldAreThere
    <3>2. ASSUME NEW s \in LockedSubs(req[d]) \ drifted'
          PROVE  s \notin drifted /\ subs[s].group # g
      BY <3>1, <3>2 DEF Following
    <3> QED BY <1>1, <3>1, <3>2 DEF LocksObeyed, ChangesSeen
  <2> QED BY <2>1, <2>2
<1>6. SubscriptionFollowsGroup'
  <2> SUFFICES ASSUME NEW s \in Subs \ drifted', subs[s] # None
               PROVE  groups'[subs[s].group] # None
                      /\ Reads(subs[s], groups'[subs[s].group].reading)
    BY DEF SubscriptionFollowsGroup, Reads
  <2>1. s \notin drifted /\ subs[s].group # g /\ subs[s].group \in GroupIds
    BY DEF Following, RulesInv, RulesTyped, SubsTyped, SubscriptionRows
  <2>2. groups[subs[s].group] # None /\ Reads(subs[s], groups[subs[s].group].reading)
    BY <2>1, FollowsReads DEF RulesInv
  <2> QED BY <1>1, <2>1, <2>2
<1> QED BY <1>1, <1>2, <1>3, <1>4, <1>5, <1>6

LEMMA EditPresetKeeps ==
  ASSUME NoneAssumption, RulesInv, NEW g \in GroupIds, NEW r \in ReadingRows, EditPreset(g, r)
  PROVE  RulesInv'
<1>1. unionSites' \in SUBSET Sites /\ skewed' \in BOOLEAN
  BY DEF EditPreset, RulesInv, RulesTyped
<1> QED BY <1>1, EditedOutside, QuietChangeKeeps DEF EditPreset

LEMMA SaveMissavKeeps ==
  ASSUME NoneAssumption, RulesInv, NEW g \in GroupIds, NEW r \in ReadingRows,
         NEW sites \in SUBSET Sites, SaveMissav(g, r, sites)
  PROVE  RulesInv'
<1>1. unionSites' \in SUBSET Sites /\ skewed' = TRUE
  BY DEF SaveMissav, DocumentSites, Sites
<1>2. UnionIsOfTheGroups'
  BY <1>1 DEF UnionIsOfTheGroups
<1> QED BY <1>1, <1>2, EditedOutside, StepKeepsRules DEF SaveMissav

LEMMA DeletePresetKeeps ==
  ASSUME NoneAssumption, RulesInv, NEW g \in GroupIds, DeletePreset(g)
  PROVE  RulesInv'
<1>1. /\ groups[g] # None /\ groups' = [groups EXCEPT ![g] = None] /\ skewed' = TRUE
      /\ drifted' = drifted \cup Following(g) /\ req' = Overtaken(req, None)
      /\ UNCHANGED <<nextGroup, subs, unionSites>>
      /\ \A d \in Clients : g \notin Locked(req[d])
  BY NoneAssumption DEF DeletePreset, Free
<1>2. /\ groups \in [GroupIds -> GroupRows \cup {None}] /\ req \in [Clients -> Requests]
      /\ subs \in [Subs -> SubscriptionRows \cup {None}]
  BY DEF RulesInv, RulesTyped, GroupsTyped, SubsTyped
<1>3. \A d \in Clients : req'[d] = IF Open(req[d]) THEN Later(req[d]) ELSE req[d]
  BY <1>1, NoneAssumption DEF Overtaken, Later, Open
<1>4. \A d \in Clients : /\ GoesOn(d) /\ req'[d] \in Requests
                         /\ Open(req'[d]) => req'[d].late /\ Open(req[d])
                         /\ Open(req[d]) => Open(req'[d]) /\ req'[d].op = req[d].op
                                            /\ (req[d].op = "create" => req'[d].id = req[d].id)
  BY <1>2, <1>3, LateOnlyMarks DEF GoesOn
<1>5. QuietStep
  <2>1. req' \in [Clients -> Requests]
    BY <1>1, <1>4 DEF Overtaken
  <2> QED BY <1>4, <2>1 DEF QuietStep
<1>6. Reserved' = Reserved
  BY <1>4 DEF Reserved, Open
<1>7. \A h \in GroupIds : groups'[h] = IF h = g THEN None ELSE groups[h]
  BY <1>1, <1>2
<1>8. GroupsGrow /\ KnownIds' = KnownIds /\ nextGroup' >= nextGroup
  BY <1>1, <1>6, <1>7, RowsStand
<1>9. RulesTyped'
  <2>1. groups' \in [GroupIds -> GroupRows \cup {None}]
    BY <1>1, <1>2
  <2> QED BY <1>1, <1>5, <2>1 DEF RulesInv, RulesTyped, GroupsTyped, SubsTyped, QuietStep, Following
<1>10. \A s \in Subs : subs'[s] # None => subs'[s].group \in KnownIds'
  BY <1>1, <1>8 DEF RulesInv, IdsKnown
<1>11. ASSUME NEW d \in Clients, Pending(req'[d]) PROVE LocksObeyed(d) /\ ChangesSeen(d)
  <2>1. CASE ~Open(req[d])
    BY <2>1 DEF LocksObeyed, ChangesSeen, Locked, LockedSubs, Open
  <2>2. CASE Open(req[d])
    <3>1. /\ LockedSubs(req[d]) \subseteq Subs /\ \A s \in LockedSubs(req[d]) : subs[s] # None
          /\ Locked(req[d]) \subseteq GroupIds
          /\ req[d].op = "remove" => req[d].fallback \in GroupIds
      BY <2>2, HeldAreThere
    <3>2. ASSUME NEW s \in LockedSubs(req[d]) \ drifted'
          PROVE  s \notin drifted /\ subs[s].group # g
      BY <1>1, <3>1, <3>2 DEF Following
    <3>3. LocksObeyed(d)
      BY <1>1, <1>7, <3>1 DEF LocksObeyed
    <3> QED BY <1>7, <3>1, <3>2, <3>3 DEF ChangesSeen
  <2> QED BY <2>1, <2>2
<1>12. SubscriptionFollowsGroup'
  <2> SUFFICES ASSUME NEW s \in Subs \ drifted', subs[s] # None
               PROVE  groups'[subs[s].group] # None
                      /\ Reads(subs[s], groups'[subs[s].group].reading)
    BY <1>1 DEF SubscriptionFollowsGroup, Reads
  <2>1. s \notin drifted /\ subs[s].group # g /\ subs[s].group \in GroupIds
    BY <1>1, <1>2 DEF Following, SubscriptionRows
  <2>2. groups[subs[s].group] # None /\ Reads(subs[s], groups[subs[s].group].reading)
    BY <2>1, FollowsReads DEF RulesInv
  <2> QED BY <1>7, <2>1, <2>2
<1>13. UnionIsOfTheGroups'
  BY <1>1 DEF UnionIsOfTheGroups
<1> QED BY <1>4, <1>5, <1>8, <1>9, <1>10, <1>11, <1>12, <1>13, StepKeepsRules

\* One subscription changes, which no transaction has locked, and stays in its
\* group or goes.
LEMMA SubscriptionChanges ==
  ASSUME NoneAssumption, RulesInv, NEW s \in Subs, subs[s] # None, FreeSubs(None, {s}),
         NEW row \in SubscriptionRows \cup {None},
         row # None => /\ row.group = subs[s].group /\ row.selector = subs[s].selector
                       /\ row.match = subs[s].match /\ row.pager = subs[s].pager,
         subs' = [subs EXCEPT ![s] = row],
         \/ drifted' = drifted
         \/ row = None /\ drifted' = drifted \ {s},
         UNCHANGED <<groups, nextGroup, unionSites, req, skewed>>
  PROVE  RulesInv'
<1>1. /\ subs \in [Subs -> SubscriptionRows \cup {None}] /\ req \in [Clients -> Requests]
      /\ drifted \in SUBSET Subs
  BY DEF RulesInv, RulesTyped, SubsTyped
<1>2. \A t \in Subs : subs'[t] = IF t = s THEN row ELSE subs[t]
  BY <1>1
<1>3. QuietStep /\ Reserved' = Reserved
  BY <1>1 DEF QuietStep, GoesOn, Reserved, Open
<1>4. GroupsGrow /\ KnownIds' = KnownIds /\ nextGroup' >= nextGroup
  BY <1>3, RowsStand
<1>5. RulesTyped'
  <2>1. subs' \in [Subs -> SubscriptionRows \cup {None}]
    BY <1>1
  <2> QED BY <1>1, <2>1 DEF RulesInv, RulesTyped, GroupsTyped, SubsTyped
<1>6. \A t \in Subs : subs'[t] # None => subs'[t].group \in KnownIds'
  BY <1>2, <1>4 DEF RulesInv, IdsKnown
<1>7. ASSUME NEW d \in Clients, Pending(req'[d]) PROVE LocksObeyed(d) /\ ChangesSeen(d)
  <2>1. CASE ~Open(req[d])
    BY <2>1 DEF LocksObeyed, ChangesSeen, Locked, LockedSubs, Open
  <2>2. CASE Open(req[d])
    <3>1. LockedSubs(req[d]) \subseteq Subs /\ \A t \in LockedSubs(req[d]) : subs[t] # None
      BY <2>2, HeldAreThere
    <3>2. s \notin LockedSubs(req[d])
      BY NoneAssumption DEF FreeSubs
    <3>3. \A t \in LockedSubs(req[d]) : subs'[t] = subs[t] /\ (t \in drifted => t \in drifted')
      BY <1>2, <3>1, <3>2
    <3> QED BY <3>1, <3>3 DEF LocksObeyed, ChangesSeen
  <2> QED BY <2>1, <2>2
<1>8. SitesKept
  BY DEF SitesKept
<1>9. SubscriptionFollowsGroup'
  <2> SUFFICES ASSUME NEW t \in Subs \ drifted', subs'[t] # None
               PROVE  groups[subs'[t].group] # None
                      /\ Reads(subs'[t], groups[subs'[t].group].reading)
    BY DEF SubscriptionFollowsGroup, Reads
  <2>1. t \notin drifted /\ subs[t] # None
    BY <1>2
  <2>2. groups[subs[t].group] # None /\ Reads(subs[t], groups[subs[t].group].reading)
    BY <2>1, FollowsReads DEF RulesInv
  <2> QED BY <1>2, <2>2 DEF Reads
<1> QED BY <1>3, <1>4, <1>5, <1>6, <1>7, <1>8, <1>9, QuietChangeKeeps

LEMMA SubscriptionEventKeeps ==
  ASSUME NoneAssumption, RulesInv, NEW s \in Subs,
         ScanStarts(s) \/ ScanCompletes(s) \/ DeleteSubscription(s)
  PROVE  RulesInv'
<1>1. subs[s] # None => subs[s] \in SubscriptionRows
  BY DEF RulesInv, RulesTyped, SubsTyped
<1>2. CASE ScanStarts(s)
  <2> DEFINE row == [subs[s] EXCEPT !.scanning = TRUE]
  <2>1. row \in SubscriptionRows /\ row.group = subs[s].group /\ row.selector = subs[s].selector
        /\ row.match = subs[s].match /\ row.pager = subs[s].pager
    BY <1>1, <1>2 DEF ScanStarts, SubscriptionRows
  <2>2. subs' = [subs EXCEPT ![s] = row]
    BY <1>2 DEF ScanStarts
  <2> HIDE DEF row
  <2> QED BY <1>2, <2>1, <2>2, SubscriptionChanges DEF ScanStarts
<1>3. CASE ScanCompletes(s)
  <2> DEFINE row == [subs[s] EXCEPT !.scanning = FALSE, !.scanned = TRUE]
  <2>1. row \in SubscriptionRows /\ row.group = subs[s].group /\ row.selector = subs[s].selector
        /\ row.match = subs[s].match /\ row.pager = subs[s].pager
    BY <1>1, <1>3 DEF ScanCompletes, SubscriptionRows
  <2>2. subs' = [subs EXCEPT ![s] = row]
    BY <1>3 DEF ScanCompletes, RulesInv, RulesTyped, SubsTyped
  <2> HIDE DEF row
  <2> QED BY <1>3, <2>1, <2>2, SubscriptionChanges DEF ScanCompletes
<1>4. CASE DeleteSubscription(s)
  BY <1>4, SubscriptionChanges DEF DeleteSubscription
<1> QED BY <1>2, <1>3, <1>4

LEMMA RequestsCutOffKeeps ==
  ASSUME NoneAssumption, RulesInv, RequestsCutOff
  PROVE  RulesInv'
<1>1. Untouched /\ req' = [c \in Clients |-> IF Pending(req[c]) THEN Refusal(c) ELSE req[c]]
  BY DEF RequestsCutOff, Untouched, Pending
<1>2. req \in [Clients -> Requests]
  BY DEF RulesInv, RulesTyped
<1>3. \A c \in Clients : Pending(req[c]) => Refusal(c) \in Requests /\ ~Pending(Refusal(c))
  BY RequestEnds
<1>4. req' \in [Clients -> Requests]
  BY <1>1, <1>2, <1>3
<1>5. \A c \in Clients : req'[c] = req[c] \/ ~Pending(req'[c])
  BY <1>1, <1>3
<1> QED BY <1>1, <1>4, <1>5, RequestsEnd

\* The page hears of its request: nothing else changes behind the routes.
LEMMA AnswerKeeps ==
  ASSUME RuleGroupsAssumption, NoneAssumption, RulesInv, Untouched,
         req' = [req EXCEPT ![Page] = Idle]
  PROVE  RulesInv'
<1>1. req \in [Clients -> Requests] /\ Page \in Clients /\ Idle \in Requests /\ ~Pending(Idle)
  BY DEF RulesInv, RulesTyped, RuleGroupsAssumption, Requests, Idle, Pending
<1> QED BY <1>1, RequestsEnd

\* The migrated database.
LEMMA RulesBegin ==
  ASSUME RuleGroupsAssumption, NoneAssumption, NEW r \in Readings, NEW sites \in SiteSets,
         NEW owned \in SUBSET Subs, RulesInit(r, sites, owned)
  PROVE  RulesInv
<1>1. /\ r \in ReadingRows /\ sites \in SUBSET Sites /\ Kinds \in SUBSET Steps /\ Blank \in Texts
      /\ 1 \in GroupIds
  BY DEF RuleGroupsAssumption, Sites, Steps, Texts, GroupIds
<1> DEFINE first == [reading |-> r, sites |-> sites, steps |-> Kinds]
           copy == Subscribed(1, r, Blank)
<1>2. first \in GroupRows /\ first # None /\ first.reading = r /\ first.sites = sites
  <2>1. first \in GroupRows
    BY <1>1 DEF GroupRows
  <2> QED BY <2>1, NoneAssumption
<1>3. copy \in SubscriptionRows /\ copy # None /\ copy.group = 1 /\ Reads(copy, r)
  BY <1>1, SubscribedReads, NoneAssumption
<1>4. /\ groups = [g \in GroupIds |-> IF g = 1 THEN first ELSE None] /\ nextGroup = 2
      /\ subs = [s \in Subs |-> IF s \in owned THEN copy ELSE None] /\ unionSites = sites
      /\ req = [c \in Clients |-> Idle] /\ drifted = {} /\ skewed = FALSE
  BY DEF RulesInit, MigratedGroups, AssignedSubs
<1> HIDE DEF first, copy
<1>5. \A c \in Clients : req[c] = Idle /\ ~Pending(Idle) /\ ~Open(Idle) /\ Idle \in Requests
  BY <1>4 DEF Idle, Pending, Open, Requests
<1>6. RulesTyped
  <2>1. GroupsTyped /\ SubsTyped
    BY <1>2, <1>3, <1>4 DEF GroupsTyped, SubsTyped
  <2>2. nextGroup \in 1..MaxGroup + 1
    BY <1>4 DEF RuleGroupsAssumption
  <2>3. req \in [Clients -> Requests]
    BY <1>4, <1>5
  <2> QED BY <1>1, <1>4, <2>1, <2>2, <2>3 DEF RulesTyped
<1>7. IdsKnown /\ Ids(groups) = {1}
  <2>1. Reserved = {} /\ KnownIds = {g \in GroupIds : g < 2}
    BY <1>4, <1>5 DEF Reserved, KnownIds
  <2>2. Ids(groups) = {1}
    BY <1>1, <1>2, <1>4 DEF Ids
  <2> QED BY <1>1, <1>3, <1>4, <1>5, <2>1, <2>2 DEF IdsKnown
<1>8. InsertsApart /\ BuiltinSafe /\ RowsStay /\ UnionsFresh
  BY <1>5 DEF InsertsApart, BuiltinSafe, RowsStay, UnionsFresh
<1>9. LocksApart
  BY <1>5 DEF LocksApart, Locked, LockedSubs, Idle
<1>10. UnionIsOfTheGroups
  BY <1>1, <1>2, <1>4, <1>7 DEF UnionIsOfTheGroups, SiteUnion
<1>11. SubscriptionFollowsGroup
  BY <1>1, <1>2, <1>3, <1>4, FollowsReads
<1> QED BY <1>6, <1>7, <1>8, <1>9, <1>10, <1>11 DEF RulesInv

-----------------------------------------------------------------------------
(* The page.                                                               *)

\* The page sends the five requests of its buttons.
PageAsks == req[Page].op \in {"idle", "create", "edit", "remove", "sites", "steps"}

SegmentRows(seg) == CASE seg = "reading" -> ReadingRows
                      [] seg = "sites" -> SUBSET Sites
                      [] seg = "steps" -> SUBSET Steps

\* One segment of a row is written: the rest of the row stays.
LEMMA SegmentWritten ==
  ASSUME NEW d \in DraftRows, NEW seg \in Segments, NEW value \in SegmentRows(seg)
  PROVE  /\ [d EXCEPT ![seg] = value] \in DraftRows
         /\ [d EXCEPT ![seg] = value].id = d.id
         /\ [d EXCEPT ![seg] = value][seg] = value
         /\ \A s \in Segments \ {seg} : [d EXCEPT ![seg] = value][s] = d[s]
<1>1. CASE seg = "reading"
  BY <1>1 DEF DraftRows, SegmentRows, Segments
<1>2. CASE seg = "sites"
  BY <1>2 DEF DraftRows, SegmentRows, Segments
<1>3. CASE seg = "steps"
  BY <1>3 DEF DraftRows, SegmentRows, Segments
<1> QED BY <1>1, <1>2, <1>3 DEF Segments

\* A group as a row of the page.
LEMMA RowsOfGroups ==
  ASSUME DraftAssumption, NEW g \in GroupIds, NEW group \in GroupRows
  PROVE  RowOf(g, group) \in DraftRows /\ RowOf(g, group) # None /\ RowOf(g, group).id = g
<1>1. RowOf(g, group) \in DraftRows /\ RowOf(g, group).id = g
  BY DEF RowOf, DraftRows, GroupRows
<1> QED BY <1>1, DraftAssumption

\* The page where nothing of the draft changes.
LEMMA PageRests ==
  ASSUME PageInv, UNCHANGED <<draft, baseline, stashed, typed>>,
         listed' \in [GroupIds -> GroupRows \cup {None}]
  PROVE  PageInv'
BY DEF PageInv, PageTyped, DraftsFiled, TypedIsDirty, UnsavedDraftStays

\* The list is read anew, and nothing is unsaved any more.
LEMMA ListReadKeeps ==
  ASSUME RulesInv, listed' = Snapshot, stashed' = [g \in GroupIds |-> None],
         typed' = [g \in GroupIds |-> NothingTyped],
         draft' \in DraftRows \cup {None}, baseline' \in DraftRows \cup {None},
         draft' # None /\ draft'.id # NewId => baseline' # None
  PROVE  PageInv'
<1>1. \A g \in GroupIds : /\ stashed'[g] = None
                          /\ DOMAIN typed'[g] = Segments
                          /\ \A seg \in Segments : typed'[g][seg] = None
  BY DEF NothingTyped
<1>2. listed' \in [GroupIds -> GroupRows \cup {None}]
  BY DEF Snapshot, RulesInv, RulesTyped, GroupsTyped
<1>3. PageTyped'
  BY <1>1, <1>2 DEF PageTyped
<1> QED BY <1>1, <1>3 DEF PageInv, DraftsFiled, TypedIsDirty, UnsavedDraftStays

LEMMA LoadGroupsKeeps ==
  ASSUME RuleGroupsAssumption, DraftAssumption, RulesInv, NEW prefer, LoadGroups(prefer)
  PROVE  PageInv'
<1> DEFINE least == CHOOSE g \in Ids(groups) : \A h \in Ids(groups) : g <= h
           shown == IF prefer \in Ids(groups) THEN prefer ELSE least
           row == RowOf(shown, groups[shown])
<1>1. CASE Ids(groups) = {}
  BY <1>1, ListReadKeeps DEF LoadGroups, ShowDraft
<1>2. CASE Ids(groups) # {}
  <2>1. Ids(groups) \in SUBSET Nat
    BY DEF Ids, GroupIds, RuleGroupsAssumption
  <2>2. least \in Ids(groups)
    BY <1>2, <2>1, LeastExists
  <2>3. shown \in Ids(groups)
    BY <2>2
  <2>4. draft' = row /\ baseline' = row
    BY <1>2 DEF LoadGroups, ShowDraft
  <2> HIDE DEF shown
  <2>5. shown \in GroupIds /\ groups[shown] \in GroupRows
    BY <2>3 DEF Ids, RulesInv, RulesTyped, GroupsTyped
  <2>6. row \in DraftRows /\ row # None
    BY <2>5, RowsOfGroups
  <2> QED BY <2>4, <2>6, ListReadKeeps DEF LoadGroups
<1> QED BY <1>1, <1>2

LEMMA BlanksTyped ==
  ASSUME DraftAssumption
  PROVE  Blanks \in DraftRows /\ Blanks # None /\ Blanks.id = NewId
<1>1. BlankReading \in ReadingRows
  BY DEF BlankReading, ReadingRows, Texts
<1>2. Blanks \in DraftRows /\ Blanks.id = NewId
  BY <1>1 DEF Blanks, DraftRows
<1> QED BY <1>2, DraftAssumption

LEMMA RefreshKeeps ==
  ASSUME RuleGroupsAssumption, DraftAssumption, RulesInv, Opens \/ Refresh
  PROVE  PageInv'
<1>1. CASE LoadGroups(NewId) \/ LoadGroups(draft.id)
  BY <1>1, LoadGroupsKeeps
<1>2. CASE ~(LoadGroups(NewId) \/ LoadGroups(draft.id))
  <2>1. /\ listed' = Snapshot /\ stashed' = [g \in GroupIds |-> None]
        /\ typed' = [g \in GroupIds |-> NothingTyped] /\ draft' = Blanks /\ baseline' = None
    BY <1>2 DEF Opens, Refresh, ShowDraft
  <2> QED BY <2>1, BlanksTyped, ListReadKeeps
<1> QED BY <1>1, <1>2

\* What is set aside: the drafts of before, and the one on screen where the user
\* left something in it.
LEMMA StashKeeps ==
  ASSUME RuleGroupsAssumption, DraftAssumption, PageInv, draft # None
  PROVE  /\ Stash \in [GroupIds -> StashRows \cup {None}]
         /\ \A g \in GroupIds : Stash[g] # None => Stash[g].draft.id = g
         /\ \A g \in GroupIds \ {draft.id} : Stash[g] = stashed[g]
         /\ \A g \in GroupIds, seg \in Segments :
               typed[g][seg] # None =>
                  /\ Stash[g] # None
                  /\ Stash[g].draft[seg] = typed[g][seg]
                  /\ Stash[g].draft[seg] # Stash[g].baseline[seg]
<1>1. /\ draft \in DraftRows /\ stashed \in [GroupIds -> StashRows \cup {None}]
      /\ NewId \notin GroupIds
  BY DEF PageInv, PageTyped, RuleGroupsAssumption, NewId, GroupIds
<1>2. CASE draft.id = NewId
  <2>1. Stash = stashed
    BY <1>2 DEF Stash
  <2>2. \A g \in GroupIds : draft.id # g
    BY <1>1, <1>2
  <2> QED BY <1>1, <2>1, <2>2
          DEF PageInv, DraftsFiled, TypedIsDirty, UnsavedDraftStays
<1>3. CASE draft.id # NewId
  <2> DEFINE kept == [draft |-> draft, baseline |-> baseline]
             aside == IF AnyDirty THEN kept ELSE None
  <2>1. draft.id \in GroupIds /\ baseline \in DraftRows /\ baseline # None
    BY <1>1, <1>3 DEF PageInv, PageTyped, DraftsFiled, DraftRows
  <2>2. kept \in StashRows /\ kept # None /\ kept.draft = draft /\ kept.baseline = baseline
    <3>1. kept \in StashRows
      BY <1>1, <2>1 DEF StashRows
    <3> QED BY <3>1, DraftAssumption
  <2>3. Stash = [stashed EXCEPT ![draft.id] = aside]
    BY <1>3 DEF Stash
  <2> HIDE DEF kept
  <2>4. /\ Stash \in [GroupIds -> StashRows \cup {None}]
        /\ \A g \in GroupIds : Stash[g] = IF g = draft.id THEN aside ELSE stashed[g]
    BY <1>1, <2>1, <2>2, <2>3
  <2>5. \A g \in GroupIds : Stash[g] # None => Stash[g].draft.id = g
    BY <2>2, <2>4 DEF PageInv, DraftsFiled
  <2>6. ASSUME NEW g \in GroupIds, NEW seg \in Segments, typed[g][seg] # None
        PROVE  /\ Stash[g] # None
               /\ Stash[g].draft[seg] = typed[g][seg]
               /\ Stash[g].draft[seg] # Stash[g].baseline[seg]
    <3>1. CASE g = draft.id
      <4>1. draft[seg] = typed[g][seg] /\ draft[seg] # baseline[seg]
        BY <2>6, <3>1 DEF PageInv, TypedIsDirty, UnsavedDraftStays
      <4>2. AnyDirty
        BY <2>1, <4>1 DEF AnyDirty, Dirty
      <4> QED BY <2>2, <2>4, <3>1, <4>1, <4>2
    <3>2. CASE g # draft.id
      BY <2>4, <2>6, <3>2 DEF PageInv, TypedIsDirty, UnsavedDraftStays
    <3> QED BY <3>1, <3>2
  <2> QED BY <2>4, <2>5, <2>6
<1> QED BY <1>2, <1>3

LEMMA SelectGroupKeeps ==
  ASSUME RuleGroupsAssumption, DraftAssumption, PageInv, NEW g \in GroupIds, SelectGroup(g)
  PROVE  PageInv'
<1>1. /\ listed[g] # None /\ draft # None /\ draft.id # g /\ stashed' = Stash
      /\ UNCHANGED <<listed, typed>>
  BY DEF SelectGroup
<1>2. /\ listed \in [GroupIds -> GroupRows \cup {None}]
      /\ stashed \in [GroupIds -> StashRows \cup {None}]
      /\ DOMAIN typed = GroupIds /\ \A h \in GroupIds : DOMAIN typed[h] = Segments
  BY DEF PageInv, PageTyped
<1>3. /\ draft' \in DraftRows /\ baseline' \in DraftRows /\ draft'.id = g
      /\ baseline' # None
      /\ stashed[g] # None => draft' = stashed[g].draft /\ baseline' = stashed[g].baseline
  <2>1. CASE stashed[g] # None
    <3>1. draft' = stashed[g].draft /\ baseline' = stashed[g].baseline
      BY <2>1 DEF SelectGroup, ShowDraft
    <3>2. stashed[g] \in StashRows /\ stashed[g].draft.id = g
      BY <1>2, <2>1 DEF PageInv, DraftsFiled
    <3>3. stashed[g].draft \in DraftRows /\ stashed[g].baseline \in DraftRows
      BY <3>2 DEF StashRows
    <3> QED BY <3>1, <3>2, <3>3, DraftAssumption
  <2>2. CASE stashed[g] = None
    <3>1. draft' = RowOf(g, listed[g]) /\ baseline' = RowOf(g, listed[g])
      BY <2>2 DEF SelectGroup, ShowDraft, DraftOf
    <3> QED BY <1>1, <1>2, <2>2, <3>1, RowsOfGroups
  <2> QED BY <2>1, <2>2
<1>4. PageTyped'
  BY <1>1, <1>2, <1>3, StashKeeps DEF PageTyped
<1>5. DraftsFiled'
  BY <1>1, <1>3, StashKeeps DEF DraftsFiled
<1>6. ASSUME NEW h \in GroupIds, NEW seg \in Segments, typed[h][seg] # None
      PROVE  IF h = g
             THEN draft'[seg] = typed[h][seg] /\ draft'[seg] # baseline'[seg]
             ELSE /\ stashed'[h] # None
                  /\ stashed'[h].draft[seg] = typed[h][seg]
                  /\ stashed'[h].draft[seg] # stashed'[h].baseline[seg]
  <2>1. /\ Stash[h] # None
        /\ Stash[h].draft[seg] = typed[h][seg]
        /\ Stash[h].draft[seg] # Stash[h].baseline[seg]
        /\ h # draft.id => Stash[h] = stashed[h]
    BY <1>1, <1>6, StashKeeps
  <2> QED BY <1>1, <1>3, <2>1
<1>7. TypedIsDirty' /\ UnsavedDraftStays'
  BY <1>1, <1>3, <1>6, DraftAssumption DEF TypedIsDirty, UnsavedDraftStays
<1> QED BY <1>4, <1>5, <1>7 DEF PageInv

LEMMA StartNewKeeps ==
  ASSUME RuleGroupsAssumption, DraftAssumption, PageInv, StartNew
  PROVE  PageInv'
<1>1. /\ draft # None /\ stashed' = Stash /\ UNCHANGED <<listed, typed>>
      /\ draft' = Blanks /\ baseline' = None /\ NewId \notin GroupIds
  BY DEF StartNew, ShowDraft, RuleGroupsAssumption, NewId, GroupIds
<1>2. PageTyped' /\ DraftsFiled'
  BY <1>1, StashKeeps, BlanksTyped DEF PageInv, PageTyped, DraftsFiled
<1>3. \A h \in GroupIds : draft'.id # h
  BY <1>1, BlanksTyped
<1>4. TypedIsDirty' /\ UnsavedDraftStays'
  BY <1>1, <1>3, StashKeeps DEF TypedIsDirty, UnsavedDraftStays
<1> QED BY <1>2, <1>4 DEF PageInv

LEMMA TypeDraftKeeps ==
  ASSUME RuleGroupsAssumption, DraftAssumption, PageInv, NEW seg \in Segments,
         NEW value \in SegmentRows(seg), TypeDraft(seg, value)
  PROVE  PageInv'
<1>1. /\ draft \in DraftRows /\ draft # None /\ draft' = [draft EXCEPT ![seg] = value]
      /\ UNCHANGED <<listed, baseline, stashed>> /\ NewId \notin GroupIds
      /\ typed' = IF draft.id = NewId THEN typed
                  ELSE [typed EXCEPT ![draft.id][seg] = IF value = baseline[seg] THEN None ELSE value]
      /\ DOMAIN typed = GroupIds /\ \A g \in GroupIds : DOMAIN typed[g] = Segments
  BY DEF TypeDraft, PageInv, PageTyped, RuleGroupsAssumption, NewId, GroupIds
<1>2. /\ draft' \in DraftRows /\ draft'.id = draft.id /\ draft'[seg] = value /\ draft' # None
      /\ \A s \in Segments \ {seg} : draft'[s] = draft[s]
  <2> DEFINE d == [draft EXCEPT ![seg] = value]
  <2>1. /\ d \in DraftRows /\ d.id = draft.id /\ d[seg] = value
        /\ \A s \in Segments \ {seg} : d[s] = draft[s]
    <3>1. draft \in DraftRows
      BY <1>1
    <3> QED BY ONLY <3>1, seg \in Segments, value \in SegmentRows(seg), SegmentWritten
  <2>2. draft' = d
    BY <1>1
  <2> HIDE DEF d
  <2> QED BY <2>1, <2>2, DraftAssumption
<1>3. CASE draft.id = NewId
  <2>1. typed' = typed /\ \A g \in GroupIds : draft.id # g
    BY <1>1, <1>3
  <2> QED BY <1>1, <1>2, <1>3, <2>1
          DEF PageInv, PageTyped, DraftsFiled, TypedIsDirty, UnsavedDraftStays
<1>4. CASE draft.id # NewId
  <2> DEFINE mark == IF value = baseline[seg] THEN None ELSE value
  <2>1. draft.id \in GroupIds /\ baseline # None
    BY <1>1, <1>4 DEF PageInv, DraftsFiled, DraftRows
  <2>2. typed' = [typed EXCEPT ![draft.id] = [typed[draft.id] EXCEPT ![seg] = mark]]
    BY <1>1, <1>4
  <2> HIDE DEF mark
  <2>3. /\ DOMAIN typed' = GroupIds /\ \A g \in GroupIds : DOMAIN typed'[g] = Segments
        /\ \A g \in GroupIds \ {draft.id} : typed'[g] = typed[g]
        /\ typed'[draft.id][seg] = mark
        /\ \A s \in Segments \ {seg} : typed'[draft.id][s] = typed[draft.id][s]
    BY <1>1, <2>1, <2>2
  <2>4. PageTyped' /\ DraftsFiled'
    BY <1>1, <1>2, <2>1, <2>3 DEF PageInv, PageTyped, DraftsFiled
  <2>5. ASSUME NEW g \in GroupIds, NEW s \in Segments, typed'[g][s] # None
        PROVE  IF g = draft.id
               THEN draft'[s] = typed'[g][s] /\ draft'[s] # baseline[s]
               ELSE /\ stashed[g] # None
                    /\ stashed[g].draft[s] = typed'[g][s]
                    /\ stashed[g].draft[s] # stashed[g].baseline[s]
    <3>1. CASE g # draft.id
      BY <1>1, <2>3, <2>5, <3>1 DEF PageInv, TypedIsDirty, UnsavedDraftStays
    <3>2. CASE g = draft.id /\ s = seg
      BY <1>2, <2>3, <2>5, <3>2 DEF mark
    <3>3. CASE g = draft.id /\ s # seg
      BY <1>1, <1>2, <2>3, <2>5, <3>3 DEF PageInv, TypedIsDirty, UnsavedDraftStays
    <3> QED BY <3>1, <3>2, <3>3
  <2>6. TypedIsDirty' /\ UnsavedDraftStays'
    BY <1>1, <1>2, <2>5 DEF TypedIsDirty, UnsavedDraftStays
  <2> QED BY <2>4, <2>6 DEF PageInv
<1> QED BY <1>3, <1>4

-----------------------------------------------------------------------------
(* The answers the page hears.                                             *)

\* The created group replaces what is on screen.
LEMMA CreationAnsweredKeeps ==
  ASSUME DraftAssumption, NoneAssumption, RulesInv, PageInv, Page \in Clients, CreationAnswered
  PROVE  PageInv'
<1> DEFINE g == req[Page].id
           row == RowOf(g, groups[g])
<1>1. /\ groups[g] # None /\ listed' = [listed EXCEPT ![g] = groups[g]] /\ draft' = row
      /\ baseline' = row /\ stashed' = stashed
      /\ typed' = [h \in GroupIds |-> IF h \in {g, draft.id} THEN NothingTyped ELSE typed[h]]
      /\ req[Page].op = "create" /\ req[Page].stage = "done"
  BY DEF CreationAnswered, ShowDraft, SaveAnswered
<1>2. req[Page] \in CreateRequests
  BY <1>1, RequestKinds DEF RulesInv, RulesTyped
<1>3. g \in GroupIds
  BY <1>1, <1>2 DEF CreateRequests
<1> HIDE DEF g
<1>4. groups[g] \in GroupRows
  BY <1>1, <1>3 DEF RulesInv, RulesTyped, GroupsTyped
<1>5. row \in DraftRows /\ row # None /\ row.id = g
  BY <1>3, <1>4, RowsOfGroups
<1> HIDE DEF row
<1>6. /\ \A h \in GroupIds : DOMAIN typed'[h] = Segments
      /\ \A h \in GroupIds, seg \in Segments : typed'[h][seg] # None =>
            h # g /\ h # draft.id /\ typed'[h] = typed[h]
  BY <1>1 DEF NothingTyped, PageInv, PageTyped
<1>7. PageTyped' /\ DraftsFiled'
  BY <1>1, <1>4, <1>5, <1>6 DEF PageInv, PageTyped, DraftsFiled
<1>8. TypedIsDirty' /\ UnsavedDraftStays'
  BY <1>1, <1>5, <1>6 DEF PageInv, TypedIsDirty, UnsavedDraftStays
<1> QED BY <1>7, <1>8 DEF PageInv

\* The answered segment is written over what is on screen; the other segments,
\* and what is set aside, stay.
LEMMA SegmentAnsweredKeeps ==
  ASSUME RuleGroupsAssumption, DraftAssumption, NoneAssumption, RulesInv, PageInv, PageAsks,
         NEW seg \in Segments, SegmentAnswered(seg)
  PROVE  PageInv'
<1> DEFINE g == req[Page].id
           value == groups[g][seg]
           WrittenOver(d) == IF d = None THEN None ELSE [d EXCEPT ![seg] = value]
<1>1. /\ groups[g] # None
      /\ listed' = IF listed[g] = None THEN listed
                   ELSE IF seg = "reading" THEN [listed EXCEPT ![g] = groups[g]]
                   ELSE [listed EXCEPT ![g][seg] = value]
      /\ draft' = WrittenOver(draft)
      /\ baseline' = IF baseline = None /\ seg = "reading" /\ draft # None
                     THEN RowOf(g, groups[g])
                     ELSE WrittenOver(baseline)
      /\ typed' = IF draft = None \/ draft.id = NewId THEN typed
                  ELSE [typed EXCEPT ![draft.id][seg] = None]
      /\ req[Page].op # "create" /\ req[Page].stage = "done" /\ stashed' = stashed
  BY DEF SegmentAnswered, SaveAnswered
<1>2. g \in GroupIds
  <2>1. req[Page] \in Requests /\ req[Page].op \in {"edit", "remove", "sites", "steps"}
    BY <1>1 DEF RulesInv, RulesTyped, RuleGroupsAssumption, PageAsks, Requests, Idle,
                CreateRequests, EditRequests, RemoveRequests, SitesRequests, StepsRequests,
                AllRequests, SubscribeRequests
  <2> QED BY <2>1, RequestKinds
          DEF EditRequests, RemoveRequests, SitesRequests, StepsRequests
<1> HIDE DEF g
<1>3. groups[g] \in GroupRows
  BY <1>1, <1>2 DEF RulesInv, RulesTyped, GroupsTyped
<1>4. value \in SegmentRows(seg)
  <2>1. CASE seg = "reading"
    BY <1>3, <2>1 DEF SegmentRows, GroupRows
  <2>2. CASE seg = "sites"
    BY <1>3, <2>2 DEF SegmentRows, GroupRows
  <2>3. CASE seg = "steps"
    BY <1>3, <2>3 DEF SegmentRows, GroupRows
  <2> QED BY <2>1, <2>2, <2>3 DEF Segments
<1>5. ASSUME NEW d \in DraftRows
      PROVE  /\ WrittenOver(d) \in DraftRows /\ WrittenOver(d) # None /\ WrittenOver(d).id = d.id
             /\ \A s \in Segments \ {seg} : WrittenOver(d)[s] = d[s]
  <2> DEFINE e == [d EXCEPT ![seg] = value]
  <2>1. e \in DraftRows /\ e.id = d.id /\ \A s \in Segments \ {seg} : e[s] = d[s]
    BY <1>4, SegmentWritten
  <2>2. WrittenOver(d) = e
    BY DraftAssumption
  <2> HIDE DEF e
  <2> QED BY <2>1, <2>2, DraftAssumption
<1>6. WrittenOver(None) = None
  OBVIOUS
<1>7. /\ draft \in DraftRows \cup {None} /\ baseline \in DraftRows \cup {None}
      /\ listed \in [GroupIds -> GroupRows \cup {None}]
      /\ DOMAIN typed = GroupIds /\ \A h \in GroupIds : DOMAIN typed[h] = Segments
  BY DEF PageInv, PageTyped
<1>8. listed' \in [GroupIds -> GroupRows \cup {None}]
  <2>1. CASE listed[g] = None \/ seg = "reading"
    BY <1>1, <1>3, <1>7, <2>1
  <2>2. CASE listed[g] # None /\ seg # "reading"
    <3>1. listed[g] \in GroupRows
      BY <1>2, <1>7, <2>2
    <3>2. [listed[g] EXCEPT ![seg] = value] \in GroupRows
      <4>1. CASE seg = "sites"
        BY <1>4, <3>1, <4>1 DEF SegmentRows, GroupRows
      <4>2. CASE seg = "steps"
        BY <1>4, <3>1, <4>2 DEF SegmentRows, GroupRows
      <4> QED BY <2>2, <4>1, <4>2 DEF Segments
    <3>3. listed' = [listed EXCEPT ![g] = [listed[g] EXCEPT ![seg] = value]]
      BY <1>1, <2>2
    <3> QED BY <1>7, <3>2, <3>3
  <2> QED BY <2>1, <2>2
<1> HIDE DEF value
<1>9. RowOf(g, groups[g]) \in DraftRows /\ RowOf(g, groups[g]) # None
  BY <1>2, <1>3, RowsOfGroups
<1> HIDE DEF WrittenOver
<1>10. /\ draft' \in DraftRows \cup {None} /\ baseline' \in DraftRows \cup {None}
       /\ draft' = None <=> draft = None
       /\ baseline # None => baseline' # None
  BY <1>1, <1>5, <1>6, <1>7, <1>9
<1>11. draft # None => /\ draft'.id = draft.id
                       /\ \A s \in Segments \ {seg} : draft'[s] = draft[s]
  BY <1>1, <1>5, <1>7
<1>12. baseline # None => \A s \in Segments \ {seg} : baseline'[s] = baseline[s]
  BY <1>1, <1>5, <1>7
<1>13. NewId \notin GroupIds
  BY DEF NewId, GroupIds, RuleGroupsAssumption
<1>14. /\ DOMAIN typed' = GroupIds /\ \A h \in GroupIds : DOMAIN typed'[h] = Segments
       /\ \A h \in GroupIds, s \in Segments : typed'[h][s] # None =>
             /\ typed'[h][s] = typed[h][s]
             /\ draft # None /\ draft.id = h => s # seg
  <2>1. CASE draft = None \/ draft.id = NewId
    BY <1>1, <1>7, <1>13, <2>1
  <2>2. CASE draft # None /\ draft.id # NewId
    <3>1. draft.id \in GroupIds
      BY <1>7, <2>2 DEF DraftRows
    <3>2. typed' = [typed EXCEPT ![draft.id] = [typed[draft.id] EXCEPT ![seg] = None]]
      BY <1>1, <2>2
    <3> QED BY <1>7, <3>1, <3>2
  <2> QED BY <2>1, <2>2
<1>15. PageTyped'
  BY <1>1, <1>8, <1>10, <1>14 DEF PageInv, PageTyped
<1>16. DraftsFiled'
  BY <1>1, <1>10, <1>11 DEF PageInv, DraftsFiled
<1>17. ASSUME NEW h \in GroupIds, NEW s \in Segments, typed'[h][s] # None
       PROVE  IF draft # None /\ draft.id = h
              THEN draft'[s] = typed'[h][s] /\ draft'[s] # baseline'[s]
              ELSE /\ stashed[h] # None
                   /\ stashed[h].draft[s] = typed'[h][s]
                   /\ stashed[h].draft[s] # stashed[h].baseline[s]
  <2>1. typed[h][s] = typed'[h][s]
    BY <1>14, <1>17
  <2>2. CASE draft # None /\ draft.id = h
    <3>1. s # seg /\ baseline # None
      BY <1>13, <1>14, <1>17, <2>2 DEF PageInv, DraftsFiled
    <3>2. draft'[s] = draft[s] /\ baseline'[s] = baseline[s]
      BY <1>11, <1>12, <2>2, <3>1
    <3> QED BY <1>17, <2>1, <2>2, <3>2 DEF PageInv, TypedIsDirty, UnsavedDraftStays
  <2>3. CASE ~(draft # None /\ draft.id = h)
    BY <1>17, <2>1, <2>3 DEF PageInv, TypedIsDirty, UnsavedDraftStays
  <2> QED BY <2>2, <2>3
<1>18. TypedIsDirty' /\ UnsavedDraftStays'
  BY <1>1, <1>10, <1>11, <1>17 DEF TypedIsDirty, UnsavedDraftStays
<1> QED BY <1>15, <1>16, <1>18 DEF PageInv

-----------------------------------------------------------------------------
(* The invariant.                                                          *)

RulesPageInv == RulesInv /\ PageInv /\ PageAsks

LEMMA RulesPageBegins ==
  ASSUME RuleGroupsAssumption, NoneAssumption, RulesPageInit
  PROVE  RulesPageInv
<1>1. PICK r \in Readings, sites \in SiteSets, owned \in SUBSET Subs : RulesInit(r, sites, owned)
  BY DEF RulesPageInit
<1>2. RulesInv
  BY <1>1, RulesBegin
<1>3. PageInv
  BY DEF RulesPageInit, PageInv, PageTyped, DraftsFiled, TypedIsDirty, UnsavedDraftStays,
         NothingTyped
<1>4. PageAsks
  BY <1>1 DEF RulesInit, PageAsks, Idle, RuleGroupsAssumption
<1> QED BY <1>2, <1>3, <1>4 DEF RulesPageInv

LEMMA UserActsKeeps ==
  ASSUME RuleGroupsAssumption, DraftAssumption, NoneAssumption, RulesPageInv, UserActs
  PROVE  RulesPageInv'
<1>1. RulesInv'
  <2>1. Untouched /\ req' = req
    BY DEF UserActs, serverVars, Untouched
  <2> QED BY <2>1, RequestsEnd DEF RulesPageInv, RulesInv, RulesTyped
<1>2. PageAsks'
  BY DEF UserActs, serverVars, RulesPageInv, PageAsks
<1>3. PageInv'
  <2>1. CASE Opens \/ Refresh
    BY <2>1, RefreshKeeps DEF RulesPageInv
  <2>2. CASE \E g \in GroupIds : SelectGroup(g)
    BY <2>2, SelectGroupKeeps DEF RulesPageInv
  <2>3. CASE StartNew
    BY <2>3, StartNewKeeps DEF RulesPageInv
  <2>4. ASSUME NEW seg \in Segments, NEW value \in Values(seg), TypeDraft(seg, value)
        PROVE  PageInv'
    <3>1. value \in SegmentRows(seg)
      BY DEF Segments, Values, SegmentRows, RuleGroupsAssumption, Sites, Steps
    <3> QED BY <2>4, <3>1, TypeDraftKeeps DEF RulesPageInv
  <2> QED BY <2>1, <2>2, <2>3, <2>4 DEF UserActs
<1> QED BY <1>1, <1>2, <1>3 DEF RulesPageInv

\* What the buttons send, and what that leaves of the page.
LEMMA UserSavesKeeps ==
  ASSUME RuleGroupsAssumption, DraftAssumption, NoneAssumption, RulesPageInv, UserSaves
  PROVE  RulesPageInv'
<1>1. /\ Page \in Clients /\ draft \in DraftRows /\ UNCHANGED <<listed, draft, baseline, stashed, typed>>
      /\ draft.id # NewId => draft.id \in GroupIds
  BY DEF RuleGroupsAssumption, UserSaves, SaveReading, SaveSitesSegment, SaveStepsSegment,
         AskRemoval, RulesPageInv, PageInv, PageTyped, DraftRows
<1>2. /\ draft.reading \in ReadingRows /\ draft.sites \in SUBSET Sites
      /\ draft.steps \in SUBSET Steps
  BY <1>1 DEF DraftRows
<1>3. PageInv'
  <2>1. listed' \in [GroupIds -> GroupRows \cup {None}]
    BY <1>1 DEF RulesPageInv, PageInv, PageTyped
  <2> QED BY <1>1, <2>1, PageRests DEF RulesPageInv
<1>4. CASE SaveReading
  <2>1. CASE CreateGroup(Page, draft.reading, draft.sites, draft.steps)
    <3>1. RulesInv'
      BY <1>1, <1>2, <2>1, CreateGroupKeeps DEF RulesPageInv
    <3>2. PageAsks'
      BY <1>1, <2>1 DEF CreateGroup, Refused, TakeRequest, PageAsks, RulesPageInv, RulesInv,
                        RulesTyped
    <3> QED BY <1>3, <3>1, <3>2 DEF RulesPageInv
  <2>2. CASE draft.id # NewId /\ EditGroup(Page, draft.id, draft.reading)
    <3>1. RulesInv'
      BY <1>1, <1>2, <2>2, EditGroupKeeps DEF RulesPageInv
    <3>2. PageAsks'
      BY <1>1, <2>2 DEF EditGroup, Refused, TakeRequest, PageAsks, RulesPageInv, RulesInv,
                        RulesTyped
    <3> QED BY <1>3, <3>1, <3>2 DEF RulesPageInv
  <2> QED BY <1>4, <2>1, <2>2 DEF SaveReading
<1>5. CASE SaveSitesSegment
  <2>1. draft.id # NewId /\ SaveSites(Page, draft.id, draft.sites)
    BY <1>5 DEF SaveSitesSegment
  <2>2. RulesInv'
    BY <1>1, <1>2, <2>1, SaveSitesKeeps DEF RulesPageInv
  <2>3. PageAsks'
    BY <1>1, <2>1 DEF SaveSites, Refused, TakeRequest, PageAsks, RulesPageInv, RulesInv, RulesTyped
  <2> QED BY <1>3, <2>2, <2>3 DEF RulesPageInv
<1>6. CASE SaveStepsSegment
  <2>1. draft.id # NewId /\ SaveSteps(Page, draft.id, draft.steps)
    BY <1>6 DEF SaveStepsSegment
  <2>2. RulesInv'
    BY <1>1, <1>2, <2>1, SaveStepsKeeps DEF RulesPageInv
  <2>3. PageAsks'
    BY <1>1, <2>1 DEF SaveSteps, Refused, TakeRequest, PageAsks, RulesPageInv, RulesInv, RulesTyped
  <2> QED BY <1>3, <2>2, <2>3 DEF RulesPageInv
<1>7. CASE AskRemoval
  <2>1. draft.id # NewId /\ RemoveGroup(Page, draft.id)
    BY <1>7 DEF AskRemoval
  <2>2. RulesInv'
    BY <1>1, <2>1, RemoveGroupKeeps DEF RulesPageInv
  <2>3. PageAsks'
    BY <1>1, <2>1 DEF RemoveGroup, Refused, TakeRequest, PageAsks, RulesPageInv, RulesInv, RulesTyped
  <2> QED BY <1>3, <2>2, <2>3 DEF RulesPageInv
<1> QED BY <1>4, <1>5, <1>6, <1>7 DEF UserSaves

LEMMA PageHearsKeeps ==
  ASSUME RuleGroupsAssumption, DraftAssumption, NoneAssumption, RulesPageInv, PageHears
  PROVE  RulesPageInv'
<1>1. Untouched /\ req' = [req EXCEPT ![Page] = Idle]
  BY DEF PageHears, CreationAnswered, SegmentAnswered, AnswerWithoutGroup, RemovalAnswered,
         SaveRefused, SaveAnswered, Untouched
<1>2. RulesInv'
  BY <1>1, AnswerKeeps DEF RulesPageInv
<1>3. PageAsks'
  BY <1>1 DEF PageAsks, Idle, RulesPageInv, RulesInv, RulesTyped, RuleGroupsAssumption
<1>4. PageInv'
  <2>1. CASE CreationAnswered
    BY <2>1, CreationAnsweredKeeps DEF RulesPageInv, RuleGroupsAssumption
  <2>2. CASE \E seg \in Segments : SegmentAnswered(seg)
    BY <2>2, SegmentAnsweredKeeps DEF RulesPageInv
  <2>3. CASE AnswerWithoutGroup \/ SaveRefused
    <3>1. UNCHANGED <<listed, draft, baseline, stashed, typed>>
      BY <2>3 DEF AnswerWithoutGroup, SaveRefused
    <3> QED BY <3>1, PageRests DEF RulesPageInv, PageInv, PageTyped
  <2>4. CASE RemovalAnswered
    BY <2>4, LoadGroupsKeeps DEF RulesPageInv, RemovalAnswered
  <2> QED BY <2>1, <2>2, <2>3, <2>4 DEF PageHears
<1> QED BY <1>2, <1>3, <1>4 DEF RulesPageInv

\* What happens behind the routes leaves the page as it is, and its request
\* what it asked for.
LEMMA BehindThePage ==
  ASSUME RulesPageInv, UNCHANGED pageVars, RulesInv',
         req'[Page].op \in {"idle", req[Page].op}
  PROVE  RulesPageInv'
<1>1. UNCHANGED <<draft, baseline, stashed, typed>> /\ listed' \in [GroupIds -> GroupRows \cup {None}]
  BY DEF pageVars, RulesPageInv, PageInv, PageTyped
<1>2. PageInv'
  BY <1>1, PageRests DEF RulesPageInv
<1> QED BY <1>2 DEF RulesPageInv, PageAsks

\* How a request of the page goes on, by the shape of the step.
LEMMA AsksStay ==
  ASSUME RuleGroupsAssumption, RulesInv, NEW c \in Clients,
         \/ \E q : req' = [req EXCEPT ![c] = q] /\ q.op \in {"idle", req[c].op}
         \/ \E q : req' = Overtaken([req EXCEPT ![c] = q], c) /\ q.op \in {"idle", req[c].op}
  PROVE  req'[Page].op \in {"idle", req[Page].op}
<1>1. req \in [Clients -> Requests] /\ Page \in Clients
  BY DEF RulesInv, RulesTyped, RuleGroupsAssumption
<1>2. Open(req[Page]) => Later(req[Page]).op = req[Page].op
  BY <1>1, LateOnlyMarks
<1>3. CASE \E q : req' = [req EXCEPT ![c] = q] /\ q.op \in {"idle", req[c].op}
  BY <1>1, <1>3
<1>4. CASE \E q : req' = Overtaken([req EXCEPT ![c] = q], c) /\ q.op \in {"idle", req[c].op}
  <2>1. PICK q : req' = Overtaken([req EXCEPT ![c] = q], c) /\ q.op \in {"idle", req[c].op}
    BY <1>4
  <2> DEFINE r == [req EXCEPT ![c] = q]
  <2>2. r[c] = q /\ \A d \in Clients \ {c} : r[d] = req[d]
    BY <1>1
  <2> HIDE DEF r
  <2>3. req'[Page] = IF Page # c /\ Open(r[Page]) THEN Later(r[Page]) ELSE r[Page]
    BY <1>1, <2>1 DEF Overtaken, Open, Later, r
  <2> QED BY <1>1, <1>2, <2>1, <2>2, <2>3
<1> QED BY <1>3, <1>4

LEMMA EndsAsAsked ==
  ASSUME RulesInv, NEW c \in Clients, Pending(req[c])
  PROVE  /\ Finished(c).op \in {"idle", req[c].op}
         /\ Refusal(c).op \in {"idle", req[c].op}
         /\ Idle.op = "idle"
<1>1. req[c] \in Requests
  BY DEF RulesInv, RulesTyped
<1>2. /\ [req[c] EXCEPT !.stage = "done"].op = req[c].op
      /\ [req[c] EXCEPT !.stage = "refused"].op = req[c].op
  BY <1>1, RequestKinds
     DEF CreateRequests, EditRequests, RemoveRequests, SitesRequests, StepsRequests,
         AllRequests, SubscribeRequests
<1> QED BY <1>2 DEF Finished, Refusal, Idle

\* The group a transaction is about, and what it does to its request.
LEMMA ServerWorksKeeps ==
  ASSUME RuleGroupsAssumption, DraftAssumption, NoneAssumption, RulesPageInv, ServerWorks
  PROVE  RulesPageInv'
<1>0. RulesInv
  BY DEF RulesPageInv
<1>1. PICK c \in Clients :
        \/ OpenCreate(c) \/ OpenSites(c) \/ OpenRemove(c) \/ OpenAll(c)
        \/ CommitSites(c) \/ CommitRemove(c) \/ CommitAll(c)
        \/ CommitCreate(c) \/ CommitEdit(c) \/ CommitSteps(c)
        \/ RollBack(c) \/ WriteSubscription(c)
  BY DEF ServerWorks
<1>2. RulesInv'
  BY <1>0, <1>1, OpenCreateKeeps, OpenSitesKeeps, OpenRemoveKeeps, OpenAllKeeps,
     CommitSitesKeeps, CommitRemoveKeeps, CommitAllKeeps, CommitCreateKeeps, CommitEditKeeps,
     CommitStepsKeeps, RollBackKeeps, WriteSubscriptionKeeps
<1>3. req[c] \in Requests
  BY <1>0 DEF RulesInv, RulesTyped
<1>4. CASE OpenCreate(c) \/ OpenSites(c) \/ OpenRemove(c) \/ OpenAll(c)
  <2>1. PICK q : req' = [req EXCEPT ![c] = q] /\ q.op = req[c].op
    <3>1. CASE OpenCreate(c)
      <4> DEFINE x == [req[c] EXCEPT !.id = nextGroup]
                 q == [x EXCEPT !.stage = "open", !.union = UnionIn(x)]
      <4>1. req' = [req EXCEPT ![c] = q]
        BY <3>1 DEF OpenCreate, TransactionOpens
      <4>2. "op" \in DOMAIN req[c]
        <5>1. req[c] \in CreateRequests
          BY <1>3, <3>1, RequestKinds DEF OpenCreate
        <5> QED BY <5>1 DEF CreateRequests
      <4>3. q.op = req[c].op
        BY ONLY <4>2
      <4> HIDE DEF q
      <4> QED BY <4>1, <4>3
    <3>2. CASE OpenSites(c)
      <4> DEFINE x == req[c]
                 q == [x EXCEPT !.stage = "open", !.union = UnionIn(x)]
      <4>1. req' = [req EXCEPT ![c] = q]
        BY <3>2 DEF OpenSites, TransactionOpens
      <4>2. "op" \in DOMAIN req[c]
        <5>1. req[c] \in SitesRequests
          BY <1>3, <3>2, RequestKinds DEF OpenSites
        <5> QED BY <5>1 DEF SitesRequests
      <4>3. q.op = req[c].op
        BY ONLY <4>2
      <4> HIDE DEF q
      <4> QED BY <4>1, <4>3
    <3>3. CASE OpenRemove(c)
      <4> DEFINE x == [req[c] EXCEPT !.rows = Following(req[c].id) \cup Following(req[c].fallback),
                                     !.seen = IF groups[req[c].fallback] = None THEN None
                                              ELSE groups[req[c].fallback].reading]
                 q == [x EXCEPT !.stage = "open", !.union = UnionIn(x)]
      <4>1. req' = [req EXCEPT ![c] = q]
        BY <3>3 DEF OpenRemove, TransactionOpens
      <4>2. "op" \in DOMAIN req[c]
        <5>1. req[c] \in RemoveRequests
          BY <1>3, <3>3, RequestKinds DEF OpenRemove
        <5> QED BY <5>1 DEF RemoveRequests
      <4>3. q.op = req[c].op
        BY ONLY <4>2
      <4> HIDE DEF q
      <4> QED BY <4>1, <4>3
    <3>4. CASE OpenAll(c)
      <4> DEFINE x == [req[c] EXCEPT !.gone = Ids(groups) \ req[c].kept,
                                     !.rows = {s \in Subs : subs[s] # None}]
                 q == [x EXCEPT !.stage = "open", !.union = UnionIn(x)]
      <4>1. req' = [req EXCEPT ![c] = q]
        BY <3>4 DEF OpenAll, TransactionOpens
      <4>2. "op" \in DOMAIN req[c]
        <5>1. req[c] \in AllRequests
          BY <1>3, <3>4, RequestKinds DEF OpenAll
        <5> QED BY <5>1 DEF AllRequests
      <4>3. q.op = req[c].op
        BY ONLY <4>2
      <4> HIDE DEF q
      <4> QED BY <4>1, <4>3
    <3> QED BY <1>4, <3>1, <3>2, <3>3, <3>4
  <2> QED BY <1>0, <1>2, <2>1, AsksStay, BehindThePage DEF ServerWorks
<1>5. CASE CommitSites(c) \/ CommitRemove(c) \/ CommitAll(c)
  <2>1. req' = Overtaken([req EXCEPT ![c] = Finished(c)], c) /\ Pending(req[c])
    BY <1>5 DEF CommitSites, CommitRemove, CommitAll, Commits, Pending
  <2>2. Finished(c).op \in {"idle", req[c].op}
    BY <1>0, <2>1, EndsAsAsked
  <2> QED BY <1>0, <1>2, <2>1, <2>2, AsksStay, BehindThePage DEF ServerWorks
<1>6. CASE CommitCreate(c)
  <2>1. req' = [req EXCEPT ![c] = IF c = Page
                                  THEN [[req[c] EXCEPT !.id = nextGroup] EXCEPT !.stage = "done"]
                                  ELSE Idle]
        /\ req[c] \in CreateRequests
    BY <1>3, <1>6, RequestKinds DEF CommitCreate
  <2>2. [[req[c] EXCEPT !.id = nextGroup] EXCEPT !.stage = "done"].op = req[c].op
    BY <2>1 DEF CreateRequests
  <2>3. Idle.op = "idle"
    BY DEF Idle
  <2> QED BY <1>0, <1>2, <2>1, <2>2, <2>3, AsksStay, BehindThePage DEF ServerWorks
<1>7. CASE CommitEdit(c) \/ CommitSteps(c) \/ RollBack(c) \/ WriteSubscription(c)
  <2>1. Pending(req[c]) /\ \E q \in {Finished(c), Refusal(c), Idle} : req' = [req EXCEPT ![c] = q]
    BY <1>7 DEF CommitEdit, CommitSteps, RollBack, WriteSubscription, Pending
  <2>2. \A q \in {Finished(c), Refusal(c), Idle} : q.op \in {"idle", req[c].op}
    BY <1>0, <2>1, EndsAsAsked
  <2> QED BY <1>0, <1>2, <2>1, <2>2, AsksStay, BehindThePage DEF ServerWorks
<1> QED BY <1>1, <1>4, <1>5, <1>6, <1>7

\* The requests a client other than the page sends.
Asks(c) ==
    \/ \E r \in Readings, sites \in SiteSets, steps \in StepSets : CreateGroup(c, r, sites, steps)
    \/ \E g \in GroupIds :
          \/ \E r \in Readings : EditGroup(c, g, r)
          \/ RemoveGroup(c, g)
          \/ \E sites \in SiteSets : SaveSites(c, g, sites)
          \/ \E steps \in StepSets : SaveSteps(c, g, steps)
          \/ \E s \in Subs, own \in Patterns : AskSubscription(c, s, g, own)
    \/ \E kept \in SUBSET Ids(groups), first \in GroupIds, r \in Readings, sites \in SiteSets :
          SaveAll(c, kept, first, r, sites)

LEMMA AskedIsTaken ==
  ASSUME NEW c, Asks(c)
  PROVE  \E q : TakeRequest(c, q)
BY DEF Asks, CreateGroup, EditGroup, RemoveGroup, SaveSites, SaveSteps, AskSubscription, SaveAll,
       Refused

LEMMA OthersAskKeeps ==
  ASSUME RuleGroupsAssumption, DraftAssumption, NoneAssumption, RulesPageInv, OthersAsk
  PROVE  RulesPageInv'
<1>0. RulesInv /\ req \in [Clients -> Requests] /\ Page \in Clients
  BY DEF RulesPageInv, RulesInv, RulesTyped, RuleGroupsAssumption
<1>1. PICK c \in Clients \ {Page} : Asks(c)
  BY DEF OthersAsk, Asks
<1>2. \E q : TakeRequest(c, q)
  BY <1>1, AskedIsTaken
<1>3. req'[Page] = req[Page]
  BY <1>0, <1>2 DEF TakeRequest
<1>4. /\ Readings \subseteq ReadingRows /\ SiteSets \subseteq SUBSET Sites
      /\ StepSets \subseteq SUBSET Steps
  BY DEF RuleGroupsAssumption, Sites, Steps
<1>5. RulesInv'
  <2>1. CASE \E r \in Readings, sites \in SiteSets, steps \in StepSets :
               CreateGroup(c, r, sites, steps)
    BY <1>0, <1>4, <2>1, CreateGroupKeeps
  <2>2. ASSUME NEW g \in GroupIds, NEW r \in Readings, EditGroup(c, g, r) PROVE RulesInv'
    BY <1>0, <1>4, <2>2, EditGroupKeeps
  <2>3. ASSUME NEW g \in GroupIds, RemoveGroup(c, g) PROVE RulesInv'
    BY <1>0, <2>3, RemoveGroupKeeps
  <2>4. ASSUME NEW g \in GroupIds, NEW sites \in SiteSets, SaveSites(c, g, sites) PROVE RulesInv'
    BY <1>0, <1>4, <2>4, SaveSitesKeeps
  <2>5. ASSUME NEW g \in GroupIds, NEW steps \in StepSets, SaveSteps(c, g, steps) PROVE RulesInv'
    BY <1>0, <1>4, <2>5, SaveStepsKeeps
  <2>6. ASSUME NEW g \in GroupIds, NEW s \in Subs, NEW own \in Patterns,
               AskSubscription(c, s, g, own)
        PROVE  RulesInv'
    BY <1>0, <2>6, AskSubscriptionKeeps
  <2>7. ASSUME NEW kept \in SUBSET Ids(groups), NEW first \in GroupIds, NEW r \in Readings,
               NEW sites \in SiteSets, SaveAll(c, kept, first, r, sites)
        PROVE  RulesInv'
    BY <1>0, <1>4, <2>7, SaveAllKeeps
  <2> QED BY <1>1, <2>1, <2>2, <2>3, <2>4, <2>5, <2>6, <2>7 DEF Asks
<1> QED BY <1>3, <1>5, BehindThePage DEF OthersAsk

LEMMA OldPagesAskKeeps ==
  ASSUME RuleGroupsAssumption, DraftAssumption, NoneAssumption, RulesPageInv, OldPagesAsk
  PROVE  RulesPageInv'
<1>0. RulesInv /\ req \in [Clients -> Requests] /\ Page \in Clients
  BY DEF RulesPageInv, RulesInv, RulesTyped, RuleGroupsAssumption
<1>1. PICK g \in GroupIds : \/ \E r \in Readings : EditPreset(g, r)
                            \/ DeletePreset(g)
                            \/ \E r \in Readings, sites \in SiteSets : SaveMissav(g, r, sites)
  BY DEF OldPagesAsk
<1>2. Readings \subseteq ReadingRows /\ SiteSets \subseteq SUBSET Sites
  BY DEF RuleGroupsAssumption, Sites
<1>3. RulesInv'
  BY <1>0, <1>1, <1>2, EditPresetKeeps, DeletePresetKeeps, SaveMissavKeeps
<1>4. req'[Page].op = req[Page].op
  <2>1. CASE req' = req
    BY <2>1
  <2>2. CASE req' = Overtaken(req, None)
    BY <1>0, <2>2, LateOnlyMarks DEF Overtaken, Open, Later
  <2> QED BY <1>1, <2>1, <2>2 DEF EditPreset, DeletePreset, SaveMissav
<1> QED BY <1>3, <1>4, BehindThePage DEF OldPagesAsk

LEMMA RestOfSystemKeeps ==
  ASSUME RuleGroupsAssumption, DraftAssumption, NoneAssumption, RulesPageInv, RestOfSystem
  PROVE  RulesPageInv'
<1>0. RulesInv /\ req \in [Clients -> Requests] /\ Page \in Clients
  BY DEF RulesPageInv, RulesInv, RulesTyped, RuleGroupsAssumption
<1>1. CASE \E s \in Subs : ScanStarts(s) \/ ScanCompletes(s) \/ DeleteSubscription(s)
  <2>1. RulesInv'
    BY <1>0, <1>1, SubscriptionEventKeeps
  <2>2. req' = req
    BY <1>1 DEF ScanStarts, ScanCompletes, DeleteSubscription
  <2> QED BY <2>1, <2>2, BehindThePage DEF RestOfSystem
<1>2. CASE RequestsCutOff
  <2>1. RulesInv'
    BY <1>0, <1>2, RequestsCutOffKeeps
  <2>2. req'[Page] = req[Page] \/ (Pending(req[Page]) /\ req'[Page] = Refusal(Page))
    BY <1>0, <1>2 DEF RequestsCutOff, Pending
  <2>3. req'[Page].op \in {"idle", req[Page].op}
    BY <1>0, <2>2, EndsAsAsked
  <2> QED BY <2>1, <2>3, BehindThePage DEF RestOfSystem
<1> QED BY <1>1, <1>2 DEF RestOfSystem

LEMMA RulesPageStep ==
  ASSUME RuleGroupsAssumption, DraftAssumption, NoneAssumption, RulesPageInv,
         [RulesPageNext]_rulesPageVars
  PROVE  RulesPageInv'
<1>1. CASE RulesPageNext
  BY <1>1, UserActsKeeps, UserSavesKeeps, PageHearsKeeps, OthersAskKeeps, OldPagesAskKeeps,
     ServerWorksKeeps, RestOfSystemKeeps DEF RulesPageNext
<1>2. CASE UNCHANGED rulesPageVars
  <2>1. Untouched /\ req' = req /\ UNCHANGED pageVars
    BY <1>2 DEF rulesPageVars, Untouched, pageVars
  <2>2. RulesInv'
    BY <2>1, RequestsEnd DEF RulesPageInv, RulesInv, RulesTyped
  <2> QED BY <2>1, <2>2, BehindThePage
<1> QED BY <1>1, <1>2

-----------------------------------------------------------------------------
(* The theorems.                                                           *)

\* The inductive invariant holds in every behaviour: of the requests under way
\* with their locks, the groups and their copies, and the drafts of the page.
THEOREM RulesInvariant == RulesPageSpec => []RulesPageInv
<1>1. RulesPageInit => RulesPageInv
  BY RulesPageBegins, RuleGroupsAssumption, NoneAssumption
<1>2. RulesPageInv /\ [RulesPageNext]_rulesPageVars => RulesPageInv'
  BY RulesPageStep, RuleGroupsAssumption, DraftAssumption, NoneAssumption
<1> QED
  BY <1>1, <1>2, PTL DEF RulesPageSpec

\* A subscription reads its pages the way its group says, but for those a stale
\* write or a route that copies nothing is known to have left behind.
THEOREM SubscriptionsFollow == RulesPageSpec => []SubscriptionFollowsGroup
<1>1. RulesPageInv => SubscriptionFollowsGroup
  BY DEF RulesPageInv, RulesInv
<1> QED
  BY <1>1, RulesInvariant, PTL

\* The site list the older code reads is the union of what the groups declare,
\* unless the transaction that wrote it was overlapped by another's commit.
THEOREM UnionIsKept == RulesPageSpec => []UnionIsOfTheGroups
<1>1. RulesPageInv => UnionIsOfTheGroups
  BY DEF RulesPageInv, RulesInv
<1> QED
  BY <1>1, RulesInvariant, PTL

\* What the user typed is on screen or set aside until it is saved, through
\* every switch of groups and every answer (RulesPage.tsx:153).
THEOREM DraftsAreKept == RulesPageSpec => []UnsavedDraftStays
<1>1. RulesPageInv => UnsavedDraftStays
  BY DEF RulesPageInv, PageInv
<1> QED
  BY <1>1, RulesInvariant, PTL

\* What a step leaves of a group's built-in steps.
KeepsBuiltin(g) ==
    /\ IsBuiltin(groups[g]) => groups'[g] # None
    /\ groups'[g] # None => KindsOf(groups'[g].steps) = KindsOf(groups[g].steps)

\* A transaction that deletes rows deletes none that has a built-in step.
LEMMA CommitKeepsBuiltin ==
  ASSUME NoneAssumption, RulesInv, NEW c \in Clients, Commits(c), NEW g \in GroupIds,
         groups[g] # None
  PROVE  KeepsBuiltin(g)
<1> DEFINE q == req[c]
<1>1. /\ q \in Requests /\ q.op \in {"create", "remove", "sites", "all"}
      /\ StepsSafe(q) /\ RowsHeld(q) /\ groups' = GroupsAfter(q) /\ Open(q)
      /\ groups \in [GroupIds -> GroupRows \cup {None}]
  BY RequestKinds DEF Commits, RulesInv, RulesTyped, GroupsTyped, BuiltinSafe, RowsStay, Pending,
                      Open
<1>2. groups'[g] # None => KindsOf(groups'[g].steps) = KindsOf(groups[g].steps)
  BY CommitGrows DEF GroupsGrow
<1>3. ASSUME groups'[g] = None PROVE ~IsBuiltin(groups[g])
  <2>1. CASE q.op = "create"
    <3>1. [reading |-> q.reading, sites |-> q.sites, steps |-> q.steps] \in GroupRows
      BY <1>1, <2>1, RequestKinds DEF CreateRequests, GroupRows
    <3> DEFINE row == [reading |-> q.reading, sites |-> q.sites, steps |-> q.steps]
    <3>2. groups' = [groups EXCEPT ![q.id] = row]
      BY <1>1, <2>1 DEF GroupsAfter, Created
    <3>3. row # None
      BY <3>1, NoneAssumption
    <3> HIDE DEF row
    <3> QED BY <1>1, <1>3, <3>2, <3>3
  <2>2. CASE q.op = "sites"
    <3>1. CASE groups[q.id] = None
      BY <1>1, <1>3, <2>2, <3>1 DEF GroupsAfter, WithSites
    <3>2. CASE groups[q.id] # None
      <4> DEFINE row == [groups[q.id] EXCEPT !.sites = q.sites]
      <4>1. q.id \in GroupIds /\ q.sites \in SUBSET Sites /\ groups[q.id] \in GroupRows
        BY <1>1, <2>2, <3>2, RequestKinds DEF SitesRequests
      <4>2. row \in GroupRows
        BY <4>1 DEF GroupRows
      <4>3. groups' = [groups EXCEPT ![q.id] = row]
        BY <1>1, <2>2, <3>2 DEF GroupsAfter, WithSites
      <4>4. row # None
        BY <4>2, NoneAssumption
      <4> HIDE DEF row
      <4> QED BY <1>1, <1>3, <4>3, <4>4
    <3> QED BY <3>1, <3>2
  <2>3. CASE q.op = "remove"
    <3>1. groups' = [groups EXCEPT ![q.id] = None]
      BY <1>1, <2>3 DEF GroupsAfter, Deleted
    <3>2. g = q.id
      BY <1>1, <1>3, <3>1
    <3> QED BY <1>1, <2>3, <3>2 DEF StepsSafe
  <2>4. CASE q.op = "all"
    <3>1. groups'[g] = IF g \in q.kept
                       THEN [groups[g] EXCEPT !.reading = q.reading, !.sites = q.sites]
                       ELSE IF g \in q.gone THEN None ELSE groups[g]
      BY <1>1, <2>4 DEF GroupsAfter, ReplacedBy
    <3>2. CASE g \in q.kept
      <4> DEFINE row == [groups[g] EXCEPT !.reading = q.reading, !.sites = q.sites]
      <4>1. groups[g] \in GroupRows /\ q \in AllRequests
        BY <1>1, <2>4, RequestKinds
      <4>2. row \in GroupRows
        BY <4>1 DEF GroupRows, AllRequests
      <4>3. row # None
        BY <4>2, NoneAssumption
      <4> HIDE DEF row
      <4> QED BY <1>3, <3>1, <3>2, <4>3 DEF row
    <3>3. CASE g \notin q.kept
      BY <1>1, <2>4, <3>3 DEF StepsSafe, Ids
    <3> QED BY <3>2, <3>3
  <2> QED BY <1>1, <2>1, <2>2, <2>3, <2>4
<1> QED BY <1>2, <1>3 DEF KeepsBuiltin

LEMMA StepKeepsBuiltin ==
  ASSUME RuleGroupsAssumption, NoneAssumption, RulesPageInv, RulesPageNext, NEW g \in GroupIds,
         groups[g] # None, ~DeletePreset(g)
  PROVE  KeepsBuiltin(g)
<1>0. RulesInv /\ groups \in [GroupIds -> GroupRows \cup {None}]
  BY DEF RulesPageInv, RulesInv, RulesTyped, GroupsTyped
<1>1. CASE groups' = groups
  BY <1>1 DEF KeepsBuiltin
<1>2. ASSUME NEW h \in GroupIds, NEW r \in ReadingRows, groups[h] # None,
             groups' = [groups EXCEPT ![h].reading = r]
      PROVE  KeepsBuiltin(g)
  BY <1>0, <1>2, ReadingWritten DEF KeepsBuiltin
<1>3. CASE UserActs \/ PageHears \/ RestOfSystem
  <2>1. groups' = groups
    BY <1>3 DEF UserActs, serverVars, PageHears, CreationAnswered, SegmentAnswered,
                AnswerWithoutGroup, RemovalAnswered, SaveRefused, SaveAnswered, RestOfSystem,
                ScanStarts, ScanCompletes, DeleteSubscription, RequestsCutOff
  <2> QED BY <1>1, <2>1
<1>4. CASE UserSaves \/ OthersAsk
  <2>1. \E c, q : TakeRequest(c, q)
    <3>1. CASE UserSaves
      BY <3>1 DEF UserSaves, SaveReading, SaveSitesSegment, SaveStepsSegment, AskRemoval,
                  CreateGroup, EditGroup, RemoveGroup, SaveSites, SaveSteps, Refused
    <3>2. CASE OthersAsk
      BY <3>2, AskedIsTaken DEF OthersAsk, Asks
    <3> QED BY <1>4, <3>1, <3>2
  <2>2. groups' = groups
    BY <2>1 DEF TakeRequest
  <2> QED BY <1>1, <2>2
<1>5. CASE OldPagesAsk
  <2>1. PICK h \in GroupIds : \/ \E r \in Readings : EditPreset(h, r)
                              \/ DeletePreset(h)
                              \/ \E r \in Readings, sites \in SiteSets : SaveMissav(h, r, sites)
    BY <1>5 DEF OldPagesAsk
  <2>2. CASE DeletePreset(h)
    <3>1. h # g /\ groups' = [groups EXCEPT ![h] = None]
      BY <2>2 DEF DeletePreset
    <3> QED BY <1>0, <3>1 DEF KeepsBuiltin
  <2>3. CASE ~DeletePreset(h)
    <3>1. PICK r \in ReadingRows : groups[h] # None /\ groups' = [groups EXCEPT ![h].reading = r]
      BY <2>1, <2>3 DEF EditPreset, SaveMissav, RuleGroupsAssumption
    <3> QED BY <1>2, <3>1
  <2> QED BY <2>2, <2>3
<1>6. ASSUME NEW c \in Clients,
             \/ OpenCreate(c) \/ OpenSites(c) \/ OpenRemove(c) \/ OpenAll(c)
             \/ RollBack(c) \/ WriteSubscription(c)
      PROVE  KeepsBuiltin(g)
  BY <1>1, <1>6 DEF OpenCreate, OpenSites, OpenRemove, OpenAll, RollBack, WriteSubscription,
                    TransactionOpens
<1>7. ASSUME NEW c \in Clients, CommitSites(c) \/ CommitRemove(c) \/ CommitAll(c)
      PROVE  KeepsBuiltin(g)
  BY <1>0, <1>7, CommitKeepsBuiltin DEF CommitSites, CommitRemove, CommitAll
<1>8. ASSUME NEW c \in Clients, CommitCreate(c) PROVE KeepsBuiltin(g)
  <2> DEFINE q == [req[c] EXCEPT !.id = nextGroup]
  <2>1. req[c] \in CreateRequests /\ groups' = Created(q)
    BY <1>0, <1>8, RequestKinds DEF CommitCreate, RulesInv, RulesTyped
  <2>2. q.id = nextGroup
    BY <2>1 DEF CreateRequests
  <2>3. g # nextGroup
    BY <1>0 DEF RulesInv, IdsKnown, KnownIds, Ids, RulesTyped, GroupIds, RuleGroupsAssumption
  <2> HIDE DEF q
  <2>4. groups'[g] = groups[g]
    BY <1>0, <2>1, <2>2, <2>3 DEF Created
  <2> QED BY <2>4 DEF KeepsBuiltin
<1>9. ASSUME NEW c \in Clients, CommitEdit(c) PROVE KeepsBuiltin(g)
  <2>1. req[c] \in EditRequests
    BY <1>0, <1>9, RequestKinds DEF CommitEdit, RulesInv, RulesTyped
  <2>2. req[c].id \in GroupIds /\ req[c].reading \in ReadingRows
    BY <2>1 DEF EditRequests
  <2>3. groups' = groups \/ (groups[req[c].id] # None
                             /\ groups' = [groups EXCEPT ![req[c].id].reading = req[c].reading])
    BY <1>9 DEF CommitEdit
  <2> QED BY <1>1, <1>2, <2>2, <2>3
<1>10. ASSUME NEW c \in Clients, CommitSteps(c) PROVE KeepsBuiltin(g)
  <2>1. /\ req[c] \in StepsRequests /\ StepsSafe(req[c]) /\ req[c].op = "steps"
    BY <1>0, <1>10, RequestKinds DEF CommitSteps, RulesInv, RulesTyped, BuiltinSafe, Pending
  <2>2. req[c].id \in GroupIds /\ req[c].steps \in SUBSET Steps
    BY <2>1 DEF StepsRequests
  <2>3. CASE groups[req[c].id] = None
    BY <1>1, <1>10, <2>3 DEF CommitSteps
  <2>4. CASE groups[req[c].id] # None
    <3> DEFINE row == [groups[req[c].id] EXCEPT !.steps = req[c].steps]
    <3>1. groups[req[c].id] \in GroupRows
      BY <1>0, <2>2, <2>4
    <3>2. row \in GroupRows /\ row.steps = req[c].steps
      BY <2>2, <3>1 DEF GroupRows
    <3>3. groups' = [groups EXCEPT ![req[c].id] = row]
      BY <1>10, <2>4 DEF CommitSteps
    <3>4. row # None
      BY <3>2, NoneAssumption
    <3>5. KindsOf(req[c].steps) = KindsOf(groups[req[c].id].steps)
      BY <2>1, <2>4 DEF StepsSafe
    <3> HIDE DEF row
    <3> QED BY <1>0, <3>2, <3>3, <3>4, <3>5, <2>2 DEF KeepsBuiltin
  <2> QED BY <2>3, <2>4
<1> QED BY <1>3, <1>4, <1>5, <1>6, <1>7, <1>8, <1>9, <1>10 DEF RulesPageNext, ServerWorks

\* A group keeps exactly its built-in steps and, but for the deletion of the
\* earlier page, a group that has one is never deleted (rules.ts:316, 373).
THEOREM BuiltinStepsStay == RulesPageSpec => BuiltinStays
<1>1. ASSUME RulesPageInv, [RulesPageNext]_rulesPageVars
      PROVE  [\A g \in GroupIds :
                groups[g] # None /\ ~DeletePreset(g) =>
                   /\ IsBuiltin(groups[g]) => groups'[g] # None
                   /\ groups'[g] # None =>
                         KindsOf(groups'[g].steps) = KindsOf(groups[g].steps)]_rulesPageVars
  BY <1>1, StepKeepsBuiltin, RuleGroupsAssumption, NoneAssumption DEF KeepsBuiltin
<1> QED
  BY <1>1, RulesInvariant, PTL DEF RulesPageSpec, BuiltinStays

=============================================================================
