---------------------------- MODULE LiveUpdates ----------------------------
(***************************************************************************)
(* From a worker's write to the page that shows it: the engine of          *)
(* Telemetry, the hub of LiveEvents and the tabs of LiveTabs.              *)
(***************************************************************************)
EXTENDS LiveTabs

vars == <<telemetryVars, hubVars, browserVars, left>>

Init ==
  /\ TelemetryInit /\ HubInit /\ BrowserInit
  /\ left \in Budgets

EngineNext ==
  \/ \E i \in Items : Record(i) \/ WriteMetric(i)
  \/ TimerFires \/ WriteLogs \/ FlushFails
  \/ \E topic \in Topics : Changes(topic)
  \/ StopEngine \/ EngineExits \/ EngineDies \/ EngineStarts

BrowserNext ==
  \/ \E t \in Tabs, topic \in Topics : Begins(t, topic) \/ Answered(t, topic) \/ Shows(t, topic)
  \/ \E t \in Tabs, tick \in {0, 1} :
       \/ \E wanted \in left.views : OpenTab(t, wanted, tick)
       \/ Focus(t, tick) \/ EnsureLeader(t, tick)
  \/ \E t \in Tabs, wanted \in left.views : Navigate(t, wanted)
  \/ \E t \in Tabs, tells \in BOOLEAN : CloseTab(t, tells)
  \/ \E t \in Tabs : Hide(t) \/ Show(t) \/ Heartbeat(t) \/ Receive(t) \/ Arrives(t) \/ Reconnects(t)

Next ==
  \/ EngineNext /\ UNCHANGED <<hubVars, browserVars>>
  \/ HubNext /\ UNCHANGED browserVars
  \/ BrowserNext

Spec == Init /\ [][Next]_vars

-----------------------------------------------------------------------------
(* What was recorded is written in the end, or still held for a flush,     *)
(* unless it went down with its engine: a flush that fails gives back all  *)
(* it took, one that is joined takes nothing away (db.ts:540-576).         *)
NothingIsForgotten ==
  [][\A i \in Items : i \in Held \/ copies[i] > 0 \/ i \in lost
                      => (i \in Held \/ copies[i] > 0 \/ i \in lost)']_vars

(* Once the messages between the tabs have arrived, at most one of them    *)
(* keeps a stream, through claims of the same millisecond, tabs that are   *)
(* killed and tabs that come back (live-updates.ts:89-131).                *)
OneStream ==
  (\A t \in Tabs : mail[t] = <<>>) => \A t, u \in Tabs : tabs[t].stream /\ tabs[u].stream => t = u

(* Nothing is on its way any more: every post, event, poll and answer has  *)
(* arrived.                                                                *)
Quiet ==
  /\ posts = {} /\ api.pending = {} /\ api.reading = <<>> /\ api.polled
  /\ \A t \in Tabs : wire[t] = <<>> /\ mail[t] = <<>> /\ ~client[t].snapshot
  /\ \A topic \in Watched : api.seen[topic] = written[topic]

(* When nothing is on its way any more, the tab that keeps the stream      *)
(* shows its topics as they are in the tables: posts may have been lost,   *)
(* the API and the engine restarted, the stream handed from tab to tab and *)
(* events swallowed by a page that was loading.  Four cases are left out:  *)
(* an event dropped for a slow reader, a change the first poll of the API  *)
(* took for the state the page had loaded (sse-hub.ts:113-121), one the    *)
(* archive page took for it with its first event (App.tsx:1135-1138), and  *)
(* one whose version the page knew from before a restart of the API, which *)
(* counts from 0 again (sse-hub.ts:27, App.tsx:1139).                      *)
FreshWhenQuiet ==
  Quiet => \A t \in Tabs : tabs[t].stream /\ client[t].on =>
    \A topic \in tabs[t].wanted \ client[t].missed :
      \/ page[t][topic].pc # "idle"
      \/ page[t][topic].at = written[topic]
      \/ topic = "archive" /\ written[topic] \in {api.baseline[topic], page[t][topic].adopted}
=============================================================================
