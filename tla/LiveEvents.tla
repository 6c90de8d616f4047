----------------------------- MODULE LiveEvents -----------------------------
(***************************************************************************)
(* The API's side of the live updates: topics posted by the engine are     *)
(* collected for a quarter of a second and written to the event streams    *)
(* that watch them, and a poll every half minute compares the tables with  *)
(* what it saw last.                                                       *)
(***************************************************************************)
EXTENDS Telemetry

CONSTANT Tabs  \* browser tabs, each with at most one stream

VARIABLES
  api,     \* the hub: pending topics, their versions, and the poll; run
           \* (history) counts the starts of its process
  client,  \* the hub's end of the stream of a tab
  wire     \* events written to a stream and not yet read

hubVars == <<api, client, wire>>

Unread == -1
Unpolled == [t \in Topics |-> Unread]
NewApi == [pending |-> {}, version |-> [t \in Topics |-> 0], polled |-> FALSE,
           seen |-> Unpolled, reading |-> <<>>, baseline |-> Unpolled, run |-> 0]
NoClient == [on |-> FALSE, topics |-> {}, snapshot |-> FALSE, blocked |-> FALSE,
             missed |-> {}]

HubInit == api = NewApi /\ client = [t \in Tabs |-> NoClient] /\ wire = [t \in Tabs |-> <<>>]

Watching(t, topic) == client[t].on /\ topic \in client[t].topics
Watched == {topic \in Topics : \E t \in Tabs : Watching(t, topic)}
Event(topic) == [topic |-> topic, version |-> api'.version[topic]]
Ready == [topic |-> "ready", version |-> Unread]
Written(t, topics) == wire[t] \o SetToSeq({Event(topic) : topic \in topics \cap client[t].topics})

\* Posts are sent without waiting and without another try.
PostEvents(delivered) ==
  /\ engine # "off" /\ posts # {} /\ delivered \subseteq posts
  /\ posts' = {}
  /\ api' = [api EXCEPT !.pending = @ \cup delivered]
  /\ IF delivered = posts THEN UNCHANGED left ELSE Spend("faults")
  /\ UNCHANGED <<engine, buffer, timer, flush, copies, lost, written, client, wire>>

\* A client that does not read loses the event, and later its connection.
Broadcast(slow) ==
  LET cut == {t \in slow : client[t].blocked}
      due(t) == client[t].topics \cap api.pending
  IN /\ api.pending # {} /\ slow \subseteq {t \in Tabs : due(t) # {}}
     /\ IF slow = {} THEN UNCHANGED left ELSE Spend("faults")
     /\ api' = [api EXCEPT !.pending = {},
          !.version = [topic \in Topics |-> @[topic] + (IF topic \in api.pending THEN 1 ELSE 0)]]
     /\ client' = [t \in Tabs |-> IF t \in cut THEN NoClient
                                  ELSE [client[t] EXCEPT
                                          !.blocked = t \in slow \/ (@ /\ due(t) = {}),
                                          !.missed = IF t \in slow THEN @ \cup due(t) ELSE @ \ due(t)]]
     /\ wire' = [t \in Tabs |-> IF t \in cut THEN <<>>
                                ELSE IF t \in slow THEN wire[t]
                                ELSE Written(t, api.pending)]
     /\ UNCHANGED telemetryVars

PollReads ==
  /\ api.reading = <<>> /\ \E t \in Tabs : client[t].on
  /\ api' = [api EXCEPT !.reading =
       <<[topic \in Topics |-> IF topic \in Watched THEN written[topic] ELSE Unread]>>]
  /\ UNCHANGED <<client, wire, left, telemetryVars>>

\* The first poll takes what it reads for the state of the world; a later one
\* announces what differs.  New clients are told the versions of their topics.
Differs(read) == {topic \in Topics : read[topic] \notin {Unread, api.seen[topic]}}
PollEmits ==
  /\ api.reading # <<>>
  /\ LET read == api.reading[1]
         new == IF api.polled THEN Differs(read) ELSE {}
     IN api' = [api EXCEPT !.reading = <<>>, !.polled = TRUE,
          !.seen = IF api.polled
                   THEN [topic \in Topics |-> IF topic \in new THEN read[topic] ELSE @[topic]]
                   ELSE read,
          !.baseline = IF api.polled THEN @ ELSE read,
          !.pending = @ \cup new]
  /\ client' = [t \in Tabs |-> [client[t] EXCEPT !.snapshot = FALSE]]
  /\ wire' = [t \in Tabs |-> IF client[t].snapshot THEN Written(t, Topics) ELSE wire[t]]
  /\ UNCHANGED <<left, telemetryVars>>

\* The stream of a tab, as its tab opens and closes it.
Opened(topics) == [on |-> TRUE, topics |-> topics, snapshot |-> TRUE, blocked |-> FALSE,
                   missed |-> {}]

\* The versions of the topics begin anew.
ApiRestarts ==
  /\ Spend("faults")
  /\ api' = [NewApi EXCEPT !.run = api.run + 1] /\ client' = [t \in Tabs |-> NoClient] /\ wire' = [t \in Tabs |-> <<>>]
  /\ UNCHANGED telemetryVars

HubNext ==
  \/ \E delivered \in SUBSET posts : PostEvents(delivered)
  \/ \E slow \in SUBSET Tabs : Broadcast(slow)
  \/ PollReads \/ PollEmits \/ ApiRestarts
=============================================================================
