------------------------------ MODULE LiveTabs ------------------------------
(***************************************************************************)
(* The browser's side: the tabs of one browser elect the one that keeps    *)
(* the event stream by leases sent over a BroadcastChannel, and the pages  *)
(* they show load their data again when an event reaches them.             *)
(*                                                                         *)
(* Events a follower overhears are only noted down, and the note adds      *)
(* nothing to a later replay, which covers every wanted topic: neither is  *)
(* modelled.                                                               *)
(***************************************************************************)
EXTENDS LiveEvents

VARIABLES
  tabs,   \* open, visible, wanted topics, stream and known leader of a tab
  page,   \* the page of a tab: what it shows of a topic
  mail,   \* messages of the channel on their way to a tab
  clock   \* the time of the latest claim

browserVars == <<tabs, page, mail, clock>>

Nobody == "nobody"
ASSUME TabsAssumption == Nobody \notin Tabs

Closed == [open |-> FALSE, visible |-> FALSE, wanted |-> {}, stream |-> FALSE,
           leader |-> Nobody, issued |-> 0]
\* A page before its first load; at is what it loaded last, live the version it
\* heard last and run (history) the run of the API that sent it, and adopted
\* (history) what the tables held when it took a version for what it shows.
NewPage == [pc |-> "new", at |-> Unread, live |-> Unread, run |-> 0, loaded |-> FALSE,
            again |-> FALSE, adopted |-> Unread]

BrowserInit ==
  /\ tabs = [t \in Tabs |-> Closed]
  /\ page = [t \in Tabs |-> [topic \in Topics |-> NewPage]]
  /\ mail = [t \in Tabs |-> <<>>]
  /\ clock = 0

IsLeader(t) == tabs[t].leader = t
Leads(t) == tabs[t].open /\ tabs[t].visible /\ IsLeader(t)

-----------------------------------------------------------------------------
(* Pages.                                                                  *)

Load(p) == [p EXCEPT !.pc = "asked", !.again = FALSE]

\* While the first load is on its way, an event asks for another one after it.
Deferred(p) == [p EXCEPT !.again = TRUE]
Dropped(p) == p
AfterLoading(p) == Deferred(p)

\* The archive page takes the first version for the state it has loaded, and
\* one that equals its last, even if another run of the API counted that;
\* replays without a version are nothing to it.
HearsArchive(p, version) ==
  LET q == [p EXCEPT !.live = version, !.run = api.run]
  IN IF version = Unread \/ (version = p.live /\ p.run = api.run) THEN p
     ELSE IF p.live \in {Unread, version} THEN [q EXCEPT !.adopted = written["archive"]]
     ELSE IF p.pc = "new" THEN q
     ELSE IF ~p.loaded THEN AfterLoading(q) ELSE Load(q)

Hears(p, topic, version) ==
  IF topic = "archive" THEN HearsArchive(p, version) ELSE Load(p)
Replayed(t, wanted) ==
  [topic \in Topics |-> IF topic \in wanted THEN Hears(page[t][topic], topic, Unread)
                        ELSE page[t][topic]]

Begins(t, topic) ==
  /\ tabs[t].open /\ topic \in tabs[t].wanted /\ page[t][topic].pc = "new"
  /\ page' = [page EXCEPT ![t][topic] = Load(@)]
  /\ UNCHANGED <<tabs, mail, clock, hubVars, left, telemetryVars>>

\* The API answers with what the tables hold; a later request replaces an
\* answer that has not arrived.
Answered(t, topic) ==
  /\ page[t][topic].pc = "asked"
  /\ page' = [page EXCEPT ![t][topic].pc = "answered", ![t][topic].at = written[topic]]
  /\ UNCHANGED <<tabs, mail, clock, hubVars, left, telemetryVars>>

Shows(t, topic) ==
  /\ page[t][topic].pc = "answered"
  /\ page' = [page EXCEPT ![t][topic] =
       LET q == [@ EXCEPT !.pc = "idle", !.loaded = TRUE] IN IF @.again THEN Load(q) ELSE q]
  /\ UNCHANGED <<tabs, mail, clock, hubVars, left, telemetryVars>>

-----------------------------------------------------------------------------
(* Leadership.                                                             *)

Sent(t, type) ==
  [u \in Tabs |-> IF u = t \/ ~tabs[u].open THEN mail[u]
                  ELSE Append(mail[u], [type |-> type, from |-> t, issued |-> clock'])]
StreamTo(t, topics) ==
  /\ client' = [client EXCEPT ![t] = IF topics = {} THEN NoClient ELSE Opened(topics)]
  /\ wire' = [wire EXCEPT ![t] = IF topics = {} THEN <<>> ELSE <<Ready>>]
  /\ UNCHANGED api

\* claimLeadership, by the tab as it is now.
Claims(t, now, tick) ==
  /\ clock' = clock + tick
  /\ tabs' = [tabs EXCEPT ![t] = [now EXCEPT !.leader = t, !.issued = clock',
                                             !.stream = now.wanted # {}]]
  /\ mail' = Sent(t, "leader")
  /\ StreamTo(t, now.wanted)

\* What a user does; a claim in the millisecond of the one before is a tie.
Acts(tick) ==
  /\ left["acts"] > 0 /\ left["ties"] >= 1 - tick
  /\ left' = [left EXCEPT !["acts"] = @ - 1, !["ties"] = @ - 1 + tick]

OpenTab(t, wanted, tick) ==
  /\ ~tabs[t].open /\ Acts(tick)
  /\ Claims(t, [Closed EXCEPT !.open = TRUE, !.visible = TRUE, !.wanted = wanted], tick)
  /\ page' = [page EXCEPT ![t] = [topic \in Topics |-> NewPage]]
  /\ UNCHANGED telemetryVars

Focus(t, tick) ==
  /\ tabs[t].open /\ tabs[t].visible /\ Acts(tick)
  /\ Claims(t, tabs[t], tick)
  /\ page' = [page EXCEPT ![t] = Replayed(t, tabs[t].wanted)]
  /\ UNCHANGED telemetryVars

\* ensureLeader, by its timers: nobody is known to lead, or the lease of the
\* known leader has run out, which takes a leader that sends no heartbeat.
MustLead(t) ==
  /\ tabs[t].open /\ tabs[t].visible /\ tabs[t].wanted # {} /\ ~IsLeader(t)
  /\ \A u \in Tabs : tabs[t].leader = u => mail[t] = <<>> /\ ~Leads(u)
EnsureLeader(t, tick) ==
  /\ MustLead(t)
  /\ IF tick = 1 THEN UNCHANGED left ELSE Spend("ties")
  /\ Claims(t, tabs[t], tick)
  /\ page' = [page EXCEPT ![t] = Replayed(t, tabs[t].wanted)]
  /\ UNCHANGED telemetryVars

\* The pages of a tab subscribe and unsubscribe; its leader opens the stream again.
Navigate(t, wanted) ==
  /\ tabs[t].open /\ wanted # tabs[t].wanted /\ Acts(1)
  /\ tabs' = [tabs EXCEPT ![t].wanted = wanted, ![t].stream = Leads(t) /\ wanted # {}]
  /\ page' = [page EXCEPT ![t] = [topic \in Topics |->
       IF topic \in wanted \cap tabs[t].wanted THEN @[topic] ELSE NewPage]]
  /\ IF Leads(t) THEN StreamTo(t, wanted) ELSE UNCHANGED hubVars
  /\ UNCHANGED <<mail, clock, telemetryVars>>

\* A tab that leaves tells the others, unless it is killed.
Leaves(t, now, tells) ==
  /\ tabs[t].open /\ Acts(1)
  /\ UNCHANGED clock
  /\ tabs' = [tabs EXCEPT ![t] = now]
  /\ mail' = LET sent == IF tells /\ IsLeader(t) THEN Sent(t, "release") ELSE mail
             IN IF now.open THEN sent ELSE [sent EXCEPT ![t] = <<>>]
  /\ page' = IF now.open THEN page ELSE [page EXCEPT ![t] = [topic \in Topics |-> NewPage]]
  /\ StreamTo(t, {})
  /\ UNCHANGED telemetryVars

Hide(t) ==
  /\ tabs[t].visible
  /\ Leaves(t, [tabs[t] EXCEPT !.visible = FALSE, !.stream = FALSE,
                               !.leader = IF @ = t THEN Nobody ELSE @], TRUE)
CloseTab(t, tells) == Leaves(t, Closed, tells)

\* Coming back, the tab leads if nobody does (EnsureLeader).
Show(t) ==
  /\ tabs[t].open /\ ~tabs[t].visible /\ Acts(1)
  /\ tabs' = [tabs EXCEPT ![t].visible = TRUE]
  /\ UNCHANGED <<page, mail, clock, hubVars, telemetryVars>>

Heartbeat(t) ==
  /\ Leads(t)
  /\ \E u \in Tabs : tabs[u].open /\ tabs[u].leader # t /\ mail[u] = <<>>
  /\ UNCHANGED clock
  /\ mail' = [u \in Tabs |->
       IF u = t \/ ~tabs[u].open THEN mail[u]
       ELSE Append(mail[u], [type |-> "leader", from |-> t, issued |-> tabs[t].issued])]
  /\ UNCHANGED <<tabs, page, hubVars, left, telemetryVars>>

\* The younger lease wins; an equal one wins as well.
Yields(mine, theirs) == theirs >= mine
YieldsToYounger(mine, theirs) == theirs > mine
MustYield(mine, theirs) == Yields(mine, theirs)

Receive(t) ==
  /\ mail[t] # <<>>
  /\ mail' = [mail EXCEPT ![t] = Tail(@)]
  /\ LET m == Head(mail[t])
         yields == m.type = "leader"
                   /\ (tabs[t].leader = Nobody \/ MustYield(tabs[t].issued, m.issued))
     IN /\ tabs' = [tabs EXCEPT ![t] =
             IF yields
             THEN [@ EXCEPT !.leader = m.from, !.issued = m.issued, !.stream = FALSE]
             ELSE IF m.type = "release" /\ @.leader = m.from
             THEN [@ EXCEPT !.leader = Nobody] ELSE @]
        /\ IF yields THEN StreamTo(t, {}) ELSE UNCHANGED hubVars
  /\ UNCHANGED <<page, clock, left, telemetryVars>>

-----------------------------------------------------------------------------
(* The stream of the leader.                                               *)

Arrives(t) ==
  /\ wire[t] # <<>>
  /\ wire' = [wire EXCEPT ![t] = Tail(@)]
  /\ LET e == Head(wire[t])
     IN page' = IF ~Leads(t) THEN page
          ELSE IF e.topic = "ready" THEN [page EXCEPT ![t] = Replayed(t, tabs[t].wanted)]
          ELSE [page EXCEPT ![t][e.topic] = Hears(@, e.topic, e.version)]
  /\ UNCHANGED <<tabs, mail, clock, api, client, left, telemetryVars>>

\* An EventSource that lost its connection opens another one.
Reconnects(t) ==
  /\ tabs[t].stream /\ ~client[t].on
  /\ StreamTo(t, tabs[t].wanted)
  /\ UNCHANGED <<browserVars, left, telemetryVars>>
=============================================================================
