----------------------------- MODULE RuleGroups -----------------------------
(***************************************************************************)
(* The rule groups of the API: the rows of subscription_presets, the       *)
(* subscriptions that keep a copy of their group's reading, and the union  *)
(* of the groups' sites kept in app_settings.                              *)
(*                                                                         *)
(* A request is received (its checks and the reads it makes outside a      *)
(* transaction), then opens its transaction (its row locks, and the union  *)
(* of the sites it computes from what is committed plus its own change),   *)
(* then commits.  Several requests are under way at once.  Names,          *)
(* descriptions and the wording of refusals are left out: a name that is   *)
(* taken is a refusal that may happen.                                     *)
(***************************************************************************)
EXTENDS Naturals, FiniteSets

CONSTANTS Clients,     \* who sends requests; Page is one of them
          Page,
          Subs,        \* rows of subscriptions of the missav family
          Host,        \* the site a subscription's address is on
          MaxGroup,    \* bound: rows ever inserted in subscription_presets
          Readings,    \* the list readings submitted: [selector, match, pager]
          SiteSets,    \* the site lists submitted
          StepSets,    \* the step lists submitted
          Kinds,       \* the kinds of the built-in steps
          Patterns,    \* the match patterns a subscription is given
          Own,         \* a supplement step without the builtin mark
          MaxSites,    \* sites a group may declare
          DefaultSites,\* what a rule document without sites is given
          Blank, None

VARIABLES groups,      \* subscription_presets
          nextGroup,   \* its serial column
          subs,        \* subscriptions
          unionSites,  \* app_settings.inspection_rules.sites
          req,         \* what each client's request has done so far
          drifted,     \* history: subscriptions written from a stale read, or
                       \* left behind by a route that copies nothing
          skewed       \* history: the union was written by a transaction
                       \* another one overlapped, or by a route of its own

serverVars == <<groups, nextGroup, subs, unionSites, req, drifted, skewed>>

GroupIds == 1..MaxGroup

\* What the columns hold.
Texts == {r.selector : r \in Readings} \cup {r.match : r \in Readings} \cup Patterns \cup {Blank}
Sites == (UNION SiteSets) \cup DefaultSites
Steps == (UNION StepSets) \cup Kinds \cup {Own}
ReadingRows == [selector : Texts, match : Texts, pager : BOOLEAN]
GroupRows == [reading : ReadingRows, sites : SUBSET Sites, steps : SUBSET Steps]
SubscriptionRows == [group : GroupIds, selector : Texts, match : Texts, pager : BOOLEAN,
                     scanned : BOOLEAN, scanning : BOOLEAN]

ASSUME RuleGroupsAssumption ==
    /\ MaxGroup \in Nat \ {0}
    /\ Page \in Clients
    /\ Readings \subseteq ReadingRows
    /\ Own \notin Kinds

\* None is no row, no reading, and nobody.
ASSUME NoneAssumption ==
    None \notin Clients \cup ReadingRows \cup GroupRows \cup SubscriptionRows

Idle == [op |-> "idle", stage |-> "idle"]
Ids(gs) == {g \in GroupIds : gs[g] # None}

-----------------------------------------------------------------------------
(* What the routes compute.                                                *)

\* What each segment of a submission is refused for.
ReadingIssue(r) == r.selector = Blank

SitesIssue(sites) == Cardinality(sites) > MaxSites

StepsIssue(steps) == Blank \in steps

\* The rule document of the earlier page falls back on the default sites.
DocumentSites(sites) == IF sites = {} THEN DefaultSites ELSE sites

KindsOf(steps) == steps \cap Kinds

IsBuiltin(group) == KindsOf(group.steps) # {}

KeepsFlags(existing, incoming) == incoming

\* A step marked builtin that the group does not have becomes a plain step.
WithBuiltinFlags(existing, incoming) ==
    LET strange == KindsOf(incoming) \ existing
    IN  (incoming \ strange) \cup (IF strange = {} THEN {} ELSE {Own})

\* The built-in steps a submission leaves out.
RemovedBuiltin(existing, incoming) == KindsOf(existing) \ incoming

SiteUnion(gs) == UNION {gs[g].sites : g \in Ids(gs)}

\* The group's pattern, or the subscription's own where the group has none.
MatchOf(r, own) == IF r.match = Blank THEN own ELSE r.match

\* A subscription that copies a reading, given a pattern of its own.
Subscribed(g, r, own) == [group |-> g, selector |-> r.selector, match |-> MatchOf(r, own),
                          pager |-> r.pager, scanned |-> FALSE, scanning |-> FALSE]

\* The copy of a reading in a subscription.  Where pages are added and no scan
\* is running, the subscription is to be scanned again from its first page.
Synced(s, r) ==
    [s EXCEPT !.selector = r.selector,
              !.match = MatchOf(r, @),
              !.pager = r.pager,
              !.scanned = @ /\ (s.scanning \/ s.pager \/ ~r.pager)]

SyncSubscriptions(ss, gs, only) ==
    [s \in Subs |-> IF ss[s] # None /\ ss[s].group \in only \cap Ids(gs)
                    THEN Synced(ss[s], gs[ss[s].group].reading) ELSE ss[s]]

Following(g) == {s \in Subs : subs[s] # None /\ subs[s].group = g}

\* The group that inherits the subscriptions of a deleted one.
Fallback(g) ==
    LET others == Ids(groups) \ {g}
        builtin == {h \in others : IsBuiltin(groups[h])}
        from == IF builtin = {} THEN others ELSE builtin
    IN  CHOOSE h \in from : \A k \in from : h <= k

-----------------------------------------------------------------------------
(* Transactions.                                                           *)

Created(q) == [groups EXCEPT ![q.id] =
                  [reading |-> q.reading, sites |-> q.sites, steps |-> q.steps]]

WithSites(q) == IF groups[q.id] = None THEN groups
                ELSE [groups EXCEPT ![q.id].sites = q.sites]

Deleted(q) == [groups EXCEPT ![q.id] = None]

\* The list is replaced: submitted rows updated, the others deleted, and the one
\* site list of the page written to every row that stays.
ReplacedBy(q) ==
    [g \in GroupIds |->
       IF g \in q.kept /\ groups[g] # None
       THEN [groups[g] EXCEPT !.reading = q.reading, !.sites = q.sites]
       ELSE IF g \in q.gone THEN None ELSE groups[g]]

GroupsAfter(q) ==
    CASE q.op = "create" -> Created(q)
      [] q.op = "sites"  -> WithSites(q)
      [] q.op = "remove" -> Deleted(q)
      [] q.op = "all"    -> ReplacedBy(q)

\* The rows an open transaction has locked, of groups and of subscriptions.
Locked(q) ==
    IF q.stage # "open" THEN {}
    ELSE CASE q.op \in {"sites", "remove"} -> {q.id}
           [] q.op = "all" -> q.kept \cup q.gone
           [] OTHER -> {}

LockedSubs(q) ==
    IF q.stage = "open" /\ q.op \in {"remove", "all"} THEN q.rows ELSE {}

Free(c, ids) == \A d \in Clients \ {c} : Locked(req[d]) \cap ids = {}
FreeSubs(c, rows) == \A d \in Clients \ {c} : LockedSubs(req[d]) \cap rows = {}

Finished(c) == IF c = Page THEN [req[c] EXCEPT !.stage = "done"] ELSE Idle

Refusal(c) == IF c = Page THEN [req[c] EXCEPT !.stage = "refused"] ELSE Idle

\* Every transaction that is open now has a union without this change.
Overtaken(r, c) ==
    [d \in Clients |-> IF d # c /\ r[d].stage = "open"
                       THEN [r[d] EXCEPT !.late = TRUE] ELSE r[d]]

-----------------------------------------------------------------------------
(* Received requests: the checks and the reads before the transaction.     *)

TakeRequest(c, q) ==
    /\ req[c] = Idle
    /\ req' = [req EXCEPT ![c] = q]
    /\ UNCHANGED <<groups, nextGroup, subs, unionSites, drifted, skewed>>

\* Only the page waits for the answer of a refusal.
Refused(c, q) == c = Page /\ TakeRequest(c, [q EXCEPT !.stage = "refused"])

\* POST /api/rule-groups
CreateGroup(c, reading, sites, steps) ==
    LET q == [op |-> "create", stage |-> "read", id |-> 0, reading |-> reading,
              sites |-> sites, steps |-> WithBuiltinFlags({}, steps), union |-> {}, late |-> FALSE]
    IN  IF ReadingIssue(reading) \/ SitesIssue(sites) \/ StepsIssue(steps)
        THEN Refused(c, q) ELSE TakeRequest(c, q)

\* PATCH /api/rule-groups/:id
EditGroup(c, g, reading) ==
    LET q == [op |-> "edit", stage |-> "read", id |-> g, reading |-> reading]
    IN  IF groups[g] = None \/ ReadingIssue(reading) THEN Refused(c, q) ELSE TakeRequest(c, q)

\* DELETE /api/rule-groups/:id
RemoveGroup(c, g) ==
    LET q == [op |-> "remove", stage |-> "read", id |-> g, fallback |-> g,
              seen |-> None, rows |-> {}, union |-> {}, late |-> FALSE]
    IN  IF \/ groups[g] = None
           \/ IsBuiltin(groups[g])
           \/ Ids(groups) = {g}
        THEN Refused(c, q)
        ELSE TakeRequest(c, [q EXCEPT !.fallback = Fallback(g)])

\* PUT /api/rule-groups/:id/sites
SaveSites(c, g, sites) ==
    LET q == [op |-> "sites", stage |-> "read", id |-> g, sites |-> sites,
              union |-> {}, late |-> FALSE]
    IN  IF groups[g] = None \/ SitesIssue(sites) THEN Refused(c, q) ELSE TakeRequest(c, q)

\* PUT /api/rule-groups/:id/steps
SaveSteps(c, g, incoming) ==
    LET q == [op |-> "steps", stage |-> "read", id |-> g, steps |-> incoming]
    IN  IF groups[g] = None \/ StepsIssue(incoming) THEN Refused(c, q)
        ELSE LET steps == WithBuiltinFlags(groups[g].steps, incoming)
             IN  IF RemovedBuiltin(groups[g].steps, steps) # {} THEN Refused(c, q)
                 ELSE TakeRequest(c, [q EXCEPT !.steps = steps])

\* PUT /api/rules/missav/presets: the built-in groups must be among the rows.
SaveAll(c, kept, first, reading, sites) ==
    /\ first \in kept
    /\ ~ReadingIssue(reading)
    /\ sites # {} /\ ~SitesIssue(sites)
    /\ \A g \in Ids(groups) \ kept : ~IsBuiltin(groups[g])
    /\ TakeRequest(c, [op |-> "all", stage |-> "read", kept |-> kept, gone |-> {}, first |-> first,
                       reading |-> reading, sites |-> sites, rows |-> {}, union |-> {}, late |-> FALSE])

\* POST and PUT /api/subscriptions: the group is read, its sites are checked.
Resolves(s, g) ==
    /\ groups[g] # None
    /\ groups[g].sites = {} \/ Host[s] \in groups[g].sites

AskSubscription(c, s, g, own) ==
    /\ Resolves(s, g)
    /\ TakeRequest(c, [op |-> "subscribe", stage |-> "read", sub |-> s, id |-> g,
                       seen |-> groups[g].reading, own |-> own, new |-> subs[s] = None,
                       paged |-> subs[s] # None /\ subs[s].pager])

-----------------------------------------------------------------------------
(* The transactions.                                                       *)

UnionBefore(q) == SiteUnion(groups)

\* The union as the transaction reads it, its own change included.
UnionIn(q) == SiteUnion(GroupsAfter(q))

\* The statements before the union is written: the rows are locked as they are
\* now, and the union is read.
TransactionOpens(c, q) ==
    /\ req' = [req EXCEPT ![c] = [q EXCEPT !.stage = "open", !.union = UnionIn(q)]]
    /\ UNCHANGED <<groups, subs, unionSites, drifted, skewed>>

\* The new row takes the next id of the serial column.
OpenCreate(c) ==
    /\ req[c].stage = "read" /\ req[c].op = "create" /\ req[c].sites # {}
    /\ nextGroup <= MaxGroup
    /\ nextGroup' = nextGroup + 1
    /\ TransactionOpens(c, [req[c] EXCEPT !.id = nextGroup])

OpenSites(c) ==
    /\ req[c].stage = "read" /\ req[c].op = "sites"
    /\ Free(c, {req[c].id})
    /\ TransactionOpens(c, req[c])
    /\ UNCHANGED nextGroup

\* The subscriptions of the group are moved, and copy the reading the fallback
\* has now.
OpenRemove(c) ==
    LET q == req[c]
    IN  /\ q.stage = "read" /\ q.op = "remove"
        /\ Free(c, {q.id})
        /\ FreeSubs(c, Following(q.id) \cup Following(q.fallback))
        /\ TransactionOpens(c, [q EXCEPT !.rows = Following(q.id) \cup Following(q.fallback),
                                         !.seen = IF groups[q.fallback] = None THEN None
                                                  ELSE groups[q.fallback].reading])
        /\ UNCHANGED nextGroup

OpenAll(c) ==
    LET q == req[c]
    IN  /\ q.stage = "read" /\ q.op = "all"
        /\ q.kept \subseteq Ids(groups)
        /\ Free(c, GroupIds) /\ FreeSubs(c, Subs)
        /\ TransactionOpens(c, [q EXCEPT !.gone = Ids(groups) \ q.kept,
                                         !.rows = {s \in Subs : subs[s] # None}])
        /\ UNCHANGED nextGroup

\* The union is written and the transaction commits.
Commits(c) ==
    /\ req[c].stage = "open"
    /\ groups' = GroupsAfter(req[c])
    /\ unionSites' = req[c].union
    /\ skewed' = req[c].late
    /\ req' = Overtaken([req EXCEPT ![c] = Finished(c)], c)
    /\ UNCHANGED nextGroup

CommitSites(c) ==
    /\ req[c].op \in {"create", "sites"}
    /\ Commits(c)
    /\ UNCHANGED <<subs, drifted>>

Rehung(s, q) == [s EXCEPT !.group = q.fallback]

HandedOver(s, q) ==
    [(IF q.seen = None THEN s ELSE Synced(s, q.seen)) EXCEPT !.group = q.fallback]

\* A fallback that is gone, or was edited meanwhile, leaves the moved rows behind.
CommitRemove(c) ==
    LET q == req[c]
        current == q.seen # None /\ groups[q.fallback] # None
                                 /\ groups[q.fallback].reading = q.seen
    IN  /\ q.op = "remove"
        /\ Commits(c)
        /\ subs' = [s \in Subs |-> IF s \in q.rows THEN HandedOver(subs[s], q) ELSE subs[s]]
        /\ drifted' = IF current
                      THEN (drifted \ q.rows) \cup (Following(q.id) \ q.rows)
                      ELSE drifted \cup Following(q.id)

CommitAll(c) ==
    LET q == req[c]
        Kept(s) == IF s.group \in q.gone \/ groups[s.group] = None
                   THEN [s EXCEPT !.group = q.first] ELSE s
    IN  /\ q.op = "all"
        /\ Commits(c)
        /\ subs' = [s \in Subs |-> IF s \in q.rows THEN Synced(Kept(subs[s]), q.reading)
                                   ELSE subs[s]]
        /\ drifted' = {s \in Subs \ q.rows : subs[s] # None}

\* A group without sites is inserted and no union is written.
CommitCreate(c) ==
    LET q == [req[c] EXCEPT !.id = nextGroup]
    IN  /\ req[c].stage = "read" /\ req[c].op = "create" /\ req[c].sites = {}
        /\ nextGroup <= MaxGroup
        /\ nextGroup' = nextGroup + 1
        /\ groups' = Created(q)
        /\ req' = [req EXCEPT ![c] = IF c = Page THEN [q EXCEPT !.stage = "done"] ELSE Idle]
        /\ UNCHANGED <<subs, unionSites, drifted, skewed>>

\* The reading is written and copied to the group's subscriptions.
CommitEdit(c) ==
    LET q == req[c]
    IN  /\ q.stage = "read" /\ q.op = "edit"
        /\ Free(c, {q.id}) /\ FreeSubs(c, Following(q.id))
        /\ groups' = IF groups[q.id] = None THEN groups
                     ELSE [groups EXCEPT ![q.id].reading = q.reading]
        /\ subs' = SyncSubscriptions(subs, groups', {q.id})
        /\ drifted' = IF groups[q.id] = None THEN drifted ELSE drifted \ Following(q.id)
        /\ req' = [req EXCEPT ![c] = Finished(c)]
        /\ UNCHANGED <<nextGroup, unionSites, skewed>>

CommitSteps(c) ==
    LET q == req[c]
    IN  /\ q.stage = "read" /\ q.op = "steps"
        /\ Free(c, {q.id})
        /\ groups' = IF groups[q.id] = None THEN groups
                     ELSE [groups EXCEPT ![q.id].steps = q.steps]
        /\ req' = [req EXCEPT ![c] = Finished(c)]
        /\ UNCHANGED <<nextGroup, subs, unionSites, drifted, skewed>>

\* A name that is taken, or a submitted row that is gone by now: rolled back.
RollBack(c) ==
    /\ req[c].stage = "read"
    /\ \/ req[c].op \in {"create", "edit"}
       \/ req[c].op = "all" /\ ~(req[c].kept \subseteq Ids(groups))
    /\ req' = [req EXCEPT ![c] = Refusal(c)]
    /\ UNCHANGED <<groups, nextGroup, subs, unionSites, drifted, skewed>>

\* The subscription is written from the group as it was read.  An INSERT takes a
\* row of its own, never one that is there.
WriteSubscription(c) ==
    LET q == req[c]
        gone == ~q.new /\ subs[q.sub] = None
        fresh == Subscribed(q.id, q.seen, q.own)
        row == IF q.new THEN fresh
               ELSE [fresh EXCEPT !.scanned = ~q.seen.pager \/ (q.paged /\ subs[q.sub].scanned),
                                  !.scanning = subs[q.sub].scanning]
    IN  /\ q.stage = "read" /\ q.op = "subscribe"
        /\ IF q.new THEN subs[q.sub] = None ELSE FreeSubs(c, {q.sub})
        /\ subs' = IF gone THEN subs ELSE [subs EXCEPT ![q.sub] = row]
        /\ drifted' = IF gone THEN drifted
                      ELSE IF groups[q.id] # None /\ groups[q.id].reading = q.seen
                           THEN drifted \ {q.sub} ELSE drifted \cup {q.sub}
        /\ req' = [req EXCEPT ![c] = Idle]
        /\ UNCHANGED <<groups, nextGroup, unionSites, skewed>>

DeleteSubscription(s) ==
    /\ subs[s] # None /\ FreeSubs(None, {s})
    /\ subs' = [subs EXCEPT ![s] = None]
    /\ drifted' = drifted \ {s}
    /\ UNCHANGED <<groups, nextGroup, unionSites, req, skewed>>

-----------------------------------------------------------------------------
(* Routes of earlier pages, still served.                                  *)

\* PUT /api/subscription-presets/:id copies nothing to the subscriptions.
EditPreset(g, reading) ==
    /\ groups[g] # None /\ Free(None, {g})
    /\ groups' = [groups EXCEPT ![g].reading = reading]
    /\ drifted' = drifted \cup Following(g)
    /\ UNCHANGED <<nextGroup, subs, unionSites, req, skewed>>

\* DELETE /api/subscription-presets/:id looks at nothing else.
DeletePreset(g) ==
    /\ groups[g] # None /\ Free(None, {g})
    /\ groups' = [groups EXCEPT ![g] = None]
    /\ drifted' = drifted \cup Following(g)
    /\ skewed' = TRUE
    /\ req' = Overtaken(req, None)
    /\ UNCHANGED <<nextGroup, subs, unionSites>>

\* PUT /api/rules/missav: one group and a site list of its own.
SaveMissav(g, reading, sites) ==
    /\ groups[g] # None /\ Free(None, {g})
    /\ groups' = [groups EXCEPT ![g].reading = reading]
    /\ unionSites' = DocumentSites(sites)
    /\ drifted' = drifted \cup Following(g)
    /\ skewed' = TRUE
    /\ UNCHANGED <<nextGroup, subs, req>>

-----------------------------------------------------------------------------
(* The rest of the system.                                                 *)

ScanStarts(s) ==
    /\ subs[s] # None /\ subs[s].pager /\ ~subs[s].scanned /\ ~subs[s].scanning
    /\ FreeSubs(None, {s})
    /\ subs' = [subs EXCEPT ![s].scanning = TRUE]
    /\ UNCHANGED <<groups, nextGroup, unionSites, req, drifted, skewed>>

ScanCompletes(s) ==
    /\ subs[s] # None /\ subs[s].scanning /\ FreeSubs(None, {s})
    /\ subs' = [subs EXCEPT ![s].scanning = FALSE, ![s].scanned = TRUE]
    /\ UNCHANGED <<groups, nextGroup, unionSites, req, drifted, skewed>>

\* Open transactions are rolled back; nobody answers.
RequestsCutOff ==
    /\ \E c \in Clients : req[c].stage \in {"read", "open"}
    /\ req' = [c \in Clients |-> IF req[c].stage \in {"read", "open"} THEN Refusal(c) ELSE req[c]]
    /\ UNCHANGED <<groups, nextGroup, subs, unionSites, drifted, skewed>>

\* After the first start: the built-in group with the sites of the old rules,
\* and the subscriptions of before assigned to it.
MigratedGroups(reading, sites) ==
    [g \in GroupIds |-> IF g = 1 THEN [reading |-> reading, sites |-> sites, steps |-> Kinds]
                       ELSE None]

AssignedSubs(owned, reading) ==
    [s \in Subs |-> IF s \in owned THEN Subscribed(1, reading, Blank) ELSE None]

RulesInit(reading, sites, owned) ==
    /\ groups = MigratedGroups(reading, sites)
    /\ nextGroup = 2
    /\ subs = AssignedSubs(owned, reading)
    /\ unionSites = sites
    /\ req = [c \in Clients |-> Idle]
    /\ drifted = {}
    /\ skewed = FALSE

=============================================================================
