------------------------------ MODULE RulesPage ------------------------------
(***************************************************************************)
(* The page that edits the rule groups: a draft of the group on screen     *)
(* with the baseline it was opened from, the drafts set aside when another *)
(* group is looked at, and one save button for each of three segments.  A  *)
(* save is a request of the client Page; the page goes on reacting to its  *)
(* user until the answer comes.                                            *)
(*                                                                         *)
(* Clients other than the page send requests of every kind: a second page, *)
(* and the routes earlier pages used.                                      *)
(***************************************************************************)
EXTENDS RuleGroups

CONSTANTS RuleBudgets  \* what a behaviour may hold of each kind of event

VARIABLES listed,      \* the groups as last answered
          draft,       \* the group on screen, None before the first answer
          baseline,    \* what the draft was opened from; None for a new group
          stashed,     \* drafts set aside: group -> [draft, baseline]
          saving,      \* the segment being saved
          typed,       \* history: what the user typed and has not saved
          unspent      \* what the behaviour may still hold

pageVars == <<listed, draft, baseline, stashed, saving, typed>>
rulesPageVars == <<groups, nextGroup, subs, unionSites, req, drifted, skewed,
                   listed, draft, baseline, stashed, saving, typed, unspent>>

Segments == {"reading", "sites", "steps"}
NewId == 0
BlankReading == [selector |-> Blank, match |-> Blank, pager |-> FALSE]
Blanks == [id |-> NewId, reading |-> BlankReading, sites |-> {}, steps |-> {}]
Values(seg) == CASE seg = "reading" -> Readings
                 [] seg = "sites" -> SiteSets
                 [] seg = "steps" -> StepSets

\* A draft: a row of the page.  None stands for no draft and for none set aside.
DraftRows == [id : GroupIds \cup {NewId}, reading : ReadingRows,
              sites : SUBSET Sites, steps : SUBSET Steps]
StashRows == [draft : DraftRows, baseline : DraftRows]

ASSUME DraftAssumption == None \notin DraftRows \cup StashRows

NothingTyped == [seg \in Segments |-> None]

Expend(kind) == unspent[kind] > 0 /\ unspent' = [unspent EXCEPT ![kind] = @ - 1]

-----------------------------------------------------------------------------
(* The draft.                                                              *)

RowOf(g, group) == [id |-> g, reading |-> group.reading, sites |-> group.sites,
                    steps |-> group.steps]
DraftOf(g) == RowOf(g, listed[g])

\* A new group is dirty where it differs from an empty one; its name is typed.
Dirty(seg) ==
    CASE baseline # None -> draft[seg] # baseline[seg]
      [] baseline = None /\ seg = "reading" -> TRUE
      [] OTHER -> draft[seg] # {}

FirstDirty == Dirty("reading")

AnyDirty == \E seg \in Segments : Dirty(seg)

\* The draft is set aside before another group is shown, unless nothing in it
\* is unsaved; the draft of a new group is not kept.
Stash ==
    IF draft = None \/ draft.id = NewId THEN stashed
    ELSE [stashed EXCEPT ![draft.id] =
             IF AnyDirty THEN [draft |-> draft, baseline |-> baseline] ELSE None]

ShowDraft(d, b) == draft' = d /\ baseline' = b

SelectGroup(g) ==
    /\ listed[g] # None
    /\ draft # None /\ draft.id # g
    /\ stashed' = Stash
    /\ IF stashed[g] # None
       THEN ShowDraft(stashed[g].draft, stashed[g].baseline)
       ELSE ShowDraft(DraftOf(g), DraftOf(g))
    /\ UNCHANGED <<listed, saving, typed>>

StartNew ==
    /\ draft # None
    /\ stashed' = Stash
    /\ ShowDraft(Blanks, None)
    /\ UNCHANGED <<listed, saving, typed>>

TypeDraft(seg, value) ==
    /\ draft # None
    /\ draft[seg] # value
    /\ draft' = [draft EXCEPT ![seg] = value]
    /\ typed' = IF draft.id = NewId THEN typed
                ELSE [typed EXCEPT ![draft.id][seg] = IF value = baseline[seg] THEN None ELSE value]
    /\ UNCHANGED <<listed, baseline, stashed, saving>>

-----------------------------------------------------------------------------
(* The answers.                                                            *)

Snapshot == [g \in GroupIds |-> groups[g]]

\* The list is read anew: drafts set aside are void, the preferred group is
\* shown, or the first.
LoadGroups(prefer) ==
    LET shown == IF prefer \in Ids(groups) THEN prefer
                 ELSE CHOOSE g \in Ids(groups) : \A h \in Ids(groups) : g <= h
        row == RowOf(shown, groups[shown])
    IN  /\ listed' = Snapshot
        /\ stashed' = [g \in GroupIds |-> None]
        /\ typed' = [g \in GroupIds |-> NothingTyped]
        /\ IF Ids(groups) = {} THEN ShowDraft(None, None) ELSE ShowDraft(row, row)

Opens ==
    /\ draft = None
    /\ LoadGroups(NewId)
    /\ UNCHANGED saving

\* With something unsaved the user is asked first.
Refresh ==
    /\ draft # None
    /\ \/ draft.id # NewId /\ LoadGroups(draft.id)
       \/ draft.id = NewId /\ Ids(groups) # {}
          /\ listed' = Snapshot
          /\ stashed' = [g \in GroupIds |-> None]
          /\ typed' = [g \in GroupIds |-> NothingTyped]
          /\ ShowDraft(Blanks, None)
    /\ UNCHANGED saving

-----------------------------------------------------------------------------
(* The three save buttons.                                                 *)

\* The reason shown beside a button that cannot save.
ReadingBlocked == ReadingIssue(draft.reading)
SitesBlocked == SitesIssue(draft.sites)
StepsBlocked == StepsIssue(draft.steps)

\* A new group is created from the whole draft; later each segment is saved
\* alone, where it is dirty and has no issue.
SaveReading ==
    /\ draft # None /\ saving = None
    /\ Dirty("reading") /\ ~ReadingBlocked
    /\ saving' = "reading"
    /\ IF draft.id = NewId
       THEN CreateGroup(Page, draft.reading, draft.sites, draft.steps)
       ELSE EditGroup(Page, draft.id, draft.reading)
    /\ UNCHANGED <<listed, draft, baseline, stashed, typed>>

SaveSitesSegment ==
    /\ draft # None /\ draft.id # NewId /\ saving = None
    /\ Dirty("sites") /\ ~SitesBlocked
    /\ saving' = "sites"
    /\ SaveSites(Page, draft.id, draft.sites)
    /\ UNCHANGED <<listed, draft, baseline, stashed, typed>>

SaveStepsSegment ==
    /\ draft # None /\ draft.id # NewId /\ saving = None
    /\ Dirty("steps") /\ ~StepsBlocked
    /\ saving' = "steps"
    /\ SaveSteps(Page, draft.id, draft.steps)
    /\ UNCHANGED <<listed, draft, baseline, stashed, typed>>

\* The button is only there on the group on screen, and not on a built-in one.
AskRemoval ==
    /\ draft # None /\ draft.id # NewId /\ saving = None
    /\ ~IsBuiltin(listed[draft.id])
    /\ saving' = "removal"
    /\ RemoveGroup(Page, draft.id)
    /\ UNCHANGED <<listed, draft, baseline, stashed, typed>>

SaveAnswered == req[Page].stage = "done" /\ saving' = None
            /\ req' = [req EXCEPT ![Page] = Idle]
            /\ UNCHANGED <<groups, nextGroup, subs, unionSites, drifted, skewed>>

\* The created group is shown, whatever is on screen by now.
CreationAnswered ==
    /\ saving = "reading" /\ req[Page].op = "create"
    /\ SaveAnswered
    /\ LET g == req[Page].id
           row == RowOf(g, groups[g])
       IN  /\ groups[g] # None
           /\ listed' = [listed EXCEPT ![g] = groups[g]]
           /\ ShowDraft(row, row)
           /\ typed' = [h \in GroupIds |-> IF h \in {g, draft.id} THEN NothingTyped ELSE typed[h]]
    /\ UNCHANGED stashed

\* The segment of the group is written to the draft on screen and to its
\* baseline, whichever group that is by now.
SegmentAnswered(seg) ==
    /\ saving = seg /\ req[Page].op # "create"
    /\ SaveAnswered
    /\ LET g == req[Page].id
           value == groups[g][seg]
           Written(d) == IF d = None THEN None ELSE [d EXCEPT ![seg] = value]
       IN  /\ groups[g] # None
           /\ listed' = IF listed[g] = None THEN listed
                        ELSE IF seg = "reading" THEN [listed EXCEPT ![g] = groups[g]]
                        ELSE [listed EXCEPT ![g][seg] = value]
           /\ draft' = Written(draft)
           /\ baseline' = IF baseline = None /\ seg = "reading" /\ draft # None
                          THEN RowOf(g, groups[g])
                          ELSE Written(baseline)
           /\ typed' = IF draft = None \/ draft.id = NewId THEN typed
                       ELSE [typed EXCEPT ![draft.id][seg] = None]
    /\ UNCHANGED stashed

\* The group was deleted before its row was read for the answer.
AnswerWithoutGroup ==
    /\ saving \in Segments
    /\ SaveAnswered
    /\ groups[req[Page].id] = None
    /\ UNCHANGED <<listed, draft, baseline, stashed, typed>>

RemovalAnswered ==
    /\ saving = "removal"
    /\ SaveAnswered
    /\ LoadGroups(NewId)

SaveRefused ==
    /\ req[Page].stage = "refused"
    /\ saving' = None
    /\ req' = [req EXCEPT ![Page] = Idle]
    /\ UNCHANGED <<groups, nextGroup, subs, unionSites, drifted, skewed,
                   listed, draft, baseline, stashed, typed>>

-----------------------------------------------------------------------------
(* The system.                                                             *)

RulesPageInit ==
    /\ \E r \in Readings, sites \in SiteSets, owned \in SUBSET Subs :
          ~ReadingIssue(r) /\ ~SitesIssue(sites) /\ RulesInit(r, sites, owned)
    /\ listed = [g \in GroupIds |-> None]
    /\ draft = None /\ baseline = None
    /\ stashed = [g \in GroupIds |-> None]
    /\ saving = None
    /\ typed = [g \in GroupIds |-> NothingTyped]
    /\ unspent \in RuleBudgets

UserActs ==
    /\ UNCHANGED serverVars
    /\ \/ Opens /\ Expend("opens")
       \/ \E g \in GroupIds : SelectGroup(g) /\ UNCHANGED unspent
       \/ StartNew /\ UNCHANGED unspent
       \/ Refresh /\ UNCHANGED unspent
       \/ \E seg \in Segments : \E value \in Values(seg) :
             TypeDraft(seg, value) /\ Expend("typing")

UserSaves ==
    /\ Expend("saves")
    /\ \/ SaveReading
       \/ SaveSitesSegment
       \/ SaveStepsSegment
       \/ AskRemoval

PageHears ==
    /\ UNCHANGED unspent
    /\ \/ CreationAnswered
       \/ \E seg \in Segments : SegmentAnswered(seg)
       \/ AnswerWithoutGroup
       \/ RemovalAnswered
       \/ SaveRefused

OthersAsk ==
    /\ UNCHANGED pageVars
    /\ Expend("others")
    /\ \E c \in Clients \ {Page} :
          \/ \E r \in Readings, sites \in SiteSets, steps \in StepSets :
                CreateGroup(c, r, sites, steps)
          \/ \E g \in GroupIds :
                \/ \E r \in Readings : EditGroup(c, g, r)
                \/ RemoveGroup(c, g)
                \/ \E sites \in SiteSets : SaveSites(c, g, sites)
                \/ \E steps \in StepSets : SaveSteps(c, g, steps)
                \/ \E s \in Subs, own \in Patterns : AskSubscription(c, s, g, own)
          \/ \E kept \in SUBSET Ids(groups), first \in GroupIds, r \in Readings, sites \in SiteSets :
                SaveAll(c, kept, first, r, sites)

OldPagesAsk ==
    /\ UNCHANGED pageVars
    /\ Expend("legacy")
    /\ \E g \in GroupIds :
          \/ \E r \in Readings : ~ReadingIssue(r) /\ EditPreset(g, r)
          \/ DeletePreset(g)
          \/ \E r \in Readings, sites \in SiteSets : ~ReadingIssue(r) /\ SaveMissav(g, r, sites)

ServerWorks ==
    /\ UNCHANGED pageVars /\ UNCHANGED unspent
    /\ \E c \in Clients :
          \/ OpenCreate(c)
          \/ OpenSites(c)
          \/ OpenRemove(c)
          \/ OpenAll(c)
          \/ CommitSites(c)
          \/ CommitRemove(c)
          \/ CommitAll(c)
          \/ CommitCreate(c)
          \/ CommitEdit(c)
          \/ CommitSteps(c)
          \/ RollBack(c)
          \/ WriteSubscription(c)

RestOfSystem ==
    /\ UNCHANGED pageVars
    /\ \/ \E s \in Subs : (ScanStarts(s) \/ ScanCompletes(s)) /\ UNCHANGED unspent
       \/ \E s \in Subs : DeleteSubscription(s) /\ Expend("others")
       \/ RequestsCutOff /\ Expend("restarts")

RulesPageNext ==
    \/ UserActs
    \/ UserSaves
    \/ PageHears
    \/ OthersAsk
    \/ OldPagesAsk
    \/ ServerWorks
    \/ RestOfSystem

RulesPageSpec == RulesPageInit /\ [][RulesPageNext]_rulesPageVars

-----------------------------------------------------------------------------
(* Properties.                                                             *)

\* Every subscription belongs to a group that exists, and reads its pages the
\* way that group says, whatever was created, edited, deleted or replaced
\* meanwhile (rules.ts:29: saving a group once must reach the copies).  Known
\* to be left behind are the rows in drifted: written from a group that changed
\* between its read and the write, or edited by a route that copies nothing.
SubscriptionFollowsGroup ==
    \A s \in Subs \ drifted :
        subs[s] # None =>
            /\ groups[subs[s].group] # None
            /\ LET r == groups[subs[s].group].reading
               IN  /\ subs[s].selector = r.selector
                   /\ subs[s].pager = r.pager
                   /\ r.match # Blank => subs[s].match = r.match

\* The site list the older code reads is the union of what the groups declare,
\* after creations, deletions and saves of any group (rules.ts:163), except
\* where two saves overlapped: each computed the union without the other.
UnionIsOfTheGroups == ~skewed => unionSites = SiteUnion(groups)

\* A group keeps exactly its built-in steps, and a group that has one is never
\* deleted: no save of steps drops or forges one, and no deletion or whole-list
\* save takes the group with it (rules.ts:316, 373).  The route of the earlier
\* page deletes without looking.
BuiltinStays ==
    [][\A g \in GroupIds :
         groups[g] # None /\ ~DeletePreset(g) =>
            /\ IsBuiltin(groups[g]) => groups'[g] # None
            /\ groups'[g] # None => KindsOf(groups'[g].steps) = KindsOf(groups[g].steps)]_rulesPageVars

\* What the user typed and has not saved is on screen, or set aside until its
\* group is looked at again, through switches, new groups and the saves of other
\* segments (RulesPage.tsx:153).  Lost, and recorded as lost, is what an answer
\* writes over: typed into the segment being saved, or standing in that segment
\* of the group switched to meanwhile.
UnsavedDraftStays ==
    \A g \in GroupIds, seg \in Segments :
        typed[g][seg] # None =>
            IF draft # None /\ draft.id = g THEN draft[seg] = typed[g][seg]
            ELSE stashed[g] # None /\ stashed[g].draft[seg] = typed[g][seg]

=============================================================================
