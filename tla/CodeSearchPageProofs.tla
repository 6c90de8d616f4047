-------------------------- MODULE CodeSearchPageProofs --------------------------
(***************************************************************************)
(* Theorems about CodeSearchPage for any tabs, films, actresses and rows:  *)
(* the requests for one actress pass one after the other, the index of     *)
(* codes is whole once it is trusted, a tab shows the magnet of its own    *)
(* result, and no film waits for a batch that no scan takes up.            *)
(*                                                                         *)
(* What is remembered of the results (remembered, old) plays no part: the  *)
(* model's table of results keeps every one of them.                       *)
(***************************************************************************)
EXTENDS CodeSearchPage, WellFoundedInduction, FiniteSetTheorems, TLAPS

-----------------------------------------------------------------------------
(* Sets of natural numbers.                                                *)

\* A set of natural numbers has a least element: the library's theorem about
\* well-founded relations is about sets, which the provers can instantiate.
LEMMA LeastElement ==
  ASSUME NEW S \in SUBSET Nat, S # {}
  PROVE  \E m \in S : \A n \in S : m <= n
<1> DEFINE Less == OpToRel(<, Nat)
<1>1. IsWellFoundedOn(Less, Nat)
  BY NatLessThanWellFounded
<1>2. \A m, n \in Nat : n < m => <<n, m>> \in Less
  BY DEF OpToRel
<1> HIDE DEF Less
<1>3. PICK m \in S : \A n \in S : ~(<<n, m>> \in Less)
  BY <1>1, WFMin
<1>4. \A n \in S : ~(n < m)
  BY <1>2, <1>3
<1>5. \A n \in S : m <= n
  BY <1>4
<1> QED BY <1>5

\* A bounded one has a greatest.
LEMMA GreatestElement ==
  ASSUME NEW S \in SUBSET Nat, S # {}, NEW b \in Nat, \A n \in S : n <= b
  PROVE  \E m \in S : \A n \in S : n <= m
<1> DEFINE T == {t \in Nat : b - t \in S}
<1>1. T # {}
  <2>1. PICK n \in S : TRUE
    OBVIOUS
  <2>2. b - n \in Nat /\ b - (b - n) = n
    OBVIOUS
  <2> QED BY <2>2
<1>2. PICK t \in T : \A u \in T : t <= u
  <2>1. T \in SUBSET Nat
    OBVIOUS
  <2> HIDE DEF T
  <2> QED BY <1>1, <2>1, LeastElement
<1>3. \A n \in S : n <= b - t
  <2> TAKE n \in S
  <2>1. b - n \in Nat /\ b - (b - n) = n
    OBVIOUS
  <2>2. t <= b - n
    BY <1>2, <2>1
  <2> QED BY <2>2
<1> QED BY <1>3

\* One that holds 0 and the successor of whatever it holds is Nat.
LEMMA Induction ==
  ASSUME NEW S \in SUBSET Nat, 0 \in S, \A n \in S : n + 1 \in S
  PROVE  S = Nat
<1> SUFFICES ASSUME Nat \ S # {} PROVE FALSE
  OBVIOUS
<1>1. PICK m \in Nat \ S : \A n \in Nat \ S : m <= n
  BY LeastElement
<1>2. m - 1 \in Nat
  OBVIOUS
<1>3. m - 1 \in S
  BY <1>1, <1>2
<1> QED BY <1>3

-----------------------------------------------------------------------------
(* The types.                                                              *)

Calls == [pc : {"idle", "name", "lock", "plan", "match", "commit", "answer"},
          sid : SessionIds \cup {0}, actress : Actresses \cup {None}, prev : Tabs \cup {None},
          dup : SubIds \cup {0}, seen : SubRow \cup {None}, batch : BatchIds \cup {0, Fresh},
          rules : RuleChoices \cup {None}, found : EntryIds \cup {0},
          settled : [magnet : States, release : States, library : States] \cup {None}]
Searches == [code : Codes, at : {"archive", "site"}]
Shown == [sid : SessionIds \cup {0}, code : Codes \cup {None}, magnet : States \cup {None},
          of : SessionIds \cup {0}]
Lookups == [tab : Tabs, sid : SessionIds, first : BOOLEAN, nth : Nat, heard : BOOLEAN]
Loads == [entry : EntryIds \cup {0}, code : Codes, magnet : States, release : States]

TypedServer ==
  /\ session \in [SessionIds -> ResultRow \cup {None}]
  /\ tail \in [Actresses -> Tabs \cup {None}]
  /\ call \in [Tabs -> Calls]
  /\ rules \in RuleChoices

TypedTables ==
  /\ subs \in [SubIds -> SubRow \cup {None, Gone}]
  /\ entries \in [EntryIds -> EntryRow \cup {None, Gone}]
  /\ batches \in [BatchIds -> BatchRow \cup {None}]
  /\ scan \in [SubIds -> BatchIds \cup {None, Fresh}]
  /\ jobs \subseteq EntryIds \X {"magnet", "release", "library"}
  /\ fill \in [target : EntryIds \cup {0, None}, cursor : EntryIds \cup {0}, done : BOOLEAN]

TypedPage ==
  /\ search \in [Tabs -> Searches \cup {None}]
  /\ shown \in [Tabs -> Shown]
  /\ lookups \subseteq Lookups /\ IsFiniteSet(lookups)
  /\ loads \in [Tabs -> Loads \cup {NoLoad}]
  /\ local \in [Tabs -> SessionIds \cup {0}]

-----------------------------------------------------------------------------
(* The page.                                                               *)

\* Whatever names a result names one that was given.
Known(sid) == sid \in SessionIds /\ session[sid] \in ResultRow
OnlyKnown ==
  /\ \A t \in Tabs : shown[t].sid # 0 => Known(shown[t].sid)
  /\ \A t \in Tabs : local[t] # 0 => Known(local[t])
  /\ \A l \in lookups : Known(l.sid)
  /\ \A t \in Tabs : call[t].pc # "idle" => Known(call[t].sid)

-----------------------------------------------------------------------------
(* The requests for an actress.                                            *)

Active(t) == call[t].pc \notin {"idle", "name"}
Inside(t) == call[t].pc \in {"plan", "match", "commit"}
Rivals(t, u) == Active(t) /\ Active(u) /\ call[t].actress = call[u].actress

\* The requests stand in the order of their ranks; only the first one works.
InLine(rank) ==
  /\ \A t, u \in Tabs : Rivals(t, u) /\ rank[t] = rank[u] => t = u
  /\ \A t \in Tabs : Active(t) => tail[call[t].actress] # None
  /\ \A a \in Actresses : tail[a] # None =>
        /\ Active(tail[a]) /\ call[tail[a]].actress = a
        /\ \A t \in Tabs : Rivals(t, tail[a]) => rank[t] <= rank[tail[a]]
  /\ \A t, u \in Tabs : Rivals(t, u) /\ call[t].prev = None => rank[t] <= rank[u]
  /\ \A t \in Tabs : call[t].prev # None =>
        /\ call[t].pc = "lock" /\ Rivals(t, call[t].prev)
        /\ rank[call[t].prev] < rank[t]
        /\ \A u \in Tabs : Rivals(t, u) => rank[u] <= rank[call[t].prev] \/ rank[t] <= rank[u]
InSomeLine ==
  /\ \A t \in Tabs : call[t].pc # "idle" => call[t].actress \in Actresses
  /\ \E rank \in [Tabs -> Nat] : InLine(rank)

\* What a request saw of the subscriptions still holds when it commits.
Saw(t) ==
  Inside(t) =>
     IF call[t].dup = 0 THEN SubsOf(call[t].actress) = {} /\ call[t].seen = None
     ELSE /\ subs[call[t].dup] # None
          /\ Present(subs, call[t].dup) => subs[call[t].dup].actress = call[t].actress
          /\ call[t].seen \in SubRow
LookedUp == \A t \in Tabs : Saw(t)

-----------------------------------------------------------------------------
(* The index of codes.                                                     *)

IndexGrows ==
  /\ \A e \in All(entries) : e <= fill.cursor => e \in indexed
  /\ fill.target # None => \A e \in All(entries) : e > fill.target => e \in indexed
  /\ fill.done => All(entries) \subseteq indexed
JobsOfRows == \A j \in jobs : Present(entries, j[1])

-----------------------------------------------------------------------------
(* The batches.                                                            *)

BatchOf(b, s) == b \in BatchIds /\ batches[b] \in BatchRow /\ batches[b].sub = s
Scanned(b, s) == BatchOf(b, s) /\ batches[b].status = "scanning"

Owned == \A b \in BatchIds, s \in SubIds : BatchOf(b, s) => subs[s] # None
RunsOwn ==
  \A s \in SubIds : Present(subs, s) /\ subs[s].run # 0 =>
     /\ BatchOf(subs[s].run, s)
     /\ Scanned(subs[s].run, s) => scan[s] = subs[s].run
ScansOwn ==
  \A s \in SubIds : scan[s] # None =>
     /\ Present(subs, s) /\ ~subs[s].done
     /\ IF scan[s] = Fresh
        THEN subs[s].run = 0 /\ \A b \in BatchIds : Scanned(b, s) => b \in stray
        ELSE /\ BatchOf(scan[s], s)
             /\ \/ subs[s].run = scan[s]
                \/ /\ subs[s].run = 0 /\ Scanned(scan[s], s)
                   /\ \A b \in BatchIds \ stray : Scanned(b, s) => b = scan[s]
PagedOnly == ~rules.paged => \A s \in All(subs) : subs[s].done

\* A batch that nobody strayed with is the one the next scan will run.
TakenUp ==
  \A b \in BatchIds \ stray, s \in SubIds : Scanned(b, s) /\ Present(subs, s) =>
     /\ ~subs[s].done
     /\ subs[s].run = b \/ (subs[s].run = 0 /\ \A d \in BatchIds : Scanned(d, s) => d <= b)
FilmsOwn == \A e \in All(entries) : entries[e].batch # 0 => BatchOf(entries[e].batch, entries[e].sub)

Plans(t) ==
  /\ Inside(t) /\ call[t].dup # 0 /\ call[t].seen.run # 0 => BatchOf(call[t].seen.run, call[t].dup)
  /\ call[t].pc \in {"match", "commit"} =>
       /\ call[t].batch = Fresh /\ call[t].dup = 0 => rules.paged
       /\ call[t].batch = Fresh /\ call[t].dup # 0 /\ Present(subs, call[t].dup) =>
             \A b \in BatchIds : Scanned(b, call[t].dup) => b = subs[call[t].dup].run
       /\ call[t].batch \notin {0, Fresh} => call[t].dup # 0 /\ BatchOf(call[t].batch, call[t].dup)
       /\ call[t].rules \in RuleChoices
  /\ call[t].pc = "commit" =>
       /\ call[t].settled \in [magnet : States, release : States, library : States]
       /\ call[t].found # 0 =>
             /\ call[t].dup # 0 /\ entries[call[t].found] # None
             /\ Present(entries, call[t].found) => entries[call[t].found].sub = call[t].dup
Planned == \A t \in Tabs : Plans(t)

-----------------------------------------------------------------------------
(* The inductive invariant.                                                *)

Pages == TypedPage /\ OnlyKnown /\ ResultFollowsItsSearch
Requests == InSomeLine /\ LookedUp /\ OneSubscriptionPerActress /\ Planned
Index == IndexGrows /\ JobsOfRows
Batched == Owned /\ RunsOwn /\ ScansOwn /\ PagedOnly /\ TakenUp /\ FilmsOwn
Inv == TypedServer /\ TypedTables /\ Pages /\ Requests /\ Index /\ Batched

-----------------------------------------------------------------------------
(* The constants.                                                          *)

LEMMA Shapes ==
  /\ NoCall \in Calls /\ NoCall.pc = "idle" /\ NoCall.prev = None
  /\ Nothing \in Shown /\ Nothing.sid = 0
  /\ NoLoad \in [entry : {0}, code : {None}, magnet : {None}, release : {None}]
  /\ Gone \notin SubRow /\ Gone \notin EntryRow /\ Gone \notin BatchRow /\ Gone # None
<1>1. NoCall \in Calls /\ NoCall.pc = "idle" /\ NoCall.prev = None
  BY DEF NoCall, Calls, Zero
<1>2. Nothing \in Shown /\ Nothing.sid = 0
  BY DEF Nothing, Shown, Zero
<1>3. NoLoad \in [entry : {0}, code : {None}, magnet : {None}, release : {None}]
  BY DEF NoLoad, Zero
<1>4. DOMAIN Gone = {"sub", "code"} /\ Gone # None
  BY NoneAssumption DEF Gone, Zero
<1>5. \A r \in SubRow : "actress" \in DOMAIN r
  BY DEF SubRow
<1>6. \A r \in EntryRow : "magnet" \in DOMAIN r
  BY DEF EntryRow
<1>7. \A r \in BatchRow : "status" \in DOMAIN r
  BY DEF BatchRow
<1>8. Gone \notin SubRow /\ Gone \notin EntryRow /\ Gone \notin BatchRow
  BY <1>4, <1>5, <1>6, <1>7
<1> QED BY <1>1, <1>2, <1>3, <1>4, <1>8

\* A table with an identity left over has a next one, that no row has.
LEMMA NextIsNew ==
  ASSUME NEW ids \in SUBSET Nat, NEW S, NEW table \in [ids -> S], Unused(table) # {}
  PROVE  NextId(table, ids) \in ids /\ table[NextId(table, ids)] = None
<1> DEFINE free == {i \in ids : table[i] = None}
<1>1. free # {} /\ free \in SUBSET Nat
  BY DEF Unused, Rows
<1>2. PICK i \in free : \A j \in free : i <= j
  <2> HIDE DEF free
  <2> QED BY <1>1, LeastElement
<1>3. \A j \in ids : j < i => table[j] # None
  <2> SUFFICES ASSUME NEW j \in ids, j < i, table[j] = None PROVE FALSE
    OBVIOUS
  <2>1. i <= j /\ i \in Nat /\ j \in Nat
    BY <1>2
  <2> QED BY <2>1
<1>4. \E k \in ids : table[k] = None /\ \A j \in ids : j < k => table[j] # None
  BY <1>2, <1>3
<1> QED BY <1>4 DEF NextId

\* The least of some numbers, the greatest of finitely many.
LEMMA MinIsLeast ==
  ASSUME NEW S \in SUBSET Nat, S # {}
  PROVE  Min(S) \in S /\ \A x \in S : Min(S) <= x
<1>1. PICK m \in S : \A x \in S : m <= x
  BY LeastElement
<1> QED BY <1>1 DEF Min

LEMMA FiniteIsBounded ==
  ASSUME NEW S \in SUBSET Nat, IsFiniteSet(S)
  PROVE  \E b \in Nat : \A x \in S : x <= b
<1>1. PICK f \in Seq(S) : \A x \in S : \E i \in 1..Len(f) : f[i] = x
  BY DEF IsFiniteSet
<1> DEFINE n == Len(f)
<1>0. n \in Nat /\ \A i \in 1..n : f[i] \in Nat
  <2>1. Len(f) \in Nat /\ \A i \in 1..Len(f) : f[i] \in S
    OBVIOUS
  <2> QED BY <2>1
<1> HIDE DEF n
<1> DEFINE bounded == {k \in Nat : k <= n => \E b \in Nat : \A i \in 1..k : f[i] <= b}
<1>2. 0 \in bounded
  OBVIOUS
<1>3. ASSUME NEW k \in bounded PROVE k + 1 \in bounded
  <2> SUFFICES ASSUME k + 1 <= n PROVE \E b \in Nat : \A i \in 1..(k + 1) : f[i] <= b
    BY <1>3
  <2>0. k \in Nat /\ k <= n
    BY <1>0
  <2>1. PICK b \in Nat : \A i \in 1..k : f[i] <= b
    BY <1>3, <2>0
  <2>2. \A i \in 1..(k + 1) : f[i] \in Nat /\ (i \in 1..k \/ i = k + 1)
    BY <1>0
  <2>3. CASE f[k + 1] <= b
    BY <2>1, <2>2, <2>3
  <2>4. CASE ~(f[k + 1] <= b)
    <3>1. f[k + 1] \in Nat /\ \A i \in 1..(k + 1) : f[i] <= f[k + 1]
      BY <2>1, <2>2, <2>4
    <3> QED BY <3>1
  <2> QED BY <2>3, <2>4
<1>4. n \in bounded
  <2> HIDE DEF bounded
  <2>1. bounded \in SUBSET Nat
    BY DEF bounded
  <2> QED BY <1>0, <1>2, <1>3, <2>1, Induction
<1>5. PICK b \in Nat : \A i \in 1..n : f[i] <= b
  BY <1>0, <1>4
<1>6. \A x \in S : \E i \in 1..n : x = f[i]
  BY <1>1 DEF n
<1> QED BY <1>5, <1>6

LEMMA MaxIsGreatest ==
  ASSUME NEW S \in SUBSET Nat, IsFiniteSet(S), S # {}
  PROVE  Max(S) \in S /\ \A x \in S : x <= Max(S)
<1>1. PICK b \in Nat : \A x \in S : x <= b
  BY FiniteIsBounded
<1>2. PICK m \in S : \A x \in S : x <= m
  BY <1>1, GreatestElement
<1>3. \E y \in S : \A x \in S : y >= x
  BY <1>2
<1> QED BY <1>3 DEF Max

LEMMA InitInv == Init => Inv
<1> SUFFICES ASSUME Init PROVE Inv
  OBVIOUS
<1>1. /\ session = [i \in SessionIds |-> None] /\ tail = [a \in Actresses |-> None]
      /\ call = [t \in Tabs |-> NoCall] /\ rules \in RuleChoices
      /\ jobs = {} /\ indexed = {} /\ fill = [target |-> None, cursor |-> 0, done |-> FALSE]
      /\ batches = [b \in BatchIds |-> None] /\ scan = [s \in SubIds |-> None] /\ stray = {}
  BY SearchAssumption DEF Init, ServerInit, Zero
<1>2. /\ search = [t \in Tabs |-> None] /\ shown = [t \in Tabs |-> Nothing] /\ lookups = {}
      /\ loads = [t \in Tabs |-> NoLoad] /\ local = [t \in Tabs |-> 0]
  BY DEF Init, Zero
<1>3. PICK known \in Actresses \cup {None}, film \in Codes \cup {None} :
        /\ subs = [s \in SubIds |-> IF s = 1 /\ known # None
              THEN [actress |-> known, done |-> ~rules.paged, run |-> 0, based |-> FALSE]
              ELSE None]
        /\ film # None => known # None
        /\ entries = [e \in EntryIds |-> IF e = 1 /\ film # None
              THEN [sub |-> 1, code |-> film, magnet |-> "found", release |-> "found",
                    library |-> "unconfigured", batch |-> 0]
              ELSE None]
  BY DEF Init, ServerInit, Zero
<1>4. \A s \in SubIds : subs[s] = None \/ (s = 1 /\ subs[s] \in SubRow /\ subs[s].done = ~rules.paged)
  <2>1. rules.paged \in BOOLEAN
    BY <1>1 DEF RuleChoices
  <2> QED BY <1>3, <2>1 DEF SubRow
<1>5. \A e \in EntryIds : entries[e] = None \/ (entries[e] \in EntryRow /\ entries[e].batch = 0)
  BY <1>3, IdentityAssumption DEF EntryRow, States
<1>6. TypedServer
  BY <1>1, Shapes, SearchAssumption DEF TypedServer
<1>7. TypedTables
  <2>1. fill \in [target : EntryIds \cup {0, None}, cursor : EntryIds \cup {0}, done : BOOLEAN]
    BY <1>1
  <2>2. subs \in [SubIds -> SubRow \cup {None, Gone}]
    BY <1>3, <1>4
  <2>3. entries \in [EntryIds -> EntryRow \cup {None, Gone}]
    BY <1>3, <1>5
  <2> QED BY <1>1, <2>1, <2>2, <2>3 DEF TypedTables
<1>8. Pages
  <2>1. TypedPage
    BY <1>2, Shapes, FS_EmptySet DEF TypedPage
  <2>2. OnlyKnown
    BY <1>1, <1>2, Shapes DEF OnlyKnown
  <2>3. ResultFollowsItsSearch
    BY <1>2, Shapes DEF ResultFollowsItsSearch, Zero
  <2> QED BY <2>1, <2>2, <2>3 DEF Pages
<1>9. Requests
  <2>1. \A t \in Tabs : ~Active(t) /\ ~Inside(t) /\ call[t].pc = "idle" /\ call[t].prev = None
    BY <1>1, Shapes DEF Active, Inside
  <2>2. InLine([t \in Tabs |-> 0])
    BY <1>1, <2>1 DEF InLine, Rivals
  <2>3. InSomeLine
    <3>1. [t \in Tabs |-> 0] \in [Tabs -> Nat]
      OBVIOUS
    <3> QED BY <2>1, <2>2, <3>1 DEF InSomeLine
  <2>4. LookedUp /\ Planned
    BY <2>1 DEF LookedUp, Saw, Planned, Plans, Inside
  <2>5. OneSubscriptionPerActress
    BY <1>3, <1>4 DEF OneSubscriptionPerActress, All, Present
  <2> QED BY <2>3, <2>4, <2>5 DEF Requests
<1>10. Index
  <2>1. \A e \in EntryIds : e \in Nat /\ ~(e <= 0)
    BY IdentityAssumption
  <2>2. fill.cursor = 0 /\ fill.target = None /\ fill.done = FALSE
    BY <1>1
  <2>3. \A e \in All(entries) : ~(e <= 0)
    BY <1>3, <2>1 DEF All
  <2> QED BY <1>1, <2>2, <2>3 DEF Index, IndexGrows, JobsOfRows
<1>11. Batched
  <2>1. \A b \in BatchIds, s \in SubIds : ~BatchOf(b, s) /\ ~Scanned(b, s)
    BY <1>1, NoneAssumption DEF BatchOf, Scanned
  <2>2. \A s \in SubIds : Present(subs, s) => subs[s].run = 0 /\ subs[s].done = ~rules.paged
    BY <1>3, <1>4 DEF Present
  <2>3. \A e \in All(entries) : entries[e].batch = 0
    BY <1>3, <1>5 DEF All, Present
  <2>4. All(subs) \subseteq SubIds /\ \A s \in All(subs) : Present(subs, s)
    BY <1>3 DEF All
  <2>5. Owned /\ TakenUp
    BY <2>1 DEF Owned, TakenUp
  <2>6. RunsOwn /\ ScansOwn
    BY <1>1, <2>2 DEF RunsOwn, ScansOwn
  <2>7. PagedOnly /\ FilmsOwn
    BY <2>2, <2>3, <2>4 DEF PagedOnly, FilmsOwn
  <2> QED BY <2>5, <2>6, <2>7 DEF Batched
<1> QED BY <1>6, <1>7, <1>8, <1>9, <1>10, <1>11 DEF Inv

-----------------------------------------------------------------------------
(* What a step leaves alone.                                               *)

LEMMA RequestsStay ==
  ASSUME Requests, UNCHANGED <<call, tail, subs, batches, entries, rules>>
  PROVE  Requests'
<1>1. PICK rank \in [Tabs -> Nat] : InLine(rank)
  BY DEF Requests, InSomeLine
<1>2. InLine(rank)'
  BY <1>1 DEF InLine, Rivals, Active
<1>3. InSomeLine'
  BY <1>1, <1>2 DEF Requests, InSomeLine
<1>4. LookedUp' /\ OneSubscriptionPerActress'
  BY DEF Requests, LookedUp, Saw, OneSubscriptionPerActress, Inside, SubsOf
<1>5. Planned'
  BY DEF Requests, Planned, Plans, Inside, BatchOf, Scanned
<1> QED BY <1>3, <1>4, <1>5 DEF Requests

LEMMA BatchedStays ==
  ASSUME Batched, UNCHANGED <<subs, batches, entries, scan, stray, rules>>
  PROVE  Batched'
<1>1. Owned' /\ RunsOwn' /\ ScansOwn'
  BY DEF Batched, Owned, RunsOwn, ScansOwn, BatchOf, Scanned
<1>2. PagedOnly' /\ TakenUp' /\ FilmsOwn'
  BY DEF Batched, PagedOnly, TakenUp, FilmsOwn, BatchOf, Scanned
<1> QED BY <1>1, <1>2 DEF Batched

LEMMA IndexStays ==
  ASSUME Index, UNCHANGED <<entries, jobs, indexed, fill>>
  PROVE  Index'
BY DEF Index, IndexGrows, JobsOfRows

LEMMA TablesStay ==
  ASSUME TypedTables, UNCHANGED <<subs, entries, batches, scan, jobs, fill>>
  PROVE  TypedTables'
BY DEF TypedTables

LEMMA PagesStay ==
  ASSUME Pages, UNCHANGED pageVars, UNCHANGED <<session, call>>
  PROVE  Pages'
<1>1. TypedPage' /\ OnlyKnown'
  BY DEF Pages, pageVars, TypedPage, OnlyKnown, Known
<1>2. ResultFollowsItsSearch'
  BY DEF Pages, pageVars, ResultFollowsItsSearch
<1> QED BY <1>1, <1>2 DEF Pages

\* What is remembered of the results, and steps that only deal with them.
LEMMA SessionsOnlyStep ==
  ASSUME Inv, UNCHANGED <<tail, call, subs, entries, jobs, indexed, fill, batches, scan, rules, stray>>,
         session' \in [SessionIds -> ResultRow \cup {None}], Pages'
  PROVE  Inv'
<1>1. TypedServer'
  BY DEF Inv, TypedServer
<1> QED BY <1>1, RequestsStay, BatchedStays, IndexStays, TablesStay DEF Inv

-----------------------------------------------------------------------------
(* The page.                                                               *)

LEMMA RunSearchStep ==
  ASSUME Inv, NEW t \in Tabs, NEW c \in Codes, RunSearch(t, c)
  PROVE  Inv'
<1> DEFINE Told(l) == [l EXCEPT !.heard = @ /\ ~(l.tab = t /\ l.first)]
<1>1. /\ search' = [search EXCEPT ![t] = [code |-> c, at |-> "archive"]]
      /\ shown' = [shown EXCEPT ![t] = Nothing] /\ local' = [local EXCEPT ![t] = 0]
      /\ lookups' = {Told(l) : l \in lookups} /\ loads' = loads
      /\ UNCHANGED serverVars
  BY DEF RunSearch, Zero
<1>2. TypedPage /\ OnlyKnown /\ ResultFollowsItsSearch
  BY DEF Inv, Pages
<1>3. \A l \in lookups : /\ Told(l) \in Lookups /\ Told(l).tab = l.tab /\ Told(l).sid = l.sid
                         /\ l.tab # t => Told(l).heard = l.heard
  BY <1>2 DEF TypedPage, Lookups
<1> HIDE DEF Told
<1>4. IsFiniteSet(lookups')
  <2> DEFINE f == [l \in lookups |-> Told(l)]
  <2>1. f \in Surjection(lookups, lookups')
    BY <1>1 DEF Surjection
  <2> QED BY <1>2, <2>1, FS_Surjection DEF TypedPage
<1>5. TypedPage'
  <2>1. [code |-> c, at |-> "archive"] \in Searches
    BY DEF Searches
  <2> QED BY <1>1, <1>2, <1>3, <1>4, <2>1, Shapes DEF TypedPage
<1>6. OnlyKnown'
  <2>1. UNCHANGED <<session, call>>
    BY <1>1 DEF serverVars
  <2>2. shown'[t].sid = 0 /\ local'[t] = 0
    BY <1>1, <1>2, Shapes DEF TypedPage
  <2>3. \A u \in Tabs : u # t => shown'[u] = shown[u] /\ local'[u] = local[u]
    BY <1>1, <1>2 DEF TypedPage
  <2> QED BY <1>1, <1>2, <1>3, <2>1, <2>2, <2>3 DEF OnlyKnown, Known
<1>7. ResultFollowsItsSearch'
  <2> SUFFICES ASSUME NEW u \in Tabs, shown'[u].sid # 0
               PROVE  /\ shown'[u].of = shown'[u].sid
                      /\ shown'[u].magnet = "pending" => \E l \in lookups' :
                            l.tab = u /\ l.sid = shown'[u].sid /\ l.heard
    BY DEF ResultFollowsItsSearch, Zero
  <2>1. u # t /\ shown'[u] = shown[u]
    BY <1>1, <1>2, Shapes DEF TypedPage
  <2>2. ASSUME shown[u].magnet = "pending"
        PROVE  \E l \in lookups' : l.tab = u /\ l.sid = shown[u].sid /\ l.heard
    <3>1. PICK l \in lookups : l.tab = u /\ l.sid = shown[u].sid /\ l.heard
      BY <1>2, <2>1, <2>2 DEF ResultFollowsItsSearch, Zero
    <3> QED BY <1>1, <1>3, <2>1, <3>1
  <2> QED BY <1>2, <2>1, <2>2 DEF ResultFollowsItsSearch, Zero
<1> QED BY <1>1, <1>5, <1>6, <1>7, SessionsOnlyStep DEF Inv, Pages, TypedServer, serverVars

\* A step of the page that gives a tab a result without an identity, or
\* none, and asks for nothing but what is known.
LEMMA PageStep ==
  ASSUME Inv, NEW t \in Tabs, UNCHANGED serverVars, UNCHANGED local,
         search' \in [Tabs -> Searches \cup {None}], loads' \in [Tabs -> Loads \cup {NoLoad}],
         shown' = shown \/ \E r \in Shown : r.sid = 0 /\ shown' = [shown EXCEPT ![t] = r],
         lookups' = lookups \/ \E l \in Lookups : Known(l.sid) /\ lookups' = lookups \cup {l}
  PROVE  Inv'
<1>1. TypedPage /\ OnlyKnown /\ ResultFollowsItsSearch
  BY DEF Inv, Pages
<1>2. \A u \in Tabs : shown'[u] \in Shown /\ (shown'[u] = shown[u] \/ shown'[u].sid = 0)
  BY <1>1 DEF TypedPage
<1>3. lookups \subseteq lookups' /\ lookups' \subseteq Lookups /\ \A l \in lookups' : Known(l.sid)
  BY <1>1 DEF TypedPage, OnlyKnown
<1>4. IsFiniteSet(lookups')
  BY <1>1, FS_AddElement DEF TypedPage
<1>5. TypedPage'
  <2>1. shown' \in [Tabs -> Shown]
    BY <1>1 DEF TypedPage
  <2> QED BY <1>1, <1>3, <1>4, <2>1 DEF TypedPage
<1>6. OnlyKnown'
  BY <1>1, <1>2, <1>3 DEF OnlyKnown, Known, serverVars
<1>7. ResultFollowsItsSearch'
  BY <1>1, <1>2, <1>3 DEF ResultFollowsItsSearch, Zero
<1> QED BY <1>5, <1>6, <1>7, SessionsOnlyStep DEF Inv, Pages, TypedServer, serverVars

LEMMA ArchiveAnswersStep ==
  ASSUME Inv, NEW t \in Tabs, ArchiveAnswers(t)
  PROVE  Inv'
<1>1. search[t] \in Searches /\ search \in [Tabs -> Searches \cup {None}]
  BY DEF Inv, Pages, TypedPage, ArchiveAnswers
<1>2. Archived(search[t].code) \in Shown /\ Archived(search[t].code).sid = 0
  BY <1>1 DEF Archived, Shown, Searches, Zero
<1>3. [search[t] EXCEPT !.at = "site"] \in Searches
  BY <1>1 DEF Searches
<1>4. search' \in [Tabs -> Searches \cup {None}]
  BY <1>1, <1>3 DEF ArchiveAnswers
<1> QED BY <1>2, <1>4, PageStep DEF ArchiveAnswers, Inv, Pages, TypedPage

LEMMA SiteFailsStep ==
  ASSUME Inv, NEW t \in Tabs, SiteFails(t)
  PROVE  Inv'
BY PageStep DEF SiteFails, SearchEnds, Inv, Pages, TypedPage

LEMMA RetryStep ==
  ASSUME Inv, NEW t \in Tabs, Retry(t)
  PROVE  Inv'
<1> DEFINE retries == {l \in lookups : l.tab = t /\ ~l.first}
           l == Lookup(t, shown[t].sid, Cardinality(retries) + 1)
<1>1. Cardinality(retries) + 1 \in Nat /\ Known(shown[t].sid)
  <2>1. IsFiniteSet(retries)
    BY FS_Subset DEF Inv, Pages, TypedPage
  <2> QED BY <2>1, FS_CardinalityType DEF Retry, Inv, Pages, OnlyKnown, Zero
<1>2. l \in Lookups /\ l.sid = shown[t].sid
  <2> HIDE DEF retries
  <2> QED BY <1>1 DEF Lookup, Lookups, Known
<1>3. lookups' = lookups \cup {l} /\ UNCHANGED <<search, shown, loads, local>> /\ UNCHANGED serverVars
  BY DEF Retry
<1> HIDE DEF l
<1> QED BY <1>1, <1>2, <1>3, PageStep DEF Inv, Pages, TypedPage

LEMMA LoadPerformersStep ==
  ASSUME Inv, NEW t \in Tabs, NEW e \in EntryIds, LoadPerformers(t, e)
  PROVE  Inv'
<1>1. entries[e] \in EntryRow /\ loads \in [Tabs -> Loads \cup {NoLoad}]
  BY DEF Inv, Pages, TypedPage, TypedTables, LoadPerformers, Present
<1>2. [entry |-> e, code |-> entries[e].code,
       magnet |-> IF entries[e].magnet = "unsearched" THEN "pending" ELSE entries[e].magnet,
       release |-> entries[e].release] \in Loads
  BY <1>1 DEF Loads, EntryRow, States
<1>3. loads' \in [Tabs -> Loads \cup {NoLoad}]
  BY <1>1, <1>2 DEF LoadPerformers
<1> QED BY <1>3, PageStep DEF LoadPerformers, Inv, Pages, TypedPage

LEMMA PerformersFailStep ==
  ASSUME Inv, NEW t \in Tabs, PerformersFail(t)
  PROVE  Inv'
BY PageStep DEF PerformersFail, Inv, Pages, TypedPage

\* A result that is given gets an identity of its own.
LEMMA RememberStep ==
  ASSUME Inv, NEW c \in Codes, NEW m \in States, NEW r \in States, Remember(c, m, r)
  PROVE  /\ session' \in [SessionIds -> ResultRow \cup {None}]
         /\ NewSession \in SessionIds /\ session'[NewSession] = [code |-> c, magnet |-> m, release |-> r]
         /\ session'[NewSession] \in ResultRow /\ \A sid : Known(sid) => Known(sid)'
<1>1. session \in [SessionIds -> ResultRow \cup {None}] /\ SessionIds \in SUBSET Nat
  BY IdentityAssumption DEF Inv, TypedServer
<1>2. NewSession \in SessionIds
  BY <1>1, NextIsNew DEF Remember, NewSession
<1>3. session' = [session EXCEPT ![NewSession] = [code |-> c, magnet |-> m, release |-> r]]
  BY DEF Remember
<1>4. [code |-> c, magnet |-> m, release |-> r] \in ResultRow
  BY DEF ResultRow
<1>5. session' \in [SessionIds -> ResultRow \cup {None}]
  BY <1>1, <1>3, <1>4
<1>6. session'[NewSession] = [code |-> c, magnet |-> m, release |-> r]
  BY <1>1, <1>2, <1>3
<1>7. \A sid : sid \in SessionIds /\ session[sid] \in ResultRow => session'[sid] \in ResultRow
  BY <1>1, <1>2, <1>3, <1>4
<1> QED BY <1>2, <1>4, <1>5, <1>6, <1>7 DEF Known

LEMMA SiteFindsStep ==
  ASSUME Inv, NEW t \in Tabs, SiteFinds(t)
  PROVE  Inv'
<1> DEFINE m == IF rules.magnet THEN "pending" ELSE "disabled"
           l == Lookup(t, NewSession, 0)
           r == Found(NewSession, m)
<1>1. TypedPage /\ OnlyKnown /\ ResultFollowsItsSearch
  BY DEF Inv, Pages
<1>2. search[t] # None /\ search[t].code \in Codes /\ m \in States /\ "found" \in States
  BY <1>1 DEF SiteFinds, SearchEnds, TypedPage, Searches, States
<1>3. /\ session' \in [SessionIds -> ResultRow \cup {None}]
      /\ NewSession \in SessionIds /\ session'[NewSession].magnet = m
      /\ session'[NewSession] \in ResultRow /\ \A sid : Known(sid) => Known(sid)'
  <2>1. Remember(search[t].code, m, "found")
    BY DEF SiteFinds
  <2> HIDE DEF m
  <2>2. /\ session' \in [SessionIds -> ResultRow \cup {None}] /\ NewSession \in SessionIds
        /\ session'[NewSession] = [code |-> search[t].code, magnet |-> m, release |-> "found"]
        /\ session'[NewSession] \in ResultRow /\ \A sid : Known(sid) => Known(sid)'
    BY <1>2, <2>1, RememberStep
  <2>3. session'[NewSession].magnet = m
    BY <2>2
  <2> QED BY <2>2, <2>3
<1>4. /\ search' = [search EXCEPT ![t] = None]
      /\ shown' = [shown EXCEPT ![t] = r]
      /\ lookups' = IF rules.magnet THEN lookups \cup {l} ELSE lookups
      /\ UNCHANGED <<loads, local>>
      /\ UNCHANGED <<tail, call, subs, entries, jobs, indexed, fill, batches, scan, rules, stray>>
  BY <1>3 DEF SiteFinds, SearchEnds, SessionsOnly
<1>5. /\ r \in Shown /\ r.sid = NewSession /\ r.of = NewSession
      /\ r.magnet = m /\ NewSession # 0
  BY <1>2, <1>3, IdentityAssumption DEF Found, Shown
<1>6. /\ l \in Lookups /\ l.tab = t /\ l.sid = NewSession /\ l.heard
  BY <1>3 DEF Lookup, Lookups
<1>7. m = "pending" => lookups' = lookups \cup {l}
  BY <1>4
<1> HIDE DEF m, l, r
<1>8. /\ lookups \subseteq lookups' /\ lookups' \subseteq lookups \cup {l} /\ IsFiniteSet(lookups')
  BY <1>1, <1>4, FS_AddElement DEF TypedPage
<1>9. \A u \in Tabs : shown'[u] = IF u = t THEN r ELSE shown[u]
  BY <1>1, <1>4 DEF TypedPage
<1>10. TypedPage'
  BY <1>1, <1>4, <1>5, <1>6, <1>8 DEF TypedPage
<1>11. OnlyKnown'
  <2>1. \A k \in lookups' : Known(k.sid)'
    BY <1>1, <1>3, <1>6, <1>8 DEF OnlyKnown, Known
  <2>2. \A u \in Tabs : shown'[u].sid # 0 => shown'[u].sid \in SessionIds /\ session'[shown'[u].sid] \in ResultRow
    BY <1>1, <1>3, <1>5, <1>9 DEF OnlyKnown, Known
  <2>3. \A u \in Tabs : call'[u].pc # "idle" => call'[u].sid \in SessionIds /\ session'[call'[u].sid] \in ResultRow
    BY <1>1, <1>3, <1>4 DEF OnlyKnown, Known
  <2>4. \A u \in Tabs : local'[u] # 0 => local'[u] \in SessionIds /\ session'[local'[u]] \in ResultRow
    BY <1>1, <1>3, <1>4 DEF OnlyKnown, Known
  <2> QED BY <2>1, <2>2, <2>3, <2>4 DEF OnlyKnown, Known
<1>12. ResultFollowsItsSearch'
  <2> SUFFICES ASSUME NEW u \in Tabs, shown'[u].sid # 0
               PROVE  /\ shown'[u].of = shown'[u].sid
                      /\ shown'[u].magnet = "pending" => \E k \in lookups' :
                            k.tab = u /\ k.sid = shown'[u].sid /\ k.heard
    BY DEF ResultFollowsItsSearch, Zero
  <2>1. CASE u = t
    BY <1>5, <1>6, <1>7, <1>9, <2>1
  <2>2. CASE u # t
    BY <1>1, <1>8, <1>9, <2>2 DEF ResultFollowsItsSearch, Zero
  <2> QED BY <2>1, <2>2
<1> QED BY <1>3, <1>4, <1>10, <1>11, <1>12, SessionsOnlyStep DEF Pages

LEMMA PerformersReadStep ==
  ASSUME Inv, NEW t \in Tabs, PerformersRead(t)
  PROVE  Inv'
<1>1. TypedPage /\ OnlyKnown /\ ResultFollowsItsSearch
  BY DEF Inv, Pages
<1>2. loads[t] \in Loads
  BY <1>1 DEF TypedPage, PerformersRead
<1>3. loads[t].code \in Codes /\ loads[t].magnet \in States /\ loads[t].release \in States
  BY <1>2 DEF Loads
<1>4. /\ session' \in [SessionIds -> ResultRow \cup {None}]
      /\ NewSession \in SessionIds
      /\ session'[NewSession] \in ResultRow /\ \A sid : Known(sid) => Known(sid)'
  BY <1>3, RememberStep DEF PerformersRead
<1>5. /\ local' = [local EXCEPT ![t] = NewSession] /\ loads' = [loads EXCEPT ![t] = NoLoad]
      /\ UNCHANGED <<search, shown, lookups>>
      /\ UNCHANGED <<tail, call, subs, entries, jobs, indexed, fill, batches, scan, rules, stray>>
  BY DEF PerformersRead, SessionsOnly
<1>6. TypedPage'
  BY <1>1, <1>4, <1>5 DEF TypedPage
<1>7. OnlyKnown'
  <2>1. \A u \in Tabs : local'[u] = IF u = t THEN NewSession ELSE local[u]
    BY <1>1, <1>5 DEF TypedPage
  <2>2. \A u \in Tabs : local'[u] # 0 => local'[u] \in SessionIds /\ session'[local'[u]] \in ResultRow
    BY <1>1, <1>4, <2>1 DEF OnlyKnown, Known
  <2> QED BY <1>1, <1>4, <1>5, <2>2 DEF OnlyKnown, Known
<1>8. ResultFollowsItsSearch'
  BY <1>1, <1>5 DEF ResultFollowsItsSearch
<1> QED BY <1>4, <1>5, <1>6, <1>7, <1>8, SessionsOnlyStep DEF Pages

\* An answer that says what became of the magnet, to whoever still shows it.
LEMMA HeardStep ==
  ASSUME Inv, NEW l \in lookups, NEW m \in States, m # "pending", Hears(l, m), SessionsOnly,
         session' \in [SessionIds -> ResultRow \cup {None}], \A sid : Known(sid) => Known(sid)'
  PROVE  Inv'
<1>1. TypedPage /\ OnlyKnown /\ ResultFollowsItsSearch
  BY DEF Inv, Pages
<1>2. l \in Lookups /\ l.tab \in Tabs /\ l.sid \in SessionIds
  BY <1>1 DEF TypedPage, Lookups
<1>3. /\ lookups' = lookups \ {l} /\ IsFiniteSet(lookups')
      /\ UNCHANGED <<search, loads, local>>
      /\ UNCHANGED <<tail, call, subs, entries, jobs, indexed, fill, batches, scan, rules, stray>>
  BY <1>1, FS_RemoveElement DEF Hears, SessionsOnly, TypedPage
<1>4. shown' = IF SameSearch(l) THEN [shown EXCEPT ![l.tab].magnet = m, ![l.tab].of = l.sid] ELSE shown
  BY DEF Hears
<1>5. \A u \in Tabs : /\ shown'[u] \in Shown /\ shown'[u].sid = shown[u].sid
                      /\ \/ shown'[u] = shown[u] /\ ~(SameSearch(l) /\ u = l.tab)
                         \/ shown'[u].magnet = m /\ shown'[u].of = shown'[u].sid
  <2>0. shown \in [Tabs -> Shown]
    BY <1>1 DEF TypedPage
  <2>1. CASE ~SameSearch(l)
    BY <1>4, <2>0, <2>1
  <2>2. CASE SameSearch(l)
    <3> DEFINE r == [[shown[l.tab] EXCEPT !.magnet = m] EXCEPT !.of = l.sid]
    <3>1. r \in Shown /\ r.magnet = m /\ r.of = l.sid /\ r.sid = shown[l.tab].sid
      BY <1>2, <2>0 DEF Shown
    <3>2. shown' = [shown EXCEPT ![l.tab] = r]
      BY <1>2, <1>4, <2>0, <2>2
    <3>3. shown[l.tab].sid = l.sid
      BY <2>2 DEF SameSearch
    <3> HIDE DEF r
    <3> QED BY <1>2, <2>0, <3>1, <3>2, <3>3
  <2> QED BY <2>1, <2>2
<1>6. TypedPage'
  <2>1. shown' \in [Tabs -> Shown]
    BY <1>1, <1>4, <1>5 DEF TypedPage
  <2> QED BY <1>1, <1>3, <2>1 DEF TypedPage
<1>7. OnlyKnown'
  BY <1>1, <1>3, <1>5 DEF OnlyKnown, Known
<1>8. ResultFollowsItsSearch'
  <2> SUFFICES ASSUME NEW u \in Tabs, shown'[u].sid # 0
               PROVE  /\ shown'[u].of = shown'[u].sid
                      /\ shown'[u].magnet = "pending" => \E k \in lookups' :
                            k.tab = u /\ k.sid = shown'[u].sid /\ k.heard
    BY DEF ResultFollowsItsSearch, Zero
  <2>1. CASE shown'[u].magnet = m /\ shown'[u].of = shown'[u].sid
    BY <2>1
  <2>2. CASE shown'[u] = shown[u] /\ ~(SameSearch(l) /\ u = l.tab)
    <3>1. shown[u].of = shown[u].sid
      BY <1>1, <2>2 DEF ResultFollowsItsSearch, Zero
    <3>2. ASSUME shown[u].magnet = "pending"
          PROVE  \E k \in lookups' : k.tab = u /\ k.sid = shown[u].sid /\ k.heard
      <4>1. PICK k \in lookups : k.tab = u /\ k.sid = shown[u].sid /\ k.heard
        BY <1>1, <2>2, <3>2 DEF ResultFollowsItsSearch, Zero
      <4>2. k # l
        BY <2>2, <4>1 DEF SameSearch
      <4> QED BY <1>3, <4>1, <4>2
    <3> QED BY <2>2, <3>1, <3>2
  <2> QED BY <1>5, <2>1, <2>2
<1> QED BY <1>3, <1>6, <1>7, <1>8, SessionsOnlyStep DEF Pages

LEMMA SettlesStep ==
  ASSUME Inv, NEW l \in lookups, Settles(l) \/ MagnetRead(l)
  PROVE  Inv'
<1>1. /\ session \in [SessionIds -> ResultRow \cup {None}]
      /\ l.sid \in SessionIds /\ session[l.sid] \in ResultRow
  BY DEF Inv, TypedServer, Pages, OnlyKnown, Known
<1>2. PICK m \in States \ {"pending"} :
        /\ Hears(l, m) /\ SessionsOnly
        /\ session' = session \/ session' = [session EXCEPT ![l.sid].magnet = m]
  <2>1. session[l.sid].magnet \in States
    BY <1>1 DEF ResultRow
  <2> QED BY <2>1 DEF Settles, MagnetRead, States
<1>3. [session[l.sid] EXCEPT !.magnet = m] \in ResultRow
  BY <1>1 DEF ResultRow
<1>4. session' \in [SessionIds -> ResultRow \cup {None}]
  BY <1>1, <1>2, <1>3
<1>5. \A sid : sid \in SessionIds /\ session[sid] \in ResultRow => session'[sid] \in ResultRow
  BY <1>1, <1>2, <1>3
<1> QED BY <1>2, <1>4, <1>5, HeardStep DEF Known

-----------------------------------------------------------------------------
(* The requests.                                                           *)

Others == <<session, subs, entries, jobs, indexed, fill, batches, scan, rules, stray>>

LEMMA RequestStep ==
  ASSUME Inv, UNCHANGED pageVars, UNCHANGED Others,
         call' \in [Tabs -> Calls], tail' \in [Actresses -> Tabs \cup {None}],
         \A t \in Tabs : call'[t].pc # "idle" => Known(call'[t].sid),
         Requests'
  PROVE  Inv'
<1>1. TypedServer'
  BY DEF Inv, TypedServer, Others
<1>2. TypedPage' /\ OnlyKnown'
  BY DEF Inv, Pages, pageVars, TypedPage, OnlyKnown, Known, Others
<1>3. ResultFollowsItsSearch'
  BY DEF Inv, Pages, pageVars, ResultFollowsItsSearch
<1> QED BY <1>1, <1>2, <1>3, BatchedStays, IndexStays, TablesStay DEF Inv, Pages, Others

\* A request that has not come to the line, or is not in it any more.
LEMMA OutOfLine ==
  ASSUME Inv, NEW t \in Tabs, NEW c \in Calls, ~Active(t), c.pc \in {"idle", "name"}, c.prev = None,
         c.pc # "idle" => c.actress \in Actresses,
         call' = [call EXCEPT ![t] = c], tail' = tail
  PROVE  InSomeLine'
<1>1. PICK rank \in [Tabs -> Nat] : InLine(rank)
  BY DEF Inv, Requests, InSomeLine
<1>2. \A u \in Tabs : call'[u] = IF u = t THEN c ELSE call[u]
  BY DEF Inv, TypedServer
<1>3. \A u \in Tabs : Active(u)' = Active(u)
  BY <1>2 DEF Active
<1>4. \A u, v \in Tabs : Rivals(u, v)' = Rivals(u, v)
  BY <1>2, <1>3 DEF Rivals, Active
<1>5. \A u \in Tabs : Active(u) => u # t
  OBVIOUS
<1>6. tail \in [Actresses -> Tabs \cup {None}] /\ call \in [Tabs -> Calls]
  BY DEF Inv, TypedServer
<1>7. \A u \in Tabs : call[u].prev # None => u # t /\ call[u].prev \in Tabs
  BY <1>1, <1>5, <1>6 DEF InLine, Calls, Rivals
<1>8. InLine(rank)'
  <2>1. \A u, v \in Tabs : Rivals(u, v)' /\ rank[u] = rank[v] => u = v
    BY <1>1, <1>4 DEF InLine
  <2>2. \A u \in Tabs : Active(u)' => tail'[call'[u].actress] # None
    BY <1>1, <1>2, <1>3, <1>5 DEF InLine
  <2>3. \A a \in Actresses : tail'[a] # None =>
          /\ Active(tail[a])' /\ call'[tail'[a]].actress = a
          /\ \A u \in Tabs : Rivals(u, tail[a])' => rank[u] <= rank[tail'[a]]
    <3> SUFFICES ASSUME NEW a \in Actresses, tail[a] # None
                 PROVE  /\ Active(tail[a])' /\ call'[tail[a]].actress = a
                        /\ \A u \in Tabs : Rivals(u, tail[a])' => rank[u] <= rank[tail[a]]
      OBVIOUS
    <3>1. tail[a] \in Tabs /\ Active(tail[a]) /\ call[tail[a]].actress = a
      BY <1>1, <1>6 DEF InLine
    <3> QED BY <1>1, <1>2, <1>3, <1>4, <1>5, <3>1 DEF InLine
  <2>4. \A u, v \in Tabs : Rivals(u, v)' /\ call'[u].prev = None => rank[u] <= rank[v]
    BY <1>1, <1>2, <1>4, <1>5 DEF InLine, Rivals
  <2>5. \A u \in Tabs : call'[u].prev # None =>
          /\ call'[u].pc = "lock" /\ Rivals(u, call[u].prev)'
          /\ rank[call'[u].prev] < rank[u]
          /\ \A v \in Tabs : Rivals(u, v)' => rank[v] <= rank[call'[u].prev] \/ rank[u] <= rank[v]
    BY <1>1, <1>2, <1>4, <1>7 DEF InLine
  <2> QED BY <2>1, <2>2, <2>3, <2>4, <2>5 DEF InLine
<1> QED BY <1>1, <1>2, <1>8 DEF InSomeLine, Inv, Requests

LEMMA LineStays ==
  ASSUME Inv, tail' = tail,
         \A u \in Tabs : /\ call'[u].actress = call[u].actress /\ call'[u].prev = call[u].prev
                         /\ \/ call'[u].pc = call[u].pc
                            \/ Active(u) /\ call[u].prev = None /\ call'[u].pc \notin {"idle", "name"}
  PROVE  InSomeLine'
<1>1. PICK rank \in [Tabs -> Nat] : InLine(rank)
  BY DEF Inv, Requests, InSomeLine
<1>2. \A u \in Tabs : Active(u)' = Active(u) /\ (call'[u].pc = "idle" <=> call[u].pc = "idle")
  BY DEF Active
<1>3. \A u, v \in Tabs : Rivals(u, v)' = Rivals(u, v)
  BY <1>2 DEF Rivals
<1>4. tail \in [Actresses -> Tabs \cup {None}] /\ call \in [Tabs -> Calls]
  BY DEF Inv, TypedServer
<1>5. InLine(rank)'
  <2>1. \A u \in Tabs : call'[u].prev # None => call'[u].pc = call[u].pc /\ call[u].prev \in Tabs
    BY <1>4 DEF Calls
  <2> QED BY <1>1, <1>2, <1>3, <1>4, <2>1, NoneAssumption DEF InLine
<1> QED BY <1>1, <1>2, <1>5 DEF InSomeLine, Inv, Requests

\* Whoever works is the only one of its actress who does.
LEMMA OneWorks ==
  ASSUME Inv, NEW t \in Tabs, NEW u \in Tabs, Rivals(t, u), call[t].prev = None, call[u].prev = None
  PROVE  t = u
<1>1. PICK rank \in [Tabs -> Nat] : InLine(rank)
  BY DEF Inv, Requests, InSomeLine
<1>2. rank[t] <= rank[u] /\ rank[u] <= rank[t]
  BY <1>1 DEF InLine, Rivals
<1>3. rank[t] = rank[u]
  BY <1>2
<1> QED BY <1>1, <1>3 DEF InLine

LEMMA WorksAlone ==
  ASSUME Inv, NEW t \in Tabs, call[t].pc \in {"plan", "match", "commit", "answer"}
  PROVE  Active(t) /\ call[t].prev = None /\ call[t].actress \in Actresses
BY DEF Inv, Requests, InSomeLine, InLine, Active

LEMMA SameRequest ==
  ASSUME NEW u \in Tabs, call'[u] = call[u], UNCHANGED <<subs, batches, entries, rules>>,
         Saw(u), Plans(u)
  PROVE  Saw(u)' /\ Plans(u)'
<1>1. Saw(u)'
  BY DEF Saw, Inside, SubsOf
<1>2. Plans(u)'
  BY DEF Plans, Inside, BatchOf, Scanned
<1> QED BY <1>1, <1>2

\* What a step of one request has to show.
LEMMA OneRequestStep ==
  ASSUME Inv, UNCHANGED pageVars, UNCHANGED Others, NEW t \in Tabs, NEW c \in Calls,
         call' = [call EXCEPT ![t] = c], tail' \in [Actresses -> Tabs \cup {None}],
         c.pc # "idle" => Known(c.sid), InSomeLine', Saw(t)', Plans(t)'
  PROVE  Inv'
<1>1. call \in [Tabs -> Calls] /\ LookedUp /\ Planned /\ OneSubscriptionPerActress /\ OnlyKnown
  BY DEF Inv, TypedServer, Requests, Pages
<1>2. \A u \in Tabs : u # t => call'[u] = call[u]
  BY <1>1
<1>3. \A u \in Tabs : Saw(u)' /\ Plans(u)'
  BY <1>1, <1>2, SameRequest DEF LookedUp, Planned, Others
<1>4. Requests'
  BY <1>1, <1>3 DEF Requests, LookedUp, Planned, OneSubscriptionPerActress, Others
<1>5. call' \in [Tabs -> Calls] /\ \A u \in Tabs : call'[u].pc # "idle" => Known(call'[u].sid)
  BY <1>1, <1>2 DEF OnlyKnown
<1> QED BY <1>4, <1>5, RequestStep

LEMMA NotWorking ==
  ASSUME NEW t \in Tabs, call'[t].pc \in {"idle", "name", "lock", "answer"}
  PROVE  Saw(t)' /\ Plans(t)'
BY DEF Saw, Plans, Inside

LEMMA AskSubscriptionStep ==
  ASSUME Inv, NEW t \in Tabs, NEW a \in Actresses, NEW sid \in OnScreen(t),
         UNCHANGED pageVars, AskSubscription(t, sid, a)
  PROVE  Inv'
<1> DEFINE c == [NoCall EXCEPT !.pc = "name", !.sid = sid, !.actress = a]
<1>1. Known(sid)
  BY DEF OnScreen, Inv, Pages, OnlyKnown, Zero
<1>2. c \in Calls /\ c.pc = "name" /\ c.sid = sid /\ c.actress = a /\ c.prev = None
  BY <1>1 DEF NoCall, Calls, Zero, Known
<1>3. call' = [call EXCEPT ![t] = c] /\ tail' = tail /\ ~Active(t) /\ UNCHANGED Others
  BY DEF AskSubscription, At, OnlyCall, Active, Others
<1> HIDE DEF c
<1>4. InSomeLine'
  BY <1>2, <1>3, OutOfLine
<1>5. Saw(t)' /\ Plans(t)'
  BY <1>2, <1>3, NotWorking DEF Inv, TypedServer
<1> QED BY <1>1, <1>2, <1>3, <1>4, <1>5, OneRequestStep DEF Inv, TypedServer

LEMMA NameFailsStep ==
  ASSUME Inv, NEW t \in Tabs, UNCHANGED pageVars, NameFails(t)
  PROVE  Inv'
<1>1. call' = [call EXCEPT ![t] = NoCall] /\ tail' = tail /\ ~Active(t) /\ UNCHANGED Others
  BY DEF NameFails, At, OnlyCall, Active, Others
<1>2. InSomeLine'
  BY <1>1, OutOfLine, Shapes
<1>3. Saw(t)' /\ Plans(t)'
  BY <1>1, NotWorking, Shapes DEF Inv, TypedServer
<1> QED BY <1>1, <1>2, <1>3, OneRequestStep, Shapes DEF Inv, TypedServer

LEMMA NameReadStep ==
  ASSUME Inv, NEW t \in Tabs, UNCHANGED pageVars, NameRead(t)
  PROVE  Inv'
<1> DEFINE a == call[t].actress
           last == tail[a]
           c == [call[t] EXCEPT !.pc = "lock", !.prev = last]
<1>1. /\ call \in [Tabs -> Calls] /\ tail \in [Actresses -> Tabs \cup {None}]
      /\ call[t].pc = "name" /\ a \in Actresses /\ call[t].prev = None /\ call[t] \in Calls
  <2>1. call[t].prev = None
    BY DEF Inv, Requests, InSomeLine, InLine, NameRead, At
  <2> QED BY <2>1 DEF Inv, TypedServer, Requests, InSomeLine, NameRead, At
<1>2. c \in Calls /\ c.pc = "lock" /\ c.prev = last /\ c.actress = a /\ c.sid = call[t].sid
  BY <1>1 DEF Calls
<1>3. call' = [call EXCEPT ![t] = c] /\ tail' = [tail EXCEPT ![a] = t] /\ UNCHANGED Others
  BY DEF NameRead, Others
<1>4. last \in Tabs \cup {None} /\ ~Active(t)
  BY <1>1 DEF Active
<1>5. a = call[t].actress
  OBVIOUS
<1> HIDE DEF c, last, a
<1>6. \A u \in Tabs : call'[u] = IF u = t THEN c ELSE call[u]
  BY <1>1, <1>3
<1>7. \A b \in Actresses : tail'[b] = IF b = a THEN t ELSE tail[b]
  BY <1>1, <1>3
<1>8. PICK rank \in [Tabs -> Nat] : InLine(rank)
  BY DEF Inv, Requests, InSomeLine
<1>0. PICK n \in Nat : n = IF last = None THEN 0 ELSE rank[last] + 1
  BY <1>4, <1>8
<1>9. PICK next \in [Tabs -> Nat] : \A u \in Tabs : next[u] = IF u = t THEN n ELSE rank[u]
  <2>1. [u \in Tabs |-> IF u = t THEN n ELSE rank[u]] \in [Tabs -> Nat]
    BY <1>8
  <2> QED BY <2>1
<1>10. last # None => n = rank[last] + 1 /\ Active(last) /\ call[last].actress = a /\ last # t
  BY <1>0, <1>1, <1>4, <1>8 DEF InLine, last
<1>11. \A u \in Tabs : u # t /\ Active(u) /\ call[u].actress = a =>
         last # None /\ rank[u] <= rank[last] /\ rank[u] < n
  <2> SUFFICES ASSUME NEW u \in Tabs, u # t, Active(u), call[u].actress = a
               PROVE  last # None /\ rank[u] <= rank[last] /\ rank[u] < n
    OBVIOUS
  <2>1. last # None
    BY <1>8 DEF InLine, last
  <2>2. rank[u] <= rank[last]
    <3>1. Rivals(u, last)
      BY <1>4, <1>10, <2>1 DEF Rivals
    <3> QED BY <1>1, <1>8, <2>1, <3>1 DEF InLine, last
  <2>3. rank[u] \in Nat /\ rank[last] \in Nat /\ n = rank[last] + 1
    BY <1>4, <1>8, <1>10, <2>1
  <2> QED BY <2>1, <2>2, <2>3
<1>12. Active(t)' /\ \A u \in Tabs : u # t => Active(u)' = Active(u)
  BY <1>2, <1>6 DEF Active
<1>13. \A u, v \in Tabs : u # t /\ v # t => Rivals(u, v)' = Rivals(u, v)
  BY <1>6, <1>12 DEF Rivals
<1>14. \A u \in Tabs : u # t => /\ Rivals(u, t)' = (Active(u) /\ call[u].actress = a)
                                /\ Rivals(t, u)' = (Active(u) /\ call[u].actress = a)
  BY <1>2, <1>6, <1>12 DEF Rivals
<1>15. \A u \in Tabs : u # t /\ call[u].prev # None => call[u].prev # t /\ call[u].prev \in Tabs
  BY <1>1, <1>4, <1>8 DEF InLine, Rivals, Calls
<1>16. \A u \in Tabs : rank[u] \in Nat
  BY <1>8
<1>17. InLine(next)'
  <2>1. \A u, v \in Tabs : Rivals(u, v)' /\ next[u] = next[v] => u = v
    <3> SUFFICES ASSUME NEW u \in Tabs, NEW v \in Tabs, Rivals(u, v)', next[u] = next[v], u # v
                 PROVE  FALSE
      OBVIOUS
    <3>1. CASE u = t
      <4>1. rank[v] < n /\ rank[v] \in Nat
        BY <1>11, <1>14, <1>16, <3>1
      <4>2. next[u] = n /\ next[v] = rank[v]
        BY <1>9, <3>1
      <4>3. n \in Nat /\ next[u] = next[v]
        BY <1>0
      <4> QED BY <4>1, <4>2, <4>3
    <3>2. CASE v = t
      <4>0. u # t /\ Rivals(u, t)'
        BY <3>2
      <4>1. rank[u] < n /\ rank[u] \in Nat
        BY <1>11, <1>14, <1>16, <4>0
      <4>2. next[v] = n /\ next[u] = rank[u]
        BY <1>9, <3>2
      <4> QED BY <4>1, <4>2
    <3>3. CASE u # t /\ v # t
      BY <1>8, <1>9, <1>13, <3>3 DEF InLine
    <3> QED BY <3>1, <3>2, <3>3
  <2>2. \A u \in Tabs : Active(u)' => tail'[call'[u].actress] # None
    <3> SUFFICES ASSUME NEW u \in Tabs, Active(u)' PROVE tail'[call'[u].actress] # None
      OBVIOUS
    <3>1. CASE u = t
      BY <1>1, <1>2, <1>6, <1>7, <3>1, NoneAssumption
    <3>2. CASE u # t
      <4>1. Active(u) /\ call'[u].actress = call[u].actress
        BY <1>6, <1>12, <3>2
      <4>2. call[u].actress \in Actresses /\ tail[call[u].actress] # None
        BY <1>8, <4>1 DEF InLine, Inv, Requests, InSomeLine, Active
      <4> QED BY <1>7, <4>1, <4>2, NoneAssumption
    <3> QED BY <3>1, <3>2
  <2>3. \A b \in Actresses : tail'[b] # None =>
          /\ Active(tail[b])' /\ call'[tail'[b]].actress = b
          /\ \A u \in Tabs : Rivals(u, tail[b])' => next[u] <= next[tail'[b]]
    <3> SUFFICES ASSUME NEW b \in Actresses, tail'[b] # None
                 PROVE  /\ Active(tail[b])' /\ call'[tail'[b]].actress = b
                        /\ \A u \in Tabs : Rivals(u, tail[b])' => next[u] <= next[tail'[b]]
      OBVIOUS
    <3>1. CASE b = a
      <4>1. tail'[b] = t
        BY <1>7, <3>1
      <4>2. \A u \in Tabs : Rivals(u, tail[b])' => next[u] <= n
        <5> SUFFICES ASSUME NEW u \in Tabs, Rivals(u, tail[b])', u # t PROVE next[u] <= n
          BY <1>9
        <5>1. Active(u) /\ call[u].actress = a
          BY <1>2, <1>6, <1>12, <4>1 DEF Rivals
        <5> QED BY <1>9, <1>11, <1>16, <5>1
      <4> QED BY <1>2, <1>6, <1>9, <1>12, <3>1, <4>1, <4>2 DEF Active
    <3>2. CASE b # a
      <4>1. tail'[b] = tail[b] /\ tail[b] \in Tabs /\ Active(tail[b]) /\ call[tail[b]].actress = b
        BY <1>1, <1>7, <1>8, <3>2 DEF InLine
      <4>2. tail[b] # t
        BY <1>4, <4>1
      <4>3. ASSUME NEW u \in Tabs, Rivals(u, tail[b])' PROVE next[u] <= next[tail'[b]]
        <5>1. u # t /\ Rivals(u, tail[b])
          BY <1>2, <1>6, <1>12, <3>2, <4>1, <4>2, <4>3 DEF Rivals
        <5>2. rank[u] <= rank[tail[b]]
          BY <1>8, <4>1, <5>1, NoneAssumption DEF InLine
        <5> QED BY <1>9, <4>1, <4>2, <5>1, <5>2
      <4> QED BY <1>6, <1>12, <4>1, <4>2, <4>3 DEF Active
    <3> QED BY <3>1, <3>2
  <2>4. \A u, v \in Tabs : Rivals(u, v)' /\ call'[u].prev = None => next[u] <= next[v]
    <3> SUFFICES ASSUME NEW u \in Tabs, NEW v \in Tabs, Rivals(u, v)', call'[u].prev = None
                 PROVE  next[u] <= next[v]
      OBVIOUS
    <3>1. CASE u = t /\ v = t
      BY <1>9, <3>1
    <3>2. CASE u = t /\ v # t
      BY <1>2, <1>6, <1>11, <1>14, <3>2
    <3>3. CASE u # t /\ v = t
      <4>1. rank[u] < n /\ rank[u] \in Nat
        BY <1>11, <1>14, <1>16, <3>3
      <4> QED BY <1>9, <3>3, <4>1
    <3>4. CASE u # t /\ v # t
      BY <1>6, <1>8, <1>9, <1>13, <3>4 DEF InLine
    <3> QED BY <3>1, <3>2, <3>3, <3>4
  <2>5. \A u \in Tabs : call'[u].prev # None =>
          /\ call'[u].pc = "lock" /\ Rivals(u, call[u].prev)'
          /\ next[call'[u].prev] < next[u]
          /\ \A v \in Tabs : Rivals(u, v)' => next[v] <= next[call'[u].prev] \/ next[u] <= next[v]
    <3> SUFFICES ASSUME NEW u \in Tabs, call'[u].prev # None
                 PROVE  /\ call'[u].pc = "lock" /\ Rivals(u, call[u].prev)'
                        /\ next[call'[u].prev] < next[u]
                        /\ \A v \in Tabs : Rivals(u, v)' =>
                              next[v] <= next[call'[u].prev] \/ next[u] <= next[v]
      OBVIOUS
    <3>1. CASE u = t
      <4>1. call'[u].prev = last /\ last \in Tabs /\ last # t /\ call'[u].pc = "lock"
        BY <1>2, <1>4, <1>6, <1>10, <3>1
      <4>2. Active(last) /\ call[last].actress = a /\ n = rank[last] + 1
        BY <1>10, <4>1, NoneAssumption
      <4>3. Rivals(u, call[u].prev)'
        BY <1>2, <1>6, <1>12, <3>1, <4>1, <4>2 DEF Rivals
      <4>4. next[last] < next[u]
        BY <1>9, <1>16, <3>1, <4>1, <4>2
      <4>5. ASSUME NEW v \in Tabs, Rivals(u, v)' PROVE next[v] <= next[last] \/ next[u] <= next[v]
        <5>1. CASE v = t
          BY <3>1, <5>1, <1>9
        <5>2. CASE v # t
          <6>1. rank[v] <= rank[last]
            BY <1>11, <1>14, <3>1, <4>5, <5>2
          <6> QED BY <1>9, <4>1, <5>2, <6>1
        <5> QED BY <5>1, <5>2
      <4> QED BY <4>1, <4>3, <4>4, <4>5
    <3>2. CASE u # t
      <4>1. call'[u] = call[u] /\ call[u].prev \in Tabs /\ call[u].prev # t
        BY <1>6, <1>15, <3>2
      <4>2. /\ call[u].pc = "lock" /\ Rivals(u, call[u].prev) /\ rank[call[u].prev] < rank[u]
            /\ \A v \in Tabs : Rivals(u, v) => rank[v] <= rank[call[u].prev] \/ rank[u] <= rank[v]
        BY <1>8, <4>1, NoneAssumption DEF InLine
      <4>3. Rivals(u, call[u].prev)'
        BY <1>6, <1>12, <3>2, <4>1, <4>2 DEF Rivals
      <4>4. ASSUME NEW v \in Tabs, Rivals(u, v)'
            PROVE  next[v] <= next[call[u].prev] \/ next[u] <= next[v]
        <5>1. CASE v = t
          <6>1. rank[u] < n /\ rank[u] \in Nat
            BY <1>11, <1>14, <1>16, <3>2, <4>4, <5>1
          <6> QED BY <1>9, <3>2, <5>1, <6>1
        <5>2. CASE v # t
          BY <1>9, <1>13, <3>2, <4>1, <4>2, <4>4, <5>2
        <5> QED BY <5>1, <5>2
      <4> QED BY <1>9, <3>2, <4>1, <4>2, <4>3, <4>4
    <3> QED BY <3>1, <3>2
  <2> QED BY <2>1, <2>2, <2>3, <2>4, <2>5 DEF InLine
<1>18. InSomeLine'
  <2>1. \A u \in Tabs : call'[u].pc # "idle" => call'[u].actress \in Actresses
    BY <1>1, <1>2, <1>6 DEF Inv, Requests, InSomeLine
  <2> QED BY <1>9, <1>17, <2>1 DEF InSomeLine
<1>19. Saw(t)' /\ Plans(t)'
  BY <1>2, <1>6, NotWorking
<1>20. Known(c.sid)
  BY <1>1, <1>2 DEF Inv, Pages, OnlyKnown
<1>21. tail' \in [Actresses -> Tabs \cup {None}]
  BY <1>1, <1>3
<1> QED BY <1>2, <1>3, <1>18, <1>19, <1>20, <1>21, OneRequestStep

\* The request that goes tells the one behind it.
LEMMA AnswerStep ==
  ASSUME Inv, NEW t \in Tabs, UNCHANGED pageVars, Answer(t)
  PROVE  Inv'
<1> DEFINE a == call[t].actress
<1>1. /\ call \in [Tabs -> Calls] /\ tail \in [Actresses -> Tabs \cup {None}]
      /\ Active(t) /\ call[t].prev = None /\ a \in Actresses
  BY WorksAlone DEF Inv, TypedServer, Answer, At
<1>2. PICK rank \in [Tabs -> Nat] : InLine(rank)
  BY DEF Inv, Requests, InSomeLine
<1>3. /\ call' = Resolved(t) /\ tail' = LastRemoves(t) /\ UNCHANGED Others
  BY DEF Answer, Others
<1>4. \A u \in Tabs : call'[u] = CASE u = t -> NoCall
                                   [] u # t /\ call[u].prev = t -> [call[u] EXCEPT !.prev = None]
                                   [] OTHER -> call[u]
  BY <1>3 DEF Resolved
<1>5. call'[t] = NoCall /\ call'[t].pc = "idle" /\ call'[t].prev = None
  BY <1>4, Shapes
<1>6. \A u \in Tabs : u # t =>
        /\ call'[u] \in Calls /\ call'[u].pc = call[u].pc /\ call'[u].actress = call[u].actress
        /\ call'[u].sid = call[u].sid
        /\ call'[u].prev = IF call[u].prev = t THEN None ELSE call[u].prev
        /\ call'[u] = call[u] \/ call[u].prev = t
  <2> SUFFICES ASSUME NEW u \in Tabs, u # t
               PROVE  /\ call'[u] \in Calls /\ call'[u].pc = call[u].pc
                      /\ call'[u].actress = call[u].actress /\ call'[u].sid = call[u].sid
                      /\ call'[u].prev = IF call[u].prev = t THEN None ELSE call[u].prev
                      /\ call'[u] = call[u] \/ call[u].prev = t
    OBVIOUS
  <2>1. call[u] \in Calls
    BY <1>1
  <2>2. CASE call[u].prev = t
    <3>1. call'[u] = [call[u] EXCEPT !.prev = None]
      BY <1>4, <2>2
    <3> QED BY <2>1, <2>2, <3>1 DEF Calls
  <2>3. CASE call[u].prev # t
    <3>1. call'[u] = call[u]
      BY <1>4, <2>3
    <3> QED BY <2>1, <2>3, <3>1
  <2> QED BY <2>2, <2>3
<1>7. \A b \in Actresses : tail'[b] = IF b = a /\ tail[b] = t THEN None ELSE tail[b]
  BY <1>1, <1>3 DEF LastRemoves
<1>8. ~Active(t)' /\ \A u \in Tabs : u # t => Active(u)' = Active(u)
  BY <1>5, <1>6 DEF Active
<1>9. \A u, v \in Tabs : Rivals(u, v)' => u # t /\ v # t /\ Rivals(u, v)
  BY <1>6, <1>8 DEF Rivals
<1>10. \A u, v \in Tabs : u # t /\ v # t /\ Rivals(u, v) => Rivals(u, v)'
  BY <1>6, <1>8 DEF Rivals
<1>11. \A u \in Tabs : rank[u] \in Nat
  BY <1>2
\* Nobody of the same actress is before the one that goes.
<1>12. \A u \in Tabs : u # t /\ Active(u) /\ call[u].actress = a => rank[t] < rank[u] /\ tail[a] # t
  <2> SUFFICES ASSUME NEW u \in Tabs, u # t, Active(u), call[u].actress = a
               PROVE  rank[t] < rank[u] /\ tail[a] # t
    OBVIOUS
  <2>1. Rivals(t, u) /\ Rivals(u, t)
    BY <1>1 DEF Rivals
  <2>2. rank[t] <= rank[u] /\ rank[t] # rank[u]
    BY <1>1, <1>2, <2>1 DEF InLine
  <2>3. rank[t] < rank[u]
    BY <1>11, <2>2
  <2>4. ASSUME tail[a] = t PROVE FALSE
    <3>1. rank[u] <= rank[t]
      BY <1>1, <1>2, <2>1, <2>4, NoneAssumption DEF InLine
    <3> QED BY <1>11, <2>3, <3>1
  <2> QED BY <2>3, <2>4
<1> HIDE DEF a
<1>13. InLine(rank)'
  <2>1. \A u, v \in Tabs : Rivals(u, v)' /\ rank[u] = rank[v] => u = v
    BY <1>2, <1>9 DEF InLine
  <2>2. \A u \in Tabs : Active(u)' => tail'[call'[u].actress] # None
    <3> SUFFICES ASSUME NEW u \in Tabs, Active(u)' PROVE tail'[call'[u].actress] # None
      OBVIOUS
    <3>1. u # t /\ Active(u) /\ call'[u].actress = call[u].actress
      BY <1>6, <1>8
    <3>2. tail[call[u].actress] # None /\ call[u].actress \in Actresses
      BY <1>2, <3>1 DEF InLine, Inv, Requests, InSomeLine, Active
    <3> QED BY <1>7, <1>12, <3>1, <3>2
  <2>3. \A b \in Actresses : tail'[b] # None =>
          /\ Active(tail[b])' /\ call'[tail'[b]].actress = b
          /\ \A u \in Tabs : Rivals(u, tail[b])' => rank[u] <= rank[tail'[b]]
    <3> SUFFICES ASSUME NEW b \in Actresses, tail'[b] # None
                 PROVE  /\ Active(tail[b])' /\ call'[tail'[b]].actress = b
                        /\ \A u \in Tabs : Rivals(u, tail[b])' => rank[u] <= rank[tail'[b]]
      OBVIOUS
    <3>1. tail'[b] = tail[b] /\ tail[b] \in Tabs /\ Active(tail[b]) /\ call[tail[b]].actress = b
      BY <1>1, <1>2, <1>7 DEF InLine
    <3>2. tail[b] # t
      BY <1>7, <3>1, NoneAssumption DEF a
    <3>3. ASSUME NEW u \in Tabs, Rivals(u, tail[b])' PROVE rank[u] <= rank[tail'[b]]
      <4>1. Rivals(u, tail[b])
        BY <1>6, <1>8, <3>1, <3>2, <3>3 DEF Rivals
      <4> QED BY <1>2, <3>1, <4>1, NoneAssumption DEF InLine
    <3> QED BY <1>6, <1>8, <3>1, <3>2, <3>3 DEF Active
  <2>4. \A u, v \in Tabs : Rivals(u, v)' /\ call'[u].prev = None => rank[u] <= rank[v]
    <3> SUFFICES ASSUME NEW u \in Tabs, NEW v \in Tabs, Rivals(u, v)', call'[u].prev = None
                 PROVE  rank[u] <= rank[v]
      OBVIOUS
    <3>1. u # t /\ v # t /\ Rivals(u, v)
      BY <1>9
    <3>2. CASE call[u].prev = t
      <4>1. Rivals(u, t) /\ (rank[v] <= rank[t] \/ rank[u] <= rank[v])
        BY <1>2, <3>1, <3>2, NoneAssumption DEF InLine
      <4>2. rank[t] < rank[v]
        BY <1>12, <3>1, <4>1 DEF Rivals, a
      <4> QED BY <1>11, <4>1, <4>2
    <3>3. CASE call[u].prev # t
      BY <1>2, <1>6, <3>1, <3>3 DEF InLine
    <3> QED BY <3>2, <3>3
  <2>5. \A u \in Tabs : call'[u].prev # None =>
          /\ call'[u].pc = "lock" /\ Rivals(u, call[u].prev)'
          /\ rank[call'[u].prev] < rank[u]
          /\ \A v \in Tabs : Rivals(u, v)' => rank[v] <= rank[call'[u].prev] \/ rank[u] <= rank[v]
    <3> SUFFICES ASSUME NEW u \in Tabs, call'[u].prev # None
                 PROVE  /\ call'[u].pc = "lock" /\ Rivals(u, call[u].prev)'
                        /\ rank[call'[u].prev] < rank[u]
                        /\ \A v \in Tabs : Rivals(u, v)' =>
                              rank[v] <= rank[call'[u].prev] \/ rank[u] <= rank[v]
      OBVIOUS
    <3>1. u # t /\ call[u].prev # t /\ call'[u].prev = call[u].prev /\ call'[u].pc = call[u].pc
      BY <1>5, <1>6
    <3>2. call[u].prev \in Tabs
      <4>1. call[u] \in Calls
        BY <1>1
      <4> QED BY <3>1, <4>1 DEF Calls
    <3>3. /\ call[u].pc = "lock" /\ Rivals(u, call[u].prev) /\ rank[call[u].prev] < rank[u]
          /\ \A v \in Tabs : Rivals(u, v) => rank[v] <= rank[call[u].prev] \/ rank[u] <= rank[v]
      BY <1>2, <3>1 DEF InLine
    <3>4. Rivals(u, call[u].prev)'
      BY <1>6, <1>8, <3>1, <3>2, <3>3 DEF Rivals
    <3> QED BY <1>9, <3>1, <3>3, <3>4
  <2> QED BY <2>1, <2>2, <2>3, <2>4, <2>5 DEF InLine
<1>14. InSomeLine'
  <2>1. \A u \in Tabs : call'[u].pc # "idle" => call'[u].actress \in Actresses
    BY <1>5, <1>6 DEF Inv, Requests, InSomeLine
  <2> QED BY <1>2, <1>13, <2>1 DEF InSomeLine
<1>15. \A u \in Tabs : Saw(u)' /\ Plans(u)'
  <2> SUFFICES ASSUME NEW u \in Tabs PROVE Saw(u)' /\ Plans(u)'
    OBVIOUS
  <2>1. CASE call'[u].pc \in {"idle", "name", "lock", "answer"}
    BY <2>1, NotWorking
  <2>2. CASE call'[u].pc \notin {"idle", "name", "lock", "answer"}
    <3>1. u # t
      BY <1>5, <2>2
    <3>2. call[u].prev = None
      BY <1>2, <1>6, <2>2, <3>1 DEF InLine
    <3>3. call'[u] = call[u]
      BY <1>6, <3>1, <3>2, NoneAssumption
    <3> QED BY <1>3, <3>3, SameRequest DEF Inv, Requests, LookedUp, Planned, Others
  <2> QED BY <2>1, <2>2
<1>16. Requests'
  BY <1>3, <1>14, <1>15 DEF Inv, Requests, LookedUp, Planned, OneSubscriptionPerActress, Others
<1>17. call' \in [Tabs -> Calls]
  <2>1. \A u \in Tabs : call'[u] \in Calls
    BY <1>5, <1>6, Shapes
  <2> QED BY <1>3, <2>1 DEF Resolved
<1>18. tail' \in [Actresses -> Tabs \cup {None}]
  BY <1>1, <1>3 DEF LastRemoves
<1>19. \A u \in Tabs : call'[u].pc # "idle" => Known(call'[u].sid)
  BY <1>5, <1>6 DEF Inv, Pages, OnlyKnown
<1> QED BY <1>3, <1>16, <1>17, <1>18, <1>19, RequestStep

\* A step of the request that works, which stays in its place.
LEMMA WorkingStep ==
  ASSUME Inv, UNCHANGED pageVars, UNCHANGED Others, tail' = tail, NEW t \in Tabs, NEW c \in Calls,
         call' = [call EXCEPT ![t] = c], Active(t), call[t].prev = None,
         c.actress = call[t].actress, c.prev = None, c.sid = call[t].sid,
         c.pc \notin {"idle", "name"}, Saw(t)', Plans(t)'
  PROVE  Inv'
<1>1. call \in [Tabs -> Calls] /\ tail \in [Actresses -> Tabs \cup {None}]
  BY DEF Inv, TypedServer
<1>2. \A u \in Tabs : call'[u] = IF u = t THEN c ELSE call[u]
  BY <1>1
<1>3. InSomeLine'
  BY <1>2, LineStays
<1>4. Known(c.sid)
  BY DEF Inv, Pages, OnlyKnown, Active
<1> QED BY <1>1, <1>3, <1>4, OneRequestStep

LEMMA ScanningIs ==
  ASSUME TypedTables, NEW s
  PROVE  /\ ScanningOf(s) = {b \in BatchIds : Scanned(b, s)}
         /\ ScanningOf(s) \in SUBSET Nat /\ IsFiniteSet(ScanningOf(s))
<1>1. batches \in [BatchIds -> BatchRow \cup {None}] /\ BatchIds \in SUBSET Nat /\ IsFiniteSet(BatchIds)
  BY IdentityAssumption DEF TypedTables
<1>2. \A b \in BatchIds : Present(batches, b) <=> batches[b] \in BatchRow
  BY <1>1, Shapes, NoneAssumption DEF Present
<1>3. ScanningOf(s) = {b \in BatchIds : Scanned(b, s)}
  BY <1>1, <1>2 DEF ScanningOf, All, Scanned, BatchOf
<1> QED BY <1>1, <1>3, FS_Subset

LEMMA PresentRows ==
  ASSUME TypedTables
  PROVE  /\ All(subs) \subseteq SubIds /\ \A s : Present(subs, s) <=> s \in All(subs)
         /\ \A s \in All(subs) : subs[s] \in SubRow
         /\ \A s \in SubIds : subs[s] \in SubRow => s \in All(subs)
         /\ All(entries) \subseteq EntryIds /\ \A e : Present(entries, e) <=> e \in All(entries)
         /\ \A e \in All(entries) : entries[e] \in EntryRow
         /\ \A e \in EntryIds : entries[e] \in EntryRow => e \in All(entries)
BY Shapes, NoneAssumption DEF TypedTables, All, Present

LEMMA LookStep ==
  ASSUME Inv, NEW t \in Tabs, UNCHANGED pageVars, Look(t)
  PROVE  Inv'
<1> DEFINE known == SubsOf(call[t].actress)
           dup == IF known = {} THEN 0 ELSE Min(known)
           seen == IF dup = 0 THEN None ELSE subs[dup]
           c == [[[call[t] EXCEPT !.pc = "plan"] EXCEPT !.dup = dup] EXCEPT !.seen = seen]
<1>1. /\ call[t].pc = "lock" /\ call[t].prev = None /\ call[t] \in Calls /\ call \in [Tabs -> Calls]
      /\ tail' = tail /\ UNCHANGED Others /\ Active(t)
  BY DEF Look, At, OnlyCall, Others, Active, Inv, TypedServer
<1>2. known \subseteq All(subs) /\ All(subs) \subseteq SubIds /\ SubIds \subseteq Nat \ {0}
  BY PresentRows, IdentityAssumption DEF Inv, SubsOf
<1>3. known # {} => Min(known) \in known
  <2> HIDE DEF known
  <2> QED BY <1>2, MinIsLeast
<1>4. \/ known = {} /\ dup = 0 /\ seen = None
      \/ dup \in known /\ dup # 0 /\ seen = subs[dup]
  BY <1>2, <1>3
<1>5. dup \in SubIds \cup {0} /\ seen \in SubRow \cup {None}
  BY <1>2, <1>4, PresentRows DEF Inv
<1>6. call' = [call EXCEPT ![t] = c]
  BY <1>1 DEF Look, Zero
<1>7. dup \in known => /\ Present(subs, dup) /\ subs[dup] \in SubRow /\ subs[dup] # None
                       /\ subs[dup].actress = call[t].actress
  BY <1>2, PresentRows, NoneAssumption DEF Inv, SubsOf
<1> HIDE DEF dup, seen
<1>8. /\ c \in Calls /\ c.pc = "plan" /\ c.actress = call[t].actress /\ c.prev = None
      /\ c.sid = call[t].sid /\ c.dup = dup /\ c.seen = seen
  <2> DEFINE c1 == [call[t] EXCEPT !.pc = "plan"]
             c2 == [c1 EXCEPT !.dup = dup]
  <2>1. /\ c1 \in Calls /\ c1.pc = "plan" /\ c1.actress = call[t].actress
        /\ c1.prev = call[t].prev /\ c1.sid = call[t].sid
    BY <1>1 DEF Calls
  <2>2. c = [c2 EXCEPT !.seen = seen]
    OBVIOUS
  <2> HIDE DEF c1
  <2>3. /\ c2 \in Calls /\ c2.pc = "plan" /\ c2.actress = c1.actress
        /\ c2.prev = c1.prev /\ c2.sid = c1.sid /\ c2.dup = dup
    BY <1>5, <2>1 DEF Calls
  <2> HIDE DEF c2, c
  <2>4. /\ c \in Calls /\ c.pc = "plan" /\ c.actress = c2.actress
        /\ c.prev = c2.prev /\ c.sid = c2.sid /\ c.dup = dup /\ c.seen = seen
    BY <1>5, <2>2, <2>3 DEF Calls
  <2> QED BY <1>1, <2>1, <2>3, <2>4
<1>9. known = SubsOf(call[t].actress)
  OBVIOUS
<1> HIDE DEF c, known
<1>10. call'[t] = c
  BY <1>1, <1>6
<1>11. UNCHANGED <<subs, batches>>
  BY <1>1 DEF Others
<1>12. Saw(t)'
  <2>1. CASE dup = 0
    BY <1>2, <1>4, <1>8, <1>9, <1>10, <1>11, <2>1 DEF Saw, Inside, SubsOf
  <2>2. CASE dup # 0
    BY <1>4, <1>7, <1>8, <1>10, <1>11, <2>2 DEF Saw, Inside
  <2> QED BY <2>1, <2>2
<1>13. Plans(t)'
  <2>1. ASSUME dup # 0, seen.run # 0 PROVE BatchOf(seen.run, dup)
    <3>1. dup \in SubIds /\ Present(subs, dup) /\ seen = subs[dup]
      BY <1>4, <1>5, <1>7, <2>1
    <3> QED BY <2>1, <3>1 DEF Inv, Batched, RunsOwn
  <2>2. call'[t].dup # 0 /\ call'[t].seen.run # 0 => BatchOf(call'[t].seen.run, call'[t].dup)
    BY <1>8, <1>10, <2>1
  <2> QED BY <1>8, <1>10, <1>11, <2>2 DEF Plans, BatchOf
<1> QED BY <1>1, <1>6, <1>8, <1>12, <1>13, WorkingStep

LEMMA PlanStep ==
  ASSUME Inv, NEW t \in Tabs, UNCHANGED pageVars, Plan(t)
  PROVE  Inv'
<1> DEFINE b == BatchFor(call[t])
           c == [[[call[t] EXCEPT !.pc = "match"] EXCEPT !.batch = b] EXCEPT !.rules = rules]
           s == call[t].dup
           seen == call[t].seen
<1>1. /\ call[t].pc = "plan" /\ call[t] \in Calls /\ call \in [Tabs -> Calls]
      /\ tail' = tail /\ UNCHANGED Others /\ rules \in RuleChoices
  BY DEF Plan, At, OnlyCall, Others, Inv, TypedServer
<1>2. Active(t) /\ call[t].prev = None /\ Saw(t) /\ Plans(t) /\ Inside(t)
  BY <1>1, WorksAlone DEF Inv, Requests, LookedUp, Planned, Inside
<1>3. s \in SubIds \cup {0} /\ (s # 0 => seen \in SubRow)
  BY <1>1, <1>2 DEF Calls, Saw
<1>4. /\ b \in BatchIds \cup {0, Fresh}
      /\ b = Fresh /\ s = 0 => rules.paged
      /\ b = Fresh /\ s # 0 => \A d \in BatchIds : ~Scanned(d, s)
      /\ b \notin {0, Fresh} => s # 0 /\ BatchOf(b, s)
  <2>1. CASE s = 0
    <3>1. b = IF rules.paged THEN Fresh ELSE 0
      BY <2>1 DEF BatchFor, Zero
    <3> QED BY <2>1, <3>1, NoneAssumption
  <2>2. CASE s # 0 /\ seen.done
    <3>1. b = 0
      BY <2>2 DEF BatchFor, Zero
    <3> QED BY <3>1, NoneAssumption
  <2>3. CASE s # 0 /\ ~seen.done /\ seen.run # 0
    <3>1. b = seen.run
      BY <2>3 DEF BatchFor, Zero
    <3>2. BatchOf(b, s)
      BY <1>2, <2>3, <3>1 DEF Plans
    <3>3. b # Fresh
      BY <3>2, IdentityAssumption, NoneAssumption DEF BatchOf
    <3> QED BY <2>3, <3>2, <3>3 DEF BatchOf
  <2>4. CASE s # 0 /\ ~seen.done /\ seen.run = 0
    <3>1. b = IF ScanningOf(s) = {} THEN Fresh ELSE Max(ScanningOf(s))
      BY <2>4 DEF BatchFor, Zero, PendingBatch
    <3>2. ScanningOf(s) # {} => Max(ScanningOf(s)) \in ScanningOf(s)
      BY ScanningIs, MaxIsGreatest DEF Inv
    <3>3. ScanningOf(s) = {d \in BatchIds : Scanned(d, s)}
      BY ScanningIs DEF Inv
    <3>4. Fresh \notin BatchIds
      BY IdentityAssumption, NoneAssumption
    <3> QED BY <2>4, <3>1, <3>2, <3>3, <3>4 DEF Scanned
  <2> QED BY <2>1, <2>2, <2>3, <2>4
<1>5. call' = [call EXCEPT ![t] = c]
  BY <1>1 DEF Plan
<1>6. s = call[t].dup /\ seen = call[t].seen
  OBVIOUS
<1> HIDE DEF b, s, seen
<1>7. /\ c \in Calls /\ c.pc = "match" /\ c.actress = call[t].actress /\ c.prev = None
      /\ c.sid = call[t].sid /\ c.dup = s /\ c.seen = seen /\ c.batch = b /\ c.rules = rules
  <2> DEFINE c1 == [call[t] EXCEPT !.pc = "match"]
             c2 == [c1 EXCEPT !.batch = b]
  <2>1. /\ c1 \in Calls /\ c1.pc = "match" /\ c1.actress = call[t].actress
        /\ c1.prev = call[t].prev /\ c1.sid = call[t].sid /\ c1.dup = call[t].dup
        /\ c1.seen = call[t].seen
    BY <1>1 DEF Calls
  <2>2. c = [c2 EXCEPT !.rules = rules]
    OBVIOUS
  <2> HIDE DEF c1
  <2>3. /\ c2 \in Calls /\ c2.pc = "match" /\ c2.actress = c1.actress
        /\ c2.prev = c1.prev /\ c2.sid = c1.sid /\ c2.dup = c1.dup /\ c2.seen = c1.seen
        /\ c2.batch = b
    BY <1>4, <2>1 DEF Calls
  <2> HIDE DEF c2, c
  <2>4. /\ c \in Calls /\ c.pc = "match" /\ c.actress = c2.actress
        /\ c.prev = c2.prev /\ c.sid = c2.sid /\ c.dup = c2.dup /\ c.seen = c2.seen
        /\ c.batch = b /\ c.rules = rules
    BY <1>1, <2>2, <2>3 DEF Calls
  <2> QED BY <1>2, <1>6, <2>1, <2>3, <2>4
<1> HIDE DEF c
<1>8. call'[t] = c
  BY <1>1, <1>5
<1>9. UNCHANGED <<subs, batches, rules>>
  BY <1>1 DEF Others
<1>10. Saw(t)'
  BY <1>2, <1>6, <1>7, <1>8, <1>9 DEF Saw, Inside, SubsOf
<1>11. Plans(t)'
  <2>1. \A d, x : Scanned(d, x)' = Scanned(d, x) /\ BatchOf(d, x)' = BatchOf(d, x)
    BY <1>9 DEF Scanned, BatchOf
  <2>2. s # 0 /\ seen.run # 0 => BatchOf(seen.run, s)
    BY <1>2, <1>6 DEF Plans
  <2> QED BY <1>1, <1>4, <1>7, <1>8, <1>9, <2>2 DEF Plans, Scanned, BatchOf
<1> QED BY <1>1, <1>2, <1>5, <1>7, <1>10, <1>11, WorkingStep

LEMMA SubscriptionFailsStep ==
  ASSUME Inv, NEW t \in Tabs, UNCHANGED pageVars, SubscriptionFails(t)
  PROVE  Inv'
<1> DEFINE c == [call[t] EXCEPT !.pc = "answer"]
<1>1. /\ call[t].pc \in {"plan", "match", "commit"} /\ call[t] \in Calls /\ call \in [Tabs -> Calls]
      /\ tail' = tail /\ UNCHANGED Others /\ call' = [call EXCEPT ![t] = c]
  BY DEF SubscriptionFails, Go, OnlyCall, Others, Inv, TypedServer
<1>2. Active(t) /\ call[t].prev = None
  BY <1>1, WorksAlone
<1>3. /\ c \in Calls /\ c.pc = "answer" /\ c.actress = call[t].actress /\ c.prev = None
      /\ c.sid = call[t].sid
  BY <1>1, <1>2 DEF Calls
<1> HIDE DEF c
<1>4. Saw(t)' /\ Plans(t)'
  BY <1>1, <1>3, NotWorking
<1> QED BY <1>1, <1>2, <1>3, <1>4, WorkingStep

LEMMA SettledIs ==
  ASSUME NEW s, s.magnet \in States, s.release \in States, NEW r \in RuleChoices
  PROVE  Settled(s, r) \in [magnet : States, release : States, library : States]
<1>1. Settled(s, r).magnet \in States /\ Settled(s, r).release \in States /\ Settled(s, r).library \in States
  BY DEF Settled, States
<1> QED BY <1>1 DEF Settled

LEMMA MatchStep ==
  ASSUME Inv, NEW t \in Tabs, UNCHANGED pageVars, Match(t)
  PROVE  Inv'
<1> DEFINE s == call[t].dup
           known == IF s = 0 THEN {} ELSE Matches(OfSub(s), session[call[t].sid].code)
           found == IF known = {} THEN 0 ELSE Min(known)
           settled == Settled(session[call[t].sid], call[t].rules)
           c == [[[call[t] EXCEPT !.pc = "commit"] EXCEPT !.found = found] EXCEPT !.settled = settled]
<1>1. /\ call[t].pc = "match" /\ call[t] \in Calls /\ call \in [Tabs -> Calls]
      /\ tail' = tail /\ UNCHANGED Others
  BY DEF Match, At, OnlyCall, Others, Inv, TypedServer
<1>2. Active(t) /\ call[t].prev = None /\ Saw(t) /\ Plans(t) /\ Inside(t)
  BY <1>1, WorksAlone DEF Inv, Requests, LookedUp, Planned, Inside
<1>3. settled \in [magnet : States, release : States, library : States]
  <2>1. session[call[t].sid] \in ResultRow
    BY <1>1 DEF Inv, Pages, OnlyKnown, Known
  <2>2. session[call[t].sid].magnet \in States /\ session[call[t].sid].release \in States
    BY <2>1 DEF ResultRow
  <2>3. call[t].rules \in RuleChoices
    BY <1>1, <1>2 DEF Plans
  <2> QED BY <2>2, <2>3, SettledIs
<1>4. known \subseteq OfSub(s)
  BY DEF Matches, OfCode
<1>5. OfSub(s) \subseteq All(entries) /\ All(entries) \subseteq EntryIds /\ EntryIds \subseteq Nat \ {0}
  BY PresentRows, IdentityAssumption DEF OfSub, Inv
<1>6. known # {} => Min(known) \in known
  <2> HIDE DEF known
  <2> QED BY <1>4, <1>5, MinIsLeast
<1>7. found = 0 \/ (s # 0 /\ found \in OfSub(s))
  BY <1>4, <1>6
<1>8. found \in EntryIds \cup {0}
  BY <1>5, <1>7
<1>9. found # 0 => s # 0 /\ entries[found] # None /\ entries[found].sub = s
  BY <1>5, <1>7 DEF OfSub, All, Present
<1>10. call' = [call EXCEPT ![t] = c]
  BY <1>1 DEF Match, Zero
<1>11. s = call[t].dup
  OBVIOUS
<1> HIDE DEF s, known, found, settled
<1>12. /\ c \in Calls /\ c.pc = "commit" /\ c.actress = call[t].actress /\ c.prev = None
       /\ c.sid = call[t].sid /\ c.dup = s /\ c.seen = call[t].seen /\ c.batch = call[t].batch
       /\ c.rules = call[t].rules /\ c.found = found /\ c.settled = settled
  <2> DEFINE c1 == [call[t] EXCEPT !.pc = "commit"]
             c2 == [c1 EXCEPT !.found = found]
  <2>1. /\ c1 \in Calls /\ c1.pc = "commit" /\ c1.actress = call[t].actress
        /\ c1.prev = call[t].prev /\ c1.sid = call[t].sid /\ c1.dup = call[t].dup
        /\ c1.seen = call[t].seen /\ c1.batch = call[t].batch /\ c1.rules = call[t].rules
    BY <1>1 DEF Calls
  <2>2. c = [c2 EXCEPT !.settled = settled]
    OBVIOUS
  <2> HIDE DEF c1
  <2>3. /\ c2 \in Calls /\ c2.pc = "commit" /\ c2.actress = c1.actress
        /\ c2.prev = c1.prev /\ c2.sid = c1.sid /\ c2.dup = c1.dup /\ c2.seen = c1.seen
        /\ c2.batch = c1.batch /\ c2.rules = c1.rules /\ c2.found = found
    BY <1>8, <2>1 DEF Calls
  <2> HIDE DEF c2, c
  <2>4. /\ c \in Calls /\ c.pc = "commit" /\ c.actress = c2.actress
        /\ c.prev = c2.prev /\ c.sid = c2.sid /\ c.dup = c2.dup /\ c.seen = c2.seen
        /\ c.batch = c2.batch /\ c.rules = c2.rules /\ c.found = found /\ c.settled = settled
    BY <1>3, <2>2, <2>3 DEF Calls
  <2> QED BY <1>2, <1>11, <2>1, <2>3, <2>4
<1> HIDE DEF c
<1>13. call'[t] = c
  BY <1>1, <1>10
<1>14. UNCHANGED <<subs, batches, rules, entries>>
  BY <1>1 DEF Others
<1>15. Saw(t)'
  BY <1>2, <1>11, <1>12, <1>13, <1>14 DEF Saw, Inside, SubsOf
<1>16. Plans(t)'
  BY <1>1, <1>2, <1>3, <1>9, <1>11, <1>12, <1>13, <1>14 DEF Plans, Inside, Scanned, BatchOf
<1> QED BY <1>1, <1>2, <1>10, <1>12, <1>15, <1>16, WorkingStep

-----------------------------------------------------------------------------
(* The tables.                                                             *)

\* What the requests under way need of a step on the tables.
LEMMA TablesAround ==
  ASSUME NEW u \in Tabs, call'[u] = call[u], rules' = rules, call[u] \in Calls, Saw(u), Plans(u),
         \A x \in SubIds : subs[x] # None =>
            /\ subs'[x] # None
            /\ Present(subs, x)' => Present(subs, x) /\ subs'[x].actress = subs[x].actress,
         Inside(u) /\ SubsOf(call[u].actress) = {} => SubsOf(call[u].actress)' = {},
         \A d \in BatchIds, x \in SubIds : BatchOf(d, x) => BatchOf(d, x)',
         \A x \in SubIds : x = call[u].dup /\ Inside(u) /\ Present(subs, x)' =>
            ((\A d \in BatchIds : Scanned(d, x) => d = subs[x].run) =>
               \A d \in BatchIds : Scanned(d, x)' => d = subs'[x].run),
         \A i \in EntryIds : entries[i] # None =>
            /\ entries'[i] # None
            /\ Present(entries, i)' => Present(entries, i) /\ entries'[i].sub = entries[i].sub
  PROVE  Saw(u)' /\ Plans(u)'
<1>1. /\ call[u].dup \in SubIds \cup {0} /\ call[u].found \in EntryIds \cup {0}
      /\ call[u].batch \in BatchIds \cup {0, Fresh} /\ call[u].seen \in SubRow \cup {None}
  BY DEF Calls
<1>2. Inside(u)' = Inside(u)
  BY DEF Inside
<1>3. Saw(u)'
  <2> SUFFICES ASSUME Inside(u)
               PROVE  IF call[u].dup = 0 THEN SubsOf(call[u].actress)' = {} /\ call[u].seen = None
                      ELSE /\ subs'[call[u].dup] # None
                           /\ Present(subs, call[u].dup)' => subs'[call[u].dup].actress = call[u].actress
                           /\ call[u].seen \in SubRow
    BY <1>2 DEF Saw
  <2>1. CASE call[u].dup = 0
    BY <2>1 DEF Saw
  <2>2. CASE call[u].dup # 0
    <3>1. call[u].dup \in SubIds
      BY <1>1, <2>2
    <3>2. /\ subs[call[u].dup] # None /\ call[u].seen \in SubRow
          /\ Present(subs, call[u].dup) => subs[call[u].dup].actress = call[u].actress
      BY <2>2 DEF Saw
    <3>3. /\ subs'[call[u].dup] # None
          /\ Present(subs', call[u].dup) =>
               Present(subs, call[u].dup) /\ subs'[call[u].dup].actress = subs[call[u].dup].actress
      BY <3>1, <3>2 DEF Present
    <3> QED BY <2>2, <3>2, <3>3 DEF Present
  <2> QED BY <2>1, <2>2
<1>4. Plans(u)'
  <2>1. Inside(u) /\ call[u].dup # 0 /\ call[u].seen.run # 0 => BatchOf(call[u].seen.run, call[u].dup)'
    <3> SUFFICES ASSUME Inside(u), call[u].dup # 0, call[u].seen.run # 0
                 PROVE  BatchOf(call[u].seen.run, call[u].dup)'
      OBVIOUS
    <3>1. BatchOf(call[u].seen.run, call[u].dup) /\ call[u].dup \in SubIds
      BY <1>1 DEF Plans
    <3>2. call[u].seen.run \in BatchIds
      BY <3>1 DEF BatchOf
    <3> QED BY <3>1, <3>2 DEF BatchOf
  <2>2. call[u].batch \notin {0, Fresh} /\ call[u].pc \in {"match", "commit"} =>
          call[u].dup # 0 /\ BatchOf(call[u].batch, call[u].dup)'
    <3> SUFFICES ASSUME call[u].batch \notin {0, Fresh}, call[u].pc \in {"match", "commit"}
                 PROVE  call[u].dup # 0 /\ BatchOf(call[u].batch, call[u].dup)'
      OBVIOUS
    <3>1. call[u].dup # 0 /\ BatchOf(call[u].batch, call[u].dup) /\ call[u].batch \in BatchIds
      BY <1>1 DEF Plans
    <3> QED BY <1>1, <3>1 DEF BatchOf
  <2>3. /\ call[u].batch = Fresh /\ call[u].dup # 0 /\ call[u].pc \in {"match", "commit"}
        /\ Present(subs', call[u].dup)
        => \A d \in BatchIds : Scanned(d, call[u].dup)' => d = subs'[call[u].dup].run
    <3> SUFFICES ASSUME call[u].batch = Fresh, call[u].dup # 0, call[u].pc \in {"match", "commit"},
                        Present(subs', call[u].dup)
                 PROVE  \A d \in BatchIds : Scanned(d, call[u].dup)' => d = subs'[call[u].dup].run
      OBVIOUS
    <3>1. Inside(u) /\ call[u].dup \in SubIds
      BY <1>1 DEF Inside
    <3>2. PICK x \in SubIds : x = call[u].dup
      BY <3>1
    <3>3. Present(subs, x)' /\ subs[x] # None
      BY <3>1, <3>2 DEF Present, Saw
    <3>4. Present(subs, x)
      BY <3>2, <3>3
    <3>5. \A d \in BatchIds : Scanned(d, x) => d = subs[x].run
      BY <3>2, <3>4 DEF Plans
    <3>6. \A d \in BatchIds : Scanned(d, x)' => d = subs'[x].run
      BY <3>1, <3>2, <3>3, <3>5
    <3> QED BY <3>2, <3>6 DEF Scanned, BatchOf
  <2>4. call[u].pc = "commit" /\ call[u].found # 0 =>
          /\ entries'[call[u].found] # None
          /\ Present(entries', call[u].found) => entries'[call[u].found].sub = call[u].dup
    <3> SUFFICES ASSUME call[u].pc = "commit", call[u].found # 0
                 PROVE  /\ entries'[call[u].found] # None
                        /\ Present(entries', call[u].found) => entries'[call[u].found].sub = call[u].dup
      OBVIOUS
    <3>1. PICK i \in EntryIds : i = call[u].found
      BY <1>1
    <3>2. entries[i] # None /\ (Present(entries, i) => entries[i].sub = call[u].dup)
      BY <3>1 DEF Plans
    <3> QED BY <3>1, <3>2 DEF Present
  <2> QED BY <1>2, <2>1, <2>2, <2>3, <2>4 DEF Plans, Present, BatchOf, Scanned
<1> QED BY <1>3, <1>4

LEMMA IndexStep ==
  ASSUME Inv, fill' = fill, \A j \in jobs' : Present(entries, j[1])',
         \A i \in All(entries)' : i \in indexed' \/ (i \in All(entries) /\ i \notin indexed)
  PROVE  Index'
BY DEF Inv, Index, IndexGrows, JobsOfRows

\* The row of the table that a commit adds, and the ones it leaves.
LEMMA CommitSubs ==
  ASSUME Inv, NEW t \in Tabs, Commit(t), NEW s,
         s = IF call[t].dup # 0 THEN call[t].dup ELSE NextId(subs, SubIds)
  PROVE  /\ s \in SubIds /\ subs' \in [SubIds -> SubRow \cup {None, Gone}]
         /\ \A x \in SubIds : call[t].dup # 0 \/ x # s => subs'[x] = subs[x]
         /\ call[t].dup = 0 => /\ subs[s] = None /\ subs'[s] \in SubRow
                               /\ subs'[s].actress = call[t].actress
                               /\ subs'[s].done = ~rules.paged /\ subs'[s].run = 0
<1>1. subs \in [SubIds -> SubRow \cup {None, Gone}] /\ call[t] \in Calls /\ SubIds \in SUBSET Nat
  BY IdentityAssumption DEF Inv, TypedTables, TypedServer
<1>2. call[t].actress \in Actresses /\ rules.paged \in BOOLEAN
  BY DEF Inv, Requests, InSomeLine, Commit, At, TypedServer, RuleChoices
<1>3. CASE call[t].dup # 0
  <2>1. call[t].dup \in SubIds
    BY <1>1, <1>3 DEF Calls
  <2>2. subs' = subs
    BY <1>3 DEF Commit, Zero
  <2> QED BY <1>1, <1>3, <2>1, <2>2
<1>4. CASE call[t].dup = 0
  <2>1. Unused(subs) # {}
    BY <1>4 DEF Commit, Zero
  <2>2. s \in SubIds /\ subs[s] = None
    BY <1>1, <1>4, <2>1, NextIsNew
  <2>3. subs' = [subs EXCEPT ![s] = [actress |-> call[t].actress, done |-> ~rules.paged,
                                     run |-> 0, based |-> FALSE]]
    BY <1>4 DEF Commit, Zero
  <2> DEFINE r == [actress |-> call[t].actress, done |-> ~rules.paged, run |-> 0, based |-> FALSE]
  <2>4. r \in SubRow /\ r.actress = call[t].actress /\ r.done = ~rules.paged /\ r.run = 0
    BY <1>2 DEF SubRow
  <2> HIDE DEF r
  <2>5. subs' = [subs EXCEPT ![s] = r]
    BY <2>3 DEF r
  <2> QED BY <1>1, <1>4, <2>2, <2>4, <2>5
<1> QED BY <1>3, <1>4

LEMMA CommitBatches ==
  ASSUME Inv, NEW t \in Tabs, Commit(t), NEW s \in SubIds, NEW b,
         s = IF call[t].dup # 0 THEN call[t].dup ELSE NextId(subs, SubIds),
         b = IF call[t].batch = Fresh THEN NextId(batches, BatchIds) ELSE call[t].batch
  PROVE  /\ batches' \in [BatchIds -> BatchRow \cup {None}]
         /\ b \in BatchIds \cup {0} /\ (b # 0 => BatchOf(b, s)')
         /\ call[t].batch = Fresh => b \in BatchIds /\ batches[b] = None
         /\ \A d \in BatchIds, x \in SubIds :
              /\ BatchOf(d, x)' = (BatchOf(d, x) \/ (call[t].batch = Fresh /\ d = b /\ x = s))
              /\ Scanned(d, x)' = (Scanned(d, x) \/ (call[t].batch = Fresh /\ d = b /\ x = s))
<1>1. /\ batches \in [BatchIds -> BatchRow \cup {None}] /\ BatchIds \in SUBSET Nat
      /\ call[t] \in Calls /\ Plans(t) /\ call[t].pc = "commit"
  BY IdentityAssumption DEF Inv, TypedTables, TypedServer, Requests, Planned, Commit, At
<1>2. CASE call[t].batch # Fresh
  <2>1. batches' = batches /\ b = call[t].batch
    BY <1>2 DEF Commit
  <2>2. b \in BatchIds \cup {0}
    BY <1>1, <1>2, <2>1 DEF Calls
  <2>3. b # 0 => BatchOf(b, s)'
    BY <1>1, <1>2, <2>1 DEF Plans, BatchOf
  <2> QED BY <1>1, <1>2, <2>1, <2>2, <2>3 DEF BatchOf, Scanned
<1>3. CASE call[t].batch = Fresh
  <2>1. b \in BatchIds /\ batches[b] = None
    <3>1. Unused(batches) # {}
      BY <1>3 DEF Commit
    <3> QED BY <1>1, <1>3, <3>1, NextIsNew
  <2> DEFINE r == [sub |-> s, status |-> "scanning"]
  <2>2. batches' = [batches EXCEPT ![b] = r]
    BY <1>3 DEF Commit, Zero
  <2>3. r \in BatchRow /\ r.sub = s /\ r.status = "scanning"
    BY DEF BatchRow
  <2> HIDE DEF r
  <2>4. \A d \in BatchIds : batches'[d] = IF d = b THEN r ELSE batches[d]
    BY <1>1, <2>2
  <2>5. batches' \in [BatchIds -> BatchRow \cup {None}]
    BY <1>1, <2>2, <2>3
  <2>6. \A d \in BatchIds, x \in SubIds :
              /\ BatchOf(d, x)' = (BatchOf(d, x) \/ (d = b /\ x = s))
              /\ Scanned(d, x)' = (Scanned(d, x) \/ (d = b /\ x = s))
    BY <2>1, <2>3, <2>4, NoneAssumption DEF BatchOf, Scanned
  <2> QED BY <1>3, <2>1, <2>3, <2>4, <2>5, <2>6 DEF BatchOf
<1> QED BY <1>2, <1>3

\* A film is new, or was waited for by nobody.
LEMMA CommitEntries ==
  ASSUME Inv, NEW t \in Tabs, Commit(t), NEW s \in SubIds, NEW b \in BatchIds \cup {0},
         s = IF call[t].dup # 0 THEN call[t].dup ELSE NextId(subs, SubIds),
         b = IF call[t].batch = Fresh THEN NextId(batches, BatchIds) ELSE call[t].batch
  PROVE  /\ entries' \in [EntryIds -> EntryRow \cup {None, Gone}]
         /\ jobs' \subseteq EntryIds \X {"magnet", "release", "library"}
         /\ \A i \in EntryIds : entries[i] # None => entries'[i] # None
         /\ \A i \in All(entries)' : \/ i \in All(entries) /\ entries'[i].sub = entries[i].sub
                                        /\ (entries'[i].batch = entries[i].batch \/
                                            (entries'[i].batch = b /\ entries[i].sub = s))
                                     \/ entries[i] = None /\ entries'[i].sub = s
                                        /\ entries'[i].batch = b /\ i \in indexed'
         /\ indexed \subseteq indexed' /\ \A j \in jobs' : Present(entries, j[1])'
<1>1. /\ entries \in [EntryIds -> EntryRow \cup {None, Gone}] /\ EntryIds \in SUBSET Nat
      /\ call[t] \in Calls /\ Plans(t) /\ call[t].pc = "commit" /\ rules \in RuleChoices
      /\ jobs \subseteq EntryIds \X {"magnet", "release", "library"}
      /\ \A j \in jobs : Present(entries, j[1])
  BY IdentityAssumption DEF Inv, TypedTables, TypedServer, Requests, Planned, Commit, At, Index, JobsOfRows
<1>2. CASE call[t].found = 0
  <2> DEFINE e == NextId(entries, EntryIds)
             r == NewEntry(s, session[call[t].sid].code, call[t].settled, b)
             new == {<<e, k>> : k \in Wanted(call[t].settled)}
  <2>1. e \in EntryIds /\ entries[e] = None
    <3>1. Unused(entries) # {}
      BY DEF Commit
    <3> QED BY <1>1, <3>1, NextIsNew
  <2>2. entries' = [entries EXCEPT ![e] = r] /\ indexed' = indexed \cup {e} /\ jobs' = jobs \cup new
    BY <1>2 DEF Commit, Zero, WithCodes
  <2>3. r \in EntryRow /\ r.sub = s /\ r.batch = b
    <3>1. session[call[t].sid].code \in Codes
      BY <1>1 DEF Inv, Pages, OnlyKnown, Known, ResultRow
    <3>2. call[t].settled \in [magnet : States, release : States, library : States]
      BY <1>1 DEF Plans
    <3> QED BY <3>1, <3>2 DEF NewEntry, EntryRow
  <2>4. new \subseteq EntryIds \X {"magnet", "release", "library"} /\ \A j \in new : j[1] = e
    <3> HIDE DEF e
    <3> QED BY <2>1 DEF Wanted
  <2> HIDE DEF e, r, new
  <2>5. \A i \in EntryIds : entries'[i] = IF i = e THEN r ELSE entries[i]
    BY <1>1, <2>2
  <2>6. entries' \in [EntryIds -> EntryRow \cup {None, Gone}]
    BY <1>1, <2>2, <2>3
  <2>7. \A i \in EntryIds : Present(entries, i)' <=> i = e \/ Present(entries, i)
    BY <1>1, <2>1, <2>3, <2>5, <2>6, Shapes, NoneAssumption DEF Present
  <2>8. \A i \in All(entries)' : i \in EntryIds /\ (i = e \/ i \in All(entries))
    BY <1>1, <2>6, <2>7 DEF All
  <2>9. \A j \in jobs' : Present(entries, j[1])'
    BY <1>1, <2>2, <2>4, <2>7
  <2> QED BY <1>1, <2>1, <2>2, <2>3, <2>4, <2>5, <2>6, <2>8, <2>9, NoneAssumption
<1>3. CASE call[t].found # 0
  <2> DEFINE f == call[t].found
  <2>1. f \in EntryIds /\ entries[f] # None /\ call[t].dup = s
        /\ (Present(entries, f) => entries[f].sub = s)
    BY <1>1, <1>3 DEF Plans, Calls
  <2>2. UNCHANGED <<indexed, jobs>>
    BY <1>3 DEF Commit, Zero
  <2> HIDE DEF f
  <2>3. \/ entries' = entries
        \/ Present(entries, f) /\ entries' = [entries EXCEPT ![f].batch = b]
    BY <1>3 DEF Commit, Zero, f
  <2>4. CASE entries' = entries
    BY <1>1, <2>2, <2>4 DEF All, Present
  <2>5. CASE Present(entries, f) /\ entries' = [entries EXCEPT ![f].batch = b]
    <3> DEFINE r == [entries[f] EXCEPT !.batch = b]
    <3>1. entries[f] \in EntryRow
      BY <1>1, <2>1, <2>5 DEF Present
    <3>2. r \in EntryRow /\ r.sub = entries[f].sub /\ r.batch = b /\ entries' = [entries EXCEPT ![f] = r]
      BY <2>5, <3>1 DEF EntryRow
    <3> HIDE DEF r
    <3>3. \A i \in EntryIds : entries'[i] = IF i = f THEN r ELSE entries[i]
      BY <1>1, <3>2
    <3>4. entries' \in [EntryIds -> EntryRow \cup {None, Gone}]
      BY <1>1, <3>2
    <3>5. \A i \in EntryIds : Present(entries, i)' <=> Present(entries, i)
      BY <1>1, <2>1, <2>5, <3>2, <3>3, <3>4, Shapes, NoneAssumption DEF Present
    <3>6. \A i \in All(entries)' : i \in EntryIds /\ i \in All(entries)
      BY <1>1, <3>4, <3>5 DEF All
    <3>7. \A j \in jobs' : Present(entries, j[1])'
      BY <1>1, <2>2, <3>5
    <3> QED BY <1>1, <2>1, <2>2, <2>5, <3>2, <3>3, <3>4, <3>6, <3>7, NoneAssumption
  <2> QED BY <2>3, <2>4, <2>5
<1> QED BY <1>2, <1>3

LEMMA CommitStep ==
  ASSUME Inv, NEW t \in Tabs, UNCHANGED pageVars, Commit(t)
  PROVE  Inv'
<1> DEFINE c == [call[t] EXCEPT !.pc = "answer"]
           a == call[t].actress
           fresh == call[t].batch = Fresh
<1>1. /\ call[t].pc = "commit" /\ call[t] \in Calls /\ call \in [Tabs -> Calls]
      /\ tail' = tail /\ call' = [call EXCEPT ![t] = c]
      /\ UNCHANGED <<session, remembered, old, tail, fill, scan, rules>>
  BY DEF Commit, At, Go, Inv, TypedServer
<1>2. Active(t) /\ call[t].prev = None /\ Saw(t) /\ Plans(t) /\ Inside(t) /\ a \in Actresses
  BY <1>1, WorksAlone DEF Inv, Requests, LookedUp, Planned, Inside
<1>3. PICK s : s = IF call[t].dup # 0 THEN call[t].dup ELSE NextId(subs, SubIds)
  OBVIOUS
<1>4. /\ s \in SubIds /\ subs' \in [SubIds -> SubRow \cup {None, Gone}]
      /\ \A x \in SubIds : call[t].dup # 0 \/ x # s => subs'[x] = subs[x]
      /\ call[t].dup = 0 => /\ subs[s] = None /\ subs'[s] \in SubRow
                            /\ subs'[s].actress = a
                            /\ subs'[s].done = ~rules.paged /\ subs'[s].run = 0
  BY <1>3, CommitSubs
<1>5. PICK b : b = IF call[t].batch = Fresh THEN NextId(batches, BatchIds) ELSE call[t].batch
  OBVIOUS
<1>6. /\ batches' \in [BatchIds -> BatchRow \cup {None}]
      /\ b \in BatchIds \cup {0} /\ (b # 0 => BatchOf(b, s)')
      /\ fresh => b \in BatchIds /\ batches[b] = None
      /\ \A d \in BatchIds, x \in SubIds :
           /\ BatchOf(d, x)' = (BatchOf(d, x) \/ (fresh /\ d = b /\ x = s))
           /\ Scanned(d, x)' = (Scanned(d, x) \/ (fresh /\ d = b /\ x = s))
  BY <1>3, <1>4, <1>5, CommitBatches
<1>7. /\ entries' \in [EntryIds -> EntryRow \cup {None, Gone}]
      /\ jobs' \subseteq EntryIds \X {"magnet", "release", "library"}
      /\ \A i \in EntryIds : entries[i] # None => entries'[i] # None
      /\ \A i \in All(entries)' : \/ i \in All(entries) /\ entries'[i].sub = entries[i].sub
                                     /\ (entries'[i].batch = entries[i].batch \/
                                         (entries'[i].batch = b /\ entries[i].sub = s))
                                  \/ entries[i] = None /\ entries'[i].sub = s
                                     /\ entries'[i].batch = b /\ i \in indexed'
      /\ indexed \subseteq indexed' /\ \A j \in jobs' : Present(entries, j[1])'
  BY <1>3, <1>4, <1>5, <1>6, CommitEntries
<1>8. stray' = IF fresh /\ call[t].dup # 0 /\ ~StillAhead(s) THEN stray \cup {b} ELSE stray
  BY <1>3, <1>5 DEF Commit, Zero
<1>9. /\ c \in Calls /\ c.pc = "answer" /\ c.actress = a /\ c.prev = None /\ c.sid = call[t].sid
  BY <1>1, <1>2 DEF Calls
<1>10. /\ fresh <=> call[t].batch = Fresh
       /\ a = call[t].actress
  OBVIOUS
<1> HIDE DEF c, fresh, a
<1>11. \A u \in Tabs : call'[u] = IF u = t THEN c ELSE call[u]
  BY <1>1
\* The rows there were are there.
<1>12. \A x \in SubIds : subs[x] # None => subs'[x] = subs[x]
  BY <1>4
<1>13. \A x \in SubIds : subs[x] # None =>
         /\ subs'[x] # None
         /\ Present(subs, x)' => Present(subs, x) /\ subs'[x].actress = subs[x].actress
  BY <1>4, <1>12 DEF Present, Inv, TypedTables
<1>14. subs \in [SubIds -> SubRow \cup {None, Gone}]
  BY DEF Inv, TypedTables
<1>15. All(subs)' \subseteq SubIds /\ \A x \in All(subs)' : (call[t].dup = 0 /\ x = s) \/ x \in All(subs)
  <2> SUFFICES ASSUME NEW x \in All(subs)'
               PROVE  x \in SubIds /\ ((call[t].dup = 0 /\ x = s) \/ x \in All(subs))
    OBVIOUS
  <2>1. x \in SubIds /\ subs'[x] # None /\ subs'[x] # Gone
    BY <1>4 DEF All, Present
  <2> QED BY <1>4, <1>14, <2>1 DEF All, Present
<1>16. OneSubscriptionPerActress'
  <2> SUFFICES ASSUME NEW r \in All(subs)', NEW x \in All(subs)', subs'[r].actress = subs'[x].actress
               PROVE  r = x
    BY DEF OneSubscriptionPerActress
  <2>0. r \in SubIds /\ x \in SubIds
    BY <1>15
  <2>1. ASSUME call[t].dup = 0, NEW y \in SubIds, y \in All(subs), y # s PROVE subs'[y].actress # a
    <3>1. SubsOf(a) = {}
      BY <1>2, <1>10, <2>1 DEF Saw
    <3> QED BY <1>4, <2>1, <3>1 DEF SubsOf
  <2>2. CASE r \in All(subs) /\ x \in All(subs) /\ (call[t].dup # 0 \/ (r # s /\ x # s))
    BY <1>4, <2>0, <2>2 DEF Inv, Requests, OneSubscriptionPerActress
  <2>3. CASE call[t].dup = 0 /\ (r = s \/ x = s)
    BY <1>4, <1>15, <2>0, <2>1, <2>3
  <2> QED BY <1>15, <2>2, <2>3
<1>17. ASSUME NEW u \in Tabs, u # t, Inside(u) PROVE call[u].actress # a
  <2>1. Rivals(t, u) <=> call[u].actress = a
    BY <1>2, <1>10, <1>17 DEF Rivals, Active, Inside
  <2>2. call[u].prev = None
    BY <1>17, WorksAlone DEF Inside
  <2> QED BY <1>2, <1>17, <2>1, <2>2, OneWorks
<1>18. \A u \in Tabs : Saw(u)' /\ Plans(u)'
  <2> SUFFICES ASSUME NEW u \in Tabs, u # t PROVE Saw(u)' /\ Plans(u)'
    BY <1>9, <1>11, NotWorking
  <2>1. call'[u] = call[u] /\ call[u] \in Calls /\ Saw(u) /\ Plans(u)
    BY <1>1, <1>11 DEF Inv, Requests, LookedUp, Planned
  <2>2. Inside(u) /\ SubsOf(call[u].actress) = {} => SubsOf(call[u].actress)' = {}
    <3> SUFFICES ASSUME Inside(u), SubsOf(call[u].actress) = {}, NEW x \in All(subs)',
                        subs'[x].actress = call[u].actress
                 PROVE  FALSE
      BY <2>1 DEF SubsOf
    <3>1. call[u].actress # a
      BY <1>17
    <3>2. x \in SubIds /\ x \in All(subs) /\ (x # s \/ call[t].dup # 0)
      BY <1>4, <1>15, <3>1
    <3> QED BY <1>4, <3>2 DEF SubsOf
  <2>3. \A d \in BatchIds, x \in SubIds : BatchOf(d, x) => BatchOf(d, x)'
    BY <1>6
  <2>4. ASSUME NEW x \in SubIds, x = call[u].dup, Inside(u), Present(subs, x)',
               \A d \in BatchIds : Scanned(d, x) => d = subs[x].run
        PROVE  \A d \in BatchIds : Scanned(d, x)' => d = subs'[x].run
    <3>1. x # 0 /\ subs[x] # None
      BY <2>1, <2>4, IdentityAssumption DEF Saw
    <3>2. Present(subs, x) /\ subs[x].actress = call[u].actress
      BY <1>13, <2>1, <2>4, <3>1 DEF Saw
    <3>3. x # s
      <4> SUFFICES ASSUME x = s PROVE FALSE
        OBVIOUS
      <4>1. call[t].dup # 0 /\ call[t].dup = s
        BY <1>3, <1>4, <3>1
      <4>2. subs[s].actress = a
        BY <1>2, <1>10, <3>2, <4>1 DEF Saw
      <4> QED BY <1>17, <2>4, <3>2, <4>2
    <3> QED BY <1>6, <1>12, <2>4, <3>1, <3>3
  <2>5. \A i \in EntryIds : entries[i] # None =>
            /\ entries'[i] # None
            /\ Present(entries, i)' => Present(entries, i) /\ entries'[i].sub = entries[i].sub
    <3> SUFFICES ASSUME NEW i \in EntryIds, entries[i] # None, Present(entries, i)'
                 PROVE  Present(entries, i) /\ entries'[i].sub = entries[i].sub
      BY <1>7
    <3>1. i \in All(entries)'
      BY <1>7 DEF All, Present
    <3>2. i \in All(entries) /\ entries'[i].sub = entries[i].sub
      BY <1>7, <3>1
    <3> QED BY <3>2 DEF All
  <2> QED BY <1>1, <1>13, <2>1, <2>2, <2>3, <2>4, <2>5, TablesAround
<1>19. InSomeLine'
  BY <1>1, <1>2, <1>9, <1>10, <1>11, LineStays
<1>20. Requests'
  BY <1>16, <1>18, <1>19 DEF Requests, LookedUp, Planned
<1>21. TypedServer'
  BY <1>1, <1>9 DEF Inv, TypedServer
<1>22. TypedTables'
  BY <1>1, <1>4, <1>6, <1>7 DEF Inv, TypedTables
<1>23. Pages'
  <2>1. OnlyKnown'
    BY <1>1, <1>2, <1>9, <1>11 DEF Inv, Pages, pageVars, OnlyKnown, Known, Active
  <2>2. TypedPage' /\ ResultFollowsItsSearch'
    BY DEF Inv, Pages, pageVars, TypedPage, ResultFollowsItsSearch
  <2> QED BY <2>1, <2>2 DEF Pages
<1>24. Index'
  <2>1. \A i \in All(entries)' : i \in indexed' \/ (i \in All(entries) /\ i \notin indexed)
    BY <1>7
  <2> QED BY <1>1, <1>7, <2>1, IndexStep
<1>25. Batched'
  <2>0. Owned /\ RunsOwn /\ ScansOwn /\ PagedOnly /\ TakenUp /\ FilmsOwn /\ BatchIds \subseteq Nat \ {0}
    BY IdentityAssumption DEF Inv, Batched
  <2>1. \A d \in BatchIds : BatchOf(d, s) => subs[s] # None
    BY <1>4, <2>0 DEF Owned
  <2>2. Owned'
    <3>1. subs'[s] # None
      <4>1. CASE call[t].dup = 0
        BY <1>4, <4>1, NoneAssumption
      <4>2. CASE call[t].dup # 0
        BY <1>2, <1>3, <1>4, <4>2 DEF Saw
      <4> QED BY <4>1, <4>2
    <3> QED BY <1>6, <1>13, <2>0, <3>1 DEF Owned
  \* A subscription with a row has the scans and runs it had.
  <2>3. \A x \in SubIds : Present(subs, x)' => \/ Present(subs, x) /\ subs'[x] = subs[x]
                                               \/ call[t].dup = 0 /\ x = s
    BY <1>4, <1>12, <1>14 DEF Present
  <2>4. \A d \in BatchIds, x \in SubIds : BatchOf(d, x) => ~(fresh /\ d = b)
    BY <1>6, NoneAssumption DEF BatchOf
  <2>5. RunsOwn'
    <3> SUFFICES ASSUME NEW x \in SubIds, Present(subs, x)', subs'[x].run # 0
                 PROVE  /\ BatchOf(subs[x].run, x)'
                        /\ Scanned(subs[x].run, x)' => scan'[x] = subs'[x].run
      BY DEF RunsOwn
    <3>1. Present(subs, x) /\ subs'[x] = subs[x]
      BY <1>4, <2>3
    <3>2. BatchOf(subs[x].run, x) /\ (Scanned(subs[x].run, x) => scan[x] = subs[x].run)
      BY <2>0, <3>1 DEF RunsOwn
    <3>3. subs[x].run \in BatchIds
      BY <3>2 DEF BatchOf
    <3>4. PICK r \in BatchIds : r = subs[x].run
      BY <3>3
    <3>5. BatchOf(r, x)' /\ (Scanned(r, x)' => Scanned(r, x))
      BY <1>6, <2>4, <3>2, <3>4
    <3> QED BY <1>1, <3>1, <3>2, <3>4, <3>5 DEF BatchOf, Scanned
  <2>6. \A x \in SubIds : scan[x] # None => Present(subs, x) /\ subs'[x] = subs[x]
    BY <1>12, <2>0 DEF ScansOwn, Present
  \* A new batch of a subscription that is being scanned has strayed.
  <2>7. \A x \in SubIds : scan[x] # None /\ fresh /\ x = s => b \in stray'
    <3> SUFFICES ASSUME scan[s] # None, fresh PROVE b \in stray'
      BY <1>4
    <3>1. call[t].dup # 0
      BY <1>4, <2>6 DEF Present
    <3>2. ~StillAhead(s)
      BY DEF StillAhead
    <3> QED BY <1>8, <3>1, <3>2
  <2>8. stray \subseteq stray'
    BY <1>8
  <2>9. ScansOwn'
    <3> SUFFICES ASSUME NEW x \in SubIds, scan[x] # None
                 PROVE  /\ Present(subs, x)' /\ ~subs'[x].done
                        /\ IF scan[x] = Fresh
                           THEN subs'[x].run = 0 /\ \A d \in BatchIds : Scanned(d, x)' => d \in stray'
                           ELSE /\ BatchOf(scan[x], x)'
                                /\ \/ subs'[x].run = scan[x]
                                   \/ /\ subs'[x].run = 0 /\ Scanned(scan[x], x)'
                                      /\ \A d \in BatchIds \ stray' : Scanned(d, x)' => d = scan[x]
      BY <1>1 DEF ScansOwn
    <3>1. subs'[x] = subs[x] /\ Present(subs, x) /\ ~subs[x].done
      BY <2>0, <2>6 DEF ScansOwn
    <3>2. Present(subs, x)'
      BY <1>4, <1>14, <3>1 DEF Present
    <3>3. \A d \in BatchIds : Scanned(d, x)' => Scanned(d, x) \/ d \in stray'
      BY <1>6, <2>7
    <3>4. CASE scan[x] = Fresh
      <4>1. subs[x].run = 0 /\ \A d \in BatchIds : Scanned(d, x) => d \in stray
        BY <2>0, <3>4 DEF ScansOwn
      <4> QED BY <2>8, <3>1, <3>2, <3>3, <3>4, <4>1
    <3>5. CASE scan[x] # Fresh
      <4>1. /\ BatchOf(scan[x], x)
            /\ \/ subs[x].run = scan[x]
               \/ /\ subs[x].run = 0 /\ Scanned(scan[x], x)
                  /\ \A d \in BatchIds \ stray : Scanned(d, x) => d = scan[x]
        BY <2>0, <3>5 DEF ScansOwn
      <4>2. PICK r \in BatchIds : r = scan[x]
        BY <4>1 DEF BatchOf
      <4>3. BatchOf(r, x)' /\ (Scanned(r, x) => Scanned(r, x)')
        BY <1>6, <4>1, <4>2
      <4>4. BatchOf(scan[x], x)' /\ (Scanned(scan[x], x) => Scanned(scan[x], x)')
        BY <1>1, <4>2, <4>3 DEF BatchOf, Scanned
      <4> QED BY <2>8, <3>1, <3>2, <3>3, <3>5, <4>1, <4>4
    <3> QED BY <3>4, <3>5
  <2>10. PagedOnly'
    <3> SUFFICES ASSUME ~rules.paged, NEW x \in All(subs)' PROVE subs'[x].done
      BY <1>1 DEF PagedOnly
    <3>1. CASE call[t].dup = 0 /\ x = s
      BY <1>4, <3>1
    <3>2. CASE ~(call[t].dup = 0 /\ x = s)
      <4>1. x \in All(subs) /\ subs'[x] = subs[x]
        BY <1>4, <1>15, <3>2
      <4> QED BY <2>0, <4>1 DEF PagedOnly
    <3> QED BY <3>1, <3>2
  <2>11. TakenUp'
    <3> SUFFICES ASSUME NEW d \in BatchIds \ stray', NEW x \in SubIds, Scanned(d, x)', Present(subs, x)'
                 PROVE  /\ ~subs'[x].done
                        /\ subs'[x].run = d \/ (subs'[x].run = 0 /\ \A k \in BatchIds : Scanned(k, x)' => k <= d)
      BY DEF TakenUp
    <3>1. CASE Scanned(d, x)
      <4>1. subs[x] # None
        BY <2>0, <3>1 DEF Owned, Scanned
      <4>2. subs'[x] = subs[x] /\ Present(subs, x)
        BY <1>4, <2>3, <4>1
      <4>3. ~subs[x].done /\ (subs[x].run = d \/ (subs[x].run = 0 /\ \A k \in BatchIds : Scanned(k, x) => k <= d))
        BY <2>0, <2>8, <3>1, <4>2 DEF TakenUp
      <4>4. ASSUME subs[x].run = 0, fresh, x = s PROVE FALSE
        <5>1. call[t].dup # 0 /\ call[t].dup = s
          BY <1>3, <1>4, <4>1, <4>4
        <5>2. d = subs[x].run
          BY <1>1, <1>2, <1>10, <3>1, <4>2, <4>4, <5>1 DEF Plans
        <5> QED BY <2>0, <4>4, <5>2
      <4> QED BY <1>6, <4>2, <4>3, <4>4
    <3>2. CASE ~Scanned(d, x)
      <4>1. fresh /\ d = b /\ x = s
        BY <1>6, <3>2
      <4>2. \A k \in BatchIds : Scanned(k, s)' => k = b
        <5> SUFFICES ASSUME NEW k \in BatchIds, Scanned(k, s) PROVE k = b
          BY <1>4, <1>6
        <5>1. subs[s] # None
          BY <2>1 DEF Scanned
        <5>2. call[t].dup # 0 /\ call[t].dup = s
          BY <1>3, <1>4, <5>1
        <5>3. StillAhead(s)
          BY <1>8, <4>1, <5>2
        <5>4. k = subs[s].run
          BY <1>1, <1>2, <1>10, <4>1, <5>2, <5>3 DEF Plans, StillAhead
        <5> QED BY <2>0, <5>3, <5>4 DEF StillAhead, Zero
      <4>3. ~subs'[s].done /\ subs'[s].run = 0
        <5>1. CASE call[t].dup = 0
          <6>1. rules.paged
            BY <1>1, <1>2, <1>10, <4>1, <5>1 DEF Plans
          <6> QED BY <1>4, <5>1, <6>1
        <5>2. CASE call[t].dup # 0
          <6>1. StillAhead(s)
            BY <1>8, <4>1, <5>2
          <6> QED BY <1>4, <5>2, <6>1 DEF StillAhead, Zero
        <5> QED BY <5>1, <5>2
      <4> QED BY <2>0, <4>1, <4>2, <4>3
    <3> QED BY <3>1, <3>2
  <2>12. FilmsOwn'
    <3> SUFFICES ASSUME NEW i \in All(entries)', entries'[i].batch # 0
                 PROVE  BatchOf(entries[i].batch, entries[i].sub)'
      BY DEF FilmsOwn
    <3>1. CASE entries'[i].batch = b /\ entries'[i].sub = s
      BY <1>6, <3>1 DEF BatchOf
    <3>2. CASE i \in All(entries) /\ entries'[i].sub = entries[i].sub /\ entries'[i].batch = entries[i].batch
      <4>1. BatchOf(entries[i].batch, entries[i].sub)
        BY <2>0, <3>2 DEF FilmsOwn
      <4>2. entries[i].batch \in BatchIds /\ entries[i].sub \in SubIds
        BY <3>2, <4>1, PresentRows DEF BatchOf, EntryRow, Inv
      <4>3. PICK d \in BatchIds, x \in SubIds : d = entries[i].batch /\ x = entries[i].sub
        BY <4>2
      <4>4. BatchOf(d, x)'
        BY <1>6, <4>1, <4>3
      <4> QED BY <3>2, <4>3, <4>4 DEF BatchOf
    <3> QED BY <1>7, <3>1, <3>2
  <2> QED BY <2>2, <2>5, <2>9, <2>10, <2>11, <2>12 DEF Batched
<1> QED BY <1>20, <1>21, <1>22, <1>23, <1>24, <1>25 DEF Inv

\* A step on the tables that subscribes to nobody.
LEMMA TablesStep ==
  ASSUME Inv, UNCHANGED pageVars, UNCHANGED <<session, tail, call, rules>>,
         TypedTables', Index', Batched',
         \A x \in SubIds : subs[x] # None => subs'[x] # None,
         \A x \in SubIds : Present(subs, x)' => Present(subs, x) /\ subs'[x].actress = subs[x].actress,
         \A d \in BatchIds, x \in SubIds : BatchOf(d, x) => BatchOf(d, x)',
         \A x \in SubIds : Present(subs, x)' =>
            ((\A d \in BatchIds : Scanned(d, x) => d = subs[x].run) =>
               \A d \in BatchIds : Scanned(d, x)' => d = subs'[x].run),
         \A i \in EntryIds : entries[i] # None => entries'[i] # None,
         \A i \in EntryIds : entries[i] # None /\ Present(entries, i)' =>
            Present(entries, i) /\ entries'[i].sub = entries[i].sub
  PROVE  Inv'
<1>1. All(subs)' \subseteq SubIds /\ \A x \in All(subs)' : x \in All(subs) /\ subs'[x].actress = subs[x].actress
  BY DEF TypedTables, Inv, All, Present
<1>2. OneSubscriptionPerActress'
  BY <1>1 DEF Inv, Requests, OneSubscriptionPerActress
<1>3. ASSUME NEW u \in Tabs, SubsOf(call[u].actress) = {} PROVE SubsOf(call[u].actress)' = {}
  BY <1>1, <1>3 DEF SubsOf
<1>4. \A u \in Tabs : Saw(u)' /\ Plans(u)'
  <2> SUFFICES ASSUME NEW u \in Tabs PROVE Saw(u)' /\ Plans(u)'
    OBVIOUS
  <2>1. call'[u] = call[u] /\ call[u] \in Calls /\ Saw(u) /\ Plans(u)
    BY DEF Inv, TypedServer, Requests, LookedUp, Planned
  <2> QED BY <1>3, <2>1, TablesAround
<1>5. InSomeLine'
  BY LineStays
<1>6. Requests'
  BY <1>2, <1>4, <1>5 DEF Requests, LookedUp, Planned
<1>7. TypedServer'
  BY DEF Inv, TypedServer
<1> QED BY <1>6, <1>7, PagesStay DEF Inv

\* Neither the subscriptions nor the films are touched.
LEMMA ScanReadsStep ==
  ASSUME Inv, NEW s \in SubIds, UNCHANGED pageVars, ScanReads(s)
  PROVE  Inv'
<1> DEFINE n == IF subs[s].run # 0 THEN subs[s].run ELSE PendingBatch(s)
<1>1. /\ Present(subs, s) /\ ~subs[s].done /\ scan[s] = None /\ scan' = [scan EXCEPT ![s] = n]
      /\ UNCHANGED <<subs, entries, jobs, indexed, batches>>
      /\ UNCHANGED <<session, remembered, old, tail, call, fill, rules, stray>>
  BY DEF ScanReads, OnlyTables, Zero
<1>2. Batched /\ TypedTables /\ scan \in [SubIds -> BatchIds \cup {None, Fresh}]
  BY DEF Inv, TypedTables
<1>3. ScanningOf(s) = {b \in BatchIds : Scanned(b, s)} /\ (ScanningOf(s) # {} => Max(ScanningOf(s)) \in ScanningOf(s))
      /\ \A d \in ScanningOf(s) : d <= Max(ScanningOf(s))
  BY <1>2, ScanningIs, MaxIsGreatest
<1>4. \/ subs[s].run # 0 /\ n = subs[s].run /\ BatchOf(n, s)
      \/ subs[s].run = 0 /\ n = Fresh /\ \A d \in BatchIds : ~Scanned(d, s)
      \/ subs[s].run = 0 /\ Scanned(n, s) /\ \A d \in BatchIds : Scanned(d, s) => d <= n
  <2>1. CASE subs[s].run # 0
    BY <1>1, <1>2, <2>1 DEF Batched, RunsOwn
  <2>2. CASE subs[s].run = 0
    BY <1>3, <2>2 DEF PendingBatch
  <2> QED BY <2>1, <2>2
<1> HIDE DEF n
<1>5. n \in BatchIds \cup {Fresh} /\ (n = Fresh <=> n \notin BatchIds)
  BY <1>4, IdentityAssumption, NoneAssumption DEF BatchOf, Scanned
<1>6. \A x \in SubIds : scan'[x] = IF x = s THEN n ELSE scan[x]
  BY <1>1, <1>2
<1>7. TypedTables'
  BY <1>1, <1>2, <1>5 DEF TypedTables
<1>8. Batched'
  <2>1. \A d, x : BatchOf(d, x)' = BatchOf(d, x) /\ Scanned(d, x)' = Scanned(d, x)
    BY <1>1 DEF BatchOf, Scanned
  <2>2. RunsOwn'
    <3> SUFFICES ASSUME NEW x \in SubIds, Present(subs, x), subs[x].run # 0
                 PROVE  BatchOf(subs[x].run, x) /\ (Scanned(subs[x].run, x) => scan'[x] = subs[x].run)
      BY <1>1, <2>1 DEF RunsOwn, BatchOf, Scanned
    <3>1. BatchOf(subs[x].run, x) /\ (Scanned(subs[x].run, x) => scan[x] = subs[x].run)
      BY <1>2 DEF Batched, RunsOwn
    <3> QED BY <1>4, <1>6, <3>1
  <2>3. ScansOwn'
    <3> SUFFICES ASSUME NEW x \in SubIds, scan'[x] # None
                 PROVE  /\ Present(subs, x) /\ ~subs[x].done
                        /\ IF scan'[x] = Fresh
                           THEN subs[x].run = 0 /\ \A b \in BatchIds : Scanned(b, x) => b \in stray
                           ELSE /\ BatchOf(scan'[x], x)
                                /\ \/ subs[x].run = scan'[x]
                                   \/ /\ subs[x].run = 0 /\ Scanned(scan'[x], x)
                                      /\ \A b \in BatchIds \ stray : Scanned(b, x) => b = scan'[x]
      BY <1>1 DEF ScansOwn, Present, BatchOf, Scanned
    <3>1. CASE x # s
      BY <1>2, <1>6, <3>1 DEF Batched, ScansOwn
    <3>2. CASE x = s
      <4>1. scan'[x] = n
        BY <1>6, <3>2
      <4>2. CASE subs[s].run # 0 /\ n = subs[s].run /\ BatchOf(n, s)
        BY <1>1, <1>5, <3>2, <4>1, <4>2 DEF BatchOf
      <4>3. CASE subs[s].run = 0 /\ n = Fresh /\ \A d \in BatchIds : ~Scanned(d, s)
        BY <1>1, <3>2, <4>1, <4>3
      <4>4. CASE subs[s].run = 0 /\ Scanned(n, s) /\ \A d \in BatchIds : Scanned(d, s) => d <= n
        <5>1. n \in BatchIds /\ n # Fresh /\ BatchOf(n, s)
          BY <1>5, <4>4 DEF Scanned, BatchOf
        <5>2. ASSUME NEW b \in BatchIds \ stray, Scanned(b, s) PROVE b = n
          <6>1. n <= b
            BY <1>1, <1>2, <4>4, <5>1, <5>2, IdentityAssumption DEF Batched, TakenUp
          <6>2. b <= n /\ b \in Nat /\ n \in Nat
            BY <4>4, <5>1, <5>2, IdentityAssumption
          <6> QED BY <6>1, <6>2
        <5> QED BY <1>1, <3>2, <4>1, <4>4, <5>1, <5>2
      <4> QED BY <1>4, <4>2, <4>3, <4>4
    <3> QED BY <3>1, <3>2
  <2>4. Owned' /\ PagedOnly' /\ TakenUp' /\ FilmsOwn'
    BY <1>1, <1>2, <2>1 DEF Batched, Owned, PagedOnly, TakenUp, FilmsOwn, Present, BatchOf, Scanned
  <2> QED BY <2>2, <2>3, <2>4 DEF Batched
<1> QED BY <1>1, <1>7, <1>8, RequestsStay, IndexStays, PagesStay DEF Inv, TypedServer

\* The run is of the batch that was read, or of one that no row has yet.
LEMMA ScanOpensStep ==
  ASSUME Inv, NEW s \in SubIds, UNCHANGED pageVars, ScanOpens(s)
  PROVE  Inv'
<1> DEFINE fresh == scan[s] = Fresh
<1>1. PICK b : b = IF scan[s] = Fresh THEN NextId(batches, BatchIds) ELSE scan[s]
  OBVIOUS
<1>2. /\ scan[s] # None /\ Present(subs, s) /\ subs[s].run = 0
      /\ subs' = [subs EXCEPT ![s].run = b]
      /\ batches' = [batches EXCEPT ![b] = [sub |-> s, status |-> "scanning"]]
      /\ scan' = [scan EXCEPT ![s] = b]
      /\ UNCHANGED <<entries, jobs, indexed>>
      /\ UNCHANGED <<session, remembered, old, tail, call, fill, rules, stray>>
  BY <1>1 DEF ScanOpens, OnlyTables, Zero
<1>3. /\ Owned /\ RunsOwn /\ ScansOwn /\ PagedOnly /\ TakenUp /\ FilmsOwn
      /\ BatchIds \in SUBSET Nat /\ BatchIds \subseteq Nat \ {0}
      /\ batches \in [BatchIds -> BatchRow \cup {None}]
      /\ subs \in [SubIds -> SubRow \cup {None, Gone}]
      /\ scan \in [SubIds -> BatchIds \cup {None, Fresh}]
  BY IdentityAssumption DEF Inv, Batched, TypedTables
<1>4. ~subs[s].done /\ subs[s] \in SubRow
  BY <1>2, <1>3 DEF ScansOwn, Present
<1>6. /\ b \in BatchIds
      /\ fresh => batches[b] = None /\ \A d \in BatchIds : Scanned(d, s) => d \in stray
      /\ ~fresh => Scanned(b, s) /\ \A d \in BatchIds \ stray : Scanned(d, s) => d = b
  <2>1. CASE fresh
    <3>1. Unused(batches) # {}
      BY <2>1 DEF ScanOpens
    <3>2. b \in BatchIds /\ batches[b] = None
      BY <1>1, <1>3, <2>1, <3>1, NextIsNew
    <3> QED BY <1>2, <1>3, <2>1, <3>2 DEF ScansOwn
  <2>2. CASE ~fresh
    <3>1. b = scan[s] /\ b \in BatchIds
      BY <1>1, <1>2, <1>3, <2>2
    <3> QED BY <1>2, <1>3, <2>2, <3>1 DEF ScansOwn
  <2> QED BY <2>1, <2>2
<1> DEFINE r == [sub |-> s, status |-> "scanning"]
           n == [subs[s] EXCEPT !.run = b]
<1>7. r \in BatchRow /\ r.sub = s /\ r.status = "scanning" /\ batches' = [batches EXCEPT ![b] = r]
  BY <1>2 DEF BatchRow
<1>8. /\ n \in SubRow /\ n.run = b /\ n.actress = subs[s].actress /\ n.done = subs[s].done
      /\ subs' = [subs EXCEPT ![s] = n]
  BY <1>2, <1>4, <1>6 DEF SubRow
<1> HIDE DEF r, n, fresh
<1>9. /\ \A d \in BatchIds : batches'[d] = IF d = b THEN r ELSE batches[d]
      /\ \A x \in SubIds : subs'[x] = IF x = s THEN n ELSE subs[x]
      /\ \A x \in SubIds : scan'[x] = IF x = s THEN b ELSE scan[x]
  BY <1>2, <1>3, <1>7, <1>8
<1>10. \A d \in BatchIds, x \in SubIds :
         /\ BatchOf(d, x)' = (BatchOf(d, x) \/ (fresh /\ d = b /\ x = s))
         /\ Scanned(d, x)' = (Scanned(d, x) \/ (fresh /\ d = b /\ x = s))
  <2>1. \A d \in BatchIds, x \in SubIds : d # b =>
          BatchOf(d, x)' = BatchOf(d, x) /\ Scanned(d, x)' = Scanned(d, x)
    BY <1>9 DEF BatchOf, Scanned
  <2>2. \A x \in SubIds : (BatchOf(b, x)' <=> x = s) /\ (Scanned(b, x)' <=> x = s)
    BY <1>6, <1>7, <1>9 DEF BatchOf, Scanned
  <2>3. fresh => \A x \in SubIds : ~BatchOf(b, x) /\ ~Scanned(b, x)
    BY <1>6, NoneAssumption DEF BatchOf, Scanned
  <2>4. ~fresh => \A x \in SubIds : (BatchOf(b, x) <=> x = s) /\ (Scanned(b, x) <=> x = s)
    BY <1>6 DEF BatchOf, Scanned
  <2> QED BY <2>1, <2>2, <2>3, <2>4 DEF BatchOf, Scanned
<1>11. /\ \A x \in SubIds : Present(subs, x)' <=> Present(subs, x)
       /\ Present(subs, s)'
  <2>1. \A x \in SubIds : subs'[x] = subs[x] \/ (x = s /\ subs'[x] # None /\ subs'[x] # Gone)
    BY <1>8, <1>9, Shapes, NoneAssumption
  <2> QED BY <1>2, <1>3, <2>1 DEF Present
<1>12. BatchOf(b, s)' /\ b # Fresh /\ b # None
  <2>1. BatchOf(b, s)'
    BY <1>6, <1>7, <1>9 DEF BatchOf
  <2> QED BY <1>3, <1>6, <2>1, NoneAssumption
<1>13. TypedTables'
  BY <1>2, <1>3, <1>6, <1>7, <1>8 DEF Inv, TypedTables
<1>14. Index'
  BY <1>2, IndexStays DEF Inv
<1>15. Batched'
  <2>1. Owned'
    BY <1>3, <1>9, <1>10, <1>11 DEF Owned, Present
  <2>2. RunsOwn'
    <3> SUFFICES ASSUME NEW x \in SubIds, Present(subs, x)', subs'[x].run # 0
                 PROVE  BatchOf(subs[x].run, x)' /\ (Scanned(subs[x].run, x)' => scan'[x] = subs'[x].run)
      BY DEF RunsOwn
    <3>1. CASE x = s
      BY <1>8, <1>9, <1>12, <3>1 DEF BatchOf
    <3>2. CASE x # s
      <4>1. subs'[x] = subs[x] /\ scan'[x] = scan[x] /\ Present(subs, x)
        BY <1>9, <1>11, <3>2
      <4>2. BatchOf(subs[x].run, x) /\ (Scanned(subs[x].run, x) => scan[x] = subs[x].run)
        BY <1>3, <4>1 DEF RunsOwn
      <4>3. PICK d \in BatchIds : d = subs[x].run
        BY <4>2 DEF BatchOf
      <4>4. BatchOf(d, x)' /\ (Scanned(d, x)' => Scanned(d, x))
        BY <1>10, <3>2, <4>2, <4>3
      <4> QED BY <4>1, <4>2, <4>3, <4>4 DEF BatchOf, Scanned
    <3> QED BY <3>1, <3>2
  <2>3. ScansOwn'
    <3> SUFFICES ASSUME NEW x \in SubIds, scan'[x] # None
                 PROVE  /\ Present(subs, x)' /\ ~subs'[x].done
                        /\ IF scan'[x] = Fresh
                           THEN subs'[x].run = 0 /\ \A d \in BatchIds : Scanned(d, x)' => d \in stray
                           ELSE /\ BatchOf(scan[x], x)'
                                /\ \/ subs'[x].run = scan'[x]
                                   \/ /\ subs'[x].run = 0 /\ Scanned(scan[x], x)'
                                      /\ \A d \in BatchIds \ stray : Scanned(d, x)' => d = scan'[x]
      BY <1>2 DEF ScansOwn
    <3>1. CASE x = s
      <4>1. scan'[x] = b /\ subs'[x].run = b
        BY <1>8, <1>9, <3>1
      <4> QED BY <1>4, <1>8, <1>9, <1>11, <1>12, <3>1, <4>1 DEF BatchOf
    <3>2. CASE x # s
      <4>1. subs'[x] = subs[x] /\ scan'[x] = scan[x]
        BY <1>9, <3>2
      <4>2. \A d \in BatchIds : BatchOf(d, x)' = BatchOf(d, x) /\ Scanned(d, x)' = Scanned(d, x)
        BY <1>10, <3>2 DEF BatchOf, Scanned
      <4>3. BatchOf(scan[x], x)' = BatchOf(scan[x], x) /\ Scanned(scan[x], x)' = Scanned(scan[x], x)
        <5>1. CASE scan[x] \in BatchIds
          <6>1. PICK d \in BatchIds : d = scan[x]
            BY <5>1
          <6> QED BY <4>1, <4>2, <6>1 DEF BatchOf, Scanned
        <5>2. CASE scan[x] \notin BatchIds
          BY <4>1, <5>2 DEF BatchOf, Scanned
        <5> QED BY <5>1, <5>2
      <4> QED BY <1>3, <1>11, <4>1, <4>2, <4>3 DEF ScansOwn
    <3> QED BY <3>1, <3>2
  <2>4. PagedOnly'
    <3>1. \A x \in All(subs)' : x \in All(subs) /\ subs'[x].done = subs[x].done
      BY <1>8, <1>9, <1>11, <1>13 DEF All, Present, TypedTables
    <3> QED BY <1>2, <1>3, <3>1 DEF PagedOnly
  <2>5. TakenUp'
    <3> SUFFICES ASSUME NEW d \in BatchIds \ stray, NEW x \in SubIds, Scanned(d, x)', Present(subs, x)'
                 PROVE  /\ ~subs'[x].done
                        /\ subs'[x].run = d \/ (subs'[x].run = 0 /\ \A k \in BatchIds : Scanned(k, x)' => k <= d)
      BY <1>2 DEF TakenUp
    <3>1. CASE x = s
      <4>1. d = b
        BY <1>6, <1>10, <3>1
      <4> QED BY <1>4, <1>8, <1>9, <3>1, <4>1
    <3>2. CASE x # s
      BY <1>3, <1>9, <1>10, <1>11, <3>2 DEF TakenUp
    <3> QED BY <3>1, <3>2
  <2>6. FilmsOwn'
    <3> SUFFICES ASSUME NEW e \in All(entries), entries[e].batch # 0
                 PROVE  BatchOf(entries[e].batch, entries[e].sub)'
      BY <1>2 DEF FilmsOwn, All, Present
    <3>1. BatchOf(entries[e].batch, entries[e].sub) /\ entries[e].sub \in SubIds
      BY <1>3, PresentRows DEF FilmsOwn, EntryRow, Inv
    <3>2. PICK d \in BatchIds, x \in SubIds : d = entries[e].batch /\ x = entries[e].sub
      BY <3>1 DEF BatchOf
    <3> QED BY <1>2, <1>10, <3>1, <3>2 DEF BatchOf
  <2> QED BY <2>1, <2>2, <2>3, <2>4, <2>5, <2>6 DEF Batched
<1>16. \A x \in SubIds : /\ subs[x] # None => subs'[x] # None
                         /\ Present(subs, x)' => Present(subs, x) /\ subs'[x].actress = subs[x].actress
  <2>1. n # None
    BY <1>8, NoneAssumption
  <2> QED BY <1>8, <1>9, <1>11, <2>1
<1>17. \A x \in SubIds : Present(subs, x)' =>
            ((\A d \in BatchIds : Scanned(d, x) => d = subs[x].run) =>
               \A d \in BatchIds : Scanned(d, x)' => d = subs'[x].run)
  <2> SUFFICES ASSUME NEW x \in SubIds, Present(subs, x)', \A d \in BatchIds : Scanned(d, x) => d = subs[x].run,
                      NEW d \in BatchIds, Scanned(d, x)'
               PROVE  d = subs'[x].run
    OBVIOUS
  <2>1. CASE x = s
    <3>1. \A k \in BatchIds : ~Scanned(k, s)
      BY <1>2, <1>3, <2>1
    <3>2. d = b
      BY <1>10, <2>1, <3>1
    <3> QED BY <1>8, <1>9, <2>1, <3>2
  <2>2. CASE x # s
    BY <1>9, <1>10, <2>2
  <2> QED BY <2>1, <2>2
<1>18. \A i \in EntryIds : Present(entries, i)' = Present(entries, i) /\ entries'[i] = entries[i]
  BY <1>2 DEF Present
<1> QED BY <1>2, <1>10, <1>13, <1>14, <1>15, <1>16, <1>17, <1>18, TablesStep

\* The films of a subscription without a batch, and a new one, are of the run.
LEMMA ScanStoresEntries ==
  ASSUME Inv, NEW s \in SubIds, ScanStores(s), NEW b \in BatchIds, b = subs[s].run
  PROVE  /\ entries' \in [EntryIds -> EntryRow \cup {None, Gone}]
         /\ jobs' \subseteq EntryIds \X {"magnet", "release", "library"}
         /\ \A i \in EntryIds : entries[i] # None => entries'[i] # None
         /\ \A i \in All(entries)' : \/ i \in All(entries) /\ entries'[i].sub = entries[i].sub
                                        /\ (entries'[i].batch = entries[i].batch \/
                                            (entries'[i].batch = b /\ entries[i].sub = s))
                                     \/ entries[i] = None /\ entries'[i].sub = s
                                        /\ entries'[i].batch = b /\ i \in indexed'
         /\ indexed \subseteq indexed' /\ \A j \in jobs' : Present(entries, j[1])'
<1> DEFINE e == NextId(entries, EntryIds)
           Taken(i) == Present(entries, i) /\ entries[i].sub = s /\ entries[i].batch = 0 /\ ~subs[s].based
           A == [i \in EntryIds |-> IF Taken(i) THEN [entries[i] EXCEPT !.batch = b] ELSE entries[i]]
           settled == Settled([magnet |-> "pending", release |-> "pending"], rules)
           more == {<<e, k>> : k \in Wanted(settled)}
<1>1. /\ entries \in [EntryIds -> EntryRow \cup {None, Gone}] /\ EntryIds \in SUBSET Nat
      /\ rules \in RuleChoices
      /\ jobs \subseteq EntryIds \X {"magnet", "release", "library"}
      /\ \A j \in jobs : Present(entries, j[1])
  BY IdentityAssumption DEF Inv, TypedTables, TypedServer, Index, JobsOfRows
<1>2. PICK c \in Codes \cup {None} :
        LET new == c # None /\ Matches(OfSub(s), c) = {}
        IN  /\ new => Unused(entries) # {}
            /\ entries' = IF new THEN [A EXCEPT ![e] = NewEntry(s, c, settled, b)] ELSE A
            /\ indexed' = IF new THEN indexed \cup {e} ELSE indexed
            /\ jobs' = IF new THEN jobs \cup more ELSE jobs
  BY DEF ScanStores, Zero, WithCodes
<1>3. \A i \in EntryIds :
        /\ A[i] \in EntryRow \cup {None, Gone}
        /\ A[i] = None <=> entries[i] = None
        /\ A[i] = Gone <=> entries[i] = Gone
        /\ A[i] \in EntryRow => /\ entries[i] \in EntryRow /\ A[i].sub = entries[i].sub
                                /\ A[i].batch = entries[i].batch \/ (A[i].batch = b /\ entries[i].sub = s)
  <2> SUFFICES ASSUME NEW i \in EntryIds
               PROVE  /\ A[i] \in EntryRow \cup {None, Gone}
                      /\ A[i] = None <=> entries[i] = None
                      /\ A[i] = Gone <=> entries[i] = Gone
                      /\ A[i] \in EntryRow =>
                            /\ entries[i] \in EntryRow /\ A[i].sub = entries[i].sub
                            /\ A[i].batch = entries[i].batch \/ (A[i].batch = b /\ entries[i].sub = s)
    OBVIOUS
  <2>1. CASE Taken(i)
    <3>1. entries[i] \in EntryRow
      BY <1>1, <2>1 DEF Present
    <3>2. A[i] = [entries[i] EXCEPT !.batch = b]
      BY <2>1
    <3>3. A[i] \in EntryRow /\ A[i].sub = entries[i].sub /\ A[i].batch = b
      BY <3>1, <3>2 DEF EntryRow
    <3> QED BY <2>1, <3>1, <3>3, Shapes, NoneAssumption
  <2>2. CASE ~Taken(i)
    <3>1. A[i] = entries[i]
      BY <2>2
    <3> QED BY <1>1, <3>1
  <2> QED BY <2>1, <2>2
<1>4. A \in [EntryIds -> EntryRow \cup {None, Gone}]
  BY <1>3
<1>5. \A i \in EntryIds : Present(A, i) <=> Present(entries, i)
  BY <1>1, <1>3, <1>4 DEF Present
<1>6. settled \in [magnet : States, release : States, library : States]
  BY <1>1, SettledIs DEF States
<1> HIDE DEF A, settled
<1>7. CASE ~(c # None /\ Matches(OfSub(s), c) = {})
  <2>1. entries' = A /\ UNCHANGED <<indexed, jobs>>
    BY <1>2, <1>7
  <2>2. \A i \in All(entries)' : i \in All(entries) /\ A[i] \in EntryRow /\ i \in EntryIds
    BY <1>1, <1>3, <1>4, <1>5, <2>1 DEF All, Present
  <2>3. \A j \in jobs' : Present(entries, j[1])'
    BY <1>1, <1>5, <2>1 DEF Present
  <2> QED BY <1>1, <1>3, <1>4, <2>1, <2>2, <2>3
<1>8. CASE c # None /\ Matches(OfSub(s), c) = {}
  <2>1. e \in EntryIds /\ entries[e] = None
    <3>1. Unused(entries) # {}
      BY <1>2, <1>8
    <3> QED BY <1>1, <3>1, NextIsNew
  <2> DEFINE r == NewEntry(s, c, settled, b)
  <2>2. r \in EntryRow /\ r.sub = s /\ r.batch = b
    BY <1>6, <1>8 DEF NewEntry, EntryRow
  <2>3. entries' = [A EXCEPT ![e] = r] /\ indexed' = indexed \cup {e} /\ jobs' = jobs \cup more
    BY <1>2, <1>8
  <2>4. more \subseteq EntryIds \X {"magnet", "release", "library"} /\ \A j \in more : j[1] = e
    <3> HIDE DEF e
    <3> QED BY <2>1 DEF Wanted
  <2> HIDE DEF e, r, more
  <2>5. \A i \in EntryIds : entries'[i] = IF i = e THEN r ELSE A[i]
    BY <1>4, <2>3
  <2>6. entries' \in [EntryIds -> EntryRow \cup {None, Gone}]
    BY <1>4, <2>2, <2>3
  <2>7. \A i \in EntryIds : Present(entries, i)' <=> i = e \/ Present(entries, i)
    BY <1>1, <1>3, <2>1, <2>2, <2>5, <2>6, Shapes, NoneAssumption DEF Present
  <2>8. \A i \in All(entries)' : i \in EntryIds /\ (i = e \/ (i \in All(entries) /\ A[i] \in EntryRow /\ i # e))
    BY <1>1, <1>3, <2>1, <2>6, <2>7 DEF All, Present
  <2>9. \A j \in jobs' : Present(entries, j[1])'
    BY <1>1, <2>1, <2>3, <2>4, <2>7
  <2>10. \A i \in EntryIds : entries[i] # None => entries'[i] # None
    BY <1>3, <2>1, <2>5
  <2>11. jobs' \subseteq EntryIds \X {"magnet", "release", "library"} /\ indexed \subseteq indexed'
    BY <1>1, <2>3, <2>4
  <2> QED BY <1>3, <2>1, <2>2, <2>3, <2>5, <2>6, <2>8, <2>9, <2>10, <2>11
<1> QED BY <1>7, <1>8

\* The run ends and is the one the films waited for.
LEMMA ScanStoresStep ==
  ASSUME Inv, NEW s \in SubIds, UNCHANGED pageVars, ScanStores(s)
  PROVE  Inv'
<1>0. subs' = [subs EXCEPT ![s].run = 0, ![s].done = TRUE, ![s].based = TRUE]
  BY DEF ScanStores, Zero
<1>1. /\ Present(subs, s) /\ subs[s].run # 0 /\ scan[s] = subs[s].run
      /\ scan' = [scan EXCEPT ![s] = None]
      /\ UNCHANGED <<session, remembered, old, tail, call, fill, rules, stray>>
  BY DEF ScanStores, OnlyTables, Zero
<1>2. /\ Owned /\ RunsOwn /\ ScansOwn /\ PagedOnly /\ TakenUp /\ FilmsOwn
      /\ BatchIds \subseteq Nat \ {0}
      /\ batches \in [BatchIds -> BatchRow \cup {None}]
      /\ subs \in [SubIds -> SubRow \cup {None, Gone}]
      /\ scan \in [SubIds -> BatchIds \cup {None, Fresh}]
  BY IdentityAssumption DEF Inv, Batched, TypedTables
<1>3. PICK b \in BatchIds : b = subs[s].run
  BY <1>1, <1>2 DEF RunsOwn, BatchOf
<1>4. BatchOf(b, s)
  BY <1>1, <1>2, <1>3 DEF RunsOwn
<1>5. batches' = [batches EXCEPT ![b].status = "processing"]
  BY <1>3 DEF ScanStores
<1>6. /\ entries' \in [EntryIds -> EntryRow \cup {None, Gone}]
      /\ jobs' \subseteq EntryIds \X {"magnet", "release", "library"}
      /\ \A i \in EntryIds : entries[i] # None => entries'[i] # None
      /\ \A i \in All(entries)' : \/ i \in All(entries) /\ entries'[i].sub = entries[i].sub
                                     /\ (entries'[i].batch = entries[i].batch \/
                                         (entries'[i].batch = b /\ entries[i].sub = s))
                                  \/ entries[i] = None /\ entries'[i].sub = s
                                     /\ entries'[i].batch = b /\ i \in indexed'
      /\ indexed \subseteq indexed' /\ \A j \in jobs' : Present(entries, j[1])'
  BY <1>3, ScanStoresEntries
<1> DEFINE r == [batches[b] EXCEPT !.status = "processing"]
           n == [subs[s] EXCEPT !.run = 0, !.done = TRUE, !.based = TRUE]
<1>7. r \in BatchRow /\ r.sub = s /\ r.status = "processing" /\ batches' = [batches EXCEPT ![b] = r]
  BY <1>4, <1>5 DEF BatchRow, BatchOf
<1>8. /\ n \in SubRow /\ n.run = 0 /\ n.actress = subs[s].actress /\ n.done
      /\ subs' = [subs EXCEPT ![s] = n]
  <2>1. subs[s] \in SubRow
    BY <1>1, <1>2 DEF Present
  <2>2. n \in SubRow /\ n.run = 0 /\ n.actress = subs[s].actress /\ n.done
    BY <2>1 DEF SubRow
  <2>3. subs' = [subs EXCEPT ![s] = n]
    BY <1>0, <1>2
  <2> QED BY <2>2, <2>3
<1> HIDE DEF r, n
<1>9. /\ \A d \in BatchIds : batches'[d] = IF d = b THEN r ELSE batches[d]
      /\ \A x \in SubIds : subs'[x] = IF x = s THEN n ELSE subs[x]
      /\ \A x \in SubIds : scan'[x] = IF x = s THEN None ELSE scan[x]
  <2>1. \A d \in BatchIds : batches'[d] = IF d = b THEN r ELSE batches[d]
    BY <1>2, <1>7
  <2>2. \A x \in SubIds : subs'[x] = IF x = s THEN n ELSE subs[x]
    BY <1>2, <1>8
  <2>3. \A x \in SubIds : scan'[x] = IF x = s THEN None ELSE scan[x]
    BY <1>1, <1>2
  <2> QED BY <2>1, <2>2, <2>3
<1>10. \A d \in BatchIds, x \in SubIds :
         /\ BatchOf(d, x)' <=> BatchOf(d, x)
         /\ Scanned(d, x)' <=> Scanned(d, x) /\ d # b
  BY <1>4, <1>7, <1>9 DEF BatchOf, Scanned
<1>11. /\ \A x \in SubIds : Present(subs, x)' <=> Present(subs, x)
       /\ \A x \in SubIds : subs[x] # None => subs'[x] # None
       /\ \A x \in SubIds : Present(subs, x)' => subs'[x].actress = subs[x].actress
  <2>1. n # None /\ n # Gone
    BY <1>8, Shapes, NoneAssumption
  <2>2. \A x \in SubIds : subs'[x] = subs[x] \/ (x = s /\ subs'[x] = n)
    BY <1>9
  <2> QED BY <1>1, <1>2, <1>8, <2>1, <2>2 DEF Present
<1>12. TypedTables'
  <2>1. subs' \in [SubIds -> SubRow \cup {None, Gone}]
    BY <1>2, <1>8
  <2>2. batches' \in [BatchIds -> BatchRow \cup {None}]
    BY <1>2, <1>7
  <2>3. scan' \in [SubIds -> BatchIds \cup {None, Fresh}]
    BY <1>1, <1>2
  <2> QED BY <1>1, <1>6, <2>1, <2>2, <2>3 DEF Inv, TypedTables
<1>13. Index'
  <2>1. \A i \in All(entries)' : i \in indexed' \/ (i \in All(entries) /\ i \notin indexed)
    BY <1>6
  <2> QED BY <1>1, <1>6, <2>1, IndexStep
<1>14. Batched'
  <2>1. Owned'
    BY <1>2, <1>10, <1>11 DEF Owned
  <2>2. RunsOwn'
    <3> SUFFICES ASSUME NEW x \in SubIds, Present(subs, x)', subs'[x].run # 0
                 PROVE  BatchOf(subs[x].run, x)' /\ (Scanned(subs[x].run, x)' => scan'[x] = subs'[x].run)
      BY DEF RunsOwn
    <3>1. x # s /\ subs'[x] = subs[x] /\ scan'[x] = scan[x] /\ Present(subs, x)
      BY <1>8, <1>9, <1>11
    <3>2. BatchOf(subs[x].run, x) /\ (Scanned(subs[x].run, x) => scan[x] = subs[x].run)
      BY <1>2, <3>1 DEF RunsOwn
    <3>3. PICK d \in BatchIds : d = subs[x].run
      BY <3>2 DEF BatchOf
    <3>4. BatchOf(d, x)' /\ (Scanned(d, x)' => Scanned(d, x))
      BY <1>10, <3>2, <3>3
    <3> QED BY <3>1, <3>2, <3>3, <3>4 DEF BatchOf, Scanned
  <2>3. ScansOwn'
    <3> SUFFICES ASSUME NEW x \in SubIds, scan'[x] # None
                 PROVE  /\ Present(subs, x)' /\ ~subs'[x].done
                        /\ IF scan'[x] = Fresh
                           THEN subs'[x].run = 0 /\ \A d \in BatchIds : Scanned(d, x)' => d \in stray
                           ELSE /\ BatchOf(scan[x], x)'
                                /\ \/ subs'[x].run = scan'[x]
                                   \/ /\ subs'[x].run = 0 /\ Scanned(scan[x], x)'
                                      /\ \A d \in BatchIds \ stray : Scanned(d, x)' => d = scan'[x]
      BY <1>1 DEF ScansOwn
    <3>1. x # s /\ subs'[x] = subs[x] /\ scan'[x] = scan[x]
      BY <1>9
    <3>2. CASE scan[x] = Fresh
      BY <1>2, <1>10, <1>11, <3>1, <3>2 DEF ScansOwn
    <3>3. CASE scan[x] # Fresh
      <4>1. /\ BatchOf(scan[x], x) /\ ~subs[x].done /\ Present(subs, x)
            /\ \/ subs[x].run = scan[x]
               \/ /\ subs[x].run = 0 /\ Scanned(scan[x], x)
                  /\ \A d \in BatchIds \ stray : Scanned(d, x) => d = scan[x]
        BY <1>2, <3>1, <3>3 DEF ScansOwn
      <4>2. PICK k \in BatchIds : k = scan[x]
        BY <4>1 DEF BatchOf
      <4>3. k # b
        BY <1>4, <3>1, <4>1, <4>2 DEF BatchOf
      <4>4. BatchOf(k, x)' /\ (Scanned(k, x)' <=> Scanned(k, x))
        BY <1>10, <4>1, <4>2, <4>3
      <4>5. BatchOf(scan[x], x)' /\ (Scanned(scan[x], x)' <=> Scanned(scan[x], x))
        BY <3>1, <4>2, <4>4 DEF BatchOf, Scanned
      <4> QED BY <1>10, <1>11, <3>1, <3>3, <4>1, <4>5
    <3> QED BY <3>2, <3>3
  <2>4. PagedOnly'
    <3>1. \A x \in All(subs)' : x = s \/ (x \in All(subs) /\ subs'[x] = subs[x])
      BY <1>9, <1>11, <1>12 DEF All, Present, TypedTables
    <3>2. subs'[s].done
      BY <1>8, <1>9
    <3>3. rules' = rules
      BY <1>1
    <3> QED BY <1>2, <3>1, <3>2, <3>3 DEF PagedOnly
  <2>5. TakenUp'
    <3> SUFFICES ASSUME NEW d \in BatchIds \ stray, NEW x \in SubIds, Scanned(d, x)', Present(subs, x)'
                 PROVE  /\ ~subs'[x].done
                        /\ subs'[x].run = d \/ (subs'[x].run = 0 /\ \A k \in BatchIds : Scanned(k, x)' => k <= d)
      BY <1>1 DEF TakenUp
    <3>1. Scanned(d, x) /\ d # b /\ Present(subs, x)
      BY <1>10, <1>11
    <3>2. x # s
      BY <1>1, <1>2, <1>3, <3>1 DEF TakenUp
    <3> QED BY <1>2, <1>9, <1>10, <3>1, <3>2 DEF TakenUp
  <2>6. FilmsOwn'
    <3> SUFFICES ASSUME NEW i \in All(entries)', entries'[i].batch # 0
                 PROVE  BatchOf(entries[i].batch, entries[i].sub)'
      BY DEF FilmsOwn
    <3>1. CASE entries'[i].batch = b /\ entries'[i].sub = s
      BY <1>4, <1>10, <3>1 DEF BatchOf
    <3>2. CASE i \in All(entries) /\ entries'[i].sub = entries[i].sub /\ entries'[i].batch = entries[i].batch
      <4>1. BatchOf(entries[i].batch, entries[i].sub) /\ entries[i].sub \in SubIds
        BY <1>2, <3>2, PresentRows DEF FilmsOwn, EntryRow, Inv
      <4>2. PICK d \in BatchIds, x \in SubIds : d = entries[i].batch /\ x = entries[i].sub
        BY <4>1 DEF BatchOf
      <4>3. BatchOf(d, x)'
        BY <1>10, <4>1, <4>2
      <4> QED BY <3>2, <4>2, <4>3 DEF BatchOf
    <3> QED BY <1>6, <3>1, <3>2
  <2> QED BY <2>1, <2>2, <2>3, <2>4, <2>5, <2>6 DEF Batched
<1>15. \A x \in SubIds : Present(subs, x)' =>
            ((\A d \in BatchIds : Scanned(d, x) => d = subs[x].run) =>
               \A d \in BatchIds : Scanned(d, x)' => d = subs'[x].run)
  BY <1>3, <1>9, <1>10
<1>16. \A i \in EntryIds : entries[i] # None /\ Present(entries, i)' =>
          Present(entries, i) /\ entries'[i].sub = entries[i].sub
  <2> SUFFICES ASSUME NEW i \in EntryIds, entries[i] # None, Present(entries, i)'
               PROVE  Present(entries, i) /\ entries'[i].sub = entries[i].sub
    OBVIOUS
  <2>1. i \in All(entries)'
    BY <1>6 DEF All, Present
  <2>2. i \in All(entries) /\ entries'[i].sub = entries[i].sub
    BY <1>6, <2>1
  <2> QED BY <2>2 DEF All
<1> QED BY <1>1, <1>6, <1>10, <1>11, <1>12, <1>13, <1>14, <1>15, <1>16, TablesStep

\* Whatever is left of the rows of films that go.
LEMMA DeletedFilms ==
  ASSUME Inv, NEW s \in SubIds, fill' = fill, entries' = Deleted(entries, OfSub(s)),
         indexed' = indexed \ OfSub(s), jobs' = {j \in jobs : j[1] \notin OfSub(s)}
  PROVE  /\ entries' \in [EntryIds -> EntryRow \cup {None, Gone}]
         /\ jobs' \subseteq EntryIds \X {"magnet", "release", "library"}
         /\ \A i \in EntryIds : entries[i] # None => entries'[i] # None
         /\ \A i \in All(entries)' : i \in All(entries) /\ entries'[i] = entries[i]
         /\ \A i \in EntryIds : entries[i] # None /\ Present(entries, i)' =>
               Present(entries, i) /\ entries'[i].sub = entries[i].sub
         /\ Index'
<1>1. /\ entries \in [EntryIds -> EntryRow \cup {None, Gone}]
      /\ jobs \subseteq EntryIds \X {"magnet", "release", "library"} /\ Index
  BY DEF Inv, TypedTables
<1>2. \A i \in EntryIds : entries'[i] = IF i \in OfSub(s) THEN Gone ELSE entries[i]
  BY <1>1 DEF Deleted
<1>3. entries' \in [EntryIds -> EntryRow \cup {None, Gone}]
  BY <1>1 DEF Deleted
<1>4. \A i \in All(entries)' : i \in EntryIds /\ i \in All(entries) /\ i \notin OfSub(s) /\ entries'[i] = entries[i]
  BY <1>1, <1>2, <1>3 DEF All, Present
<1>5. \A i \in EntryIds : Present(entries, i)' => i \in All(entries)'
  BY <1>3 DEF All, Present
<1>6. \A i \in EntryIds : i \in All(entries) => Present(entries, i)
  BY DEF All
<1>7. \A i \in EntryIds : entries[i] # None => entries'[i] # None
  BY <1>2, Shapes
<1>8. Index'
  <2>1. \A j \in jobs' : Present(entries, j[1])'
    <3> SUFFICES ASSUME NEW j \in jobs' PROVE Present(entries, j[1])'
      OBVIOUS
    <3>1. j[1] \in EntryIds /\ Present(entries, j[1]) /\ j[1] \notin OfSub(s)
      BY <1>1 DEF Index, JobsOfRows
    <3> QED BY <1>1, <1>2, <1>3, <3>1 DEF Present
  <2>2. \A i \in All(entries)' : i \in indexed' \/ (i \in All(entries) /\ i \notin indexed)
    BY <1>4
  <2> QED BY <2>1, <2>2, IndexStep
<1>9. jobs' \subseteq EntryIds \X {"magnet", "release", "library"}
  BY <1>1
<1> QED BY <1>3, <1>4, <1>5, <1>6, <1>7, <1>8, <1>9

\* The films that are left have the batches they had.
LEMMA FilmsKeepTheirs ==
  ASSUME TypedTables, FilmsOwn, \A i \in All(entries)' : i \in All(entries) /\ entries'[i].sub = entries[i].sub
                                                         /\ entries'[i].batch = entries[i].batch,
         \A d \in BatchIds, x \in SubIds : BatchOf(d, x) => BatchOf(d, x)'
  PROVE  FilmsOwn'
<1> SUFFICES ASSUME NEW i \in All(entries)', entries'[i].batch # 0
             PROVE  BatchOf(entries[i].batch, entries[i].sub)'
  BY DEF FilmsOwn
<1>1. BatchOf(entries[i].batch, entries[i].sub) /\ entries[i].sub \in SubIds
  BY PresentRows DEF FilmsOwn, EntryRow
<1>2. PICK d \in BatchIds, x \in SubIds : d = entries[i].batch /\ x = entries[i].sub
  BY <1>1 DEF BatchOf
<1>3. BatchOf(d, x)'
  BY <1>1, <1>2
<1> QED BY <1>2, <1>3 DEF BatchOf

\* No batch of the subscription is waited for any more.
LEMMA ScanFailsStep ==
  ASSUME Inv, NEW s \in SubIds, UNCHANGED pageVars, ScanFails(s)
  PROVE  Inv'
<1>1. /\ batches' = [b \in BatchIds |-> IF b \in ScanningOf(s)
                                        THEN [batches[b] EXCEPT !.status = "scan_failed"] ELSE batches[b]]
      /\ scan' = [scan EXCEPT ![s] = None]
      /\ UNCHANGED <<subs, entries, jobs, indexed>>
      /\ UNCHANGED <<session, remembered, old, tail, call, fill, rules, stray>>
  BY DEF ScanFails, OnlyTables
<1>2. /\ Owned /\ RunsOwn /\ ScansOwn /\ PagedOnly /\ TakenUp /\ FilmsOwn /\ TypedTables
      /\ batches \in [BatchIds -> BatchRow \cup {None}]
      /\ scan \in [SubIds -> BatchIds \cup {None, Fresh}]
      /\ ScanningOf(s) = {b \in BatchIds : Scanned(b, s)}
  BY ScanningIs DEF Inv, Batched, TypedTables
<1>3. \A x \in SubIds : scan'[x] = IF x = s THEN None ELSE scan[x]
  BY <1>1, <1>2
<1>4. \A d \in BatchIds :
        \/ Scanned(d, s) /\ batches'[d] \in BatchRow /\ batches'[d].sub = s /\ batches'[d].status = "scan_failed"
        \/ ~Scanned(d, s) /\ batches'[d] = batches[d]
  <2> SUFFICES ASSUME NEW d \in BatchIds, Scanned(d, s)
               PROVE  batches'[d] \in BatchRow /\ batches'[d].sub = s /\ batches'[d].status = "scan_failed"
    BY <1>1, <1>2
  <2>1. batches'[d] = [batches[d] EXCEPT !.status = "scan_failed"] /\ batches[d] \in BatchRow /\ batches[d].sub = s
    BY <1>1, <1>2 DEF Scanned, BatchOf
  <2> QED BY <2>1 DEF BatchRow
<1>5. \A d \in BatchIds, x \in SubIds :
        /\ BatchOf(d, x)' <=> BatchOf(d, x)
        /\ Scanned(d, x)' <=> Scanned(d, x) /\ x # s
  BY <1>4 DEF BatchOf, Scanned
<1>6. TypedTables'
  <2>1. \A d \in BatchIds : batches'[d] \in BatchRow \cup {None}
    BY <1>2, <1>4
  <2>2. batches' \in [BatchIds -> BatchRow \cup {None}]
    BY <1>1, <2>1
  <2> QED BY <1>1, <1>2, <2>2 DEF TypedTables
<1>7. \A x \in SubIds : Present(subs, x)' <=> Present(subs, x)
  BY <1>1 DEF Present
<1>8. Batched'
  <2>1. Owned' /\ PagedOnly'
    BY <1>1, <1>2, <1>5 DEF Owned, PagedOnly, All, Present
  <2>2. RunsOwn'
    <3> SUFFICES ASSUME NEW x \in SubIds, Present(subs, x), subs[x].run # 0
                 PROVE  BatchOf(subs[x].run, x)' /\ (Scanned(subs[x].run, x)' => scan'[x] = subs[x].run)
      BY <1>1, <1>7 DEF RunsOwn
    <3>1. BatchOf(subs[x].run, x) /\ (Scanned(subs[x].run, x) => scan[x] = subs[x].run)
      BY <1>2 DEF RunsOwn
    <3>2. PICK d \in BatchIds : d = subs[x].run
      BY <3>1 DEF BatchOf
    <3>3. BatchOf(d, x)' /\ (Scanned(d, x)' => Scanned(d, x) /\ x # s)
      BY <1>5, <3>1, <3>2
    <3> QED BY <1>1, <1>3, <3>1, <3>2, <3>3 DEF BatchOf, Scanned
  <2>3. ScansOwn'
    <3> SUFFICES ASSUME NEW x \in SubIds, scan'[x] # None
                 PROVE  /\ Present(subs, x) /\ ~subs[x].done
                        /\ IF scan'[x] = Fresh
                           THEN subs[x].run = 0 /\ \A d \in BatchIds : Scanned(d, x)' => d \in stray
                           ELSE /\ BatchOf(scan[x], x)'
                                /\ \/ subs[x].run = scan'[x]
                                   \/ /\ subs[x].run = 0 /\ Scanned(scan[x], x)'
                                      /\ \A d \in BatchIds \ stray : Scanned(d, x)' => d = scan'[x]
      BY <1>1, <1>7 DEF ScansOwn
    <3>1. x # s /\ scan'[x] = scan[x]
      BY <1>3
    <3>2. CASE scan[x] = Fresh
      BY <1>2, <1>5, <3>1, <3>2 DEF ScansOwn
    <3>3. CASE scan[x] # Fresh
      <4>1. /\ BatchOf(scan[x], x) /\ ~subs[x].done /\ Present(subs, x)
            /\ \/ subs[x].run = scan[x]
               \/ /\ subs[x].run = 0 /\ Scanned(scan[x], x)
                  /\ \A d \in BatchIds \ stray : Scanned(d, x) => d = scan[x]
        BY <1>2, <3>1, <3>3 DEF ScansOwn
      <4>2. PICK k \in BatchIds : k = scan[x]
        BY <4>1 DEF BatchOf
      <4>3. BatchOf(k, x)' /\ (Scanned(k, x)' <=> Scanned(k, x))
        BY <1>5, <3>1, <4>1, <4>2
      <4>4. BatchOf(scan[x], x)' /\ (Scanned(scan[x], x)' <=> Scanned(scan[x], x))
        BY <3>1, <4>2, <4>3 DEF BatchOf, Scanned
      <4> QED BY <1>5, <3>1, <3>3, <4>1, <4>4
    <3> QED BY <3>2, <3>3
  <2>4. TakenUp'
    <3> SUFFICES ASSUME NEW d \in BatchIds \ stray, NEW x \in SubIds, Scanned(d, x)', Present(subs, x)
                 PROVE  /\ ~subs[x].done
                        /\ subs[x].run = d \/ (subs[x].run = 0 /\ \A k \in BatchIds : Scanned(k, x)' => k <= d)
      BY <1>1, <1>7 DEF TakenUp
    <3> QED BY <1>2, <1>5 DEF TakenUp
  <2>5. FilmsOwn'
    <3>1. \A i \in All(entries)' : i \in All(entries) /\ entries'[i].sub = entries[i].sub
                                   /\ entries'[i].batch = entries[i].batch
      BY <1>1 DEF All, Present
    <3> QED BY <1>2, <1>5, <3>1, FilmsKeepTheirs
  <2> QED BY <2>1, <2>2, <2>3, <2>4, <2>5 DEF Batched
<1>9. Index'
  BY <1>1, IndexStays DEF Inv
<1>10. /\ \A x \in SubIds : subs[x] # None => subs'[x] # None
       /\ \A x \in SubIds : Present(subs, x)' => Present(subs, x) /\ subs'[x].actress = subs[x].actress
       /\ \A x \in SubIds : subs'[x] = subs[x]
  BY <1>1, <1>7
<1>11. \A i \in EntryIds : Present(entries, i)' = Present(entries, i) /\ entries'[i] = entries[i]
  BY <1>1 DEF Present
<1> QED BY <1>1, <1>5, <1>6, <1>8, <1>9, <1>10, <1>11, TablesStep

LEMMA DeleteSubscriptionStep ==
  ASSUME Inv, NEW s \in SubIds, UNCHANGED pageVars, DeleteSubscription(s)
  PROVE  Inv'
<1>1. /\ entries' = Deleted(entries, OfSub(s)) /\ indexed' = indexed \ OfSub(s)
      /\ jobs' = {j \in jobs : j[1] \notin OfSub(s)}
      /\ subs' = Deleted(subs, {s}) /\ scan' = [scan EXCEPT ![s] = None] /\ batches' = batches
      /\ UNCHANGED <<session, remembered, old, tail, call, fill, rules, stray>>
      /\ Present(subs, s)
  BY DEF DeleteSubscription, OnlyTables
<1>2. /\ Owned /\ RunsOwn /\ ScansOwn /\ PagedOnly /\ TakenUp /\ FilmsOwn /\ TypedTables
      /\ subs \in [SubIds -> SubRow \cup {None, Gone}]
      /\ scan \in [SubIds -> BatchIds \cup {None, Fresh}]
  BY DEF Inv, Batched, TypedTables
<1>3. /\ \A x \in SubIds : scan'[x] = IF x = s THEN None ELSE scan[x]
      /\ \A x \in SubIds : subs'[x] = IF x = s THEN Gone ELSE subs[x]
  BY <1>1, <1>2 DEF Deleted
<1>4. \A d, x : (BatchOf(d, x)' <=> BatchOf(d, x)) /\ (Scanned(d, x)' <=> Scanned(d, x))
  BY <1>1 DEF BatchOf, Scanned
<1>5. /\ entries' \in [EntryIds -> EntryRow \cup {None, Gone}]
      /\ jobs' \subseteq EntryIds \X {"magnet", "release", "library"}
      /\ \A i \in EntryIds : entries[i] # None => entries'[i] # None
      /\ \A i \in All(entries)' : i \in All(entries) /\ entries'[i] = entries[i]
      /\ \A i \in EntryIds : entries[i] # None /\ Present(entries, i)' =>
            Present(entries, i) /\ entries'[i].sub = entries[i].sub
      /\ Index'
  BY <1>1, DeletedFilms
<1>6. subs' \in [SubIds -> SubRow \cup {None, Gone}]
  BY <1>1, <1>2 DEF Deleted
<1>7. TypedTables'
  <2>1. scan' \in [SubIds -> BatchIds \cup {None, Fresh}]
    BY <1>1, <1>2
  <2> QED BY <1>1, <1>2, <1>5, <1>6, <2>1 DEF TypedTables
<1>8. /\ \A x \in SubIds : Present(subs, x)' <=> Present(subs, x) /\ x # s
      /\ \A x \in SubIds : subs[x] # None => subs'[x] # None
      /\ \A x \in SubIds : Present(subs, x)' => subs'[x] = subs[x]
  BY <1>2, <1>3, <1>6, Shapes DEF Present
<1>9. Batched'
  <2>1. Owned'
    BY <1>2, <1>4, <1>8 DEF Owned
  <2>2. RunsOwn'
    <3> SUFFICES ASSUME NEW x \in SubIds, Present(subs, x)', subs'[x].run # 0
                 PROVE  BatchOf(subs[x].run, x)' /\ (Scanned(subs[x].run, x)' => scan'[x] = subs'[x].run)
      BY DEF RunsOwn
    <3>1. subs'[x] = subs[x] /\ scan'[x] = scan[x] /\ Present(subs, x)
      BY <1>3, <1>8
    <3> QED BY <1>1, <1>2, <3>1 DEF RunsOwn, BatchOf, Scanned
  <2>3. ScansOwn'
    <3> SUFFICES ASSUME NEW x \in SubIds, scan'[x] # None
                 PROVE  /\ Present(subs, x)' /\ ~subs'[x].done
                        /\ IF scan'[x] = Fresh
                           THEN subs'[x].run = 0 /\ \A d \in BatchIds : Scanned(d, x)' => d \in stray
                           ELSE /\ BatchOf(scan[x], x)'
                                /\ \/ subs'[x].run = scan'[x]
                                   \/ /\ subs'[x].run = 0 /\ Scanned(scan[x], x)'
                                      /\ \A d \in BatchIds \ stray : Scanned(d, x)' => d = scan'[x]
      BY <1>1 DEF ScansOwn
    <3>1. x # s /\ subs'[x] = subs[x] /\ scan'[x] = scan[x]
      BY <1>3
    <3>2. Present(subs, x)' /\ Present(subs, x)
      BY <1>2, <1>8, <3>1 DEF ScansOwn
    <3> QED BY <1>1, <1>2, <3>1, <3>2 DEF ScansOwn, BatchOf, Scanned
  <2>4. PagedOnly'
    <3>1. \A x \in All(subs)' : x \in All(subs) /\ subs'[x] = subs[x]
      BY <1>2, <1>6, <1>8 DEF All, Present
    <3> QED BY <1>1, <1>2, <3>1 DEF PagedOnly
  <2>5. TakenUp'
    <3> SUFFICES ASSUME NEW d \in BatchIds \ stray, NEW x \in SubIds, Scanned(d, x)', Present(subs, x)'
                 PROVE  /\ ~subs'[x].done
                        /\ subs'[x].run = d \/ (subs'[x].run = 0 /\ \A k \in BatchIds : Scanned(k, x)' => k <= d)
      BY <1>1 DEF TakenUp
    <3> QED BY <1>2, <1>4, <1>8 DEF TakenUp
  <2>6. FilmsOwn'
    BY <1>2, <1>4, <1>5, FilmsKeepTheirs
  <2> QED BY <2>1, <2>2, <2>3, <2>4, <2>5, <2>6 DEF Batched
<1>10. \A x \in SubIds : Present(subs, x)' =>
            ((\A d \in BatchIds : Scanned(d, x) => d = subs[x].run) =>
               \A d \in BatchIds : Scanned(d, x)' => d = subs'[x].run)
  BY <1>4, <1>8
<1> QED BY <1>1, <1>4, <1>5, <1>7, <1>8, <1>9, <1>10, TablesStep

\* Without a scan under way no run of the subscription is scanned for.
LEMMA ClearArchiveStep ==
  ASSUME Inv, NEW s \in SubIds, UNCHANGED pageVars, ClearArchive(s)
  PROVE  Inv'
<1>0. subs' = [subs EXCEPT ![s].done = ~rules.paged, ![s].run = 0, ![s].based = FALSE]
  BY DEF ClearArchive, Zero
<1>1. /\ entries' = Deleted(entries, OfSub(s)) /\ indexed' = indexed \ OfSub(s)
      /\ jobs' = {j \in jobs : j[1] \notin OfSub(s)}
      /\ scan' = scan /\ batches' = batches
      /\ UNCHANGED <<session, remembered, old, tail, call, fill, rules, stray>>
      /\ Present(subs, s) /\ scan[s] = None
  BY DEF ClearArchive, OnlyTables
<1>2. /\ Owned /\ RunsOwn /\ ScansOwn /\ PagedOnly /\ TakenUp /\ FilmsOwn /\ TypedTables
      /\ subs \in [SubIds -> SubRow \cup {None, Gone}] /\ BatchIds \subseteq Nat \ {0}
      /\ scan \in [SubIds -> BatchIds \cup {None, Fresh}] /\ rules.paged \in BOOLEAN
  BY IdentityAssumption DEF Inv, Batched, TypedTables, TypedServer, RuleChoices
<1> DEFINE n == [subs[s] EXCEPT !.done = ~rules.paged, !.run = 0, !.based = FALSE]
<1>3. /\ n \in SubRow /\ n.run = 0 /\ n.actress = subs[s].actress /\ n.done = ~rules.paged
      /\ subs' = [subs EXCEPT ![s] = n]
  <2>1. subs[s] \in SubRow
    BY <1>1, <1>2 DEF Present
  <2>2. n \in SubRow /\ n.run = 0 /\ n.actress = subs[s].actress /\ n.done = ~rules.paged
    BY <1>2, <2>1 DEF SubRow
  <2>3. subs' = [subs EXCEPT ![s] = n]
    BY <1>0, <1>2
  <2> QED BY <2>2, <2>3
<1> HIDE DEF n
<1>4. \A d, x : (BatchOf(d, x)' <=> BatchOf(d, x)) /\ (Scanned(d, x)' <=> Scanned(d, x))
  BY <1>1 DEF BatchOf, Scanned
<1>5. /\ entries' \in [EntryIds -> EntryRow \cup {None, Gone}]
      /\ jobs' \subseteq EntryIds \X {"magnet", "release", "library"}
      /\ \A i \in EntryIds : entries[i] # None => entries'[i] # None
      /\ \A i \in All(entries)' : i \in All(entries) /\ entries'[i] = entries[i]
      /\ \A i \in EntryIds : entries[i] # None /\ Present(entries, i)' =>
            Present(entries, i) /\ entries'[i].sub = entries[i].sub
      /\ Index'
  BY <1>1, DeletedFilms
<1>6. /\ subs' \in [SubIds -> SubRow \cup {None, Gone}]
      /\ \A x \in SubIds : subs'[x] = IF x = s THEN n ELSE subs[x]
  BY <1>2, <1>3
<1>7. TypedTables'
  BY <1>1, <1>2, <1>5, <1>6 DEF TypedTables
<1>8. /\ \A x \in SubIds : Present(subs, x)' <=> Present(subs, x)
      /\ \A x \in SubIds : subs[x] # None => subs'[x] # None
      /\ \A x \in SubIds : Present(subs, x)' => subs'[x].actress = subs[x].actress
  <2>1. n # None /\ n # Gone
    BY <1>3, Shapes, NoneAssumption
  <2>2. \A x \in SubIds : subs'[x] = subs[x] \/ (x = s /\ subs'[x] = n)
    BY <1>6
  <2> QED BY <1>1, <1>2, <1>3, <1>6, <2>1, <2>2 DEF Present
<1>9. ASSUME NEW d \in BatchIds, Scanned(d, s) PROVE d # subs[s].run
  BY <1>1, <1>2, <1>9, NoneAssumption DEF RunsOwn
<1>10. Batched'
  <2>1. Owned'
    BY <1>2, <1>4, <1>8 DEF Owned
  <2>2. RunsOwn'
    <3> SUFFICES ASSUME NEW x \in SubIds, Present(subs, x)', subs'[x].run # 0
                 PROVE  BatchOf(subs[x].run, x)' /\ (Scanned(subs[x].run, x)' => scan'[x] = subs'[x].run)
      BY DEF RunsOwn
    <3>1. x # s /\ subs'[x] = subs[x] /\ scan'[x] = scan[x] /\ Present(subs, x)
      BY <1>1, <1>3, <1>6, <1>8
    <3> QED BY <1>1, <1>2, <3>1 DEF RunsOwn, BatchOf, Scanned
  <2>3. ScansOwn'
    <3> SUFFICES ASSUME NEW x \in SubIds, scan'[x] # None
                 PROVE  /\ Present(subs, x)' /\ ~subs'[x].done
                        /\ IF scan'[x] = Fresh
                           THEN subs'[x].run = 0 /\ \A d \in BatchIds : Scanned(d, x)' => d \in stray
                           ELSE /\ BatchOf(scan[x], x)'
                                /\ \/ subs'[x].run = scan'[x]
                                   \/ /\ subs'[x].run = 0 /\ Scanned(scan[x], x)'
                                      /\ \A d \in BatchIds \ stray : Scanned(d, x)' => d = scan'[x]
      BY <1>1 DEF ScansOwn
    <3>1. x # s /\ subs'[x] = subs[x] /\ scan'[x] = scan[x]
      BY <1>1, <1>6
    <3>2. Present(subs, x)' /\ Present(subs, x)
      BY <1>2, <1>8, <3>1 DEF ScansOwn
    <3> QED BY <1>1, <1>2, <3>1, <3>2 DEF ScansOwn, BatchOf, Scanned
  <2>4. PagedOnly'
    <3>1. \A x \in All(subs)' : x = s \/ (x \in All(subs) /\ subs'[x] = subs[x])
      BY <1>2, <1>6, <1>8 DEF All, Present
    <3>2. subs'[s].done = ~rules.paged /\ rules' = rules
      BY <1>1, <1>3, <1>6
    <3> QED BY <1>2, <3>1, <3>2 DEF PagedOnly
  <2>5. TakenUp'
    <3> SUFFICES ASSUME NEW d \in BatchIds \ stray, NEW x \in SubIds, Scanned(d, x), Present(subs, x)
                 PROVE  /\ ~subs'[x].done
                        /\ subs'[x].run = d \/ (subs'[x].run = 0 /\ \A k \in BatchIds : Scanned(k, x) => k <= d)
      BY <1>1, <1>4, <1>8 DEF TakenUp
    <3>1. ~subs[x].done /\ (subs[x].run = d \/ (subs[x].run = 0 /\ \A k \in BatchIds : Scanned(k, x) => k <= d))
      BY <1>2 DEF TakenUp
    <3>2. CASE x # s
      BY <1>6, <3>1, <3>2
    <3>3. CASE x = s
      <4>1. \A k \in BatchIds : Scanned(k, x) => k <= d
        BY <1>9, <3>1, <3>3
      <4>2. rules.paged
        BY <1>1, <1>2, <3>1, <3>3, PresentRows DEF PagedOnly
      <4> QED BY <1>3, <1>6, <3>3, <4>1, <4>2
    <3> QED BY <3>2, <3>3
  <2>6. FilmsOwn'
    BY <1>2, <1>4, <1>5, FilmsKeepTheirs
  <2> QED BY <2>1, <2>2, <2>3, <2>4, <2>5, <2>6 DEF Batched
<1>11. \A x \in SubIds : Present(subs, x)' =>
            ((\A d \in BatchIds : Scanned(d, x) => d = subs[x].run) =>
               \A d \in BatchIds : Scanned(d, x)' => d = subs'[x].run)
  BY <1>4, <1>6, <1>8, <1>9
<1> QED BY <1>1, <1>4, <1>5, <1>7, <1>8, <1>10, <1>11, TablesStep

\* A film with work to do is there.
LEMMA WorkEndsStep ==
  ASSUME Inv, NEW e \in EntryIds, NEW k \in {"magnet", "release", "library"}, UNCHANGED pageVars, WorkEnds(e, k)
  PROVE  Inv'
<1>1. PICK answer \in {"found", "failed"} : entries' = [entries EXCEPT ![e][k] = answer]
  BY DEF WorkEnds
<1>2. /\ <<e, k>> \in jobs /\ jobs' = jobs \ {<<e, k>>}
      /\ UNCHANGED <<subs, indexed, batches, scan>>
      /\ UNCHANGED <<session, remembered, old, tail, call, fill, rules, stray>>
  BY DEF WorkEnds, OnlyTables
<1>3. /\ TypedTables /\ Index /\ entries \in [EntryIds -> EntryRow \cup {None, Gone}] /\ Present(entries, e)
      /\ Owned /\ RunsOwn /\ ScansOwn /\ PagedOnly /\ TakenUp /\ FilmsOwn
  BY <1>2 DEF Inv, TypedTables, Index, JobsOfRows, Batched
<1> DEFINE r == [entries[e] EXCEPT ![k] = answer]
<1>4. r \in EntryRow /\ r.sub = entries[e].sub /\ r.batch = entries[e].batch /\ entries' = [entries EXCEPT ![e] = r]
  <2>1. entries[e] \in EntryRow
    BY <1>3 DEF Present
  <2>2. k = "magnet" \/ k = "release" \/ k = "library"
    OBVIOUS
  <2>3. answer \in States
    BY DEF States
  <2>4. r \in EntryRow
    <3>1. CASE k = "magnet"
      BY <2>1, <2>3, <3>1 DEF EntryRow
    <3>2. CASE k = "release"
      BY <2>1, <2>3, <3>2 DEF EntryRow
    <3>3. CASE k = "library"
      BY <2>1, <2>3, <3>3 DEF EntryRow
    <3> QED BY <2>2, <3>1, <3>2, <3>3
  <2>5. r.sub = entries[e].sub /\ r.batch = entries[e].batch
    BY <2>1, <2>2 DEF EntryRow
  <2>6. entries' = [entries EXCEPT ![e] = r]
    BY <1>1, <1>3
  <2> QED BY <2>4, <2>5, <2>6
<1> HIDE DEF r
<1>5. \A i \in EntryIds : entries'[i] = IF i = e THEN r ELSE entries[i]
  BY <1>3, <1>4
<1>6. entries' \in [EntryIds -> EntryRow \cup {None, Gone}]
  BY <1>3, <1>4
<1>7. /\ \A i \in EntryIds : Present(entries, i)' <=> Present(entries, i)
      /\ \A i \in EntryIds : entries[i] # None => entries'[i] # None
  <2>1. r # None /\ r # Gone
    BY <1>4, Shapes, NoneAssumption
  <2>2. \A i \in EntryIds : entries'[i] = entries[i] \/ (i = e /\ entries'[i] = r)
    BY <1>5
  <2> QED BY <1>3, <1>5, <1>6, <2>1, <2>2 DEF Present
<1>8. \A i \in All(entries)' : i \in EntryIds /\ i \in All(entries)
  BY <1>3, <1>6, <1>7 DEF All
<1>9. \A i \in EntryIds : i \in All(entries) => entries'[i].sub = entries[i].sub /\ entries'[i].batch = entries[i].batch
  BY <1>4, <1>5
<1>10. TypedTables'
  BY <1>2, <1>3, <1>6 DEF TypedTables
<1>11. Index'
  <2>1. \A j \in jobs' : Present(entries, j[1])'
    BY <1>2, <1>3, <1>7 DEF TypedTables, Index, JobsOfRows
  <2>2. \A i \in All(entries)' : i \in indexed' \/ (i \in All(entries) /\ i \notin indexed)
    BY <1>2, <1>8
  <2> QED BY <1>2, <2>1, <2>2, IndexStep
<1>12. Batched'
  <2>1. Owned' /\ RunsOwn' /\ ScansOwn'
    BY <1>2, <1>3 DEF Owned, RunsOwn, ScansOwn, Present, BatchOf, Scanned
  <2>2. PagedOnly' /\ TakenUp'
    BY <1>2, <1>3 DEF PagedOnly, TakenUp, All, Present, BatchOf, Scanned
  <2>3. FilmsOwn'
    <3>1. \A d \in BatchIds, x \in SubIds : BatchOf(d, x) => BatchOf(d, x)'
      BY <1>2 DEF BatchOf
    <3> QED BY <1>3, <1>8, <1>9, <3>1, FilmsKeepTheirs
  <2> QED BY <2>1, <2>2, <2>3 DEF Batched
<1>13. /\ \A x \in SubIds : subs[x] # None => subs'[x] # None
       /\ \A x \in SubIds : Present(subs, x)' => Present(subs, x) /\ subs'[x].actress = subs[x].actress
       /\ \A d \in BatchIds, x \in SubIds : BatchOf(d, x) => BatchOf(d, x)'
       /\ \A x \in SubIds : Present(subs, x)' =>
            ((\A d \in BatchIds : Scanned(d, x) => d = subs[x].run) =>
               \A d \in BatchIds : Scanned(d, x)' => d = subs'[x].run)
  BY <1>2 DEF Present, BatchOf, Scanned
<1>14. \A i \in EntryIds : entries[i] # None /\ Present(entries, i)' =>
          Present(entries, i) /\ entries'[i].sub = entries[i].sub
  BY <1>4, <1>5, <1>7
<1> QED BY <1>2, <1>7, <1>10, <1>11, <1>12, <1>13, <1>14, TablesStep

-----------------------------------------------------------------------------
(* The index of codes is completed.                                        *)

\* A page has the next rows beyond the cursor, and some if there are any.
LEMMA PageIsNext ==
  ASSUME TypedTables, NEW cursor \in Nat, NEW target \in Nat,
         NEW beyond, beyond = {e \in All(entries) : e > cursor /\ e <= target},
         NEW page, page = PageOf(cursor, target)
  PROVE  /\ page \subseteq beyond /\ beyond \in SUBSET Nat /\ IsFiniteSet(page)
         /\ \A e \in beyond, x \in page : e <= x => e \in page
         /\ page = {} => beyond = {}
<1>1. beyond \subseteq EntryIds /\ beyond \in SUBSET Nat /\ IsFiniteSet(EntryIds)
  BY PresentRows, IdentityAssumption
<1>2. IsFiniteSet(beyond)
  BY <1>1, FS_Subset
<1>3. page = {e \in beyond : Cardinality({d \in beyond : d < e}) < Chunk}
  BY DEF PageOf
<1>4. IsFiniteSet(page) /\ page \subseteq beyond
  BY <1>2, <1>3, FS_Subset
<1>5. \A e \in beyond, x \in page : e <= x => e \in page
  <2> SUFFICES ASSUME NEW e \in beyond, NEW x \in page, e <= x PROVE e \in page
    OBVIOUS
  <2> DEFINE E == {d \in beyond : d < e}
             X == {d \in beyond : d < x}
  <2>1. E \subseteq X
    <3> SUFFICES ASSUME NEW d \in beyond, d < e PROVE d < x
      OBVIOUS
    <3>1. d \in Nat /\ e \in Nat /\ x \in Nat
      BY <1>1, <1>3
    <3> QED BY <3>1
  <2>2. X \subseteq beyond /\ Cardinality(X) < Chunk
    BY <1>3
  <2> HIDE DEF E, X
  <2>3. IsFiniteSet(X)
    BY <1>2, <2>2, FS_Subset
  <2>4. IsFiniteSet(E) /\ Cardinality(E) <= Cardinality(X)
    BY <2>1, <2>3, FS_Subset
  <2>5. Cardinality(E) \in Nat /\ Cardinality(X) \in Nat /\ Chunk \in Nat
    BY <2>3, <2>4, FS_CardinalityType, SearchAssumption
  <2>6. Cardinality(E) < Chunk
    BY <2>2, <2>4, <2>5
  <2> QED BY <1>3, <2>6 DEF E
<1>6. page = {} => beyond = {}
  <2> SUFFICES ASSUME beyond # {} PROVE page # {}
    OBVIOUS
  <2>1. PICK m \in beyond : \A x \in beyond : m <= x
    BY <1>1, LeastElement
  <2>2. {d \in beyond : d < m} = {}
    <3> SUFFICES ASSUME NEW d \in beyond, d < m PROVE FALSE
      OBVIOUS
    <3>1. d \in Nat /\ m \in Nat /\ m <= d
      BY <1>1, <2>1
    <3> QED BY <3>1
  <2>3. Cardinality({d \in beyond : d < m}) < Chunk
    <3>1. Cardinality({}) = 0 /\ Chunk > 0
      BY FS_EmptySet, SearchAssumption
    <3> QED BY <2>2, <3>1
  <2> QED BY <1>3, <2>3
<1> QED BY <1>1, <1>4, <1>5, <1>6

LEMMA FillStep ==
  ASSUME Inv, UNCHANGED pageVars, OnlyFill, IndexGrows',
         fill' \in [target : EntryIds \cup {0, None}, cursor : EntryIds \cup {0}, done : BOOLEAN]
  PROVE  Inv'
<1>1. TypedTables' /\ TypedServer'
  BY DEF Inv, TypedTables, TypedServer, OnlyFill
<1>2. Index'
  BY DEF Inv, Index, JobsOfRows, OnlyFill
<1> QED BY <1>1, <1>2, RequestsStay, BatchedStays, PagesStay DEF Inv, OnlyFill

LEMMA FillSteps ==
  ASSUME Inv, UNCHANGED pageVars, FillStarts \/ FillPage \/ FillEnds
  PROVE  Inv'
<1> DEFINE fills == [target : EntryIds \cup {0, None}, cursor : EntryIds \cup {0}, done : BOOLEAN]
<1>1. /\ TypedTables /\ IndexGrows /\ fill \in fills
      /\ All(entries) \subseteq EntryIds /\ EntryIds \in SUBSET Nat /\ IsFiniteSet(EntryIds)
  BY PresentRows, IdentityAssumption DEF Inv, TypedTables, Index
<1>0. \A e \in EntryIds \cup {0} : e \in Nat
  BY IdentityAssumption
<1>2. fill.cursor \in Nat /\ (fill.target # None => fill.target \in Nat)
  <2>1. fill.cursor \in EntryIds \cup {0} /\ (fill.target # None => fill.target \in EntryIds \cup {0})
    BY <1>1
  <2> QED BY <1>0, <2>1
<1>3. \A e \in All(entries) : e <= fill.cursor => e \in indexed
  BY <1>1 DEF IndexGrows
<1>4. CASE FillStarts
  <2>1. PICK m : m = IF All(entries) = {} THEN 0 ELSE Max(All(entries))
    OBVIOUS
  <2>2. fill' = [fill EXCEPT !.target = m] /\ UNCHANGED indexed /\ OnlyFill /\ ~fill.done
    BY <1>4, <2>1 DEF FillStarts, Zero
  <2>3. IsFiniteSet(All(entries)) /\ All(entries) \in SUBSET Nat
    BY <1>1, FS_Subset
  <2>4. m \in EntryIds \cup {0} /\ \A e \in All(entries) : e <= m
    <3>1. CASE All(entries) = {}
      BY <2>1, <3>1
    <3>2. CASE All(entries) # {}
      <4>1. m \in All(entries) /\ \A e \in All(entries) : e <= m
        BY <2>1, <2>3, <3>2, MaxIsGreatest
      <4> QED BY <1>1, <4>1
    <3> QED BY <3>1, <3>2
  <2>5. fill' \in fills /\ fill'.target = m /\ fill'.cursor = fill.cursor /\ fill'.done = fill.done
    BY <1>1, <2>2, <2>4
  <2>6. All(entries)' = All(entries)
    BY <2>2 DEF OnlyFill, All, Present
  <2>7. \A e \in All(entries) : ~(e > m)
    <3> SUFFICES ASSUME NEW e \in All(entries) PROVE ~(e > m)
      OBVIOUS
    <3>1. e \in Nat /\ m \in Nat /\ e <= m
      BY <1>0, <1>1, <2>4
    <3> QED BY <3>1
  <2>8. IndexGrows'
    BY <1>3, <2>2, <2>5, <2>6, <2>7 DEF IndexGrows
  <2> QED BY <2>2, <2>5, <2>8, FillStep
<1>5. CASE FillPage
  <2>1. PICK page : page = PageOf(fill.cursor, fill.target)
    OBVIOUS
  <2>2. PICK beyond : beyond = {e \in All(entries) : e > fill.cursor /\ e <= fill.target}
    OBVIOUS
  <2>3. PICK m : m = IF page = {} THEN fill.target ELSE Max(page)
    OBVIOUS
  <2>4. /\ fill.target \in Nat /\ fill.target # None
        /\ indexed' = indexed \cup page /\ fill' = [fill EXCEPT !.cursor = m] /\ OnlyFill
    BY <1>2, <1>5, <2>1, <2>3 DEF FillPage, CursorAfter
  <2>5. /\ page \subseteq beyond /\ beyond \in SUBSET Nat /\ IsFiniteSet(page)
        /\ \A e \in beyond, x \in page : e <= x => e \in page
        /\ page = {} => beyond = {}
    BY <1>1, <1>2, <2>1, <2>2, <2>4, PageIsNext
  <2>6. m \in EntryIds \cup {0} /\ m <= fill.target /\ (page # {} => m \in page)
    <3>1. CASE page = {}
      BY <1>1, <2>3, <2>4, <3>1
    <3>2. CASE page # {}
      <4>1. m \in page
        BY <2>3, <2>5, <3>2, MaxIsGreatest
      <4> QED BY <1>1, <2>2, <2>5, <4>1
    <3> QED BY <3>1, <3>2
  <2>7. All(entries)' = All(entries)
    BY <2>4 DEF OnlyFill, All, Present
  <2>8. fill' \in fills /\ fill'.target = fill.target /\ fill'.cursor = m /\ fill'.done = fill.done
    BY <1>1, <2>4, <2>6
  <2>9. ASSUME NEW e \in All(entries), e <= m PROVE e \in indexed \cup page
    <3>1. e \in Nat /\ m \in Nat
      BY <1>0, <1>1, <2>6
    <3>2. CASE e <= fill.cursor
      BY <1>3, <3>2
    <3>3. CASE ~(e <= fill.cursor)
      <4>1. e > fill.cursor /\ e <= fill.target
        BY <1>2, <2>4, <2>6, <2>9, <3>1, <3>3
      <4>2. e \in beyond
        BY <2>2, <4>1
      <4> QED BY <2>5, <2>6, <2>9, <4>2
    <3> QED BY <3>2, <3>3
  <2>10. IndexGrows'
    BY <1>1, <2>4, <2>7, <2>8, <2>9 DEF IndexGrows
  <2> QED BY <2>4, <2>8, <2>10, FillStep
<1>6. CASE FillEnds
  <2>1. /\ fill.target # None /\ fill.target \in Nat /\ fill.cursor >= fill.target
        /\ fill' = [fill EXCEPT !.done = TRUE] /\ UNCHANGED indexed /\ OnlyFill
    BY <1>2, <1>6 DEF FillEnds
  <2>2. fill' \in fills /\ fill'.target = fill.target /\ fill'.cursor = fill.cursor
    BY <1>1, <2>1
  <2>3. All(entries)' = All(entries)
    BY <2>1 DEF OnlyFill, All, Present
  <2>4. All(entries) \subseteq indexed
    <3> SUFFICES ASSUME NEW e \in All(entries) PROVE e \in indexed
      OBVIOUS
    <3>1. e \in Nat
      BY <1>1
    <3>2. e <= fill.cursor \/ e > fill.target
      BY <1>2, <2>1, <3>1
    <3> QED BY <1>1, <2>1, <3>2 DEF IndexGrows
  <2>5. IndexGrows'
    BY <2>1, <2>2, <2>3, <2>4 DEF IndexGrows
  <2> QED BY <2>1, <2>2, <2>5, FillStep
<1> QED BY <1>4, <1>5, <1>6

-----------------------------------------------------------------------------
(* What else goes on.                                                      *)

\* Whether magnets are looked for; what is paged stays.
LEMMA RulesChangeStep ==
  ASSUME Inv, UNCHANGED pageVars, RulesChange
  PROVE  Inv'
<1>1. /\ rules' = [rules EXCEPT !.magnet = ~@] /\ rules \in RuleChoices
      /\ UNCHANGED <<session, remembered, old, tail, call, subs, entries, jobs, indexed, fill,
                     batches, scan, stray>>
  BY DEF RulesChange, Inv, TypedServer
<1>2. rules' \in RuleChoices /\ rules'.paged = rules.paged
  BY <1>1 DEF RuleChoices
<1>3. TypedServer' /\ TypedTables'
  BY <1>1, <1>2 DEF Inv, TypedServer, TypedTables
<1>4. InSomeLine'
  BY <1>1, LineStays
<1>5. LookedUp' /\ OneSubscriptionPerActress'
  BY <1>1 DEF Inv, Requests, LookedUp, Saw, Inside, SubsOf, All, Present, OneSubscriptionPerActress
<1>6. Planned'
  BY <1>1, <1>2 DEF Inv, Requests, Planned, Plans, Inside, BatchOf, Scanned, Present
<1>7. Index'
  BY <1>1, IndexStays DEF Inv
<1>8. Batched'
  <2>1. Owned' /\ RunsOwn' /\ ScansOwn'
    BY <1>1 DEF Inv, Batched, Owned, RunsOwn, ScansOwn, BatchOf, Scanned, Present
  <2>2. PagedOnly' /\ TakenUp' /\ FilmsOwn'
    BY <1>1, <1>2 DEF Inv, Batched, PagedOnly, TakenUp, FilmsOwn, BatchOf, Scanned, All, Present
  <2> QED BY <2>1, <2>2 DEF Batched
<1>9. Pages'
  BY <1>1, PagesStay DEF Inv
<1> QED BY <1>3, <1>4, <1>5, <1>6, <1>7, <1>8, <1>9 DEF Inv, Requests

\* What is remembered, and how old it is, is not looked at.
LEMMA RememberedStep ==
  ASSUME Inv, UNCHANGED pageVars,
         UNCHANGED <<session, tail, call, subs, entries, jobs, indexed, fill, batches, scan, rules, stray>>
  PROVE  Inv'
<1>1. session' \in [SessionIds -> ResultRow \cup {None}]
  BY DEF Inv, TypedServer
<1>2. Pages'
  BY PagesStay DEF Inv
<1> QED BY <1>1, <1>2, SessionsOnlyStep

\* Nobody is in line, and no tab waits for a magnet.
LEMMA RestartStep ==
  ASSUME Inv, Restart
  PROVE  Inv'
<1>1. /\ tail' = [a \in Actresses |-> None] /\ call' = [t \in Tabs |-> NoCall]
      /\ fill' = [fill EXCEPT !.target = None]
      /\ UNCHANGED <<session, old, subs, entries, jobs, indexed, batches, scan, rules, stray>>
      /\ search' = [t \in Tabs |-> None] /\ lookups' = {} /\ loads' = [t \in Tabs |-> NoLoad]
      /\ local' = local
      /\ shown' = [t \in Tabs |-> IF \E l \in lookups : l.tab = t /\ SameSearch(l)
                                  THEN [shown[t] EXCEPT !.magnet = "failed"] ELSE shown[t]]
  BY DEF Restart, ServerRestarts
<1>2. TypedPage /\ OnlyKnown /\ ResultFollowsItsSearch
  BY DEF Inv, Pages
<1>3. TypedServer'
  BY <1>1, Shapes DEF Inv, TypedServer
<1>4. /\ fill \in [target : EntryIds \cup {0, None}, cursor : EntryIds \cup {0}, done : BOOLEAN]
      /\ fill' \in [target : EntryIds \cup {0, None}, cursor : EntryIds \cup {0}, done : BOOLEAN]
      /\ fill'.target = None /\ fill'.cursor = fill.cursor /\ fill'.done = fill.done
  <2>1. fill \in [target : EntryIds \cup {0, None}, cursor : EntryIds \cup {0}, done : BOOLEAN]
    BY DEF Inv, TypedTables
  <2> QED BY <1>1, <2>1
<1>5. TypedTables'
  BY <1>1, <1>4 DEF Inv, TypedTables
<1>6. Pages'
  <2>1. \A t \in Tabs : shown'[t] \in Shown /\ shown'[t].sid = shown[t].sid /\ shown'[t].of = shown[t].of
    <3> SUFFICES ASSUME NEW t \in Tabs
                 PROVE  shown'[t] \in Shown /\ shown'[t].sid = shown[t].sid /\ shown'[t].of = shown[t].of
      OBVIOUS
    <3>1. shown'[t] = shown[t] \/ shown'[t] = [shown[t] EXCEPT !.magnet = "failed"]
      BY <1>1
    <3>2. shown[t] \in Shown
      BY <1>2 DEF TypedPage
    <3> QED BY <3>1, <3>2 DEF Shown, States
  <2>2. TypedPage'
    <3>1. shown' \in [Tabs -> Shown]
      BY <1>1, <2>1
    <3> QED BY <1>1, <1>2, <3>1, FS_EmptySet DEF TypedPage
  <2>3. \A t \in Tabs : call'[t].pc = "idle"
    BY <1>1, Shapes
  <2>4. OnlyKnown'
    BY <1>1, <1>2, <2>1, <2>3 DEF OnlyKnown, Known
  <2>5. ResultFollowsItsSearch'
    <3> SUFFICES ASSUME NEW t \in Tabs, shown'[t].sid # 0
                 PROVE  shown'[t].of = shown'[t].sid /\ shown'[t].magnet # "pending"
      BY DEF ResultFollowsItsSearch, Zero
    <3>1. shown[t].sid # 0 /\ shown[t].of = shown[t].sid
      BY <1>2, <2>1 DEF ResultFollowsItsSearch, Zero
    <3>2. CASE \E l \in lookups : l.tab = t /\ SameSearch(l)
      <4>1. shown'[t] = [shown[t] EXCEPT !.magnet = "failed"] /\ shown[t] \in Shown
        BY <1>1, <1>2, <3>2 DEF TypedPage
      <4>2. shown'[t].magnet = "failed"
        BY <4>1 DEF Shown
      <4> QED BY <2>1, <3>1, <4>2
    <3>3. CASE ~\E l \in lookups : l.tab = t /\ SameSearch(l)
      <4>1. shown'[t] = shown[t]
        BY <1>1, <3>3
      <4>2. shown[t].magnet # "pending"
        BY <1>2, <3>1, <3>3 DEF ResultFollowsItsSearch, Zero, SameSearch
      <4> QED BY <3>1, <4>1, <4>2
    <3> QED BY <3>2, <3>3
  <2> QED BY <2>2, <2>4, <2>5 DEF Pages
<1>7. Requests'
  <2>1. \A t \in Tabs : ~Active(t)' /\ ~Inside(t)' /\ call'[t].pc = "idle" /\ call'[t].prev = None
    BY <1>1, Shapes DEF Active, Inside
  <2>2. PICK rank \in [Tabs -> Nat] : rank = [t \in Tabs |-> 0]
    <3>1. [t \in Tabs |-> 0] \in [Tabs -> Nat]
      OBVIOUS
    <3> QED BY <3>1
  <2>3. InLine(rank)'
    BY <1>1, <2>1 DEF InLine, Rivals
  <2>4. InSomeLine'
    BY <2>1, <2>3 DEF InSomeLine
  <2>5. LookedUp' /\ Planned'
    BY <2>1 DEF LookedUp, Saw, Planned, Plans, Inside
  <2>6. OneSubscriptionPerActress'
    BY <1>1 DEF Inv, Requests, OneSubscriptionPerActress, All, Present
  <2> QED BY <2>4, <2>5, <2>6 DEF Requests
<1>8. Index'
  <2>1. JobsOfRows'
    BY <1>1 DEF Inv, Index, JobsOfRows, Present
  <2>2. All(entries)' = All(entries) /\ indexed' = indexed
    BY <1>1 DEF All, Present
  <2>3. IndexGrows'
    BY <1>4, <2>2 DEF Inv, Index, IndexGrows
  <2> QED BY <2>1, <2>3 DEF Index
<1>9. Batched'
  BY <1>1, BatchedStays DEF Inv
<1> QED BY <1>3, <1>5, <1>6, <1>7, <1>8, <1>9 DEF Inv

-----------------------------------------------------------------------------
(* Every step.                                                             *)

LEMMA UserActsInv ==
  ASSUME Inv, UserActs
  PROVE  Inv'
<1>1. ASSUME NEW t \in Tabs, NEW c \in Codes, RunSearch(t, c) PROVE Inv'
  BY <1>1, RunSearchStep
<1>2. ASSUME NEW t \in Tabs, Retry(t) PROVE Inv'
  BY <1>2, RetryStep
<1>3. ASSUME NEW t \in Tabs, NEW e \in EntryIds, LoadPerformers(t, e) PROVE Inv'
  BY <1>3, LoadPerformersStep
<1>4. ASSUME UNCHANGED pageVars, NEW t \in Tabs, NEW sid \in OnScreen(t), SubscriptionRefused(t, sid) PROVE Inv'
  BY <1>4, RememberedStep DEF SubscriptionRefused
<1>5. ASSUME UNCHANGED pageVars, NEW t \in Tabs, NEW sid \in OnScreen(t), NEW a \in Actresses,
             AskSubscription(t, sid, a)
      PROVE  Inv'
  BY <1>5, AskSubscriptionStep
<1> QED BY <1>1, <1>2, <1>3, <1>4, <1>5 DEF UserActs

LEMMA AnswersInv ==
  ASSUME Inv, Answers
  PROVE  Inv'
<1>1. ASSUME NEW t \in Tabs, ArchiveAnswers(t) PROVE Inv'
  BY <1>1, ArchiveAnswersStep
<1>2. ASSUME NEW t \in Tabs, SiteFinds(t) PROVE Inv'
  BY <1>2, SiteFindsStep
<1>3. ASSUME NEW t \in Tabs, SiteFails(t) PROVE Inv'
  BY <1>3, SiteFailsStep
<1>4. ASSUME NEW t \in Tabs, PerformersRead(t) PROVE Inv'
  BY <1>4, PerformersReadStep
<1>5. ASSUME NEW t \in Tabs, PerformersFail(t) PROVE Inv'
  BY <1>5, PerformersFailStep
<1>6. ASSUME NEW l \in lookups, Settles(l) \/ MagnetRead(l) PROVE Inv'
  BY <1>6, SettlesStep
<1> QED BY <1>1, <1>2, <1>3, <1>4, <1>5, <1>6 DEF Answers

LEMMA SubscribesInv ==
  ASSUME Inv, Subscribes
  PROVE  Inv'
<1>1. PICK t \in Tabs : SubscriptionStep(t) /\ UNCHANGED pageVars
  BY DEF Subscribes
<1>2. CASE NameRead(t)
  BY <1>1, <1>2, NameReadStep
<1>3. CASE NameFails(t)
  BY <1>1, <1>3, NameFailsStep
<1>4. CASE Look(t)
  BY <1>1, <1>4, LookStep
<1>5. CASE Plan(t)
  BY <1>1, <1>5, PlanStep
<1>6. CASE Match(t)
  BY <1>1, <1>6, MatchStep
<1>7. CASE Commit(t)
  BY <1>1, <1>7, CommitStep
<1>8. CASE Answer(t)
  BY <1>1, <1>8, AnswerStep
<1> QED BY <1>1, <1>2, <1>3, <1>4, <1>5, <1>6, <1>7, <1>8 DEF SubscriptionStep

LEMMA AroundInv ==
  ASSUME Inv, Around
  PROVE  Inv'
<1>0. UNCHANGED pageVars
  BY DEF Around
<1>1. CASE FillStarts \/ FillPage \/ FillEnds
  BY <1>0, <1>1, FillSteps
<1>2. ASSUME NEW s \in SubIds, ScanReads(s) PROVE Inv'
  BY <1>0, <1>2, ScanReadsStep
<1>3. ASSUME NEW s \in SubIds, ScanOpens(s) PROVE Inv'
  BY <1>0, <1>3, ScanOpensStep
<1>4. ASSUME NEW s \in SubIds, ScanStores(s) PROVE Inv'
  BY <1>0, <1>4, ScanStoresStep
<1>5. ASSUME NEW s \in SubIds, ScanFails(s) PROVE Inv'
  BY <1>0, <1>5, ScanFailsStep
<1>6. ASSUME NEW s \in SubIds, DeleteSubscription(s) PROVE Inv'
  BY <1>0, <1>6, DeleteSubscriptionStep
<1>7. ASSUME NEW s \in SubIds, ClearArchive(s) PROVE Inv'
  BY <1>0, <1>7, ClearArchiveStep
<1>8. ASSUME NEW e \in EntryIds, NEW k \in {"magnet", "release", "library"}, WorkEnds(e, k) PROVE Inv'
  BY <1>0, <1>8, WorkEndsStep
<1>9. ASSUME NEW sid \in SessionIds, Age(sid) PROVE Inv'
  BY <1>0, <1>9, RememberedStep DEF Age
<1>10. ASSUME NEW t \in Tabs, SubscriptionFails(t) PROVE Inv'
  BY <1>0, <1>10, SubscriptionFailsStep
<1>11. CASE RulesChange
  BY <1>0, <1>11, RulesChangeStep
<1> QED BY <1>1, <1>2, <1>3, <1>4, <1>5, <1>6, <1>7, <1>8, <1>9, <1>10, <1>11 DEF Around

LEMMA NextInv == Inv /\ [Next]_vars => Inv'
<1> SUFFICES ASSUME Inv, [Next]_vars PROVE Inv'
  OBVIOUS
<1>1. CASE UNCHANGED vars
  <2>1. UNCHANGED pageVars /\ UNCHANGED serverVars
    BY <1>1 DEF vars, pageVars, serverVars
  <2> QED BY <2>1, RememberedStep DEF serverVars
<1>2. CASE Restart
  BY <1>2, RestartStep
<1> QED BY <1>1, <1>2, UserActsInv, AnswersInv, SubscribesInv, AroundInv DEF Next

LEMMA SpecInv == Spec => []Inv
<1> QED BY InitInv, NextInv, PTL DEF Spec

-----------------------------------------------------------------------------
(* The theorems.                                                           *)

\* The server's tables and requests and the page keep their types, and whatever
\* names a result names one that was given (code-search.ts, App.tsx).
THEOREM TypeCorrect == Spec => [](TypedServer /\ TypedTables /\ TypedPage /\ OnlyKnown)
<1>1. Inv => TypedServer /\ TypedTables /\ TypedPage /\ OnlyKnown
  BY DEF Inv, Pages
<1> QED BY <1>1, SpecInv, PTL

\* However many tabs ask for her at once, fail, and are overtaken by restarts,
\* an actress is subscribed to once (code-search.ts:63).
THEOREM OneSubscriptionForHer == Spec => []OneSubscriptionPerActress
<1>1. Inv => OneSubscriptionPerActress
  BY DEF Inv, Requests
<1> QED BY <1>1, SpecInv, PTL

\* Behind a request that is over nobody waits, and the lock is there as long
\* as a request is in it (code-search.ts:69-72).
THEOREM NobodyWaitsForTheGone == Spec => []WaitsForTheLiving
<1>1. Inv => WaitsForTheLiving
  <2> SUFFICES ASSUME Inv PROVE WaitsForTheLiving
    OBVIOUS
  <2>1. PICK rank \in [Tabs -> Nat] : InLine(rank)
    BY DEF Inv, Requests, InSomeLine
  <2> QED BY <2>1 DEF InLine, Rivals, Active, WaitsForTheLiving
<1> QED BY <1>1, SpecInv, PTL

\* A film waits for the batch that the next scan of its subscription runs
\* (code-search.ts:220), whatever scans, deletions and requests come between.
THEOREM NoFilmWaitsInVain == Spec => []BatchIsScanned
<1>1. Inv => BatchIsScanned
  <2> SUFFICES ASSUME Inv, NEW e \in All(entries), entries[e].batch # 0, entries[e].batch \notin stray,
                      Present(subs, entries[e].sub), batches[entries[e].batch].status = "scanning"
               PROVE  /\ ~subs[entries[e].sub].done
                      /\ \/ subs[entries[e].sub].run = entries[e].batch
                         \/ /\ subs[entries[e].sub].run = 0
                            /\ \A d \in ScanningOf(entries[e].sub) : d <= entries[e].batch
    BY DEF BatchIsScanned, Zero
  <2>1. TakenUp /\ FilmsOwn /\ TypedTables
    BY DEF Inv, Batched
  <2>2. entries[e].sub \in SubIds /\ BatchOf(entries[e].batch, entries[e].sub)
    BY <2>1, PresentRows DEF FilmsOwn, EntryRow
  <2>3. Scanned(entries[e].batch, entries[e].sub) /\ entries[e].batch \in BatchIds
    BY <2>2 DEF Scanned, BatchOf
  <2>4. ScanningOf(entries[e].sub) = {d \in BatchIds : Scanned(d, entries[e].sub)}
    BY <2>1, ScanningIs
  <2> QED BY <2>1, <2>2, <2>3, <2>4 DEF TakenUp
<1> QED BY <1>1, SpecInv, PTL

\* When the look through the texts is given up the index has every film
\* (archive-code-index.ts:60).
THEOREM IndexCanBeTrusted == Spec => []IndexIsWhole
<1>1. Inv => IndexIsWhole
  BY DEF Inv, Index, IndexGrows, IndexIsWhole
<1> QED BY <1>1, SpecInv, PTL

\* A tab shows the magnet of its own result, and no lookup that nobody answers
\* (App.tsx:947, 958).
THEOREM MagnetOfItsOwnResult == Spec => []ResultFollowsItsSearch
<1>1. Inv => ResultFollowsItsSearch
  BY DEF Inv, Pages
<1> QED BY <1>1, SpecInv, PTL
=============================================================================
