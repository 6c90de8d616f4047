---------------------------- MODULE FullScanProofs ----------------------------
(***************************************************************************)
(* Theorems about FullScan for any number of pages, batches, rows in a     *)
(* slice and disturbances.  They need Disciplined: no scan outlives the    *)
(* ten minutes of the sweep, or one web executor serves the subscription.  *)
(***************************************************************************)
EXTENDS FullScan, WellFoundedInduction, FiniteSetTheorems, TLAPS

Disciplined == ~OverrunAllowed \/ \A s, t \in Scanners : s = t

-----------------------------------------------------------------------------
(* Sets of natural numbers.                                                *)

\* A set of natural numbers has a least element: the library's theorem about
\* well-founded relations is about sets, which the provers can instantiate.
LEMMA LeastElement ==
  ASSUME NEW S \in SUBSET Nat, S # {}
  PROVE  \E m \in S : \A n \in S : m <= n
<1> DEFINE Less == OpToRel(<, Nat)
<1>1. IsWellFoundedOn(Less, Nat)
  BY NatLessThanWellFounded
<1>2. \A m, n \in Nat : n < m => <<n, m>> \in Less
  BY DEF OpToRel
<1> HIDE DEF Less
<1>3. PICK m \in S : \A n \in S : ~(<<n, m>> \in Less)
  BY <1>1, WFMin
<1>4. \A n \in S : ~(n < m)
  BY <1>2, <1>3
<1>5. \A n \in S : m <= n
  BY <1>4
<1> QED BY <1>5

\* A bounded one has a greatest.
LEMMA GreatestElement ==
  ASSUME NEW S \in SUBSET Nat, S # {}, NEW b \in Nat, \A n \in S : n <= b
  PROVE  \E m \in S : \A n \in S : n <= m
<1> DEFINE T == {t \in Nat : b - t \in S}
<1>1. T # {}
  <2>1. PICK n \in S : TRUE
    OBVIOUS
  <2>2. b - n \in Nat /\ b - (b - n) = n
    OBVIOUS
  <2> QED BY <2>2
<1>2. PICK t \in T : \A u \in T : t <= u
  <2>1. T \in SUBSET Nat
    OBVIOUS
  <2> HIDE DEF T
  <2> QED BY <1>1, <2>1, LeastElement
<1>3. \A n \in S : n <= b - t
  <2> TAKE n \in S
  <2>1. b - n \in Nat /\ b - (b - n) = n
    OBVIOUS
  <2>2. t <= b - n
    BY <1>2, <2>1
  <2> QED BY <2>2
<1> QED BY <1>3

-----------------------------------------------------------------------------
(* The cursor loop.                                                        *)

\* Row i of the staged items is page i of this run.
RowsOf(scan) == [scan : {scan}, page : Pages, era : Nat]
InOrder(scan) ==
  /\ staged \in Seq(RowsOf(scan))
  /\ \A i \in 1..Len(staged) : staged[i].page = i

LEMMA RowsInOrder ==
  ASSUME NEW scan, InOrder(scan)
  PROVE  /\ Len(staged) \in Nat /\ DOMAIN staged = 1..Len(staged)
         /\ \A i \in 1..Len(staged) :
              staged[i].page = i /\ staged[i].scan = scan /\ staged[i].era \in Nat
              /\ i \in Pages
<1>1. Len(staged) \in Nat /\ DOMAIN staged = 1..Len(staged)
  BY DEF InOrder
<1>2. ASSUME NEW i \in 1..Len(staged)
      PROVE  staged[i] \in RowsOf(scan) /\ staged[i].page = i
  BY <1>2 DEF InOrder
<1>3. ASSUME NEW i \in 1..Len(staged)
      PROVE  staged[i].scan = scan /\ staged[i].era \in Nat /\ staged[i].page \in Pages
  BY <1>2 DEF RowsOf
<1> QED BY <1>1, <1>2, <1>3

LEMMA SliceOfRows ==
  ASSUME NEW scan, InOrder(scan), NEW c \in 0..Len(staged)
  PROVE  /\ Beyond(scan, c) = (c + 1)..Len(staged)
         /\ InSlice(scan, c) = {i \in (c + 1)..Len(staged) : i - 1 - c < Slice}
<1>1. Beyond(scan, c) = (c + 1)..Len(staged)
  BY RowsInOrder DEF Beyond
<1>2. ASSUME NEW i \in (c + 1)..Len(staged)
      PROVE  Cardinality({j \in Beyond(scan, c) : staged[j].page < staged[i].page}) = i - 1 - c
  <2>1. {j \in Beyond(scan, c) : staged[j].page < staged[i].page} = (c + 1)..(i - 1)
    BY <1>1, RowsInOrder
  <2>2. c + 1 \in Int /\ i - 1 \in Int /\ c \in Nat /\ c + 1 <= i
    BY RowsInOrder
  <2>3. Cardinality((c + 1)..(i - 1)) = IF c + 1 > i - 1 THEN 0 ELSE (i - 1) - (c + 1) + 1
    BY <2>2, FS_Interval
  <2>4. (IF c + 1 > i - 1 THEN 0 ELSE (i - 1) - (c + 1) + 1) = i - 1 - c
    BY <2>2
  <2> QED BY <2>1, <2>3, <2>4
<1> QED BY <1>1, <1>2 DEF InSlice

\* A slice ends at its last row, and leaves no row out.
LEMMA LastOfSlice ==
  ASSUME NEW scan, InOrder(scan), NEW c \in 0..Len(staged), c # Len(staged)
  PROVE  /\ LastOf(scan, c) \in (c + 1)..Len(staged)
         /\ InSlice(scan, c) = (c + 1)..LastOf(scan, c)
<1> DEFINE n == Len(staged)
           last == IF c + Slice <= n THEN c + Slice ELSE n
<1>1. Slice \in Nat /\ Slice # 0 /\ n \in Nat /\ c \in Nat /\ c < n
  BY BoundsAssumption, RowsInOrder
<1>2. InSlice(scan, c) = {i \in (c + 1)..n : i - 1 - c < Slice}
  BY SliceOfRows
<1>3. \A i \in InSlice(scan, c) : i \in 1..n /\ staged[i].page = i
  BY <1>1, <1>2, RowsInOrder
<1>4. last \in InSlice(scan, c) /\ \A j \in InSlice(scan, c) : j <= last
  BY <1>1, <1>2
<1>5. \E i \in InSlice(scan, c) : \A j \in InSlice(scan, c) : staged[j].page <= staged[i].page
  <2> HIDE DEF last
  <2> QED BY <1>3, <1>4
<1>6. /\ LastOf(scan, c) \in InSlice(scan, c)
      /\ \A j \in InSlice(scan, c) : staged[j].page <= staged[LastOf(scan, c)].page
  BY <1>5 DEF LastOf
<1>7. \A j \in InSlice(scan, c) : j <= LastOf(scan, c)
  BY <1>3, <1>6
<1> QED BY <1>1, <1>2, <1>6, <1>7

\* The loop visits every row that is staged for the run, whatever the slice.
LEMMA LoopVisitsEveryRow ==
  ASSUME NEW scan, InOrder(scan)
  PROVE  VisitedFrom(scan)[0] = 1..Len(staged)
<1> DEFINE n == Len(staged)
           Step(f) == [c \in 0..n |-> IF Beyond(scan, c) = {} THEN {}
                                      ELSE InSlice(scan, c) \cup f[LastOf(scan, c)]]
           all == [c \in 0..n |-> (c + 1)..n]
<1>0. n \in Nat
  BY RowsInOrder
<1>1. ASSUME NEW c \in 0..n
      PROVE  /\ Beyond(scan, c) = {} <=> c = n
             /\ c # n => /\ LastOf(scan, c) \in (c + 1)..n
                         /\ InSlice(scan, c) = (c + 1)..LastOf(scan, c)
  <2>1. Beyond(scan, c) = (c + 1)..n
    BY SliceOfRows
  <2>2. Beyond(scan, c) = {} <=> c = n
    BY <1>0, <2>1
  <2> QED BY <2>2, LastOfSlice
<1>2. Step(all) = all
  <2>1. ASSUME NEW c \in 0..n
        PROVE  (IF Beyond(scan, c) = {} THEN {} ELSE InSlice(scan, c) \cup all[LastOf(scan, c)])
               = (c + 1)..n
    <3>1. CASE c = n
      BY <1>0, <1>1, <3>1
    <3>2. CASE c # n
      <4>1. LastOf(scan, c) \in (c + 1)..n /\ InSlice(scan, c) = (c + 1)..LastOf(scan, c)
        BY <1>1, <3>2
      <4>2. all[LastOf(scan, c)] = (LastOf(scan, c) + 1)..n
        BY <1>0, <4>1
      <4>3. (c + 1)..LastOf(scan, c) \cup (LastOf(scan, c) + 1)..n = (c + 1)..n
        BY <1>0, <4>1
      <4> HIDE DEF all
      <4> QED BY <1>1, <3>2, <4>1, <4>2, <4>3
    <3> QED BY <3>1, <3>2
  <2> QED BY <2>1
<1>3. VisitedFrom(scan) = CHOOSE f : f = Step(f)
  BY DEF VisitedFrom
<1>4. VisitedFrom(scan) = Step(VisitedFrom(scan))
  <2> DEFINE F == VisitedFrom(scan)
  <2>1. \E f : f = Step(f)
    BY <1>2
  <2> HIDE DEF Step
  <2> QED BY <1>3, <2>1
<1> DEFINE F == VisitedFrom(scan)
           Wrong == {c \in 0..n : F[c] # (c + 1)..n}
<1>5. \A c \in 0..n : F[c] = IF Beyond(scan, c) = {} THEN {}
                             ELSE InSlice(scan, c) \cup F[LastOf(scan, c)]
  <2> HIDE DEF F
  <2> QED BY <1>4 DEF F
<1>6. Wrong = {}
  <2> SUFFICES ASSUME Wrong # {} PROVE FALSE
    OBVIOUS
  <2>1. PICK c \in Wrong : \A d \in Wrong : d <= c
    <3>1. Wrong \in SUBSET Nat /\ \A d \in Wrong : d <= n
      BY <1>0
    <3> HIDE DEF Wrong
    <3> QED BY <1>0, <3>1, GreatestElement
  <2>2. c \in 0..n /\ F[c] # (c + 1)..n
    OBVIOUS
  <2>3. c # n
    <3>1. SUFFICES ASSUME c = n PROVE F[c] = (c + 1)..n
      BY <2>2
    <3>2. (c + 1)..n = {} /\ Beyond(scan, c) = {}
      BY <1>0, <1>1, <2>2, <3>1
    <3> HIDE DEF F
    <3> QED BY <1>5, <2>2, <3>2
  <2>4. LastOf(scan, c) \in (c + 1)..n /\ InSlice(scan, c) = (c + 1)..LastOf(scan, c)
    BY <1>1, <2>2, <2>3
  <2>5. F[LastOf(scan, c)] = (LastOf(scan, c) + 1)..n
    BY <1>0, <2>1, <2>2, <2>4
  <2>6. F[c] = InSlice(scan, c) \cup F[LastOf(scan, c)]
    BY <1>1, <1>5, <2>2, <2>3
  <2> HIDE DEF F
  <2> QED BY <1>0, <2>2, <2>4, <2>5, <2>6
<1> QED BY <1>0, <1>6

-----------------------------------------------------------------------------
(* The inductive invariant.                                                *)

Busy(s) == scanner[s].pc # "idle"

Typed ==
  /\ sub \in Subscription /\ archive \subseteq Item /\ resets \in Nat
  /\ scanner \in [Scanners -> Scanner]

\* While the subscription is there, one scan at a time works for it, for the row
\* of its job.
Alone(s) ==
  sub.exists /\ Busy(s) =>
    /\ job = "running" /\ scanner[s].owns
    /\ \A t \in Scanners : Busy(t) => t = s

\* Where a scan stands.
Located(s) ==
  /\ scanner[s].pc = "open" => scanner[s].page = 1
  /\ scanner[s].pc \in {"read", "stage"} => scanner[s].page <= scanner[s].total
  /\ scanner[s].pc \in {"open", "resume", "read", "stage", "store"} => scanner[s].total # 0
  /\ scanner[s].pc \in {"first", "open", "resume", "read", "stage", "store"} => scanner[s].scan # 0

\* A run that the subscription still wants is this scan's, which stands where the
\* run does; what it holds was read since the archive was last deleted.
Current(s) ==
  sub.exists /\ sub.run # 0 =>
    /\ scanner[s].pc \in {"resume", "read", "stage"} =>
         scanner[s].scan = sub.run /\ scanner[s].page = sub.next
    /\ scanner[s].pc = "store" => scanner[s].scan = sub.run /\ scanner[s].total < sub.next
    /\ scanner[s].pc = "stage" => scanner[s].page = 1 \/ scanner[s].era = resets

\* What the last scan or check had shown is archived, or nothing is.
Backed(s) ==
  sub.exists /\ scanner[s].pc \notin {"idle", "stored", "missing"} =>
    scanner[s].prev \subseteq Archived \/ archive = {}

Recent(s) == scanner[s].fresh /\ scanner[s].pc = "checked" => scanner[s].era = resets

ScannerOK(s) == Alone(s) /\ Located(s) /\ Current(s) /\ Backed(s) /\ Recent(s)

\* The pages of the run are staged up to the next one.
Staged ==
  sub.exists /\ sub.run # 0 =>
    /\ InOrder(sub.run) /\ Len(staged) = sub.next - 1
    /\ \A i \in 1..Len(staged) : i # 1 => staged[i].era = resets

Kept ==
  sub.exists =>
    /\ sub.content \subseteq Archived
    /\ sub.run = 0 => 1..sub.total \subseteq Archived
    /\ sub.run = 0 /\ sub.done /\ sub.paged => sub.total # 0

Inv ==
  /\ Typed /\ Staged /\ Kept /\ ArchiveIsOfThisEra
  /\ \A s \in Scanners : ScannerOK(s)

-----------------------------------------------------------------------------
(* What several steps have in common.                                      *)

LEMMA Numbers ==
  /\ 0 \in {0} \cup ScanIds /\ 0 \in 0..MaxPages /\ 1 \in 1..(MaxPages + 1) /\ 1 \in Pages
  /\ \A i \in ScanIds : i # 0
  /\ \A n \in Pages : n \in 0..MaxPages /\ n \in 1..(MaxPages + 1) /\ n + 1 \in 1..(MaxPages + 1)
                        /\ n # 0 /\ n \in Nat /\ 1 <= n /\ n <= MaxPages
  /\ \A n \in 1..(MaxPages + 1) : n \in Nat
  /\ \A n \in 0..MaxPages : n \in Nat
BY BoundsAssumption DEF Pages, ScanIds

LEMMA IdleScanner == Idle \in Scanner /\ Idle.pc = "idle"
BY BoundsAssumption DEF Idle, Scanner, ScanIds, Pages

LEMMA TouchedKeeps ==
  ASSUME NEW table \in [Scanners -> Scanner]
  PROVE  /\ Touched(table) \in [Scanners -> Scanner]
         /\ \A s \in Scanners :
              /\ Touched(table)[s].pc = table[s].pc /\ Touched(table)[s].full = table[s].full
              /\ Touched(table)[s].scan = table[s].scan /\ Touched(table)[s].page = table[s].page
              /\ Touched(table)[s].total = table[s].total /\ Touched(table)[s].prev = table[s].prev
              /\ Touched(table)[s].era = table[s].era /\ Touched(table)[s].owns = table[s].owns
              /\ Touched(table)[s].fresh = FALSE
<1>1. ASSUME NEW s \in Scanners PROVE table[s] \in Scanner
  BY <1>1
<1> QED BY <1>1 DEF Touched, Scanner

\* What a step leaves of a scanner that it does not run: all but its freshness.
Left(s) ==
  /\ scanner'[s].pc = scanner[s].pc /\ scanner'[s].scan = scanner[s].scan
  /\ scanner'[s].page = scanner[s].page /\ scanner'[s].total = scanner[s].total
  /\ scanner'[s].prev = scanner[s].prev /\ scanner'[s].era = scanner[s].era
  /\ scanner'[s].owns = scanner[s].owns
  /\ scanner'[s].fresh => scanner[s].fresh

LEMMA TouchedLeaves ==
  ASSUME Typed, scanner' = Touched(scanner)
  PROVE  /\ scanner' \in [Scanners -> Scanner]
         /\ \A s \in Scanners : Left(s) /\ scanner'[s].fresh = FALSE
BY TouchedKeeps DEF Typed, Left

LEMMA UnchangedLeaves ==
  ASSUME scanner' = scanner
  PROVE  \A s \in Scanners : Left(s)
BY DEF Left

\* While one scanner runs for a subscription that exists, the others idle.
LEMMA OthersIdle ==
  ASSUME NEW s \in Scanners, NEW t \in Scanners \ {s}, Alone(s), Busy(s), sub.exists
  PROVE  ~Busy(t)
BY DEF Alone

\* A scanner that stands still loses nothing, if it idles or the subscription
\* is gone.
LEMMA OthersStay ==
  ASSUME NEW t \in Scanners, ScannerOK(t), Left(t), sub.exists => ~Busy(t),
         sub'.exists => sub.exists, UNCHANGED resets
  PROVE  ScannerOK(t)'
BY DEF ScannerOK, Alone, Located, Current, Backed, Recent, Left, Busy

-----------------------------------------------------------------------------
(* The jobs and the user.                                                  *)

LEMMA InitInv == Init => Inv
<1> SUFFICES ASSUME Init PROVE Inv
  OBVIOUS
<1>1. /\ sub.exists = TRUE /\ sub.paged \in BOOLEAN /\ sub.run = 0 /\ sub.total = 0 /\ sub.next = 1
      /\ sub.done = FALSE /\ sub.content = {} /\ archive = {} /\ resets = 0
      /\ scanner = [s \in Scanners |-> Idle]
      /\ sub \in [exists : {TRUE}, paged : BOOLEAN, run : {0}, total : {0}, next : {1},
                  done : {FALSE}, content : {{}}]
  BY DEF Init
<1>2. Typed
  BY <1>1, IdleScanner, Numbers DEF Typed, Subscription
<1>3. \A s \in Scanners : ScannerOK(s)
  BY <1>1, IdleScanner DEF ScannerOK, Alone, Located, Current, Backed, Recent, Busy
<1>4. Staged /\ Kept /\ ArchiveIsOfThisEra
  BY <1>1 DEF Staged, Kept, ArchiveIsOfThisEra, Archived
<1> QED BY <1>2, <1>3, <1>4 DEF Inv

\* A subscription that has no job has no scan.
LEMMA QueueStep ==
  ASSUME Inv, Queue, UNCHANGED <<sub, staged, archive, resets>>
  PROVE  Inv'
<1>1. job = "none" /\ scanner' = [s \in Scanners |-> [scanner[s] EXCEPT !.owns = FALSE]]
  BY DEF Queue
<1>2. scanner' \in [Scanners -> Scanner]
      /\ \A s \in Scanners :
           /\ scanner'[s].pc = scanner[s].pc /\ scanner'[s].scan = scanner[s].scan
           /\ scanner'[s].page = scanner[s].page /\ scanner'[s].total = scanner[s].total
           /\ scanner'[s].prev = scanner[s].prev /\ scanner'[s].era = scanner[s].era
           /\ scanner'[s].fresh = scanner[s].fresh
  <2>1. ASSUME NEW s \in Scanners PROVE scanner[s] \in Scanner
    BY <2>1 DEF Inv, Typed
  <2> QED BY <1>1, <2>1 DEF Scanner
<1>3. Typed' /\ Staged' /\ Kept' /\ ArchiveIsOfThisEra'
  BY <1>2 DEF Inv, Typed, Staged, Kept, ArchiveIsOfThisEra, Archived, InOrder
<1>4. ASSUME NEW s \in Scanners PROVE ScannerOK(s)'
  <2>1. sub.exists => ~Busy(s)
    BY <1>1 DEF Inv, ScannerOK, Alone
  <2>2. Alone(s)' /\ Located(s)' /\ Recent(s)' /\ Current(s)' /\ Backed(s)'
    BY <1>2, <2>1 DEF Inv, ScannerOK, Alone, Located, Recent, Current, Backed, Busy, Archived
  <2> QED BY <2>2 DEF ScannerOK
<1> QED BY <1>3, <1>4 DEF Inv

\* The sweep finds no scan at work.
LEMMA RecoverStep ==
  ASSUME Disciplined, Inv, Recover
  PROVE  Inv'
<1>1. /\ Stalled /\ \E s \in Scanners : scanner[s].pc = "idle"
      /\ UNCHANGED <<sub, staged, archive, scanner, resets>>
  BY DEF Recover
<1>2. ASSUME NEW s \in Scanners, sub.exists PROVE ~Busy(s)
  <2>1. CASE ~OverrunAllowed
    BY <1>1, <1>2, <2>1 DEF Stalled, Inv, ScannerOK, Alone, Busy
  <2>2. CASE \A t, u \in Scanners : t = u
    BY <1>1, <2>2 DEF Busy
  <2> QED BY <2>1, <2>2 DEF Disciplined
<1>3. \A s \in Scanners : ScannerOK(s)'
  BY <1>1, <1>2, UnchangedLeaves, OthersStay DEF Inv
<1> QED BY <1>1, <1>3 DEF Inv, Typed, Staged, Kept, ArchiveIsOfThisEra, Archived, InOrder

LEMMA ResetArchiveStep ==
  ASSUME Inv, ResetArchive
  PROVE  Inv'
<1> DEFINE table == [s \in Scanners |-> [scanner[s] EXCEPT !.owns = scanner[s].owns /\ job # "queued"]]
<1>1. /\ sub.exists /\ resets' = resets + 1 /\ archive' = {}
      /\ sub' = [sub EXCEPT !.run = 0, !.total = 0, !.next = 1, !.done = ~sub.paged, !.content = {}]
      /\ scanner' = Touched(table)
      /\ job' = IF job = "queued" THEN "none" ELSE job
  BY DEF ResetArchive
<1>2. table \in [Scanners -> Scanner]
      /\ \A s \in Scanners :
           /\ table[s].pc = scanner[s].pc /\ table[s].scan = scanner[s].scan
           /\ table[s].page = scanner[s].page /\ table[s].total = scanner[s].total
           /\ table[s].prev = scanner[s].prev /\ table[s].era = scanner[s].era
           /\ table[s].owns <=> scanner[s].owns /\ job # "queued"
  <2>1. ASSUME NEW s \in Scanners PROVE scanner[s] \in Scanner
    BY <2>1 DEF Inv, Typed
  <2> QED BY <2>1 DEF Scanner
<1> HIDE DEF table
<1>3. sub' \in Subscription
      /\ sub'.run = 0 /\ sub'.content = {} /\ sub'.total = 0
      /\ sub'.paged = sub.paged /\ sub'.done = ~sub.paged
  BY <1>1, Numbers DEF Inv, Typed, Subscription
<1>4. Typed'
  <2>1. scanner' \in [Scanners -> Scanner]
    BY <1>1, <1>2, TouchedKeeps
  <2>2. resets' \in Nat
    BY <1>1 DEF Inv, Typed
  <2> QED BY <1>1, <1>3, <2>1, <2>2 DEF Typed
<1>5. Staged' /\ Kept' /\ ArchiveIsOfThisEra'
  <2>1. ~(sub'.done /\ sub'.paged)
    BY <1>3
  <2>2. 1..sub'.total = {}
    BY <1>3
  <2> QED BY <1>1, <1>3, <2>1, <2>2 DEF Staged, Kept, ArchiveIsOfThisEra
<1>6. ASSUME NEW s \in Scanners PROVE ScannerOK(s)'
  <2>1. /\ scanner'[s].pc = scanner[s].pc /\ scanner'[s].scan = scanner[s].scan
        /\ scanner'[s].page = scanner[s].page /\ scanner'[s].total = scanner[s].total
        /\ (scanner'[s].owns <=> scanner[s].owns /\ job # "queued") /\ scanner'[s].fresh = FALSE
    BY <1>1, <1>2, TouchedKeeps
  <2>2. \A t \in Scanners : scanner'[t].pc = scanner[t].pc
    BY <1>1, <1>2, TouchedKeeps
  <2>3. Alone(s)'
    BY <1>1, <2>1, <2>2 DEF Inv, ScannerOK, Alone, Busy
  <2>4. Located(s)' /\ Current(s)' /\ Backed(s)' /\ Recent(s)'
    BY <1>1, <1>3, <2>1 DEF Inv, ScannerOK, Located, Current, Backed, Recent
  <2> QED BY <2>3, <2>4 DEF ScannerOK
<1> QED BY <1>4, <1>5, <1>6 DEF Inv

LEMMA DeleteStep ==
  ASSUME Inv, Delete
  PROVE  Inv'
<1>1. /\ sub' = [sub EXCEPT !.exists = FALSE] /\ archive' = {} /\ UNCHANGED resets
      /\ scanner' = [s \in Scanners |-> [scanner[s] EXCEPT !.owns = FALSE]]
  BY DEF Delete
<1>2. sub' \in Subscription /\ sub'.exists = FALSE
  BY <1>1 DEF Inv, Typed, Subscription
<1>3. scanner' \in [Scanners -> Scanner]
      /\ \A s \in Scanners :
           /\ scanner'[s].pc = scanner[s].pc /\ scanner'[s].scan = scanner[s].scan
           /\ scanner'[s].page = scanner[s].page /\ scanner'[s].total = scanner[s].total
           /\ scanner'[s].era = scanner[s].era /\ scanner'[s].fresh = scanner[s].fresh
  <2>1. ASSUME NEW s \in Scanners PROVE scanner[s] \in Scanner
    BY <2>1 DEF Inv, Typed
  <2> QED BY <1>1, <2>1 DEF Scanner
<1>4. Typed' /\ Staged' /\ Kept' /\ ArchiveIsOfThisEra'
  BY <1>1, <1>2, <1>3 DEF Inv, Typed, Staged, Kept, ArchiveIsOfThisEra
<1>5. \A s \in Scanners : ScannerOK(s)'
  BY <1>1, <1>2, <1>3 DEF Inv, ScannerOK, Alone, Located, Current, Backed, Recent
<1> QED BY <1>4, <1>5 DEF Inv

\* Edits that keep the run leave it as it stands.
LEMMA EditKeeps ==
  ASSUME Inv, sub' \in Subscription, UNCHANGED <<staged, archive, job, resets>>,
         scanner' = Touched(scanner),
         sub'.exists = sub.exists, sub'.run = sub.run, sub'.content = sub.content,
         sub.run # 0 => sub'.next = sub.next, sub'.total \in {0, sub.total},
         sub'.run = 0 /\ sub'.done /\ sub'.paged => sub'.total # 0
  PROVE  Inv'
<1>1. Typed'
  BY TouchedLeaves DEF Inv, Typed
<1>2. Staged' /\ ArchiveIsOfThisEra'
  BY DEF Inv, Staged, ArchiveIsOfThisEra, InOrder
<1>3. Kept'
  <2>1. Archived' = Archived
    BY DEF Archived
  <2>2. 1..0 = {}
    OBVIOUS
  <2>3. sub'.exists /\ sub'.run = 0 => 1..sub'.total \subseteq Archived
    BY <2>2 DEF Inv, Kept
  <2> QED BY <2>1, <2>3 DEF Inv, Kept
<1>4. \A s \in Scanners : Left(s)
  BY TouchedLeaves DEF Inv
<1>5. ASSUME NEW s \in Scanners PROVE ScannerOK(s)'
  <2>1. Alone(s)' /\ Located(s)' /\ Recent(s)' /\ Backed(s)'
    BY <1>4 DEF Inv, ScannerOK, Alone, Located, Recent, Backed, Left, Busy, Archived
  <2>2. Current(s)'
    BY <1>4 DEF Inv, ScannerOK, Current, Left
  <2> QED BY <2>1, <2>2 DEF ScannerOK
<1> QED BY <1>1, <1>2, <1>3, <1>5 DEF Inv

LEMMA EditStep ==
  ASSUME Inv, Edit
  PROVE  Inv'
<1>1. PICK paged \in BOOLEAN : sub' = Edited(paged)
  BY DEF Edit
<1>2. sub.exists /\ UNCHANGED <<staged, archive, job, resets>> /\ scanner' = Touched(scanner)
  BY DEF Edit
<1>3. /\ sub' \in Subscription
      /\ sub'.exists = sub.exists /\ sub'.run = sub.run /\ sub'.content = sub.content
      /\ sub'.next = sub.next /\ sub'.total \in {0, sub.total}
  BY <1>1, Numbers DEF Edited, Inv, Typed, Subscription
<1>4. sub'.run = 0 /\ sub'.done /\ sub'.paged => sub'.total # 0
  BY <1>1, <1>2 DEF Edited, Inv, Typed, Subscription, Kept
<1> QED BY <1>2, <1>3, <1>4, EditKeeps

LEMMA SyncFromGroupStep ==
  ASSUME Inv, SyncFromGroup
  PROVE  Inv'
<1>1. PICK paged \in BOOLEAN :
        sub' = IF paged /\ ~sub.paged /\ sub.run = 0
               THEN [sub EXCEPT !.paged = TRUE, !.done = FALSE, !.total = 0, !.next = 1]
               ELSE [sub EXCEPT !.paged = paged]
  BY DEF SyncFromGroup
<1>2. sub.exists /\ UNCHANGED <<staged, archive, job, resets>> /\ scanner' = Touched(scanner)
  BY DEF SyncFromGroup
<1>3. /\ sub' \in Subscription
      /\ sub'.exists = sub.exists /\ sub'.run = sub.run /\ sub'.content = sub.content
      /\ sub.run # 0 => sub'.next = sub.next
      /\ sub'.total \in {0, sub.total}
  BY <1>1, Numbers DEF Inv, Typed, Subscription
<1>4. sub'.run = 0 /\ sub'.done /\ sub'.paged => sub'.total # 0
  BY <1>1, <1>2 DEF Inv, Typed, Subscription, Kept
<1> QED BY <1>2, <1>3, <1>4, EditKeeps

LEMMA AskResetStep ==
  ASSUME Inv, AskReset
  PROVE  Inv'
<1>1. /\ scanner' = Touched(scanner) /\ UNCHANGED <<archive, job, resets>>
      /\ sub' = IF sub.exists
                THEN [sub EXCEPT !.run = 0, !.total = 0, !.next = 1, !.done = FALSE] ELSE sub
  BY DEF AskReset
<1>2. /\ sub' \in Subscription /\ sub'.exists = sub.exists
      /\ sub'.exists => sub'.run = 0 /\ sub'.total = 0 /\ sub'.done = FALSE
                        /\ sub'.content = sub.content
  BY <1>1, Numbers DEF Inv, Typed, Subscription
<1>3. Typed'
  BY <1>1, <1>2, TouchedLeaves DEF Inv, Typed
<1>4. Staged' /\ Kept' /\ ArchiveIsOfThisEra'
  BY <1>1, <1>2 DEF Inv, Staged, Kept, ArchiveIsOfThisEra, Archived
<1>5. \A s \in Scanners : Left(s)
  BY <1>1, TouchedLeaves DEF Inv
<1>6. \A s \in Scanners : ScannerOK(s)'
  BY <1>1, <1>2, <1>5
  DEF Inv, ScannerOK, Alone, Located, Current, Recent, Backed, Left, Busy, Archived
<1> QED BY <1>3, <1>4, <1>6 DEF Inv

\* Steps that only the request is about.
LEMMA RequestStep ==
  ASSUME Inv, UNCHANGED <<sub, staged, archive, job, scanner, resets>>
  PROVE  Inv'
BY DEF Inv, Typed, Staged, Kept, ArchiveIsOfThisEra, Archived, InOrder,
       ScannerOK, Alone, Located, Current, Recent, Backed, Busy

-----------------------------------------------------------------------------
(* A scan, up to its transactions.                                         *)

\* The scanner goes on with the same job while the others stand still.
LEMMA AloneStays ==
  ASSUME NEW s \in Scanners, Alone(s), Busy(s), UNCHANGED job,
         sub'.exists => sub.exists, scanner'[s].owns = scanner[s].owns,
         \A t \in Scanners \ {s} : scanner'[t].pc = scanner[t].pc
  PROVE  Alone(s)'
BY DEF Alone, Busy

LEMMA ScannerStep ==
  ASSUME Inv, NEW s \in Scanners, Busy(s), scanner' \in [Scanners -> Scanner],
         \A t \in Scanners \ {s} : scanner'[t] = scanner[t],
         UNCHANGED <<sub, staged, archive, resets>>, ScannerOK(s)'
  PROVE  Inv'
<1>1. \A t \in Scanners \ {s} : ScannerOK(t)'
  <2> TAKE t \in Scanners \ {s}
  <2>1. sub.exists => ~Busy(t)
    BY OthersIdle DEF Inv, ScannerOK
  <2>2. Left(t)
    BY DEF Left
  <2> QED BY <2>1, <2>2, OthersStay DEF Inv
<1> QED BY <1>1 DEF Inv, Typed, Staged, Kept, ArchiveIsOfThisEra, Archived, InOrder

\* The end of a job, whatever becomes of its row.
LEMMA ScannerEnds ==
  ASSUME Inv, NEW s \in Scanners, Busy(s), scanner' = [scanner EXCEPT ![s] = Idle],
         UNCHANGED <<sub, staged, archive, resets>>
  PROVE  Inv'
<1>1. /\ scanner' \in [Scanners -> Scanner] /\ scanner'[s].pc = "idle"
      /\ \A t \in Scanners \ {s} : scanner'[t] = scanner[t]
  BY IdleScanner DEF Inv, Typed
<1>2. ScannerOK(s)'
  BY <1>1 DEF ScannerOK, Alone, Located, Current, Recent, Backed, Busy
<1> QED BY <1>1, <1>2, ScannerStep

LEMMA EndStep ==
  ASSUME Inv, NEW s \in Scanners, Complete(s) \/ GiveUp(s) \/ Fail(s) \/ Crash(s)
  PROVE  Inv'
BY ScannerEnds DEF Complete, GiveUp, Fail, Crash, Busy

LEMMA StartStep ==
  ASSUME Inv, NEW s \in Scanners, Start(s)
  PROVE  Inv'
<1> DEFINE at == CASE ~sub.exists -> "missing"
                   [] sub.exists /\ ~ScanIsDue -> "check"
                   [] ScanIsDue /\ sub.run = 0 -> "lookup"
                   [] ScanIsDue /\ sub.run # 0 /\ sub.total = 0 -> "first"
                   [] ScanIsDue /\ sub.run # 0 /\ sub.total # 0 -> "resume"
           new == [Idle EXCEPT !.pc = at,
                    !.full = ScanIsDue, !.scan = sub.run, !.page = sub.next, !.total = sub.total,
                    !.prev = sub.content, !.fresh = TRUE, !.owns = TRUE]
<1>1. /\ job = "queued" /\ job' = "running" /\ scanner' = [scanner EXCEPT ![s] = new]
      /\ scanner[s].pc = "idle" /\ UNCHANGED <<sub, staged, archive, resets>>
  BY DEF Start
<1>2. /\ at \in {"missing", "check", "lookup", "first", "resume"}
      /\ at = "first" => sub.run # 0
      /\ at = "resume" => sub.run # 0 /\ sub.total # 0
      /\ sub.exists => at # "missing"
  BY DEF ScanIsDue, Inv, Typed, Subscription
<1> HIDE DEF at
<1>3. /\ new \in Scanner /\ new.pc = at /\ new.scan = sub.run /\ new.page = sub.next
      /\ new.total = sub.total /\ new.prev = sub.content /\ new.owns = TRUE
  BY <1>2, Numbers DEF Inv, Typed, Subscription, Idle, Scanner, ScanIsDue
<1> HIDE DEF new
<1>4. /\ scanner' \in [Scanners -> Scanner] /\ scanner'[s] = new
      /\ \A t \in Scanners \ {s} : scanner'[t] = scanner[t]
  BY <1>1, <1>3 DEF Inv, Typed
<1>5. \A t \in Scanners : sub.exists => ~Busy(t)
  BY <1>1 DEF Inv, ScannerOK, Alone
<1>6. ASSUME NEW t \in Scanners \ {s} PROVE ScannerOK(t)'
  <2>1. Left(t)
    BY <1>4 DEF Left
  <2> QED BY <1>1, <1>5, <2>1, OthersStay DEF Inv
<1>7. ScannerOK(s)'
  <2>1. Alone(s)'
    BY <1>1, <1>3, <1>4, <1>5 DEF Alone, Busy
  <2>2. Located(s)' /\ Current(s)' /\ Recent(s)'
    BY <1>1, <1>2, <1>3, <1>4 DEF Located, Current, Recent
  <2>3. Backed(s)'
    BY <1>1, <1>3, <1>4 DEF Backed, Inv, Kept, Archived
  <2> QED BY <2>1, <2>2, <2>3 DEF ScannerOK
<1> QED BY <1>1, <1>4, <1>6, <1>7 DEF Inv, Typed, Staged, Kept, ArchiveIsOfThisEra, Archived, InOrder

\* The steps that read: they change the scanner alone.
LEMMA ReadingStep ==
  ASSUME Inv, NEW s \in Scanners,
         LookUp(s) \/ ReadFirst(s) \/ Resume(s) \/ ReadPage(s) \/ ReadCheck(s)
  PROVE  Inv'
<1>1. UNCHANGED <<sub, staged, archive, job, resets>>
  BY DEF LookUp, ReadFirst, Resume, ReadPage, ReadCheck
<1>2. scanner[s] \in Scanner /\ ScannerOK(s) /\ scanner \in [Scanners -> Scanner] /\ resets \in Nat
  BY DEF Inv, Typed
<1>3. ASSUME NEW new \in Scanner, scanner' = [scanner EXCEPT ![s] = new], Busy(s),
             new.owns = scanner[s].owns, new.prev = scanner[s].prev,
             scanner[s].pc \notin {"stored", "missing"},
             Located(s)', Current(s)', Recent(s)'
      PROVE  Inv'
  <2>1. /\ scanner' \in [Scanners -> Scanner] /\ scanner'[s] = new
        /\ \A t \in Scanners \ {s} : scanner'[t] = scanner[t]
    BY <1>2, <1>3
  <2>2. Alone(s)'
    BY <1>1, <1>2, <1>3, <2>1, AloneStays DEF ScannerOK
  <2>3. Backed(s)'
    BY <1>1, <1>2, <1>3, <2>1 DEF ScannerOK, Backed, Busy, Archived
  <2>4. ScannerOK(s)'
    BY <1>3, <2>2, <2>3 DEF ScannerOK
  <2> QED BY <1>1, <1>3, <2>1, <2>4, ScannerStep
<1>4. CASE LookUp(s)
  <2> DEFINE new == [scanner[s] EXCEPT !.pc = "first", !.scan = PendingScan]
  <2>1. scanner[s].pc = "lookup" /\ PendingScan \in ScanIds /\ scanner' = [scanner EXCEPT ![s] = new]
    BY <1>2, <1>4 DEF LookUp
  <2> HIDE DEF PendingScan
  <2>2. /\ new \in Scanner /\ new.pc = "first" /\ new.scan # 0
        /\ new.owns = scanner[s].owns /\ new.prev = scanner[s].prev
    BY <1>2, <2>1, Numbers DEF Scanner
  <2> HIDE DEF new
  <2>3. Located(s)' /\ Current(s)' /\ Recent(s)'
    BY <1>1, <1>2, <2>1, <2>2 DEF Located, Current, Recent
  <2> QED BY <1>3, <2>1, <2>2, <2>3 DEF Busy
<1>5. CASE ReadFirst(s)
  <2>1. PICK n \in Pages : scanner' = [scanner EXCEPT ![s].pc = "open", ![s].total = n, ![s].page = 1, ![s].era = resets]
    BY <1>5 DEF ReadFirst
  <2> DEFINE new == [scanner[s] EXCEPT !.pc = "open", !.total = n, !.page = 1, !.era = resets]
  <2>2. scanner' = [scanner EXCEPT ![s] = new] /\ scanner[s].pc = "first" /\ scanner[s].scan # 0
    BY <1>2, <1>5, <2>1 DEF ReadFirst, ScannerOK, Located
  <2>3. /\ new \in Scanner /\ new.pc = "open" /\ new.scan = scanner[s].scan /\ new.page = 1
        /\ new.total # 0 /\ new.owns = scanner[s].owns /\ new.prev = scanner[s].prev
    BY <1>2, Numbers DEF Scanner
  <2> HIDE DEF new
  <2>4. Located(s)' /\ Current(s)' /\ Recent(s)'
    BY <1>1, <1>2, <2>2, <2>3 DEF Located, Current, Recent
  <2> QED BY <1>3, <2>2, <2>3, <2>4 DEF Busy
<1>6. CASE Resume(s)
  <2> DEFINE new == [scanner[s] EXCEPT !.pc = IF scanner[s].page <= scanner[s].total THEN "read" ELSE "store"]
  <2>1. /\ scanner' = [scanner EXCEPT ![s] = new] /\ scanner[s].pc = "resume"
        /\ scanner[s].scan # 0 /\ scanner[s].total # 0
    BY <1>2, <1>6 DEF Resume, ScannerOK, Located
  <2>2. /\ new \in Scanner /\ new.scan = scanner[s].scan /\ new.page = scanner[s].page
        /\ new.total = scanner[s].total /\ new.owns = scanner[s].owns /\ new.prev = scanner[s].prev
        /\ new.pc \in {"read", "store"}
        /\ new.pc = "read" => scanner[s].page <= scanner[s].total
        /\ new.pc = "store" => ~(scanner[s].page <= scanner[s].total)
    BY <1>2 DEF Scanner
  <2>3. scanner[s].page \in Nat /\ scanner[s].total \in Nat
    BY <1>2, Numbers DEF Scanner
  <2> HIDE DEF new
  <2>4. Located(s)' /\ Recent(s)'
    BY <1>2, <2>1, <2>2 DEF Located, Recent
  <2>5. Current(s)'
    BY <1>1, <1>2, <2>1, <2>2, <2>3 DEF ScannerOK, Current
  <2> QED BY <1>3, <2>1, <2>2, <2>4, <2>5 DEF Busy
<1>7. CASE ReadPage(s)
  <2> DEFINE new == [scanner[s] EXCEPT !.pc = "stage", !.era = resets]
  <2>1. scanner' = [scanner EXCEPT ![s] = new] /\ scanner[s].pc = "read"
    BY <1>2, <1>7 DEF ReadPage
  <2>2. /\ new \in Scanner /\ new.scan = scanner[s].scan /\ new.page = scanner[s].page
        /\ new.total = scanner[s].total /\ new.owns = scanner[s].owns /\ new.prev = scanner[s].prev
        /\ new.pc = "stage" /\ new.era = resets
    BY <1>2 DEF Scanner
  <2> HIDE DEF new
  <2>3. Located(s)' /\ Current(s)' /\ Recent(s)'
    BY <1>1, <1>2, <2>1, <2>2 DEF ScannerOK, Located, Current, Recent
  <2> QED BY <1>3, <2>1, <2>2, <2>3 DEF Busy
<1>8. CASE ReadCheck(s)
  <2> DEFINE new == [scanner[s] EXCEPT !.pc = "checked", !.era = resets]
  <2>1. scanner' = [scanner EXCEPT ![s] = new] /\ scanner[s].pc = "check"
    BY <1>2, <1>8 DEF ReadCheck
  <2>2. /\ new \in Scanner /\ new.owns = scanner[s].owns /\ new.prev = scanner[s].prev
        /\ new.pc = "checked" /\ new.era = resets
    BY <1>2 DEF Scanner
  <2> HIDE DEF new
  <2>3. Located(s)' /\ Current(s)' /\ Recent(s)'
    BY <1>1, <1>2, <2>1, <2>2 DEF ScannerOK, Located, Current, Recent
  <2> QED BY <1>3, <2>1, <2>2, <2>3 DEF Busy
<1> QED BY <1>4, <1>5, <1>6, <1>7, <1>8

-----------------------------------------------------------------------------
(* The transactions of a scan.                                             *)

LEMMA TransactionStep ==
  ASSUME Inv, NEW s \in Scanners, Busy(s), UNCHANGED resets, sub'.exists => sub.exists,
         \A t \in Scanners \ {s} : Left(t),
         Typed', Staged', Kept', ArchiveIsOfThisEra', ScannerOK(s)'
  PROVE  Inv'
<1>1. \A t \in Scanners \ {s} : ScannerOK(t)'
  BY OthersIdle, OthersStay DEF Inv, ScannerOK
<1> QED BY <1>1 DEF Inv

\* A transaction that finds its run gone writes nothing but its rows.
LEMMA NothingStored ==
  ASSUME Inv, NEW s \in Scanners, Busy(s), scanner' = [scanner EXCEPT ![s].pc = "stored"],
         UNCHANGED <<sub, staged, archive, job, resets>>
  PROVE  Inv'
<1>1. scanner[s] \in Scanner /\ ScannerOK(s)
  BY DEF Inv, Typed
<1>2. /\ scanner' \in [Scanners -> Scanner]
      /\ scanner'[s].pc = "stored" /\ scanner'[s].owns = scanner[s].owns
      /\ \A t \in Scanners \ {s} : scanner'[t] = scanner[t]
  BY <1>1 DEF Inv, Typed, Scanner
<1>3. ScannerOK(s)'
  <2>1. Alone(s)'
    BY <1>1, <1>2, AloneStays DEF ScannerOK
  <2> QED BY <1>2, <2>1 DEF ScannerOK, Located, Current, Recent, Backed
<1> QED BY <1>2, <1>3, ScannerStep

\* Touched, after this scanner has moved: it and the others.
LEMMA MovedAndTouched ==
  ASSUME Inv, NEW s \in Scanners, NEW new \in Scanner,
         scanner' = Touched([scanner EXCEPT ![s] = new])
  PROVE  /\ scanner' \in [Scanners -> Scanner]
         /\ scanner'[s].pc = new.pc /\ scanner'[s].scan = new.scan /\ scanner'[s].page = new.page
         /\ scanner'[s].total = new.total /\ scanner'[s].era = new.era /\ scanner'[s].prev = new.prev
         /\ scanner'[s].owns = new.owns /\ scanner'[s].fresh = FALSE
         /\ \A t \in Scanners \ {s} : Left(t)
<1>1. ASSUME NEW table \in [Scanners -> Scanner], scanner' = Touched(table)
      PROVE  /\ scanner' \in [Scanners -> Scanner]
             /\ \A t \in Scanners :
                  /\ scanner'[t].pc = table[t].pc /\ scanner'[t].scan = table[t].scan
                  /\ scanner'[t].page = table[t].page /\ scanner'[t].total = table[t].total
                  /\ scanner'[t].era = table[t].era /\ scanner'[t].prev = table[t].prev
                  /\ scanner'[t].owns = table[t].owns /\ scanner'[t].fresh = FALSE
  <2>1. /\ Touched(table) \in [Scanners -> Scanner]
        /\ \A t \in Scanners :
             /\ Touched(table)[t].pc = table[t].pc /\ Touched(table)[t].scan = table[t].scan
             /\ Touched(table)[t].page = table[t].page /\ Touched(table)[t].total = table[t].total
             /\ Touched(table)[t].era = table[t].era /\ Touched(table)[t].prev = table[t].prev
             /\ Touched(table)[t].owns = table[t].owns /\ Touched(table)[t].fresh = FALSE
    BY TouchedKeeps
  <2> QED BY <1>1, <2>1
<1>2. PICK table : table = [scanner EXCEPT ![s] = new]
  OBVIOUS
<1>3. /\ table \in [Scanners -> Scanner] /\ table[s] = new
      /\ \A t \in Scanners \ {s} : table[t] = scanner[t]
  BY <1>2 DEF Inv, Typed
<1>4. /\ scanner' \in [Scanners -> Scanner]
      /\ \A t \in Scanners :
           /\ scanner'[t].pc = table[t].pc /\ scanner'[t].scan = table[t].scan
           /\ scanner'[t].page = table[t].page /\ scanner'[t].total = table[t].total
           /\ scanner'[t].era = table[t].era /\ scanner'[t].prev = table[t].prev
           /\ scanner'[t].owns = table[t].owns /\ scanner'[t].fresh = FALSE
  BY <1>1, <1>2, <1>3
<1>5. ASSUME NEW t \in Scanners \ {s} PROVE Left(t)
  <2>1. table[t] = scanner[t] /\ ~scanner'[t].fresh
    BY <1>3, <1>4
  <2> QED BY <1>4, <2>1 DEF Left
<1> QED BY <1>3, <1>4, <1>5

LEMMA OpenStep ==
  ASSUME Inv, NEW s \in Scanners, Open(s)
  PROVE  Inv'
<1> DEFINE new == [scanner[s] EXCEPT !.pc = "stage"]
<1>1. scanner[s] \in Scanner /\ ScannerOK(s) /\ scanner \in [Scanners -> Scanner]
      /\ sub \in Subscription
  BY DEF Inv, Typed
<1>2. /\ scanner[s].pc = "open" /\ staged' = <<>> /\ UNCHANGED <<archive, job, resets>>
      /\ sub' = IF sub.exists
                THEN [sub EXCEPT !.run = scanner[s].scan, !.total = scanner[s].total, !.next = 1]
                ELSE sub
      /\ scanner' = Touched([scanner EXCEPT ![s].pc = "stage"])
  BY DEF Open, ClearStaged, OpenedRun
<1>3. /\ new \in Scanner /\ new.pc = "stage" /\ new.scan = scanner[s].scan
      /\ new.page = scanner[s].page /\ new.total = scanner[s].total /\ new.owns = scanner[s].owns
      /\ new.prev = scanner[s].prev
  BY <1>1 DEF Scanner
<1>4. scanner' = Touched([scanner EXCEPT ![s] = new])
  BY <1>1, <1>2
<1> HIDE DEF new
<1>5. /\ scanner' \in [Scanners -> Scanner]
      /\ scanner'[s].pc = "stage" /\ scanner'[s].scan = scanner[s].scan
      /\ scanner'[s].page = 1 /\ scanner'[s].total = scanner[s].total
      /\ scanner'[s].owns = scanner[s].owns /\ scanner'[s].fresh = FALSE
      /\ scanner'[s].prev = scanner[s].prev
      /\ scanner[s].scan # 0 /\ scanner[s].total # 0
      /\ \A t \in Scanners \ {s} : Left(t)
  BY <1>1, <1>2, <1>3, <1>4, MovedAndTouched DEF ScannerOK, Located
<1>6. /\ sub' \in Subscription /\ sub'.exists = sub.exists
      /\ sub.exists => /\ sub'.run = scanner[s].scan /\ sub'.next = 1
                       /\ sub'.content = sub.content
  BY <1>1, <1>2, Numbers DEF Subscription, Scanner
<1>7. Typed' /\ ArchiveIsOfThisEra'
  BY <1>2, <1>5, <1>6 DEF Inv, Typed, ArchiveIsOfThisEra
<1>8. Staged'
  <2>1. Len(staged') = 0 /\ staged' \in Seq(RowsOf(sub'.run)) /\ 1..0 = {}
    BY <1>2
  <2> QED BY <1>6, <2>1 DEF Staged, InOrder
<1>9. Kept'
  BY <1>2, <1>5, <1>6 DEF Inv, Kept, Archived
<1>10. ScannerOK(s)'
  <2>1. Alone(s)'
    BY <1>1, <1>2, <1>5, <1>6, AloneStays DEF ScannerOK, Left, Busy
  <2>2. scanner[s].total \in Nat
    BY <1>1, Numbers DEF Scanner
  <2>3. Located(s)'
    BY <1>5, <2>2 DEF Located
  <2>4. Current(s)' /\ Recent(s)'
    BY <1>5, <1>6 DEF Current, Recent
  <2>5. Backed(s)'
    BY <1>1, <1>2, <1>5, <1>6 DEF ScannerOK, Backed, Archived
  <2> QED BY <2>1, <2>3, <2>4, <2>5 DEF ScannerOK
<1> QED BY <1>2, <1>5, <1>6, <1>7, <1>8, <1>9, <1>10, TransactionStep DEF Busy

\* The row of the page that comes next.
LEMMA StagesNextPage ==
  ASSUME Inv, NEW s \in Scanners, sub.exists, sub.run # 0, scanner[s].pc = "stage"
  PROVE  /\ scanner[s].page \notin StagedPages(sub.run)
         /\ scanner[s].scan = sub.run /\ scanner[s].page = Len(staged) + 1
         /\ scanner[s].page = sub.next
<1>1. scanner[s].scan = sub.run /\ scanner[s].page = sub.next /\ sub.next \in Nat
      /\ InOrder(sub.run) /\ Len(staged) = sub.next - 1
  BY Numbers DEF Inv, Typed, Subscription, ScannerOK, Current, Staged
<1>2. StagedPages(sub.run) = 1..Len(staged)
  BY <1>1, RowsInOrder DEF StagedPages
<1> QED BY <1>1, <1>2, RowsInOrder

LEMMA StageStep ==
  ASSUME Inv, NEW s \in Scanners, Stage(s)
  PROVE  Inv'
<1> DEFINE at == IF scanner[s].page < scanner[s].total THEN "read" ELSE "store"
           new == [scanner[s] EXCEPT !.pc = at, !.page = scanner[s].page + 1]
<1>1. scanner[s] \in Scanner /\ ScannerOK(s) /\ scanner \in [Scanners -> Scanner]
      /\ sub \in Subscription
  BY DEF Inv, Typed
<1>2. /\ scanner[s].pc = "stage" /\ UNCHANGED <<archive, job, resets>>
      /\ staged' = IF scanner[s].page \in StagedPages(scanner[s].scan)
                   THEN staged ELSE Append(staged, StageRow(s))
      /\ IF OwnRun(s)
         THEN /\ sub' = [sub EXCEPT !.next = scanner[s].page + 1]
              /\ scanner' = Touched([scanner EXCEPT ![s].pc = at, ![s].page = scanner[s].page + 1])
         ELSE /\ scanner' = [scanner EXCEPT ![s].pc = at, ![s].page = scanner[s].page + 1]
              /\ UNCHANGED sub
  BY DEF Stage, NextPage
<1>3. /\ scanner[s].page \in Pages /\ scanner[s].total \in Nat /\ scanner[s].page \in Nat
      /\ scanner[s].page <= scanner[s].total
  <2>1. scanner[s].page \in 1..(MaxPages + 1) /\ scanner[s].total \in 0..MaxPages
    BY <1>1 DEF Scanner
  <2>2. scanner[s].page <= scanner[s].total
    BY <1>1, <1>2 DEF ScannerOK, Located
  <2> QED BY <2>1, <2>2, BoundsAssumption DEF Pages
<1>4. /\ new \in Scanner /\ new.pc = at /\ new.scan = scanner[s].scan
      /\ new.page = scanner[s].page + 1 /\ new.total = scanner[s].total
      /\ new.owns = scanner[s].owns /\ new.prev = scanner[s].prev
  <2>1. at \in {"read", "store"} /\ scanner[s].page + 1 \in 1..(MaxPages + 1)
    BY <1>3, Numbers
  <2> HIDE DEF at
  <2> QED BY <1>1, <2>1 DEF Scanner
<1>5. [scanner EXCEPT ![s].pc = at, ![s].page = scanner[s].page + 1] = [scanner EXCEPT ![s] = new]
  BY <1>1
<1>6. \/ at = "read" /\ scanner[s].page < scanner[s].total
      \/ at = "store" /\ scanner[s].page = scanner[s].total
  BY <1>3
<1>7. scanner[s].scan # 0 /\ scanner[s].total # 0
  BY <1>1, <1>2 DEF ScannerOK, Located
<1> HIDE DEF new, at
<1>8. /\ scanner' \in [Scanners -> Scanner]
      /\ scanner'[s].pc = at /\ scanner'[s].scan = scanner[s].scan
      /\ scanner'[s].page = scanner[s].page + 1 /\ scanner'[s].total = scanner[s].total
      /\ scanner'[s].owns = scanner[s].owns /\ scanner'[s].prev = scanner[s].prev
      /\ \A t \in Scanners \ {s} : Left(t)
  <2>1. CASE OwnRun(s)
    BY <1>2, <1>4, <1>5, <2>1, MovedAndTouched
  <2>2. CASE ~OwnRun(s)
    <3>1. scanner' = [scanner EXCEPT ![s] = new]
      BY <1>2, <1>5, <2>2
    <3>2. scanner'[s] = new /\ \A t \in Scanners \ {s} : scanner'[t] = scanner[t]
      BY <1>1, <3>1
    <3> QED BY <1>1, <1>4, <3>1, <3>2 DEF Left
  <2> QED BY <2>1, <2>2
<1>9. /\ sub' \in Subscription /\ sub'.exists = sub.exists /\ sub'.run = sub.run
      /\ sub'.content = sub.content /\ sub'.total = sub.total /\ sub'.done = sub.done
      /\ sub'.paged = sub.paged
      /\ OwnRun(s) => sub'.next = scanner[s].page + 1
  BY <1>1, <1>2, <1>3, Numbers DEF Subscription
<1>10. Typed' /\ ArchiveIsOfThisEra' /\ Kept'
  BY <1>2, <1>8, <1>9 DEF Inv, Typed, ArchiveIsOfThisEra, Kept, Archived
<1>11. sub.exists /\ sub.run # 0 => OwnRun(s)
  BY <1>2, StagesNextPage DEF OwnRun
<1>12. Staged'
  <2> SUFFICES ASSUME sub.exists, sub.run # 0 PROVE Staged'
    BY <1>9 DEF Staged
  <2>1. /\ scanner[s].scan = sub.run /\ scanner[s].page = Len(staged) + 1
        /\ staged' = Append(staged, StageRow(s))
    BY <1>2, StagesNextPage
  <2>2. InOrder(sub.run) /\ Len(staged) \in Nat
        /\ \A i \in 1..Len(staged) : i # 1 => staged[i].era = resets
    BY RowsInOrder DEF Inv, Staged
  <2>3. /\ StageRow(s) \in RowsOf(sub.run) /\ StageRow(s).page = Len(staged) + 1
        /\ Len(staged) # 0 => StageRow(s).era = resets
    <3>1. /\ scanner[s].era \in Nat
          /\ StageRow(s) = [scan |-> sub.run, page |-> scanner[s].page, era |-> scanner[s].era]
      BY <1>1, <2>1 DEF Scanner, StageRow
    <3>2. scanner[s].page = 1 \/ scanner[s].era = resets
      BY <1>1, <1>2 DEF ScannerOK, Current
    <3>3. Len(staged) # 0 => scanner[s].page # 1
      BY <2>1, <2>2
    <3> QED BY <1>3, <2>1, <3>1, <3>2, <3>3 DEF RowsOf
  <2>4. /\ staged' \in Seq(RowsOf(sub.run)) /\ Len(staged') = Len(staged) + 1
        /\ \A i \in 1..Len(staged) : staged'[i] = staged[i]
        /\ staged'[Len(staged) + 1] = StageRow(s)
    BY <2>1, <2>2, <2>3 DEF InOrder
  <2>5. \A i \in 1..Len(staged') : i \in 1..Len(staged) \/ i = Len(staged) + 1
    BY <2>2, <2>4
  <2>6. \A i \in 1..Len(staged') : staged'[i].page = i /\ (i # 1 => staged'[i].era = resets)
    <3> TAKE i \in 1..Len(staged')
    <3>1. CASE i \in 1..Len(staged)
      BY <2>2, <2>4, <3>1 DEF InOrder
    <3>2. CASE i = Len(staged) + 1
      BY <2>2, <2>3, <2>4, <3>2
    <3> QED BY <2>5, <3>1, <3>2
  <2>7. sub'.next = Len(staged') + 1 /\ Len(staged') = sub'.next - 1
    BY <1>9, <1>11, <2>1, <2>2, <2>4
  <2> QED BY <1>2, <1>9, <2>4, <2>6, <2>7 DEF Staged, InOrder
<1>13. ScannerOK(s)'
  <2>1. Alone(s)'
    BY <1>1, <1>2, <1>8, <1>9, AloneStays DEF ScannerOK, Left, Busy
  <2>2. Located(s)'
    BY <1>3, <1>6, <1>7, <1>8 DEF Located
  <2>3. Current(s)'
    BY <1>2, <1>3, <1>6, <1>8, <1>9, <1>11 DEF Current, OwnRun
  <2>4. Recent(s)'
    BY <1>6, <1>8 DEF Recent
  <2>5. Backed(s)'
    BY <1>1, <1>2, <1>8, <1>9 DEF ScannerOK, Backed, Archived
  <2> QED BY <2>1, <2>2, <2>3, <2>4, <2>5 DEF ScannerOK
<1> QED BY <1>2, <1>8, <1>9, <1>10, <1>12, <1>13, TransactionStep DEF Busy

\* What is archived is all that was read, though only what the last scan or
\* check did not show is added.
LEMMA AdditionsSuffice ==
  ASSUME NEW items, NEW prev, archive' = archive \cup Additions(items, prev),
         prev \subseteq Archived \/ archive = {}
  PROVE  /\ {a.page : a \in items} \subseteq Archived'
         /\ Archived \subseteq Archived'
         /\ archive' \subseteq archive \cup items
<1>1. Additions(items, prev) =
        {a \in items : a.page \notin Archived /\ (archive = {} \/ a.page \notin prev)}
  BY DEF Additions
<1>2. Archived' = {a.page : a \in archive'}
  BY DEF Archived
<1>3. ASSUME NEW a \in items PROVE a.page \in Archived'
  <2>1. CASE a \in Additions(items, prev)
    BY <1>2, <2>1
  <2>2. CASE a \notin Additions(items, prev)
    <3>1. a.page \in Archived
      BY <1>1, <2>2
    <3>2. PICK b \in archive : a.page = b.page
      BY <3>1 DEF Archived
    <3> QED BY <1>2, <3>2
  <2> QED BY <2>1, <2>2
<1>4. Archived \subseteq Archived'
  BY <1>2 DEF Archived
<1> QED BY <1>1, <1>3, <1>4

\* The items of a run whose rows are in order.
LEMMA RunItems ==
  ASSUME NEW scan, InOrder(scan)
  PROVE  /\ {a.page : a \in Visited(scan)} = 1..Len(staged)
         /\ Visited(scan) \subseteq Item
         /\ \A a \in Visited(scan) : \E i \in 1..Len(staged) :
              a.page = i /\ a.era = staged[i].era /\ (a.first <=> i = 1)
<1> DEFINE item(i) == [page |-> staged[i].page, era |-> staged[i].era, first |-> staged[i].page = 1]
<1>1. Visited(scan) = {item(i) : i \in 1..Len(staged)}
  BY LoopVisitsEveryRow DEF Visited
<1>2. ASSUME NEW i \in 1..Len(staged)
      PROVE  /\ item(i).page = i /\ item(i).era = staged[i].era /\ (item(i).first <=> i = 1)
             /\ item(i) \in Item
  BY RowsInOrder DEF Item
<1> HIDE DEF item
<1>3. {a.page : a \in Visited(scan)} = 1..Len(staged)
  BY <1>1, <1>2
<1> QED BY <1>1, <1>2, <1>3

LEMMA StoreStep ==
  ASSUME Inv, NEW s \in Scanners, Store(s)
  PROVE  Inv'
<1>1. /\ scanner[s] \in Scanner /\ ScannerOK(s) /\ scanner \in [Scanners -> Scanner]
      /\ sub \in Subscription /\ scanner[s].pc = "store" /\ UNCHANGED <<job, resets>>
  BY DEF Inv, Typed, Store
<1>2. CASE ~OwnRun(s)
  <2>1. scanner' = [scanner EXCEPT ![s].pc = "stored"] /\ UNCHANGED <<archive, sub, staged>>
    BY <1>2 DEF Store
  <2> QED BY <1>1, <2>1, NothingStored DEF Busy
<1>3. CASE OwnRun(s)
  <2> DEFINE items == Visited(sub.run)
             pages == {a.page : a \in items}
             new == [scanner[s] EXCEPT !.pc = "stored"]
  <2>1. /\ sub.exists /\ sub.run = scanner[s].scan /\ sub.run # 0
        /\ archive' = archive \cup Additions(items, scanner[s].prev)
        /\ sub' = [sub EXCEPT !.run = 0, !.total = scanner[s].total, !.next = 1, !.done = TRUE,
                              !.content = pages]
        /\ scanner' = Touched([scanner EXCEPT ![s].pc = "stored"])
    BY <1>1, <1>3 DEF Store, OwnRun, ScannerOK, Located
  <2>2. /\ new \in Scanner /\ new.pc = "stored" /\ new.owns = scanner[s].owns
    BY <1>1 DEF Scanner
  <2>3. scanner' = Touched([scanner EXCEPT ![s] = new])
    BY <1>1, <2>1
  <2> HIDE DEF new
  <2>4. /\ scanner' \in [Scanners -> Scanner] /\ scanner'[s].pc = "stored"
        /\ scanner'[s].owns = scanner[s].owns
        /\ \A t \in Scanners \ {s} : Left(t)
    BY <2>2, <2>3, MovedAndTouched
  <2>5. /\ InOrder(sub.run) /\ Len(staged) \in Nat /\ scanner[s].total <= Len(staged)
        /\ scanner[s].total # 0 /\ scanner[s].total \in 0..MaxPages
        /\ \A i \in 1..Len(staged) : i # 1 => staged[i].era = resets
    <3>1. InOrder(sub.run) /\ Len(staged) = sub.next - 1 /\ scanner[s].total < sub.next
          /\ \A i \in 1..Len(staged) : i # 1 => staged[i].era = resets
      BY <1>1, <2>1 DEF Inv, Staged, ScannerOK, Current
    <3>2. sub.next \in Nat /\ scanner[s].total \in Nat /\ scanner[s].total \in 0..MaxPages
      BY <1>1, Numbers DEF Scanner, Subscription
    <3>3. scanner[s].total # 0
      BY <1>1 DEF ScannerOK, Located
    <3> QED BY <3>1, <3>2, <3>3, RowsInOrder
  <2>6. /\ pages = 1..Len(staged) /\ items \subseteq Item
        /\ \A a \in items : a.first \/ a.era = resets
    BY <2>5, RunItems
  <2>7. pages \subseteq Pages
    BY <2>5, <2>6, RowsInOrder
  <2>8. scanner[s].prev \subseteq Archived \/ archive = {}
    BY <1>1, <2>1 DEF ScannerOK, Backed
  <2> HIDE DEF items
  <2>9. /\ pages \subseteq Archived' /\ archive' \subseteq archive \cup items
    BY <2>1, <2>8, AdditionsSuffice
  <2> HIDE DEF pages
  <2>10. /\ sub' \in Subscription /\ sub'.exists = sub.exists /\ sub'.run = 0
         /\ sub'.total = scanner[s].total /\ sub'.content = pages
    BY <1>1, <2>1, <2>5, <2>7, Numbers DEF Subscription
  <2>11. 1..scanner[s].total \subseteq pages
    BY <2>5, <2>6
  <2>12. Typed' /\ Staged' /\ Kept'
    BY <1>1, <2>4, <2>5, <2>6, <2>9, <2>10, <2>11 DEF Inv, Typed, Staged, Kept
  <2>13. ArchiveIsOfThisEra'
    BY <1>1, <2>1, <2>6, <2>9, <2>10 DEF Inv, ArchiveIsOfThisEra
  <2>14. ScannerOK(s)'
    <3>1. Alone(s)'
      BY <1>1, <2>4, <2>10, AloneStays DEF ScannerOK, Left, Busy
    <3> QED BY <2>4, <3>1 DEF ScannerOK, Located, Current, Recent, Backed
  <2> QED BY <1>1, <2>1, <2>4, <2>10, <2>12, <2>13, <2>14, TransactionStep DEF Busy
<1> QED BY <1>2, <1>3

LEMMA StoreCheckStep ==
  ASSUME Inv, NEW s \in Scanners, StoreCheck(s)
  PROVE  Inv'
<1>1. /\ scanner[s] \in Scanner /\ ScannerOK(s) /\ scanner \in [Scanners -> Scanner]
      /\ sub \in Subscription /\ scanner[s].pc = "checked" /\ UNCHANGED <<staged, job, resets>>
  BY DEF Inv, Typed, StoreCheck
<1>2. CASE ~Fresh(s)
  <2>1. scanner' = [scanner EXCEPT ![s].pc = "stored"] /\ UNCHANGED <<archive, sub>>
    BY <1>2 DEF StoreCheck
  <2> QED BY <1>1, <2>1, NothingStored DEF Busy
<1>3. CASE Fresh(s)
  <2> DEFINE page == [page |-> 1, era |-> scanner[s].era, first |-> FALSE]
             items == {page}
             new == [scanner[s] EXCEPT !.pc = "stored"]
  <2>1. /\ sub.exists /\ scanner[s].fresh
        /\ archive' = archive \cup Additions(items, scanner[s].prev)
        /\ sub' = [sub EXCEPT !.content = {1}]
        /\ scanner' = Touched([scanner EXCEPT ![s].pc = "stored"])
    BY <1>1, <1>3 DEF StoreCheck, Fresh
  <2>2. /\ new \in Scanner /\ new.pc = "stored" /\ new.owns = scanner[s].owns
    BY <1>1 DEF Scanner
  <2>3. scanner' = Touched([scanner EXCEPT ![s] = new])
    BY <1>1, <2>1
  <2> HIDE DEF new
  <2>4. /\ scanner' \in [Scanners -> Scanner] /\ scanner'[s].pc = "stored"
        /\ scanner'[s].owns = scanner[s].owns
        /\ \A t \in Scanners \ {s} : Left(t)
    BY <2>2, <2>3, MovedAndTouched
  <2>5. page \in Item /\ page.page = 1 /\ page.era = resets
    BY <1>1, <2>1, Numbers DEF Item, Scanner, ScannerOK, Recent
  <2> HIDE DEF page
  <2>6. scanner[s].prev \subseteq Archived \/ archive = {}
    BY <1>1, <2>1 DEF ScannerOK, Backed
  <2>7. /\ {a.page : a \in items} \subseteq Archived' /\ Archived \subseteq Archived'
        /\ archive' \subseteq archive \cup items
    <3> HIDE DEF items
    <3> QED BY <2>1, <2>6, AdditionsSuffice
  <2>8. {1} \subseteq Archived'
    BY <2>5, <2>7
  <2>9. /\ sub' \in Subscription /\ sub'.exists = sub.exists /\ sub'.run = sub.run
        /\ sub'.total = sub.total /\ sub'.content = {1} /\ sub'.next = sub.next
        /\ sub'.done = sub.done /\ sub'.paged = sub.paged
    BY <1>1, <2>1, Numbers DEF Subscription
  <2>10. Typed'
    BY <1>1, <2>4, <2>5, <2>7, <2>9 DEF Inv, Typed
  <2>11. Staged'
    BY <1>1, <2>9 DEF Inv, Staged, InOrder
  <2>12. Kept'
    BY <2>7, <2>8, <2>9 DEF Inv, Kept
  <2>13. ArchiveIsOfThisEra'
    BY <1>1, <2>1, <2>5, <2>7, <2>9 DEF Inv, ArchiveIsOfThisEra
  <2>14. ScannerOK(s)'
    <3>1. Alone(s)'
      BY <1>1, <2>4, <2>9, AloneStays DEF ScannerOK, Left, Busy
    <3> QED BY <2>4, <3>1 DEF ScannerOK, Located, Current, Recent, Backed
  <2> QED BY <1>1, <2>1, <2>4, <2>9, <2>10, <2>11, <2>12, <2>13, <2>14, TransactionStep DEF Busy
<1> QED BY <1>2, <1>3

-----------------------------------------------------------------------------
(* The theorems.                                                           *)

LEMMA NextInv == Disciplined /\ Inv /\ [Next]_vars => Inv'
<1> SUFFICES ASSUME Disciplined, Inv, [Next]_vars PROVE Inv'
  OBVIOUS
<1>1. CASE Schedule \/ AskQueue
  <2>1. CASE Queue
    BY <1>1, <2>1, QueueStep DEF Schedule, AskQueue
  <2>2. CASE ~Queue
    BY <1>1, <2>2, RequestStep DEF Schedule, AskQueue
  <2> QED BY <2>1, <2>2
<1>2. CASE Recover \/ ResetArchive \/ Delete
  BY <1>2, RecoverStep, ResetArchiveStep, DeleteStep
<1>3. CASE Edit \/ SyncFromGroup \/ AskReset
  BY <1>3, EditStep, SyncFromGroupStep, AskResetStep
<1>4. CASE AskFullScan \/ AskLookUp
  BY <1>4, RequestStep DEF AskFullScan, AskLookUp
<1>5. ASSUME NEW s \in Scanners, Start(s) \/ Scan(s) \/ Fail(s) \/ Crash(s) PROVE Inv'
  BY <1>5, StartStep, ReadingStep, OpenStep, StageStep, StoreStep, StoreCheckStep, EndStep DEF Scan
<1>6. CASE UNCHANGED vars
  BY <1>6, RequestStep DEF vars
<1> QED BY <1>1, <1>2, <1>3, <1>4, <1>5, <1>6 DEF Next

LEMMA SpecInv == ASSUME Disciplined PROVE Spec => []Inv
BY InitInv, NextInv, PTL DEF Spec

(* One scan at a time works for a subscription, for a job that is still    *)
(* marked running, whatever fails, is deleted or recovered                 *)
(* (worker.ts:82-161).                                                     *)
THEOREM OneScanAtATime ==
  ASSUME Disciplined
  PROVE  Spec => [](\A s \in Scanners : Alone(s))
<1>1. Inv => \A s \in Scanners : Alone(s)
  BY DEF Inv, ScannerOK
<1> QED BY <1>1, SpecInv, PTL

(* The rows of the run that a subscription is in are its pages 1, 2, 3...  *)
(* up to the one it will go on with (capture.ts:321-336).                  *)
THEOREM RunsAreStagedInOrder ==
  ASSUME Disciplined
  PROVE  Spec => []Staged
<1>1. Inv => Staged
  BY DEF Inv
<1> QED BY <1>1, SpecInv, PTL

(* A subscription that counts as scanned has every page of the scan in its *)
(* archive, for any number of pages, any length of the slices in which the *)
(* storing transaction reads them, and any number of failures, edits,      *)
(* deletions and requested scans (capture.ts:338-432).                     *)
THEOREM ScansAreWhole ==
  ASSUME Disciplined
  PROVE  Spec => []CompletedScanIsWhole
<1>1. Inv => CompletedScanIsWhole
  BY DEF Inv, Kept, CompletedScanIsWhole
<1> QED BY <1>1, SpecInv, PTL

(* Nothing that was read before the archive was deleted turns up in it     *)
(* again, but for first pages, and nothing at all for a subscription that  *)
(* was deleted (capture.ts:307, capture.ts:396, routes/subscriptions.ts).  *)
THEOREM DeletedStaysDeleted ==
  ASSUME Disciplined
  PROVE  Spec => []ArchiveIsOfThisEra
<1>1. Inv => ArchiveIsOfThisEra
  BY DEF Inv
<1> QED BY <1>1, SpecInv, PTL
=============================================================================
